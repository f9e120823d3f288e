-------------------------------- MODULE MCNewIC3 --------------------------------
(* Designs for the model checking of NewIC3. *)
EXTENDS NewIC3

MCLatches2 == {"a", "b"}
MCInputs1  == {0}

\* A state of two latches.
ab(x, y) == [l \in MCLatches2 |-> IF l = "a" THEN x ELSE y]

\* Every design of two latches without inputs or constraints that starts in 00
\* and is bad in 11.
AllTwoLatchDesigns ==
  {[init |-> {ab(FALSE, FALSE)},
    next |-> [q \in State \X Inputs |-> f[q[1]]],
    constraint |-> State \X Inputs,
    property |-> (State \ {ab(TRUE, TRUE)}) \X Inputs] : f \in [State -> State]}

MCLatches3 == {"a", "b", "c"}
MCInputs2  == {0, 1}

\* Three latches as the number 4a + 2b + c, and back.
Number(s) == (IF s["a"] THEN 4 ELSE 0) + (IF s["b"] THEN 2 ELSE 0) + (IF s["c"] THEN 1 ELSE 0)
Word(n) == CHOOSE s \in [MCLatches3 -> BOOLEAN] : Number(s) = n

Words(ns) == {Word(n) : n \in ns}

\* An unconstrained design: starts in init, steps by f[n, i], is bad in bad.
Free(init, f, bad) ==
  [init |-> Words(init),
   next |-> [q \in State \X Inputs |-> Word(f[Number(q[1]), q[2]])],
   constraint |-> State \X Inputs,
   property |-> (State \ Words(bad)) \X Inputs]

NI == (0 .. 7) \X MCInputs2

\* A counter modulo 6 with an enable input.
Counter(bad) == Free({0}, [q \in NI |-> IF q[2] = 0 THEN q[1] ELSE (q[1] + 1) % 6], bad)

\* A shift register: a takes the input, b takes a, c takes b.
Shift(init, bad) ==
  Free(init, [q \in NI |-> (q[1] \div 2) + 4 * q[2]], bad)

\* A shift register whose input is gated by the last bit.
GatedShift(init, bad) ==
  Free(init, [q \in NI |-> (q[1] \div 2) + (IF q[1] % 2 = 1 THEN 0 ELSE 4 * q[2])], bad)

\* b and c start with one arbitrary value and toggle together; a remembers that
\* they differed.  The initial states are not the states of a cube.
EqualRegisters ==
  Free({0, 3},
       [q \in NI |-> IF q[1] >= 4 \/ q[1] \in {1, 2} THEN 4 + (q[1] % 4)
                     ELSE IF q[2] = 1 THEN 3 - q[1] ELSE q[1]],
       4 .. 7)

\* a starts as 0 and takes the input, b stays, c is cleared.  A core without a is
\* repaired, which puts a at the end, to be tried again.
ClearedLatch ==
  Free(0 .. 3, [q \in NI |-> 4 * q[2] + (IF q[1] \in {2, 3, 6, 7} THEN 2 ELSE 0)], {7})

ThreeLatchDesigns ==
  {Counter({7}), Counter({6, 7}), Shift({0}, {7}), Shift({0, 4}, {3}),
   GatedShift({0}, {7}), GatedShift({0, 1}, {7}), EqualRegisters, Counter({0, 7}), ClearedLatch}

-----------------------------------------------------------------------------
\* Designs with constraints.

Under(d, con) == [d EXCEPT !.constraint = con]

\* The constraint allows the input 1 in the states `ns` only.
InputOneOnlyIn(ns) ==
  {q \in State \X Inputs : q[2] = 1 => Number(q[1]) \in ns}

\* a and b are constant; c records that a, b and the input were all 1.  The
\* constraint lets the input be 1 together with a only if b is 1 as well.
Recorder ==
  Under(Free({4},
             [q \in NI |-> (q[1] \div 2) * 2
                           + (IF q[1] \in {6, 7} /\ q[2] = 1 THEN 1 ELSE 0)],
             {1, 3, 5, 7}),
        InputOneOnlyIn({0, 1, 2, 3, 6, 7}))

SpuriousDesigns == {Recorder}

ConstrainedDesigns ==
  {Recorder,
   Under(Counter({5}), InputOneOnlyIn(0 .. 3)),          \* the counter stays below 5
   Under(Counter({7}), InputOneOnlyIn(0 .. 5)),
   Under(Counter({4}), InputOneOnlyIn({0, 1, 2, 3})),    \* refuted within the constraint
   Under(Shift({0, 4}, {7}), State \X {0}),              \* only zeros are shifted in
   Under(GatedShift({0, 1}, {7}), InputOneOnlyIn({0, 4, 5})),
   Under(GatedShift({0}, {7}), InputOneOnlyIn({0, 2})),
   Under(Counter({3}), {})}                              \* no state is live

ThreeLatchAndConstrainedDesigns == ThreeLatchDesigns \cup ConstrainedDesigns

=============================================================================
