------------------------------- MODULE MCBddEngine -------------------------------
(***************************************************************************)
(* Netlists of two latches with properties for the model checking of       *)
(* BddEngine.  The states are the numbers 0 .. 3; p and q are predicates   *)
(* on the state, i is the input.                                           *)
(***************************************************************************)
EXTENDS BddSemantics

MCLatches == {"a", "b"}
MCInputs  == {0, 1}
MCAtoms   == {"p", "q", "i"}

Number(s) == (IF s["a"] THEN 2 ELSE 0) + (IF s["b"] THEN 1 ELSE 0)
Word(n)   == CHOOSE s \in State : Number(s) = n

MCNodes == State \X Inputs
NI    == (0 .. 3) \X Inputs
NodesOf(ns) == {<<Word(n[1]), n[2]>> : n \in ns}
In(ns) == NodesOf(ns \X MCInputs)

Label(ps, qs) == [x \in MCAtoms |-> IF x = "p" THEN In(ps) ELSE IF x = "q" THEN In(qs)
                                    ELSE NodesOf((0 .. 3) \X {1})]

Prop(role, lang, f) == [role |-> role, lang |-> lang, expr |-> f]
CtlProp(f) == Prop("assert", "CTL", f)
Ltl(f) == Prop("assert", "LTL", f)
Sva(f) == Prop("assert", "SVA", f)
Assume(f) == Prop("assume", "SVA", f)
Cover(f)  == Prop("cover", "SVA", <<"cover", f>>)

p == <<"atom", "p">>
q == <<"atom", "q">>
i == <<"atom", "i">>
Not(f) == <<"not", f>>
G(f) == <<"G", f>>
F(f) == <<"F", f>>
X(f) == <<"X", f>>
Or(f, g)  == <<"or", f, g>>
And(f, g) == <<"and", f, g>>

-----------------------------------------------------------------------------
\* A counter with an enable input; a counter that stops at 3 or wraps to 1; a state
\* that is left for good; two components.
Count == [n \in NI |-> (n[1] + n[2]) % 4]
Climb == [n \in NI |-> IF n[1] = 3 THEN 1 + 2 * n[2] ELSE n[1] + 1]
Leave == [n \in NI |-> IF n[1] = 0 THEN n[2] ELSE IF n[1] = 1 THEN 2 ELSE n[1]]
Split == [n \in NI |-> IF n[1] = 0 THEN 1 + n[2] ELSE IF n[1] = 1 THEN 1 ELSE IF n[1] = 2 THEN 3 ELSE 2]

Nets == <<<<{0}, Count>>, <<{0}, Climb>>, <<{0, 3}, Leave>>, <<{0}, Split>>, <<{0}, Leave>>,
          <<{1}, [n \in NI |-> n[2]]>>>>

\* A problem: the number of a netlist, the constraints, the states of p and of q,
\* whether liveness is translated to safety, and the properties; and the constraints on
\* transitions, if it has some.
NetlistOf(row) ==
  [init       |-> {Word(n) : n \in Nets[row[1]][1]},
   next       |-> [n \in MCNodes |-> Word(Nets[row[1]][2][<<Number(n[1]), n[2]>>])],
   constraint |-> NodesOf(row[2]),
   label      |-> Label(row[3][1], row[3][2]),
   transition |-> NodesOf(IF Len(row) = 6 THEN row[6] ELSE NI),
   l2s        |-> row[4],
   props      |-> row[5]]

CtlProps ==
  <<CtlProp(<<"AG", p>>), CtlProp(<<"AG", <<"EF", q>>>>), CtlProp(<<"EG", p>>), CtlProp(<<"AF", q>>),
    CtlProp(<<"AU", p, q>>), CtlProp(<<"EU", p, q>>), CtlProp(<<"AR", q, p>>), CtlProp(<<"ER", q, p>>),
    CtlProp(<<"AG", <<"implies", p, <<"EX", q>>>>>>), CtlProp(<<"AX", <<"or", p, Not(q)>>>>),
    CtlProp(<<"EF", <<"AG", q>>>>), CtlProp(<<"AF", <<"AG", p>>>>), CtlProp(<<"iff", <<"EG", q>>, <<"EF", Not(p)>>>>)>>

PathProps ==
  <<Ltl(G(p)), Ltl(F(q)), Ltl(G(F(q))), Ltl(X(p)), Ltl(<<"and", F(q), G(X(p))>>), Ltl(<<"U", p, q>>),
    Ltl(<<"M", q, p>>), Ltl(G(<<"or", p, i>>)), Sva(G(p)), Sva(G(<<"|=>", <<"boolean", p>>, q>>)),
    Sva(<<"always", 1, 2, p>>), Sva(<<"s_nexttime", p>>), Sva(G(F(q))), Sva(<<"M", q, p>>),
    Cover(q), Cover(<<"and", Not(p), i>>)>>

Labels == {<<{0, 1, 2}, {3}>>, <<{0}, {1}>>, <<{1, 2, 3}, {2, 3}>>}

Unconstrained(pss) == {<<n, NI, label, FALSE, ps>> : n \in 1 .. 4, label \in Labels, ps \in pss}

\* Where the climb may not move on from state 3, or not under input 0.
NotFrom3 == (0 .. 2) \X Inputs
Leaving3 == NI \ {<<3, 0>>}

\* Assumptions that become constraints, and one that the engine leaves out.
NoInput == Assume(G(Not(i)))
UnderAssumptions ==
  {<<1, NI, <<{0}, {1}>>, FALSE, <<NoInput, Sva(G(p)), Sva(F(q)), Sva(<<"M", q, p>>), Cover(q)>>>>,
   <<5, NI, <<{0, 2}, {2}>>, FALSE, <<Assume(G(<<"or", p, Not(i)>>)), Sva(G(p)), Sva(F(q))>>>>,
   <<1, NI, <<{0, 1}, {3}>>, FALSE,
     <<Assume(G(<<"or", i, <<"nexttime", i>>>>)), Sva(G(p)), Cover(q), Sva(G(F(q)))>>>>,
   <<2, Leaving3, <<{0, 1, 2}, {3}>>, FALSE,
     <<Sva(G(F(Not(q)))), Sva(G(p)), CtlProp(<<"AF", <<"AG", q>>>>)>>>>,
   <<3, NotFrom3, <<{0, 1, 2}, {2}>>, FALSE, <<Sva(G(p)), Sva(G(Not(q)))>>>>}

\* Liveness to safety; the last two are rejected.
LivenessProps == <<Sva(G(F(p))), Sva(G(F(q))), Sva(G(F(<<"or", q, i>>)))>>

Liveness ==
  {<<c[1], NI, c[2], TRUE, LivenessProps, c[3]>> :
     c \in {<<1, <<{0}, 0 .. 3>>, NI>>, <<2, <<{1, 2}, {3}>>, NI>>, <<3, <<{0, 1}, {0, 2, 3}>>, NI>>,
            <<4, <<{1}, {1, 2}>>, NI>>, <<2, <<{1, 2}, {3}>>, NotFrom3>>}}
  \cup
  {<<1, NI, <<{0}, {1}>>, TRUE, ps>> :
     ps \in {<<Sva(G(F(p))), Sva(G(q))>>, <<NoInput, Sva(G(F(p)))>>, <<Sva(G(p)), Sva(<<"s_nexttime", q>>)>>}}

\* Liveness to safety under assumptions that become constraints.  Only the last of them
\* are too many: the input changes for ever in state 1, and yet p is proved to recur.
Recurs(f) == Assume(G(F(f)))
FairLiveness ==
  {<<1, NI, <<{0}, {1}>>, TRUE, <<Recurs(i), Sva(G(F(p))), Sva(G(F(q)))>>>>,
   <<1, NI, <<{0}, {0, 1}>>, TRUE, <<Sva(G(F(p))), Recurs(q)>>>>,
   <<2, NI, <<{1, 2}, {3}>>, TRUE, <<Recurs(q), Sva(G(F(p)))>>, Leaving3>>,
   <<4, NI, <<{3}, {2}>>, TRUE, <<Recurs(q), Sva(G(F(p))), Sva(G(F(Not(q))))>>>>,
   <<4, NI, <<{1}, {2}>>, TRUE, <<Recurs(q), Recurs(Not(q)), Sva(G(F(p)))>>>>,
   <<4, NI, <<{2}, {3}>>, TRUE, <<Recurs(i), Recurs(Not(i)), Sva(G(F(p)))>>>>}

\* Dead ends: state 3 of the climb, by a constraint on transitions; state 2, whose
\* successor is forbidden; and state 3 under input 0 only.  Where p fails in state 3
\* there is no counterexample, and the engine stops.
DeadEnds(pss) ==
  {<<2, c[1], c[2], FALSE, ps, c[3]>> :
     ps \in pss, c \in {<<NI, <<{0}, {1}>>, NotFrom3>>, <<NotFrom3, <<{0, 1}, {2}>>, NI>>}}
  \cup
  {<<2, NI, <<{0, 1, 2}, {3}>>, FALSE, ps, NotFrom3>> :
     ps \in {Tail(ps) : ps \in pss} \cup {<<Sva(F(q)), Sva(G(p)), Ltl(X(p))>>, <<Cover(q)>>}}
  \cup
  {<<2, NI, <<{0, 1, 2}, {3}>>, FALSE, <<Ltl(X(p)), Ltl(G(Or(p, i)))>>, Leaving3>>}

\* F G p, which is not AF AG p.
FinallyGlobally == <<5, NI, <<{0, 2}, {2}>>, FALSE, <<Ltl(F(G(p)))>>>>

\* regression/ebmc/BDD/AFAG_deadend1.smv: `good` is state 1, p is good.
DeadEnd == <<6, NI, <<{1}, {}>>, FALSE, <<CtlProp(<<"AF", <<"AG", p>>>>)>>, {1} \X Inputs>>

Lists == {CtlProps, PathProps}
Rows == Unconstrained(Lists) \cup DeadEnds(Lists) \cup UnderAssumptions \cup Liveness \cup FairLiveness

BddProblems == {NetlistOf(row) : row \in Rows}

\* The same under a name of its own, so that TLC evaluates it once.
MCProblems == BddProblems

-----------------------------------------------------------------------------
\* What the path properties, the covers and the liveness properties are in LTL.
Invariants == {p, q, Not(q), Not(And(Not(p), i)), Or(p, i)}
Recurring  == {p, q, Not(q), Or(q, i)}

LtlOfProperties ==
  {G(f) : f \in Invariants} \cup {G(F(f)) : f \in Recurring} \cup {X(f) : f \in {p, q, And(p, X(p))}}
    \cup {F(q), F(G(p)), And(F(q), G(X(p))), <<"M", q, p>>, <<"U", p, q>>, G(Or(Not(p), X(q)))}

\* What they are in CTL, and the predicates of assumptions.
CtlOfProperties ==
  {<<"AG", f>> : f \in Invariants} \cup {<<"AG", <<"AF", f>>>> : f \in Recurring}
    \cup {<<"AX", f>> : f \in {p, q, And(p, <<"AX", p>>)}} \cup {<<"AF", <<"AG", f>>>> : f \in {p, q}}
    \cup {And(<<"AF", q>>, f) : f \in {<<"AG", <<"AX", p>>>>, <<"AR", q, p>>}}
    \cup {Not(i), Or(p, Not(i))} \cup {CtlProps[k].expr : k \in DOMAIN CtlProps}

RECURSIVE LtlSubFormulas(_), CtlSubFormulas(_), LtlHeightOf(_), CtlHeightOf(_)
LtlSubFormulas(f) == {f} \cup UNION {LtlSubFormulas(g) : g \in LtlOperands(f)}
CtlSubFormulas(f) == {f} \cup UNION {CtlSubFormulas(g) : g \in Operands(f)}
LtlHeightOf(f) == Cardinality(UNION {0 .. LtlHeightOf(g) : g \in LtlOperands(f)})
CtlHeightOf(f) == Cardinality(UNION {0 .. CtlHeightOf(g) : g \in Operands(f)})

MCLtlFormulas == UNION {LtlSubFormulas(f) : f \in LtlOfProperties}
MCFormulas    == UNION {CtlSubFormulas(f) : f \in CtlOfProperties}
MCLtlHeight   == [f \in MCLtlFormulas |-> LtlHeightOf(f)]
MCHeight      == [f \in MCFormulas |-> CtlHeightOf(f)]

-----------------------------------------------------------------------------
\* The disagreements on their own.
MCFinallyGlobally == {NetlistOf(FinallyGlobally)}
MCDeadEnd         == {NetlistOf(DeadEnd)}

=============================================================================
