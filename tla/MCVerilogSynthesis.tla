--------------------------- MODULE MCVerilogSynthesis ---------------------------
(* Verilog modules for the model checking of the synthesis. *)
EXTENDS VerilogSimulation

\* a, b, n: inputs; p, q, u, v: variables; i: a loop index; w, z: nets;
\* fx, fr: a parameter and the result of a function; tx: a parameter of a task.
MCWidth == [a |-> 1, b |-> 1, n |-> 2, p |-> 1, q |-> 1, u |-> 2, v |-> 2, i |-> 2,
            w |-> 1, z |-> 2, fx |-> 2, fr |-> 2, tx |-> 1]

-----------------------------------------------------------------------------
(* Module items. *)

a == Id("a")  b == Id("b")  n == Id("n")  p == Id("p")  q == Id("q")
u == Id("u")  v == Id("v")  i1 == Id("i")  w == Id("w")  z == Id("z")
Inc(e) == Add(2, e, Num(1))
Var(x) == <<"var", x>>
BitT(x, k) == <<"bit", x, k>>

Always(body)     == [kind |-> "ALWAYS", body |-> At(TRUE, body)]
AlwaysFF(body)   == [kind |-> "ALWAYS_FF", body |-> At(TRUE, body)]
AlwaysStar(body) == [kind |-> "ALWAYS", body |-> At(FALSE, body)]
AlwaysComb(body) == [kind |-> "ALWAYS_COMB", body |-> body]
AlwaysBare(body) == [kind |-> "ALWAYS", body |-> body]
Initial(body)    == [kind |-> "INITIAL", body |-> body]
AssignItem(t, e) == [kind |-> "assign", lhs |-> t, rhs |-> e]
Decl(x)          == [kind |-> "decl", var |-> x, value |-> Nil]
DeclWith(x, e)   == [kind |-> "decl", var |-> x, value |-> e]
AssertItem(s)    == [kind |-> "assertion", body |-> s]

Module(items, regs, inputs) ==
  [items |-> items, regs |-> regs, inputs |-> inputs, nets |-> {}, locals |-> {},
   exact |-> TRUE, initialised |-> FALSE, clockedAsserts |-> {}]
WithNets(m, nets)      == [m EXCEPT !.nets = nets]
WithLocals(m, locals)  == [m EXCEPT !.locals = locals, !.regs = @ \cup locals]
Initialised(m)         == [m EXCEPT !.initialised = TRUE]
Latching(m)            == [m EXCEPT !.exact = FALSE]
Checking(m, ids)       == [m EXCEPT !.clockedAsserts = ids]

-----------------------------------------------------------------------------
(* Registers. *)

Swap == Initialised(
  Module(<<DeclWith("p", Num(0)), DeclWith("q", Num(1)),
           Always(SetLater("p", q)), Always(SetLater("q", p))>>, {"p", "q"}, {}))

\* Blocking and nonblocking assignments in one block, with branches.
Mixed ==
  Module(<<AlwaysFF(Block(<<Set("p", And(a, BitOf(u, Num(0)))),
                            If(p, Set("u", Inc(u)), When(a, Set("u", Num(2)))),
                            SetLater("v", u),
                            When(Eq(u, Num(2)), SetLater("v", Num(0)))>>))>>,
         {"p", "u", "v"}, {"a"})

\* A case with several patterns, a wildcard, and the default in the middle.
Cases ==
  Initialised(Module(
    <<DeclWith("u", Num(2)), DeclWith("p", Num(0)), Initial(Set("v", Num(1))),
      Always(Case(u, <<Item(<<<<0, {}>>, <<1, {}>>>>, Set("u", n)),
                       Item(<<>>, Block(<<SetLater("u", v), Set("v", Num(3))>>)),
                       Item(<<<<2, {0}>>>>, When(a, Block(<<Set("p", Not(p)), Set("u", Num(0))>>)))>>))>>,
    {"u", "v", "p"}, {"a", "n"}))

\* Two always blocks write the two bits of one vector, one of them by a computed
\* index into a vector of its own.
Bits ==
  Module(<<Always(NonBlocking(BitT("u", Num(0)), a)),
           Always(Block(<<NonBlocking(BitT("u", Num(1)), BitOf(u, Num(0))),
                          Assign(BitT("v", BitOf(u, Num(1))), a),
                          When(b, NonBlocking(<<"part", "v", 1, 0>>, Inc(u)))>>))>>,
         {"u", "v"}, {"a", "b"})

\* Part selects, one of them beyond the end of the vector, and a concatenation.
Parts ==
  Module(<<Always(Block(<<NonBlocking(<<"part+", "u", Num(1), 2>>, n),
                          When(a, NonBlocking(<<"part-", "u", Num(0), 1>>, a)),
                          Update("+=", Var("v"), u)>>))>>,
         {"u", "v"}, {"a", "n"})
Concatenation ==
  Module(<<Always(NonBlocking(<<"concat", <<Var("p"), Var("u"), Var("q")>>>>,
                              <<"with", <<Num(5), Num(3), a>>>>))>>,
         {"p", "q", "u"}, {"a"})

\* Loops: breaks on several paths, the jump of one iteration ending the loop.
Breaks ==
  Module(<<Always(Block(<<Set("u", Num(0)),
                          For(Set("i", Num(0)), Less(i1, Num(2)), IncDec("i", 1),
                              Block(<<When(BitOf(n, i1), Break),
                                      Set("u", Inc(u)),
                                      When(p, Block(<<Set("p", Num(0)), Break>>)),
                                      Set("p", b)>>))>>))>>,
         {"i", "p", "u"}, {"b", "n"})

\* One continue in the body, and a while loop.
Continues ==
  Module(<<Always(Block(<<Set("i", Num(0)),
                          While(Less(i1, Num(2)),
                                Block(<<Set("i", Inc(i1)),
                                        When(BitOf(n, Sub(2, i1, Num(1))),
                                             Block(<<Set("p", a), Continue>>)),
                                        Set("u", Inc(u))>>))>>))>>,
         {"i", "p", "u"}, {"a", "n"})

\* A break of the inner loop leaves the outer one alone.
Nested ==
  Module(<<Always(For(Set("i", Num(0)), Less(i1, Num(2)), IncDec("i", 1),
                      Block(<<For(Set("v", Num(0)), Less(v, Num(2)), IncDec("v", 1),
                                  Block(<<When(BitOf(n, v), Break), Set("u", Inc(u))>>)),
                              Set("v", Num(0)),
                              When(And(a, BitOf(u, Num(0))), Break)>>)))>>,
         {"i", "u", "v"}, {"a", "n"})

-----------------------------------------------------------------------------
(* Functions and tasks. *)

\* function f(x): if (x == 3) f = 0; else f = x + 1; with one return.
Successor == [params |-> <<"fx">>, outputs |-> {}, locals |-> {"fx", "fr"}, result |-> "fr",
              body |-> Block(<<If(Eq(Id("fx"), Num(3)), Set("fr", Num(0)), Set("fr", Inc(Id("fx")))),
                               Return(Skip), Set("fr", Num(3))>>)]
\* A return on either branch.
Choice == [params |-> <<"fx">>, outputs |-> {}, locals |-> {"fx", "fr"}, result |-> "fr",
           body |-> If(Less(Id("fx"), Num(2)), Return(Set("fr", Num(1))), Return(Set("fr", Id("fx"))))]
\* task t(output x): x = u & 1;
Parity == [params |-> <<"tx">>, outputs |-> {1}, body |-> Set("tx", BitOf(u, Num(0)))]

Functions1 ==
  WithLocals(Module(<<Always(Block(<<Assign(Var("u"), <<"call", Successor, <<u>>>>),
                                     When(BitOf(n, Num(0)), Assign(Var("v"), <<"call", Choice, <<u>>>>))>>)),
                      AlwaysComb(Assign(Var("i"), <<"call", Choice, <<n>>>>))>>,
                    {"u", "v", "i"}, {"n"}),
             {"fx", "fr"})
Tasks ==
  Module(<<Always(Block(<<When(a, Set("u", Inc(u))), Call(Parity, <<Id("q")>>)>>))>>,
         {"u", "q", "tx"}, {"a"})

-----------------------------------------------------------------------------
(* Combinational items. *)

Wired ==
  WithNets(Initialised(
    Module(<<AlwaysComb(Block(<<Set("u", Num(0)), When(a, Set("u", n)), Set("p", Eq(u, v))>>)),
             Decl("v"), Initial(Set("v", Num(2))),
             AssignItem(Var("w"), And(p, BitOf(u, Num(0)))),
             Always(If(w, SetLater("v", u), SetLater("v", Inc(v)))),
             DeclWith("z", u)>>,
           {"u", "v", "p"}, {"a", "n"})), {"w", "z"})

\* always @(*) with one bit assigned in either branch, the rest once and for all.
StarBits ==
  Module(<<AlwaysStar(Block(<<If(a, Assign(BitT("u", Num(0)), b), Assign(BitT("u", Num(0)), q)),
                              Assign(BitT("u", Num(1)), b)>>)),
           Always(SetLater("q", BitOf(u, Num(1))))>>,
         {"u", "q"}, {"a", "b"})

\* Not assigned on every path: the variable keeps its value.
Latch ==
  Latching(Module(<<AlwaysComb(When(a, Set("u", n))), Always(SetLater("v", u))>>,
                  {"u", "v"}, {"a", "n"}))
LatchedBit ==
  Latching(Module(<<AlwaysStar(Block(<<When(a, Set("u", n)), Assign(BitT("u", Num(0)), b)>>))>>,
                  {"u"}, {"a", "b", "n"}))

-----------------------------------------------------------------------------
(* Initial values. *)

Starts ==
  Module(<<Initial(Block(<<Set("u", Num(1)), If(p, Set("v", u), Set("v", Num(0))), Set("u", Inc(u))>>)),
           Initial(Set("q", Not(p))),
           Always(SetLater("p", Not(p)))>>,
         {"p", "q", "u", "v"}, {})
\* Reads a declared value, which synthesis does not see.
ReadsDeclared ==
  Module(<<DeclWith("p", Num(1)), Initial(Set("q", p))>>, {"p", "q"}, {})

-----------------------------------------------------------------------------
(* Assertions. *)

Asserts ==
  Checking(Module(<<Always(Block(<<If(a, Block(<<Set("u", Inc(u)), Asserting("c1", Not(Eq(u, Num(0))))>>),
                                         Asserting("c2", Eq(u, n))),
                                   When(b, When(BitOf(u, Num(1)), Asserting("c3", Less(u, Num(3)))))>>)),
                    AlwaysComb(Block(<<Set("v", u), When(b, Asserting("c4", Eq(v, n)))>>)),
                    AssertItem(Asserting("c5", Less(u, n)))>>,
                  {"u", "v"}, {"a", "b", "n"}), {"c1", "c2", "c3"})
\* After a return of the enclosing task, an assertion is not reached.
Checked == [params |-> <<"tx">>, outputs |-> {},
            body |-> Block(<<Return(Skip), Asserting("c1", Id("tx"))>>)]
AssertsAfterReturn ==
  Checking(Module(<<Always(Block(<<Call(Checked, <<BitOf(u, Num(0))>>), Set("u", Inc(u)),
                                   Asserting("c2", Not(Eq(u, Num(3))))>>))>>,
                  {"u", "tx"}, {}), {"c1", "c2"})

-----------------------------------------------------------------------------
(* Modules that are to be rejected, and some that are not. *)

Pair(i, j) == Module(<<i, j>>, {"u", "p"}, {"a"})
WholeU(e) == SetLater("u", e)
BitU(k)   == NonBlocking(BitT("u", Num(k)), a)

Disputed ==
  {Pair(Always(WholeU(Inc(u))), Always(BitU(1))),
   Pair(Always(BitU(0)), Always(BitU(0))),
   Pair(Always(BitU(0)), Always(BitU(1))),                                  \* accepted
   Pair(Always(NonBlocking(BitT("u", p), a)), Always(BitU(1))),
   Pair(Always(NonBlocking(<<"part", "u", 1, 0>>, Inc(u))), Always(BitU(1))),
   Pair(Always(NonBlocking(<<"part+", "u", Num(1), 1>>, a)), Always(BitU(0))), \* accepted
   Pair(Always(Block(<<WholeU(Inc(u)), BitU(1)>>)), Always(SetLater("p", BitOf(u, Num(1))))),   \* accepted
   Pair(Always(When(a, WholeU(Inc(u)))), AlwaysComb(Set("u", Num(0)))),
   Pair(AlwaysComb(Set("u", Num(0))), Initial(Set("u", Num(0)))),
   Pair(AlwaysStar(Set("u", Num(0))), AlwaysComb(Set("p", BitOf(u, Num(1))))),             \* accepted
   Pair(Initial(Set("u", Num(0))), Initial(When(p, Set("u", Num(1))))),
   Pair(Initial(Set("u", Num(0))), Always(WholeU(Inc(u)))),                      \* accepted
   Pair(DeclWith("u", Num(0)), Initial(Set("u", Num(1)))),
   Pair(Decl("u"), Initial(Set("u", Num(1)))),     \* rejected under --initial-zero
   Pair(AlwaysBare(Set("u", Num(0))), Decl("p")),
   Pair(Decl("p"), [kind |-> "ALWAYS_LATCH", body |-> Set("u", Num(0))]),
   Pair(Always(WholeU(Inc(u))), AssignItem(Var("u"), Num(2))),
   Pair(AssignItem(Var("u"), Num(2)), Always(WholeU(Inc(u)))),
   Pair(AssignItem(BitT("u", Num(0)), a), AssignItem(BitT("u", Num(1)), p)), \* accepted
   Pair(Always(Set("w", a)), Decl("u"))}

Plainly(designs) == {[design |-> d, ignoreInitial |-> FALSE, initialZero |-> FALSE] : d \in designs}
WithoutInitial(designs) == {[c EXCEPT !.ignoreInitial = TRUE] : c \in Plainly(designs)}
FromZero(designs)       == {[c EXCEPT !.initialZero = TRUE] : c \in Plainly(designs)}

MCCommands ==
  Plainly({Swap, Mixed, Cases, Bits, Parts, Concatenation, Breaks, Continues, Nested, Functions1, Tasks, Wired, StarBits,
           Latch, LatchedBit, Starts, ReadsDeclared, Asserts, AssertsAfterReturn})
  \cup Plainly(Disputed) \cup WithoutInitial(Disputed) \cup FromZero(Disputed)
  \cup WithoutInitial({Swap, Wired, Starts, ReadsDeclared})
  \cup FromZero({Wired, Starts})

-----------------------------------------------------------------------------
(* An early return. *)

\* function f(x): if (x == 0) return 3; return x;
EarlyReturn == [params |-> <<"fx">>, outputs |-> {}, locals |-> {"fx", "fr"}, result |-> "fr",
                body |-> Block(<<When(Eq(Id("fx"), Num(0)), Return(Set("fr", Num(3)))),
                                 Return(Set("fr", Id("fx")))>>)]
EarlyReturnCommands ==
  Plainly({WithLocals(Module(<<DeclWith("u", Num(0)),
                       Always(Assign(Var("u"), <<"call", EarlyReturn, <<u>>>>))>>,
                     {"u"}, {}),
              {"fx", "fr"})})

=============================================================================
