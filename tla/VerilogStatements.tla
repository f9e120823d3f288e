--------------------------- MODULE VerilogStatements ---------------------------
(***************************************************************************)
(* The procedural statements of Verilog as data, and what executing them   *)
(* does: the reference that the synthesis of VerilogSynthesis is compared  *)
(* with.  Statements run one after the other on a valuation of the         *)
(* variables; nonblocking assignments collect writes for later.            *)
(*                                                                         *)
(* An expression is a tuple <<operator, operands>>, or <<"num", n>>,       *)
(* <<"id", x>>.  A statement is a record with the field `op`.              *)
(***************************************************************************)
EXTENDS Integers, FiniteSets, SequencesExt

CONSTANT Width     \* the variables, with their number of bits

Vars == DOMAIN Width
Values(x) == 0 .. 2 ^ Width[x] - 1

-----------------------------------------------------------------------------
(* Expressions. *)

Num(n) == <<"num", n>>
Id(x)  == <<"id", x>>
Not(a)     == <<"not", <<a>>>>
And(a, b)  == <<"and", <<a, b>>>>
Eq(a, b)   == <<"eq", <<a, b>>>>
Less(a, b) == <<"less", <<a, b>>>>
Add(w, a, b) == <<"plus", <<a, b>>, w>>      \* modulo 2^w
Sub(w, a, b) == <<"minus", <<a, b>>, w>>
BitOf(a, i)  == <<"bit", <<a, i>>>>          \* a[i]
Phi(g, a, b) == <<"phi", <<g, a, b>>>>       \* g ? a : b

Leaves == {"num", "id", "nondet"}

Bit(n, i) == (n \div 2 ^ i) % 2
WithBit(n, i, b) == n + (b - Bit(n, i)) * 2 ^ i

\* The value of e; s gives the variables, nd the symbols without a value.
RECURSIVE Eval(_, _, _)
Eval(e, s, nd) ==
  CASE e[1] = "num"    -> e[2]
    [] e[1] = "id"     -> s[e[2]]
    [] e[1] = "nondet" -> nd[e[2]]
    [] e[1] = "phi"    -> IF Eval(e[2][1], s, nd) = 1 THEN Eval(e[2][2], s, nd)
                                                      ELSE Eval(e[2][3], s, nd)
    [] OTHER ->
       LET a == [i \in DOMAIN e[2] |-> Eval(e[2][i], s, nd)]
           Truth(p) == IF p THEN 1 ELSE 0
       IN CASE e[1] = "not"   -> 1 - a[1]
            [] e[1] = "and"   -> Truth(\A i \in DOMAIN a : a[i] = 1)
            [] e[1] = "implies" -> Truth(a[1] = 1 => a[2] = 1)
            [] e[1] = "eq"    -> Truth(a[1] = a[2])
            [] e[1] = "less"  -> Truth(a[1] < a[2])
            [] e[1] = "plus"  -> (a[1] + a[2]) % 2 ^ e[3]
            [] e[1] = "minus" -> (a[1] - a[2]) % 2 ^ e[3]
            [] e[1] = "bit"   -> Bit(a[1], a[2])
            [] e[1] = "slice" -> (a[1] \div 2 ^ e[3]) % 2 ^ e[4]
            [] e[1] = "with"  -> WithBit(a[1], a[2], a[3])
            [] e[1] = "match" -> Truth(\A i \in e[3] : Bit(a[1], i) = Bit(a[2], i))
            [] e[1] = "aux"   -> a[1]

-----------------------------------------------------------------------------
(* Statements.                                                             *)
(*                                                                         *)
(* The target of an assignment is <<"var", x>>, <<"bit", x, i>>,           *)
(* <<"part", x, hi, lo>>, <<"part+", x, i, w>>, <<"part-", x, i, w>> or    *)
(* <<"concat", targets>>.  The right-hand side is an expression or a call  *)
(* <<"call", f, args>> of f, a record [params, outputs, locals, body,      *)
(* result].                                                                *)

Skip == [op |-> "skip"]
Block(ss) == [op |-> "block", body |-> ss]
Assign(t, e)  == [op |-> "assign", kind |-> "=", lhs |-> t, rhs |-> e]
Update(k, t, e) == [op |-> "assign", kind |-> k, lhs |-> t, rhs |-> e]
NonBlocking(t, e) == Update("<=", t, e)
Set(x, e) == Assign(<<"var", x>>, e)
SetLater(x, e) == NonBlocking(<<"var", x>>, e)
If(c, s, t) == [op |-> "if", cond |-> c, then |-> s, else |-> t]
When(c, s)  == If(c, s, Skip)
\* items: <<pattern, wildcard bits>> sequences with their statement; an empty
\* sequence of patterns is the default.
Case(e, items) == [op |-> "case", operand |-> e, items |-> items]
Item(ps, s) == [patterns |-> ps, body |-> s]
For(i, c, st, b) == [op |-> "loop", init |-> i, cond |-> c, step |-> st, body |-> b]
While(c, b) == For(Skip, c, Skip, b)
Break    == [op |-> "break"]
Continue == [op |-> "continue"]
Return(e) == [op |-> "return", value |-> e]
Call(f, args) == [op |-> "call", fun |-> f, args |-> args]
Asserting(id, e) == [op |-> "assert", id |-> id, cond |-> e]
At(edge, b) == [op |-> "at", edge |-> edge, body |-> b]
IncDec(x, by) == [op |-> "incdec", var |-> x, by |-> by]

IsCall(e) == e[1] = "call"

RECURSIVE TargetBits(_, _), TargetWidth(_)
\* The bits of the target, least significant first, as <<variable, bit>>; s
\* gives the indices.
TargetBits(t, s) ==
  LET x == t[2]
      Span(lo, n) == [k \in 1 .. n |-> <<x, lo + k - 1>>]
  IN CASE t[1] = "var"    -> Span(0, Width[x])
       [] t[1] = "bit"    -> Span(Eval(t[3], s, <<>>), 1)
       [] t[1] = "part"   -> Span(t[4], t[3] - t[4] + 1)
       [] t[1] = "part+"  -> Span(Eval(t[3], s, <<>>), t[4])
       [] t[1] = "part-"  -> Span(Eval(t[3], s, <<>>) - t[4] + 1, t[4])
       [] t[1] = "concat" -> FlattenSeq([k \in DOMAIN x |->
                                           TargetBits(x[Len(x) + 1 - k], s)])
TargetWidth(t) == Len(TargetBits(t, [x \in Vars |-> 0]))

\* The writes <<x, bit, value>> of assigning v; bits outside of x are dropped.
Writes(t, v, s) ==
  LET bits == TargetBits(t, s)
  IN SelectSeq([k \in DOMAIN bits |-> <<bits[k][1], bits[k][2], Bit(v, k - 1)>>],
               LAMBDA w : w[2] \in 0 .. Width[w[1]] - 1)

Written(s, ws) ==
  FoldLeft(LAMBDA acc, w : [acc EXCEPT ![w[1]] = WithBit(@, w[2], w[3])], s, ws)

-----------------------------------------------------------------------------
(* Execution.  The state of a running block: the valuation, the pending    *)
(* nonblocking writes, the jump that is on its way, and the assertions     *)
(* that were reached and found false.                                      *)

Running(s) == [val |-> s, later |-> <<>>, jump |-> "none", failed |-> {}]

RECURSIVE Run(_, _), RunLoop(_, _), RunCall(_, _, _)

Value(e, r) == Eval(e, r.val, <<>>)

\* The target as an expression, for x += e.
TargetExpr(t) == IF t[1] = "bit" THEN BitOf(Id(t[2]), t[3]) ELSE Id(t[2])

Operated(kind, t, a, b) ==
  LET w == TargetWidth(t)
  IN CASE kind = "+=" -> Add(w, a, b)
       [] kind = "-=" -> Sub(w, a, b)
       [] kind = "&=" -> And(a, b)

\* e is written into the target, now or later.
Store(s, e, r) ==
  IF s.kind = "<=" THEN [r EXCEPT !.later = @ \o Writes(s.lhs, Value(e, r), r.val)]
                   ELSE [r EXCEPT !.val = Written(@, Writes(s.lhs, Value(e, r), @))]

StoreOperated(s, e, r) ==
  Store(s, IF s.kind \in {"=", "<="} THEN e
           ELSE Operated(s.kind, s.lhs, TargetExpr(s.lhs), e), r)

RunAssign(s, r) ==
  IF IsCall(s.rhs) THEN StoreOperated(s, Id(s.rhs[2].result), RunCall(s.rhs[2], s.rhs[3], r))
                   ELSE StoreOperated(s, s.rhs, r)

Matches(item, n) ==
  \/ item.patterns = <<>>
  \/ \E k \in DOMAIN item.patterns :
       LET p == item.patterns[k]
       IN \A i \in 0 .. 3 \ p[2] : Bit(p[1], i) = Bit(n, i)

\* The item that a case statement selects: the first that matches, the default
\* wherever it stands if there is none.
Selected(s, r) ==
  LET n == Value(s.operand, r)
      matching == {k \in DOMAIN s.items : Matches(s.items[k], n)}
      proper == {k \in matching : s.items[k].patterns # <<>>}
  IN IF proper # {} THEN {CHOOSE k \in proper : \A j \in proper : k <= j}
     ELSE matching

Run(s, r) ==
  IF r.jump # "none" THEN r ELSE
  CASE s.op = "block"    -> FoldLeft(LAMBDA acc, t : Run(t, acc), r, s.body)
    [] s.op = "assign"   -> RunAssign(s, r)
    [] s.op = "incdec"   -> RunAssign(Update("+=", <<"var", s.var>>, Num(s.by)), r)
    [] s.op = "if"       -> IF Value(s.cond, r) = 1 THEN Run(s.then, r) ELSE Run(s.else, r)
    [] s.op = "case"     -> FoldLeft(LAMBDA acc, k : Run(s.items[k].body, acc), r,
                                     SetToSeq(Selected(s, r)))
    [] s.op = "loop"     -> RunLoop(s, Run(s.init, r))
    [] s.op = "break"    -> [r EXCEPT !.jump = "break"]
    [] s.op = "continue" -> [r EXCEPT !.jump = "continue"]
    [] s.op = "return"   -> [Run(s.value, r) EXCEPT !.jump = "return"]
    [] s.op = "call"     -> RunCall(s.fun, s.args, r)
    [] s.op = "assert"   -> IF Value(s.cond, r) = 1 THEN r
                            ELSE [r EXCEPT !.failed = @ \cup {s.id}]
    [] s.op = "at"       -> Run(s.body, r)
    [] OTHER             -> r

AfterBody(s, r) ==
  CASE r.jump = "break"  -> [r EXCEPT !.jump = "none"]
    [] r.jump = "return" -> r
    [] OTHER -> RunLoop(s, Run(s.step, [r EXCEPT !.jump = "none"]))

RunLoop(s, r) == IF Value(s.cond, r) = 1 THEN AfterBody(s, Run(s.body, r)) ELSE r

\* Parameters are passed by value; output parameters are copied back.
Enter(f, args, r) ==
  FoldLeftDomain(LAMBDA acc, k : IF k \in f.outputs THEN acc
                                 ELSE [acc EXCEPT !.val[f.params[k]] = Value(args[k], r)],
                 r, args)

Leave(f, args, r) ==
  FoldLeftDomain(LAMBDA acc, k : IF k \in f.outputs
                                 THEN [acc EXCEPT !.val[args[k][2]] = r.val[f.params[k]]]
                                 ELSE acc,
                 [r EXCEPT !.jump = "none"], args)

RunCall(f, args, r) == Leave(f, args, Run(f.body, Enter(f, args, r)))

=============================================================================
