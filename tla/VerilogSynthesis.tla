---------------------------- MODULE VerilogSynthesis ----------------------------
(***************************************************************************)
(* verilog_synthesist: a Verilog module becomes a transition system.       *)
(*                                                                         *)
(* The module items are taken in order.  The statements of an always or    *)
(* initial item are executed symbolically: a value map holds, for every    *)
(* variable that was assigned, the value that the following statements     *)
(* read (`current`) and the value at the end of the time step (`final`);   *)
(* branches are executed both and merged; break, continue and return save  *)
(* the value map, which is merged in at the end of the loop or call.  The  *)
(* final values become the initial and next values of registers and the    *)
(* definitions of wires.                                                   *)
(***************************************************************************)
EXTENDS VerilogStatements, TLC

CONSTANT Commands       \* records [design, ignoreInitial, initialZero]: a module, with
                        \* its items, variables (regs), nets and inputs, and options

VARIABLES design, options,
          todo,          \* the index of the next module item
          assignments,   \* variable -> what is assigned to it so far
          lvalues,       \* the variables that are not wires (is_lvalue)
          invars,        \* equalities of continuous assignments
          asserts,       \* assertion -> condition
          status         \* "synthesizing", "done", or why it failed

synthesisVars == <<design, options, todo, assignments, lvalues, invars, asserts, status>>

Nil == <<"nil">>

-----------------------------------------------------------------------------
(* The context of the synthesis of one module item: the value map, the     *)
(* frames of the innermost loop and call, and the variables above.         *)

EmptyMap == [val |-> <<>>, changed |-> {}]
EmptyValueMap == [current |-> EmptyMap, final |-> EmptyMap, guard |-> <<>>]

Context(construct) ==
  [construct |-> construct, event |-> "NONE", vm |-> EmptyValueMap,
   breaks |-> <<>>, continues |-> <<>>, returns |-> <<>>, error |-> "",
   assignments |-> assignments, lvalues |-> lvalues, invars |-> invars, asserts |-> asserts]

Fail(c, why) == [c EXCEPT !.error = why]

Data == [value |-> Nil, previous |-> {}, current |-> {}]
Unassigned == [type |-> "NONE", init |-> Data, next |-> Data, cycleLocal |-> FALSE]

\* Which half of an assignment the construct writes.
Half(c) == IF c.construct = "INITIAL" THEN "init" ELSE "next"

\* The value of x under `map`; what earlier items assigned counts for final
\* values only.
CurrentValue(c, map, x, usePrevious) ==
  LET previous == c.assignments[x][Half(c)].value
  IN IF x \in c.lvalues /\ x \in DOMAIN map.val THEN map.val[x]
     ELSE IF usePrevious /\ previous # Nil THEN previous
     ELSE IF x \in c.lvalues /\ c.construct = "INITIAL" THEN <<"nondet", x>>
     ELSE Id(x)

\* Symbols are replaced by their values; a fresh wire ("aux") stays.
RECURSIVE SynthExpr(_, _, _)
SynthExpr(e, c, map) ==
  CASE e[1] = "id" -> CurrentValue(c, c.vm[map], e[2], map = "final")
    [] e[1] \in {"num", "nondet", "aux"} -> e
    [] OTHER -> [e EXCEPT ![2] = [i \in DOMAIN e[2] |-> SynthExpr(e[2][i], c, map)]]

\* Constant folding: closed expressions, and conditionals whose guard is closed or
\* whose branches are the same.
RECURSIVE Simplified(_)
Simplified(e) ==
  IF e[1] \in Leaves \cup {"aux"} THEN e
  ELSE LET a == [i \in DOMAIN e[2] |-> Simplified(e[2][i])]
       IN IF e[1] = "phi" /\ a[1][1] = "num" THEN (IF a[1][2] = 1 THEN a[2] ELSE a[3])
          ELSE IF e[1] = "phi" /\ a[2] = a[3] THEN a[2]
          ELSE IF \A i \in DOMAIN a : a[i][1] = "num" THEN Num(Eval([e EXCEPT ![2] = a], <<>>, <<>>))
          ELSE [e EXCEPT ![2] = a]

IsConstant(e) == e[1] = "num"
SynthesisConstant(e, c) == Simplified(SynthExpr(e, c, "current"))

\* Targets keep their symbols; an index is an expression.
RECURSIVE SynthTarget(_, _)
SynthTarget(t, c) ==
  CASE t[1] = "concat" -> <<"concat", [k \in DOMAIN t[2] |-> SynthTarget(t[2][k], c)]>>
    [] t[1] \in {"bit", "part+", "part-"} -> [t EXCEPT ![3] = SynthExpr(@, c, "current")]
    [] OTHER -> t

Conjunction(guard) == IF guard = <<>> THEN Num(1)
                      ELSE IF Len(guard) = 1 THEN guard[1] ELSE <<"and", guard>>

UnguardedExpr(c, e) == e     \* mutant: the assertion is checked always
GuardedExpr(c, e) ==
  IF c.vm.guard = <<>> THEN e ELSE <<"implies", <<Conjunction(c.vm.guard), e>>>>

-----------------------------------------------------------------------------
(* Merging. *)

\* What either branch changed becomes a conditional in `dest`.
Merge(c, guard, whenTrue, whenFalse, usePrevious, dest) ==
  LET changed == whenTrue.changed \cup whenFalse.changed
  IN [val |-> [x \in changed |-> Phi(guard, CurrentValue(c, whenTrue, x, usePrevious),
                                            CurrentValue(c, whenFalse, x, usePrevious))]
              @@ dest.val,
      changed |-> dest.changed \cup changed]

MergeMaps(c, guard, t, f) ==
  [c EXCEPT !.vm.current = Merge(c, guard, t.current, f.current, FALSE, @),
            !.vm.final   = Merge(c, guard, t.final, f.final, TRUE, @)]

\* A state that a jump saved is taken where the guards it was saved under hold.
MergeState(c, state) == MergeMaps(c, Conjunction(state.guard), state, c.vm)

MergeReturns(c)   == FoldLeft(MergeState, c, c.returns)
MergeContinues(c) == FoldLeft(MergeState, c, c.continues)
MergeBreaksInOrder(c) == FoldLeft(MergeState, c, c.breaks)   \* mutant: as for returns
\* Breaks come in program order, and the first one that is taken must win.
MergeBreaks(c)    == FoldLeft(MergeState, c, Reverse(c.breaks))

-----------------------------------------------------------------------------
(* Assignments. *)

\* The index lists that the target writes, relative to its variable: <<>> is
\* all of it.  A part select x[i -: w] is recorded as i .. i + w - 1.
Members(t) ==
  LET Bits(lo, hi) == {<<i>> : i \in lo .. hi}
  IN CASE t[1] = "bit" ->
            LET i == Simplified(t[3]) IN IF IsConstant(i) THEN {<<i[2]>>} ELSE {<<>>}
       [] t[1] = "part" -> Bits(t[4], t[3])
       [] t[1] \in {"part+", "part-"} ->
            LET i == Simplified(t[3])[2] IN Bits(i, i + t[4] - 1)
       [] OTHER -> {<<>>}

Disjoint(a, b) ==
  \E k \in DOMAIN a \cap DOMAIN b : a[k] # b[k]

\* The new value of the variable; a part is written into its final value.
NewValue(t, rhs, c) ==
  LET x == t[2]
      old == SynthExpr(Id(x), c, "final")
      OverBits(lo, hi) ==
        FoldLeft(LAMBDA e, i : <<"with", <<e, Num(i), BitOf(rhs, Num(i - lo))>>>>, old,
                 [k \in 1 .. (IF hi < Width[x] THEN hi ELSE Width[x] - 1)
                             - (IF lo > 0 THEN lo ELSE 0) + 1
                    |-> (IF lo > 0 THEN lo ELSE 0) + k - 1])
      index == Simplified(t[3])[2]
  IN CASE t[1] = "var" -> rhs
       [] t[1] = "bit" -> <<"with", <<old, t[3], rhs>>>>
       [] t[1] = "part" /\ t[4] = 0 /\ t[3] = Width[x] - 1 -> rhs
       [] t[1] = "part"  -> OverBits(t[4], t[3])
       [] t[1] = "part+" -> OverBits(index, index + t[4] - 1)
       [] t[1] = "part-" -> OverBits(index - t[4] + 1, index)

\* Anything that is not trivial gets a fresh wire.
ReplaceByWire(e) == IF e[1] \in {"id", "aux", "num"} THEN e ELSE <<"aux", <<e>>>>

NewType(c) ==
  CASE c.construct = "INITIAL"     -> "CLOCK"
    [] c.construct = "ALWAYS_COMB" -> "COMBINATIONAL"
    [] OTHER                       -> c.event

\* The assignment is entered in the table of the module, unless it conflicts
\* with what another item assigns.
Record(c, t) ==
  LET x == t[2]
      a == c.assignments[x]
      h == Half(c)
  IN IF a.cycleLocal THEN c
     ELSE IF a.type \notin {"NONE", NewType(c)} THEN Fail(c, "conflicting assignment types")
     ELSE IF \E m \in Members(t), p \in a[h].previous : ~Disjoint(m, p)
     THEN Fail(c, "conflict with previous assignment")
     ELSE [c EXCEPT !.assignments[x] = [a EXCEPT !.type = NewType(c),
                                                 ![h].current = @ \cup Members(t)]]

Put(m, x, e) == [val |-> (x :> e) @@ m.val, changed |-> m.changed \cup {x}]
\* mutant: a nonblocking assignment is seen by the statements that follow
AssignAtOnce(c, x, e, blocking) ==
  [c EXCEPT !.vm.final = Put(@, x, e), !.vm.current = Put(@, x, e)]
AssignValue(c, x, e, blocking) ==
  [c EXCEPT !.vm.final = Put(@, x, e), !.vm.current = IF blocking THEN Put(@, x, e) ELSE @]

AssignRecorded(t, rhs, blocking, c) ==
  IF c.error # "" THEN c
  ELSE AssignValue(c, t[2], ReplaceByWire(NewValue(t, rhs, c)), blocking)

RECURSIVE AssignmentRec(_, _, _, _)
AssignmentRec(t, rhs, blocking, c) ==
  IF c.error # "" THEN c
  ELSE IF t[1] = "concat"    \* from right to left
  THEN FoldLeft(LAMBDA acc, k :
                  LET n == Len(t[2])
                      offset == FoldLeft(LAMBDA o, j : o + TargetWidth(t[2][j]), 0,
                                         [j \in 1 .. n - k |-> k + j])
                      piece == <<"slice", <<rhs>>, offset, TargetWidth(t[2][k])>>
                  IN AssignmentRec(t[2][k], piece, blocking, acc),
                c, [j \in DOMAIN t[2] |-> Len(t[2]) + 1 - j])
  ELSE IF t[2] \notin c.lvalues THEN Fail(c, "assignment to non-variable")
  ELSE IF c.construct \in {"ALWAYS", "ALWAYS_FF"} /\ c.event = "NONE"
  THEN Fail(c, "assignment without event guard")
  ELSE IF t[1] \in {"part+", "part-"} /\ ~IsConstant(Simplified(t[3]))
  THEN Fail(c, "failed to convert part select index")
  ELSE AssignRecorded(t, rhs, blocking, Record(c, t))

-----------------------------------------------------------------------------
(* Statements. *)

RECURSIVE SynthStatement(_, _), SynthLoop(_, _)

\* The body of a call is expanded in place, in a frame of its own.
ExpandCall(f, args, inputs, c) ==
  LET entered == FoldLeftDomain(
                   LAMBDA acc, k : IF k \in inputs
                                   THEN SynthStatement(Set(f.params[k], args[k]), acc)
                                   ELSE acc,
                   [c EXCEPT !.returns = <<>>], args)
      body == MergeReturns(SynthStatement(f.body, entered))
  IN [body EXCEPT !.returns = c.returns, !.vm.guard = c.vm.guard]

CopyOut(f, args, c) ==
  FoldLeftDomain(
    LAMBDA acc, k : IF k \in f.outputs
                    THEN SynthStatement(Set(args[k][2], Id(f.params[k])), acc) ELSE acc,
    c, args)

FunctionLocality(f, c) ==
  [c EXCEPT !.assignments = [x \in Vars |->
     IF x \in f.locals THEN [@[x] EXCEPT !.cycleLocal = TRUE] ELSE @[x]]]

\* A function in an expression: its variables are not part of the state, and all
\* parameters are assigned from the arguments.
FunctionResult(f, args, c) ==
  [context |-> CopyOut(f, args, c), value |-> SynthExpr(Id(f.result), c, "current")]
ExpandFunctionCall(f, args, c) ==
  FunctionResult(f, args, ExpandCall(f, args, DOMAIN args, FunctionLocality(f, c)))

\* A task as a statement: its parameters are variables of the module, and the
\* outputs are not assigned on entry.
SynthTaskEnable(s, c) ==
  CopyOut(s.fun, s.args, ExpandCall(s.fun, s.args, DOMAIN s.args \ s.fun.outputs, c))

Folded(e) == LET f == Simplified(e) IN IF IsConstant(f) THEN f ELSE e

\* t = e, t <= e, t += e, ...
AssignTo(t, kind, e, c) ==
  AssignmentRec(t, Folded(IF kind \in {"=", "<="} THEN e
                          ELSE Operated(kind, t, SynthExpr(TargetExpr(t), c, "current"), e)),
                kind # "<=", c)
AssignCalled(t, kind, called) == AssignTo(t, kind, called.value, called.context)

SynthAssign(s, c) ==
  IF IsCall(s.rhs)
  THEN AssignCalled(SynthTarget(s.lhs, c), s.kind, ExpandFunctionCall(s.rhs[2], s.rhs[3], c))
  ELSE AssignTo(SynthTarget(s.lhs, c), s.kind, SynthExpr(s.rhs, c, "current"), c)

\* The value map of a branch: nothing changed yet, one more guard.
Branch(vm, g) == [current |-> [vm.current EXCEPT !.changed = {}],
                  final   |-> [vm.final EXCEPT !.changed = {}],
                  guard   |-> Append(vm.guard, g)]

MergeBranches(cond, vm, whenTrue, c) ==
  MergeMaps([c EXCEPT !.vm = vm], cond, whenTrue, c.vm)
ElseBranch(s, cond, vm, c) ==
  MergeBranches(cond, vm, c.vm, SynthStatement(s.else, [c EXCEPT !.vm = Branch(vm, Not(cond))]))
Branches(s, cond, c) ==
  IF cond = Num(1) THEN SynthStatement(s.then, c)
  ELSE ElseBranch(s, cond, c.vm, SynthStatement(s.then, [c EXCEPT !.vm = Branch(@, cond)]))

SynthIf(s, c) == Branches(s, SynthExpr(s.cond, c, "current"), c)

\* Wildcard bits of the pattern are masked out.
CaseComparison(operand, p) ==
  IF p[2] = {} THEN Eq(operand, Num(p[1]))
  ELSE <<"match", <<operand, Num(p[1])>>, 0 .. 3 \ p[2]>>

Disjunction(es) == IF Len(es) = 1 THEN es[1]
                   ELSE Not(<<"and", [k \in DOMAIN es |-> Not(es[k])]>>)

\* A chain of ifs over the items in order, with the default at its end.
SynthCase(s, c) ==
  LET operand == SynthExpr(s.operand, c, "current")
      proper == SelectSeq(s.items, LAMBDA i : i.patterns # <<>>)
      default == SelectSeq(s.items, LAMBDA i : i.patterns = <<>>)
      ItemCondition(i) == Disjunction([k \in DOMAIN i.patterns |->
                                   CaseComparison(operand, i.patterns[k])])
  IN SynthStatement(
       FoldRight(LAMBDA i, rest : If(ItemCondition(i), i.body, rest), proper,
                 IF default = <<>> THEN Skip ELSE default[Len(default)].body), c)

LoopBody(s, c) == MergeContinues(SynthStatement(s.body, [c EXCEPT !.continues = <<>>]))

\* The loop is unrolled while its condition is a constant other than 0.
SynthLoop(s, c) ==
  IF c.error # "" THEN c
  ELSE LET g == SynthesisConstant(s.cond, c)
       IN IF ~IsConstant(g) THEN Fail(c, "failed to evaluate loop guard")
          ELSE IF g[2] = 0 THEN c
          ELSE SynthLoop(s, SynthStatement(s.step, LoopBody(s, c)))

SynthFor(s, c) ==
  LET unrolled == SynthLoop(s, SynthStatement(s.init, [c EXCEPT !.breaks = <<>>]))
  IN [MergeBreaks(unrolled) EXCEPT !.breaks = c.breaks, !.continues = c.continues]

\* Nothing that follows a jump on the same path is reached.
Unreachable(c) == [c EXCEPT !.vm.guard = Append(@, Num(0))]

SynthBreak(c)    == Unreachable([c EXCEPT !.breaks = Append(@, c.vm)])
SynthContinue(c) == Unreachable([c EXCEPT !.continues = Append(@, c.vm)])
SaveReturn(c)    == Unreachable([c EXCEPT !.returns = Append(@, c.vm)])
SynthReturn(s, c) == SaveReturn(SynthStatement(s.value, c))

SynthEventGuard(s, c) ==
  IF c.event # "NONE" THEN Fail(c, "event guard already specified")
  ELSE [SynthStatement(s.body, [c EXCEPT !.event = IF s.edge THEN "CLOCK" ELSE "COMBINATIONAL"])
          EXCEPT !.event = "NONE"]

SynthAssert(s, c) ==
  [c EXCEPT !.asserts = (s.id :> GuardedExpr(c, SynthExpr(s.cond, c, "current"))) @@ @]

\* A continuous assignment: the target becomes a wire, equal to the expression.
RECURSIVE SynthForce(_, _, _)
SynthForce(t, rhs, c) ==
  IF c.error # "" THEN c
  ELSE IF t[1] = "concat"
  THEN FoldLeft(LAMBDA acc, k :
                  LET n == Len(t[2])
                      offset == FoldLeft(LAMBDA o, j : o + TargetWidth(t[2][j]), 0,
                                         [j \in 1 .. n - k |-> k + j])
                  IN SynthForce(t[2][k], <<"slice", <<rhs>>, offset, TargetWidth(t[2][k])>>, acc),
                c, [j \in DOMAIN t[2] |-> Len(t[2]) + 1 - j])
  ELSE LET x == t[2]
           type == c.assignments[x].type
           wire == [c EXCEPT !.assignments[x].type = "COMBINATIONAL", !.lvalues = @ \ {x}]
           left == IF t[1] = "part" THEN <<"slice", <<Id(x)>>, t[4], t[3] - t[4] + 1>>
                                    ELSE TargetExpr(t)
       IN IF type = "CLOCK" THEN Fail(c, "variable is clocked")
          ELSE [wire EXCEPT !.invars = @ \cup {<<SynthExpr(left, wire, "current"),
                                                 SynthExpr(rhs, wire, "current")>>}]

SynthStatement(s, c) ==
  IF c.error # "" THEN c ELSE
  CASE s.op = "block"    -> FoldLeft(LAMBDA acc, t : SynthStatement(t, acc), c, s.body)
    [] s.op = "assign"   -> SynthAssign(s, c)
    [] s.op = "incdec"   -> SynthAssign(Set(s.var, Add(Width[s.var], Id(s.var), Num(s.by))), c)
    [] s.op = "if"       -> SynthIf(s, c)
    [] s.op = "case"     -> SynthCase(s, c)
    [] s.op = "loop"     -> SynthFor(s, c)
    [] s.op = "break"    -> SynthBreak(c)
    [] s.op = "continue" -> SynthContinue(c)
    [] s.op = "return"   -> SynthReturn(s, c)
    [] s.op = "call"     -> SynthTaskEnable(s, c)
    [] s.op = "assert"   -> SynthAssert(s, c)
    [] s.op = "at"       -> SynthEventGuard(s, c)
    [] s.op = "force"    -> SynthForce(s.lhs, s.rhs, c)
    [] OTHER             -> c

-----------------------------------------------------------------------------
(* Module items: records [kind, ...], taken in order. *)

HasItem == status = "synthesizing" /\ todo <= Len(design.items)
TheItem == design.items[todo]

\* mutant: without move_assignments, later items see no conflict
CommittedOpen(c) ==
  [x \in Vars |->
     IF x \in c.vm.final.changed
     THEN [c.assignments[x] EXCEPT ![Half(c)].value = c.vm.final.val[x]]
     ELSE c.assignments[x]]
\* The values that the construct `c` leaves become those of the table, and what
\* it assigned is closed for later items.
Committed(c) ==
  [x \in Vars |->
     IF x \in c.vm.final.changed
     THEN [c.assignments[x] EXCEPT ![Half(c)] =
             [value    |-> c.vm.final.val[x],
              previous |-> @.previous \cup @.current,
              current  |-> {}]]
     ELSE c.assignments[x]]

TakeOver(c) ==
  /\ IF c.error # ""
     THEN status' = c.error /\ UNCHANGED <<assignments, lvalues, invars, asserts, todo>>
     ELSE /\ assignments' = Committed(c)
          /\ lvalues' = c.lvalues
          /\ invars' = c.invars
          /\ asserts' = c.asserts
          /\ todo' = todo + 1
          /\ UNCHANGED status
  /\ UNCHANGED <<design, options>>

SkipItem == todo' = todo + 1
            /\ UNCHANGED <<design, options, assignments, lvalues, invars, asserts, status>>

SynthAlways ==
  /\ HasItem /\ TheItem.kind \in {"ALWAYS", "ALWAYS_COMB", "ALWAYS_FF"}
  /\ TakeOver(SynthStatement(TheItem.body, Context(TheItem.kind)))

\* always_latch is not supported.
SynthAlwaysLatch ==
  /\ HasItem /\ TheItem.kind = "ALWAYS_LATCH"
  /\ status' = "no synthesis support for always_latch"
  /\ UNCHANGED <<design, options, todo, assignments, lvalues, invars, asserts>>

SynthInitialBody(body) ==
  IF options.ignoreInitial THEN SkipItem
  ELSE TakeOver(SynthStatement(body, Context("INITIAL")))

SynthInitial ==
  /\ HasItem /\ TheItem.kind = "INITIAL"
  /\ SynthInitialBody(TheItem.body)

\* assign x = e;  becomes  always @(*) force x = e;
ContinuousAssign(t, e) ==
  TakeOver(SynthStatement(At(FALSE, [op |-> "force", lhs |-> t, rhs |-> e]), Context("ALWAYS")))

SynthContinuousAssign ==
  /\ HasItem /\ TheItem.kind = "assign"
  /\ ContinuousAssign(TheItem.lhs, TheItem.rhs)

\* A declaration, with a value or without (Nil).
SynthDecl ==
  /\ HasItem /\ TheItem.kind = "decl"
  /\ LET x == TheItem.var IN
     IF TheItem.value # Nil
     THEN IF x \in lvalues THEN SynthInitialBody(Set(x, TheItem.value))
                           ELSE ContinuousAssign(<<"var", x>>, TheItem.value)
     ELSE IF options.initialZero /\ x \in lvalues
     THEN SynthInitialBody(Set(x, Num(0)))
     ELSE SkipItem

\* A deferred assertion outside of procedural code is put into an always_comb;
\* nothing is assigned.
SynthAssertionItem ==
  /\ HasItem /\ TheItem.kind = "assertion"
  /\ TakeOver(SynthStatement(TheItem.body, Context("ALWAYS_COMB")))

FinishSynthesis ==
  /\ status = "synthesizing" /\ todo > Len(design.items)
  /\ status' = "done"
  /\ UNCHANGED <<design, options, todo, assignments, lvalues, invars, asserts>>

SynthesisInit ==
  /\ \E command \in Commands : /\ design = command.design
                                /\ options = [ignoreInitial |-> command.ignoreInitial,
                                               initialZero   |-> command.initialZero]
  /\ todo = 1
  /\ assignments = [x \in Vars |-> Unassigned]
  /\ lvalues = design.regs
  /\ invars = {}
  /\ asserts = <<>>
  /\ status = "synthesizing"

Synthesize ==
  \/ SynthAlways \/ SynthAlwaysLatch \/ SynthInitial \/ SynthContinuousAssign
  \/ SynthDecl \/ SynthAssertionItem \/ FinishSynthesis

-----------------------------------------------------------------------------
\* The functions from xs to values of its members.
Assignments(xs) ==
  FoldSet(LAMBDA x, fs : {(x :> n) @@ f : n \in Values(x), f \in fs}, {<<>>}, xs)

(* The transition system: synth_assignments.  Registers have an initial    *)
(* and a next value; variables that a combinational item assigns have      *)
(* become wires, defined in every state.                                   *)

Synthesized == {x \in lvalues : ~assignments[x].cycleLocal}
Wires     == {x \in Synthesized : assignments[x].type = "COMBINATIONAL"}
Registers == Synthesized \ Wires

NextValue(x) == IF assignments[x].next.value = Nil THEN Id(x) ELSE assignments[x].next.value

\* A wire that is used to define itself is replaced by a fresh symbol there,
\* except within the definition of an auxiliary wire.
RECURSIVE PostProcessWire(_, _)
PostProcessWire(x, e) ==
  CASE e = Id(x) -> <<"nondet", x>>
    [] e[1] \in Leaves \cup {"aux"} -> e
    [] OTHER -> [e EXCEPT ![2] = [i \in DOMAIN e[2] |-> PostProcessWire(x, e[2][i])]]

WiresHold(s) ==
  /\ \A x \in Wires :
       LET definition == PostProcessWire(x, NextValue(x))
       IN \E v \in Values(x) : s[x] = Eval(definition, s, (x :> v))
  /\ \A eq \in invars : Eval(eq[1], s, <<>>) = Eval(eq[2], s, <<>>)

\* The symbols for values before the initial state are shared by all variables.
IsInitial(s) ==
  /\ \E nd \in Assignments(Registers) :
       \A x \in Registers :
         assignments[x].init.value # Nil => s[x] = Eval(assignments[x].init.value, s, nd)
  /\ WiresHold(s)

NextRegisters(s) == [x \in Registers |-> Eval(NextValue(x), s, <<>>)]
IsTransition(next, t) ==
  /\ [x \in Registers |-> t[x]] = next
  /\ WiresHold(t)

=============================================================================
