--------------------------- MODULE VerilogSimulation ---------------------------
(***************************************************************************)
(* A module of Verilog run as the language defines it, next to the         *)
(* transition system that VerilogSynthesis has made of it.                 *)
(*                                                                         *)
(* At time zero the declared initial values are set and the initial items  *)
(* run in any order; combinational items then run, in any order, until     *)
(* nothing changes.  At a clock edge the clocked items run in any order,   *)
(* after them the nonblocking writes take place, the inputs change, and    *)
(* the combinational items run again.  An item runs without interruption.  *)
(* The unknown value x is any value.                                       *)
(***************************************************************************)
EXTENDS VerilogSynthesis

VARIABLES phase,      \* "off", "initial", "settle", "ready", "clock"
          vals,       \* the valuation
          before,     \* the settled valuation before the clock edge, or Nil
          pending,    \* the items that are still to run at this time
          later,      \* the nonblocking writes, in order
          failed      \* the assertions that failed at the clock edge

simulationVars == <<phase, vals, before, pending, later, failed>>
vars == <<synthesisVars, simulationVars>>

Items == DOMAIN design.items
Kind(i) == design.items[i].kind

IsDeclared(i) == Kind(i) = "decl"
                 /\ (design.items[i].value # Nil \/ options.initialZero)
Edge(i, edge) == /\ Kind(i) \in {"ALWAYS", "ALWAYS_FF"}
                 /\ design.items[i].body.op = "at" /\ design.items[i].body.edge = edge
Clocked == {i \in Items : Edge(i, TRUE)}
IsNetItem(i) == \/ Kind(i) = "assign"
                \/ /\ Kind(i) = "decl" /\ design.items[i].value # Nil
                   /\ design.items[i].var \notin design.regs
InitialItems == {i \in Items : Kind(i) = "INITIAL" \/ (IsDeclared(i) /\ ~IsNetItem(i))}
Initials == IF options.ignoreInitial THEN {} ELSE InitialItems
Deferred == {i \in Items : Kind(i) = "assertion"}
Combinational == {i \in Items : \/ IsNetItem(i)
                                \/ Kind(i) = "ALWAYS_COMB"
                                \/ Edge(i, FALSE)}

Locals == design.locals
Used == (design.regs \cup design.inputs \cup design.nets) \ Locals
Scrubbed(s) == [x \in Vars |-> IF x \in Locals THEN 0 ELSE s[x]]

Body(i) ==
  LET m == design.items[i]
  IN CASE m.kind = "assign" -> Assign(m.lhs, m.rhs)
       [] m.kind = "decl"   -> Set(m.var, IF m.value = Nil THEN Num(0) ELSE m.value)
       [] OTHER             -> m.body

\* What running the item i in s does.
Ran(i, s) == LET r == Run(Body(i), Running(s)) IN [r EXCEPT !.val = Scrubbed(@)]

\* A combinational item, with its nonblocking writes.
RanAlone(i, s) == LET r == Ran(i, s) IN Written(r.val, r.later)

Unstable(s) == {i \in Combinational : RanAlone(i, s) # s}

-----------------------------------------------------------------------------
SimulationInit ==
  /\ phase = "off" /\ before = Nil /\ pending = {} /\ later = <<>> /\ failed = {}
  /\ vals = [x \in Vars |-> 0]

\* Variables and inputs have any value; with --initial-zero, variables are 0.
PowerUp ==
  /\ status = "done" /\ phase = "off"
  /\ \E s \in Assignments(Used \ design.nets) : vals' = s @@ [x \in Vars |-> 0]
  /\ phase' = "initial"
  /\ pending' = Initials
  /\ UNCHANGED <<synthesisVars, before, later, failed>>

\* Declarations come before initial items.
RunInitial(i) ==
  /\ phase = "initial" /\ i \in pending
  /\ IsDeclared(i) \/ \A j \in pending : ~IsDeclared(j)
  /\ vals' = RanAlone(i, vals)
  /\ pending' = pending \ {i}
  /\ UNCHANGED <<synthesisVars, phase, before, later, failed>>

Initialized ==
  /\ phase = "initial" /\ pending = {}
  /\ phase' = "settle"
  /\ UNCHANGED <<synthesisVars, vals, before, pending, later, failed>>

RunCombinational(i) ==
  /\ phase = "settle" /\ i \in Unstable(vals)
  /\ vals' = RanAlone(i, vals)
  /\ UNCHANGED <<synthesisVars, phase, before, pending, later, failed>>

Settle ==
  /\ phase = "settle" /\ Unstable(vals) = {}
  /\ phase' = "ready"
  /\ UNCHANGED <<synthesisVars, vals, before, pending, later, failed>>

ClockEdge ==
  /\ phase = "ready"
  /\ phase' = "clock" /\ before' = vals /\ pending' = Clocked /\ failed' = {}
  /\ UNCHANGED <<synthesisVars, vals, later>>

RunClocked(i) ==
  /\ phase = "clock" /\ i \in pending
  /\ LET r == Ran(i, vals) IN
     /\ vals' = r.val
     /\ later' = later \o r.later
     /\ failed' = failed \cup r.failed
  /\ pending' = pending \ {i}
  /\ UNCHANGED <<synthesisVars, phase, before>>

\* The nonblocking writes take place, and the inputs change.
EndOfStep ==
  /\ phase = "clock" /\ pending = {}
  /\ \E inputs \in Assignments(design.inputs) : vals' = inputs @@ Written(vals, later)
  /\ phase' = "settle" /\ later' = <<>>
  /\ UNCHANGED <<synthesisVars, before, pending, failed>>

Simulate ==
  \/ PowerUp \/ Initialized \/ Settle \/ ClockEdge \/ EndOfStep
  \/ \E i \in Items : RunInitial(i) \/ RunCombinational(i) \/ RunClocked(i)

Init == SynthesisInit /\ SimulationInit
Next == (Synthesize /\ UNCHANGED simulationVars) \/ Simulate
Spec == Init /\ [][Next]_vars

-----------------------------------------------------------------------------
(* The valuations that the transition system allows. *)

\* s with other values for the variables in `xs`.
Variants(s, xs) == {f @@ s : f \in Assignments(xs)}

AllSynthesized(ss) ==
  IF before = Nil THEN {s \in ss : IsInitial(s)}
  ELSE LET next == NextRegisters(before) IN {s \in ss : IsTransition(next, s)}

\* Every step that the module can take, whatever the order of its items, is an
\* initial state or a transition of the synthesized system, so that what is
\* proved of the system holds of the module (synth_statement to
\* synth_assignments).
SimulationIsCovered == phase = "ready" => vals \in AllSynthesized({vals})

\* The synthesized system has no other transition than the one the module takes:
\* a counterexample is a run of the module.  For the modules that assign every
\* wire on every path and, for the initial state, every register.
SynthesisIsExact ==
  phase = "ready" /\ (IF before = Nil THEN design.initialised /\ ~options.ignoreInitial ELSE design.exact)
  => AllSynthesized(Variants(vals, Used \ design.inputs)) \subseteq {vals}

\* An assertion in procedural code fails in the synthesized system exactly
\* where the execution reaches it and finds it false (guarded_expr).
AssertionsAsExecuted ==
  phase = "ready" =>
    LET Fails(id, s) == Eval(asserts[id], s, <<>>) # 1
        Reached(i) == Ran(i, vals).failed
    IN \A id \in DOMAIN asserts :
         IF id \in design.clockedAsserts
         THEN before # Nil => (Fails(id, before) <=> id \in failed)
         ELSE Fails(id, vals) <=> \E i \in Combinational \cup Deferred : id \in Reached(i)

-----------------------------------------------------------------------------
(* Which modules must be rejected. *)

RECURSIVE Assigned(_), TargetMembers(_)
\* The bits that a target may write: a computed index may be any.
TargetMembers(t) ==
  LET AnyBit == {<<t[2], k>> : k \in 0 .. Width[t[2]] - 1}
  IN CASE t[1] = "concat" -> UNION {TargetMembers(t[2][k]) : k \in DOMAIN t[2]}
       [] t[1] = "bit" /\ t[3][1] # "num" -> AnyBit
       [] OTHER -> ToSet(TargetBits(t, <<>>))

\* The bits that a statement may assign, other than local variables.
Assigned(s) ==
  {b \in
    (CASE s.op = "block"  -> UNION {Assigned(s.body[k]) : k \in DOMAIN s.body}
       [] s.op = "assign" -> TargetMembers(s.lhs)
                             \cup (IF IsCall(s.rhs) THEN Assigned(Call(s.rhs[2], s.rhs[3])) ELSE {})
       [] s.op = "incdec" -> TargetMembers(<<"var", s.var>>)
       [] s.op = "if"     -> Assigned(s.then) \cup Assigned(s.else)
       [] s.op = "case"   -> UNION {Assigned(s.items[k].body) : k \in DOMAIN s.items}
       [] s.op = "loop"   -> Assigned(s.init) \cup Assigned(s.step) \cup Assigned(s.body)
       [] s.op = "return" -> Assigned(s.value)
       [] s.op = "at"     -> Assigned(s.body)
       [] s.op = "call"   -> Assigned(s.fun.body)
                             \cup UNION {TargetMembers(<<"var", s.args[k][2]>>) : k \in s.fun.outputs}
                             \cup UNION {TargetMembers(<<"var", x>>) : x \in ToSet(s.fun.params)}
       [] OTHER           -> {}) : b[1] \notin Locals}

Writers(i) == IF Kind(i) = "decl" /\ ~IsDeclared(i) THEN {} ELSE Assigned(Body(i))
Overlap(i, j) == Writers(i) \cap Writers(j) # {}
Touches(i, j) == {b[1] : b \in Writers(i)} \cap {b[1] : b \in Writers(j)} # {}
Unguarded(i) == Kind(i) \in {"ALWAYS", "ALWAYS_FF"} /\ Body(i).op # "at" /\ Writers(i) # {}

IllFormed ==
  \/ \E i \in Items : Unguarded(i) \/ Kind(i) = "ALWAYS_LATCH"
  \/ \E i, j \in Initials : i # j /\ Overlap(i, j)
  \/ \E i, j \in Items \ InitialItems : i # j /\ Overlap(i, j)
  \/ \E i \in Initials \cup Clocked, j \in Combinational : Touches(i, j)
  \/ \E i \in Clocked \cup {j \in Combinational : Kind(j) \notin {"assign", "decl"}} :
       \E b \in Writers(i) : b[1] \notin design.regs

\* A module is rejected if and only if two items write the same bit, a variable
\* is both clocked and combinational, or a net or an unguarded variable is
\* assigned (add_assignment_member, move_assignments, the type of assignmentt).
ConflictsAreReported ==
  status # "synthesizing" => (status # "done" <=> IllFormed)

=============================================================================
