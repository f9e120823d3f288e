----------------------------- MODULE LivenessToSafety -----------------------------
(***************************************************************************)
(* The translation of `always s_eventually p` into a safety property       *)
(* (liveness_to_safetyt).  The design gets a copy `loop` of its state      *)
(* variables, a free input `save` that fills the copy once, and a flag     *)
(* `live` that records whether p was seen since.  When the state returns   *)
(* to the copy and p was not seen, the design can avoid p for ever.        *)
(*                                                                         *)
(* The translation works on all properties at once, each with a flag of    *)
(* its own.  An assumption is translated like a property: what it assumes  *)
(* afterwards is that its flag is set whenever the state returns to the    *)
(* copy, which the BDD engine takes as a constraint.  The flags do not     *)
(* read each other, so one property at a time, with all assumptions, is    *)
(* enough here.  p is the field `property` of the design; the predicates   *)
(* that are assumed to recur are its field `recurring`.                    *)
(***************************************************************************)
EXTENDS Netlist

\* The state variables of the design and those that are added.
Monitor(d) ==
  [state : State, loop : State, saved : BOOLEAN, live : BOOLEAN, seen : [DOMAIN d.recurring -> BOOLEAN]]

\* The inputs, and `save`.
MonitorInputs == Inputs \X BOOLEAN

\* The paper's rule, live' := live or p, which is for F p.
NextLiveEver(live, save, p) == live \/ p

\* Clearing the flag after the step instead of before it loses p in the saved state.
NextLiveAfterSave(live, save, p) == (live \/ p) /\ ~save

\* live' := (live and not save) or p
NextLive(live, save, p) == (live /\ ~save) \/ p

NextMonitor(d, m, i, save) ==
  [state |-> d.next[<<m.state, i>>],
   loop  |-> IF save /\ ~m.saved THEN m.state ELSE m.loop,
   saved |-> m.saved \/ save,
   live  |-> NextLive(m.live, save, <<m.state, i>> \in d.property),
   seen  |-> [k \in DOMAIN d.recurring |-> NextLive(m.seen[k], save, <<m.state, i>> \in d.recurring[k])]]

\* A slip: the copy is compared before it is made.
LoopedBeforeSave(m) == m.state = m.loop

Looped(m) == m.saved /\ m.state = m.loop

\* The translated design: G (looped -> live), and save never twice.
Monitored(d) ==
  LET nodes == Monitor(d) \X MonitorInputs
      At(q) == <<q[1].state, q[2][1]>>
  IN  [init       |-> {m \in Monitor(d) : m.state \in d.init /\ ~m.saved /\ ~m.live /\ \A k \in DOMAIN m.seen : ~m.seen[k]},
       next       |-> [q \in nodes |-> NextMonitor(d, q[1], q[2][1], q[2][2])],
       constraint |-> {q \in nodes : At(q) \in d.constraint /\ (q[2][2] => ~q[1].saved)},
       transition |-> {q \in nodes : At(q) \in d.transition},
       property   |-> {q \in nodes : Looped(q[1]) => q[1].live}]

\* The translated assumptions as constraints.
Assuming(M) ==
  [M EXCEPT !.constraint = {q \in M.constraint : Looped(q[1]) => \A k \in DOMAIN q[1].seen : q[1].seen[k]}]

-----------------------------------------------------------------------------
(***************************************************************************)
(* What `always s_eventually p` means, without the monitor.                *)
(***************************************************************************)

\* The moves of d under which p is false.
AvoidMoves(d) == Moves(d) \ d.property

\* P holds whatever d reaches from s by one or more such moves.
AvoidClosed(d, s, P) == \A n \in AvoidMoves(d) : n[1] \in {s} \cup P => d.next[n] \in P

AvoidReach(d, s) ==
  {t \in State : \A P \in SUBSET State : AvoidClosed(d, s, P) => t \in P}

\* s, or what d reaches from s by such moves.
AvoidFrom(d, s) == {s} \cup AvoidReach(d, s)

\* d gets from s to t without p and makes a move in F on the way.
AvoidVia(d, s, F, t) ==
  \E n \in AvoidMoves(d) \cap F : n[1] \in AvoidFrom(d, s) /\ t \in AvoidFrom(d, d.next[n])

\* A reachable cycle without p, on which d sees whatever is assumed to recur: G F p fails.
AvoidsForEver(d, s) ==
  /\ s \in Reached(d)
  /\ s \in AvoidReach(d, s)
  /\ \A k \in DOMAIN d.recurring : AvoidVia(d, s, d.recurring[k], s)

=============================================================================
