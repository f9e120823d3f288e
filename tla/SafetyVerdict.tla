------------------------------ MODULE SafetyVerdict ------------------------------
(***************************************************************************)
(* What a checker of one safety property promises, whatever its algorithm: *)
(* a single answer, PROVED only when the property holds in every reachable *)
(* state, and REFUTED only with the length of a trace that really starts   *)
(* in an initial state and ends in a state that violates the property.     *)
(***************************************************************************)
EXTENDS TransitionSystem

CONSTANT Designs

VARIABLES design, result

Init == design \in Designs /\ result = Running

Prove ==
  /\ result = Running
  /\ result' = Proved
  /\ Holds(design)
  /\ UNCHANGED design

Refute ==
  /\ result = Running
  /\ result'.length \in Nat \ {0}
  /\ result' = Refuted(result'.length)
  /\ Counterexample(design, result'.length)
  /\ UNCHANGED design

Next == Prove \/ Refute

Spec == Init /\ [][Next]_<<design, result>>

=============================================================================
