----------------------------- MODULE BddReachability -----------------------------
(***************************************************************************)
(* The backward search of the BDD engine for properties AG p               *)
(* (bdd_enginet::check_AGp): start in the states that violate p, add the   *)
(* pre-image until an initial state is met or nothing is new.              *)
(*                                                                         *)
(* A BDD over the current variables is a set of nodes.                     *)
(***************************************************************************)
EXTENDS Netlist

CONSTANT Designs

ASSUME DesignsAssumption == Designs \subseteq Netlists

VARIABLES design,       \* the netlist, its constraints, and the property
          states,       \* the set of nodes reached backwards
          iteration,
          result

vars == <<design, states, iteration, result>>

-----------------------------------------------------------------------------
\* The nodes of the states from which some move in M leads to an allowed node of f.
PreImageBy(d, f, M) ==
  LET after  == {q[1] : q \in f \cap d.constraint}
      before == {m[1] : m \in {m \in M : d.next[m] \in after}}
  IN  {n \in Nodes(d) : n[1] \in before}

\* A slip: the constraints of the current timeframe are left out.
EXFromAnywhere(d, f) == PreImageBy(d, f, d.transition)

\* A slip: the transition constraints are for both timeframes, too.
EXBetweenMoves(d, f) == PreImageBy(d, f \cap d.transition, Moves(d))

\* bdd_model_checkert::EX: the constraints are for both timeframes, the transition
\* constraints for the move; the node that it leads to need not have a move of its own.
\* The inputs of both timeframes are projected away, so that all nodes of a state
\* are in the result, or none.
EX(d, f) == PreImageBy(d, f, Moves(d))

\* A slip: the constraints are left to the pre-image.
ViolatingAnywhere(d) == Nodes(d) \ d.property

\* !p and the constraints, but not the transition constraints.
Violating(d) == d.constraint \ d.property

MeetsInit(d, f) == \E n \in f : n[1] \in d.init

Init ==
  /\ design \in Designs
  /\ states = Violating(design)
  /\ iteration = 0
  /\ result = Running

\* One turn of the loop; compute_counterexample() unwinds `iteration` timeframes.
Iterate ==
  /\ result = Running
  /\ iteration' = iteration + 1
  /\ LET union == states \cup EX(design, states)
     IN  \/ /\ MeetsInit(design, states)
            /\ result' = Refuted(iteration')
            /\ UNCHANGED states
         \/ /\ ~MeetsInit(design, states)
            /\ union = states
            /\ result' = Proved
            /\ UNCHANGED states
         \/ /\ ~MeetsInit(design, states)
            /\ union # states
            /\ states' = union
            /\ UNCHANGED result
  /\ UNCHANGED design

Terminated == result # Running /\ UNCHANGED vars

Next == Iterate \/ Terminated

Spec == Init /\ [][Next]_vars

FairSpec == Spec /\ WF_vars(Next)

-----------------------------------------------------------------------------
(***************************************************************************)
(* Properties.                                                             *)
(***************************************************************************)

\* The states from which a violation is n steps away.
ViolationIn(d) ==
  LET after[n \in Nat] == IF n = 0 THEN Failing(d) ELSE Before(d, after[n - 1])
  IN  after

\* The variables have their types.
TypeOK ==
  /\ design \in Designs
  /\ states \subseteq Nodes(design)
  /\ iteration \in Nat
  /\ result \in {Running, Proved} \cup {Refuted(n) : n \in Nat \ {0}}

\* The search is by distance: the states after n turns are those that reach a
\* violation in at most n steps, whichever way the sets are represented.
SearchByDistance ==
  result = Running => {n[1] : n \in states} = UNION {ViolationIn(design)[n] : n \in 0 .. iteration}

\* The BDD engine's search is a checker of safety properties of the design that unwind()
\* sees: PROVED and REFUTED are right, and the number of timeframes for the
\* counterexample is that of a trace.  (For REFUTED, no bad state may be a dead end.)
Verdict == INSTANCE SafetyVerdict
             WITH Designs <- {Merged(d) : d \in Designs}, design <- Merged(design), result <- result
ImplementsSafetyVerdict == Verdict!Spec

\* The fixpoint is reached.
Terminates == <>(result # Running)

=============================================================================
