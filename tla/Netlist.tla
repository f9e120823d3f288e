--------------------------------- MODULE Netlist ---------------------------------
(***************************************************************************)
(* The design as the BDD engine sees it: a netlist that keeps its          *)
(* constraints (SMV INVAR, Verilog assume) apart from the constraints on   *)
(* transitions (SMV TRANS, with next()).  A constraint decides which nodes *)
(* exist, a transition constraint only from which of them the design moves *)
(* on.  A state all of whose nodes are forbidden to move is a dead end: it *)
(* is a state of the netlist, and the last one of the runs that get there. *)
(***************************************************************************)
EXTENDS TransitionSystem

Netlists ==
  [init       : SUBSET State,
   next       : [State \X Inputs -> State],
   constraint : SUBSET (State \X Inputs),
   transition : SUBSET (State \X Inputs),
   property   : SUBSET (State \X Inputs)]

\* A node is a state with a valuation of the inputs.  The operators take the nodes
\* from the netlist, so that they also apply to an instrumented one, whose states are
\* not valuations of Latches.
Nodes(d) == DOMAIN d.next

\* The nodes from which d moves on.
Moves(d) == d.constraint \cap d.transition

\* The states of d, those from which it moves into S, and those in which the property fails.
Alive(d)     == {n[1] : n \in d.constraint}
Before(d, S) == {n[1] : n \in {n \in Moves(d) : d.next[n] \in S}}
Failing(d)   == {n[1] : n \in d.constraint \ d.property}

\* Every state has a successor.
EveryStateMovesOn(d) == Alive(d) \subseteq Before(d, Alive(d))

\* A state in which the property fails moves on under an input with which it fails.
BadStatesMoveOn(d) ==
  \A n \in d.constraint \ d.property : \E m \in Moves(d) \ d.property : m[1] = n[1]

\* What d reaches, dead ends included.
MoveClosed(d, P) == \A n \in Moves(d) : n[1] \in P => d.next[n] \in P

Reached(d) == {s \in State : \A P \in SUBSET State : d.init \subseteq P /\ MoveClosed(d, P) => s \in P}

Violated(d) == Reached(d) \cap Failing(d) # {}

\* The design as unwind() sees it, which conjoins both kinds of constraints in every
\* timeframe, the last one included: a dead end does not exist.
Merged(d) == [d EXCEPT !.constraint = Moves(d)]

=============================================================================
