---------------------------- MODULE TransitionSystem ----------------------------
(***************************************************************************)
(* The design that an EBMC engine analyses, at the level of the netlist:   *)
(* Boolean latches, Boolean inputs, one next-state function per latch, the *)
(* initial states, the constraints (SMV INVAR and TRANS, Verilog assume)   *)
(* and one safety property.  An input stands for one valuation of the      *)
(* primary inputs and of the nondeterministic nodes.                       *)
(*                                                                         *)
(* Reachability is defined without recursion: the reachable states are the *)
(* smallest set that holds the initial states and is closed under Step.    *)
(***************************************************************************)
EXTENDS Naturals

CONSTANTS Latches,      \* the latch bits of netlist.var_map
          Inputs        \* the valuations of the inputs and nondet nodes

State   == [Latches -> BOOLEAN]
Literal == Latches \X BOOLEAN

\* A design: aig_plus_constraintst::constraints and netlistt::transition are
\* one predicate on a state and its inputs, as unwind() conjoins both.
Design ==
  [init       : SUBSET State,
   next       : [State \X Inputs -> State],
   constraint : SUBSET (State \X Inputs),
   property   : SUBSET (State \X Inputs)]

-----------------------------------------------------------------------------
\* The semantics of a design d.

\* d moves from s to t under some input that its constraint allows in s.
Step(d, s, t) == \E i \in Inputs : <<s, i>> \in d.constraint /\ t = d.next[<<s, i>>]

\* s is an initial state with an input that the constraint allows.
LiveInit(d) == {s \in d.init : \E i \in Inputs : <<s, i>> \in d.constraint}

\* The property fails in s under some input that the constraint allows.
Bad(d, s) == \E i \in Inputs : <<s, i>> \in d.constraint /\ <<s, i>> \notin d.property

Closed(d, P) == \A s \in P, t \in State : Step(d, s, t) => t \in P

Reachable(d) ==
  {s \in State : \A P \in SUBSET State : (LiveInit(d) \subseteq P /\ Closed(d, P)) => s \in P}

\* path is a path of d whose states are numbered 0 .. n.
IsPath(d, path, n) == \A j \in 0 .. n : j < n => Step(d, path[j], path[j + 1])

\* The property really holds, and really fails with a trace of n states.
Holds(d) == \A s \in Reachable(d) : ~Bad(d, s)

Counterexample(d, n) ==
  \E path \in [0 .. (n - 1) -> State] :
    /\ path[0] \in LiveInit(d)
    /\ IsPath(d, path, n - 1)
    /\ Bad(d, path[n - 1])

-----------------------------------------------------------------------------
\* What an engine answers: ic3_resultt, with a value for "not yet".

Running    == [outcome |-> "running", length |-> 0]
Proved     == [outcome |-> "PROVED", length |-> 0]
Refuted(n) == [outcome |-> "REFUTED", length |-> n]

-----------------------------------------------------------------------------
\* Cubes.  A cube is a set of literals <<latch, value>>, read as their
\* conjunction.  A clause is written as the cube that it negates.

Sat(s, cube) == \A l \in cube : s[l[1]] = l[2]

\* The cube with one literal for each latch that describes s alone.
FullCube(s) == {<<x, s[x]>> : x \in Latches}

=============================================================================
