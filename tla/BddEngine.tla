-------------------------------- MODULE BddEngine --------------------------------
(***************************************************************************)
(* The BDD engine (bdd_enginet): the list of properties is translated to   *)
(* CTL, optionally after the liveness-to-safety translation, and checked   *)
(* one by one: AG p with the backward search of BddReachability, which     *)
(* also yields a trace, everything else with CTL fixpoints.                *)
(*                                                                         *)
(* What is done to formulas before that comes with the operator constants; *)
(* BddSemantics defines it.                                                *)
(***************************************************************************)
EXTENDS LtlTranslation, LivenessToSafety, Sequences

CONSTANTS Problems,        \* netlists with their properties
          Normalized(_),   \* normalize_property()
          LtlOfSva(_)      \* SVA_to_LTL(), or Unsupported where it throws

ASSUME ProblemsAssumption ==
  \A d \in Problems :
    /\ d.init \subseteq State
    /\ d.next \in [State \X Inputs -> State]
    /\ d.constraint \subseteq State \X Inputs
    /\ d.transition \subseteq State \X Inputs
    /\ d.label \in [Atoms -> SUBSET (State \X Inputs)]
    /\ Len(d.props) \in Nat \ {0}
    /\ DOMAIN d.props = 1 .. Len(d.props)

\* normalized_expr, when the engine begins.
NormalizedExpr(p) == IF p.lang = "CTL" THEN p.expr ELSE Normalized(p.expr)

\* bdd_enginet::property_supported, on a formula of a language: what the property is in
\* LTL, if it is not CTL to begin with, and in CTL.
InLtl(lang, f) == IF lang = "SVA" THEN LtlOfSva(f) ELSE f

Converted(lang, f) ==
  LET g == InLtl(lang, f)
  IN  IF lang = "CTL" \/ g = Unsupported THEN g ELSE LtlToCtl(g)

\* The formulas that are given to the engine are known, and so are those of assumptions
\* and of liveness properties that are used as they are.
ASSUME PropertiesAssumption ==
  \A d \in Problems : \A i \in DOMAIN d.props :
    LET p == d.props[i]
        f == NormalizedExpr(p)
        g == InLtl(p.lang, f)
        IsG == p.lang = "SVA" /\ f[1] = "G"
    IN  /\ p.role # "assume" => IF p.lang = "CTL" THEN g \in Formulas ELSE g \in LtlFormulas \cup {Unsupported}
        /\ IsG /\ ~IsTemporal(f[2]) => f[2] \in Formulas
        /\ IsG /\ f[2][1] = "F" => f[2][2] \in Formulas

VARIABLES problem,   \* the netlist with its properties; never changes
          pc, index, \* where the loop over the properties is
          props      \* the properties: normalized_expr and the result fields

allVars == <<vars, problem, pc, index, props>>

Ids  == DOMAIN problem.props
P(i) == problem.props[i]

\* The formula that the engine is given.
Given(i) == NormalizedExpr(P(i))

IsAssumption(i) == P(i).role = "assume"
IsExistsPath(i) == P(i).role = "cover"

\* trace: the length of the witness, and the timeframes in which it falsifies the
\* property.
NoTrace == [length |-> 0, fails |-> {}]
PropertyOf(expr, s) == [normalized_expr |-> expr, status |-> s, trace |-> NoTrace]

-----------------------------------------------------------------------------
\* The CTL formula that operator() leaves in normalized_expr.
Formula(i) == props[i].normalized_expr

IsAGp(f) == f[1] = "AG" /\ ~IsTemporal(f[2])

-----------------------------------------------------------------------------
\* The liveness-to-safety translation: always s_eventually p, for every property.
Translatable(i) == P(i).lang = "SVA" /\ Given(i)[1] = "G" /\ Given(i)[2][1] = "F"

Translates == problem.l2s /\ \E i \in Ids : Translatable(i)

\* The netlist of the problem, and the one whose constraints include the assumptions
\* that build_BDDs() can use; the others are left out.
Net == [init |-> problem.init, next |-> problem.next, constraint |-> problem.constraint,
        transition |-> problem.transition, property |-> DOMAIN problem.next]

Usable(i) == P(i).lang = "SVA" /\ Given(i)[1] = "G" /\ ~IsTemporal(Given(i)[2])

AssumptionHolds(i) == CTL(Net, problem.label, Given(i)[2])

Assumed == {n \in problem.constraint : \A i \in Ids : IsAssumption(i) /\ Usable(i) => n \in AssumptionHolds(i)}

BddNet == [Net EXCEPT !.constraint = Assumed]

\* A netlist with the property that the state predicate f is about.
About(net, f) == [net EXCEPT !.property = CTL(Net, problem.label, f)]

\* The design with the liveness property i and those that are assumed.  After the
\* translation every assumption is one that build_BDDs() can use.
Recurrence(i) ==
  [init |-> problem.init, next |-> problem.next,
   constraint |-> problem.constraint, transition |-> problem.transition,
   property  |-> CTL(Net, problem.label, Given(i)[2][2]),
   recurring |-> [k \in {k \in Ids : IsAssumption(k)} |-> CTL(Net, problem.label, Given(k)[2][2])]]

\* The AG p that the search looks at, without and with the assumptions.
Unassumed(i) == IF Translates THEN Monitored(Recurrence(i)) ELSE About(Net, Formula(i)[2])
SearchOn(i)  == IF Translates THEN Assuming(Unassumed(i)) ELSE About(BddNet, Formula(i)[2])

-----------------------------------------------------------------------------
EngineInit ==
  /\ problem \in Problems
  /\ pc = "start"
  /\ index = 1
  /\ props = [i \in Ids |->
       PropertyOf(Given(i), IF IsAssumption(i) THEN "ASSUMED" ELSE "UNKNOWN")]
  /\ design = Net /\ states = {} /\ iteration = 0 /\ result = Running

\* Up to the loop over the properties.  The translation rejects what it cannot
\* translate, assumptions included; the engine marks what has no CTL.
Prepare ==
  /\ pc = "start"
  /\ IF Translates
     THEN /\ pc' = IF \A i \in Ids : Translatable(i) THEN "check" ELSE "rejected"
          /\ UNCHANGED props
     ELSE /\ pc' = "check"
          /\ props' = [i \in Ids |->
               LET f == Converted(P(i).lang, Formula(i))
               IN  IF IsAssumption(i) THEN props[i]
                   ELSE IF f = Unsupported THEN [props[i] EXCEPT !.status = "FAILURE"]
                   ELSE [props[i] EXCEPT !.normalized_expr = f]]
  /\ UNCHANGED <<vars, problem, index>>

Skipped(i) == props[i].status \in {"ASSUMED", "FAILURE"}

\* On to the next property.
Advance ==
  /\ index' = index + 1
  /\ pc' = IF index + 1 \in Ids THEN "check" ELSE "done"

SkipProperty ==
  /\ pc = "check" /\ Skipped(index)
  /\ Advance
  /\ UNCHANGED <<vars, problem, props>>

StartSearch ==
  /\ pc = "check" /\ ~Skipped(index)
  /\ Translates \/ IsAGp(Formula(index))
  /\ \E d \in {SearchOn(index)} : design' = d /\ states' = Violating(d)
  /\ iteration' = 0
  /\ result' = Running
  /\ pc' = "search"
  /\ UNCHANGED <<problem, index, props>>

Search ==
  /\ pc = "search"
  /\ Iterate
  /\ UNCHANGED <<problem, pc, index, props>>

\* compute_counterexample(): the paths of n timeframes, without the assumptions, and
\* with the transition constraints in every timeframe.
Unwind(d, s, u, n) ==
  LET st[t \in 0 .. n - 1] == IF t = 0 THEN s ELSE d.next[<<st[t - 1], u[t - 1]>>]
  IN  [t \in 0 .. n - 1 |-> <<st[t], u[t]>>]

Traces(n) ==
  LET d == Unassumed(index)
      paths == {Unwind(d, s, u, n) : s \in d.init, u \in [0 .. n - 1 -> {q[2] : q \in Nodes(d)}]}
  IN  {[length |-> n, fails |-> {t \in 0 .. n - 1 : path[t] \notin d.property}] :
         path \in {q \in paths : \A t \in 0 .. n - 1 : q[t] \in Moves(d)}}

\* The turns of the search are timeframes; a slip: transitions.
TimeframesAfterTurns(n) == n + 1
Timeframes(n) == n

\* The status is set first.  When there is no counterexample the engine throws.
EndRefuted ==
  /\ pc = "search" /\ result.outcome = "REFUTED"
  /\ LET status     == IF IsExistsPath(index) THEN "PROVED" ELSE "REFUTED"
         falsifying == {t \in Traces(Timeframes(result.length)) : t.fails # {}}
     IN  \/ /\ falsifying = {}
            /\ props' = [props EXCEPT ![index].status = status]
            /\ pc' = "unsat"
            /\ UNCHANGED index
         \/ /\ \E t \in falsifying :
                 props' = [props EXCEPT ![index].status = status, ![index].trace = t]
            /\ Advance
  /\ UNCHANGED <<vars, problem>>

EndProved ==
  /\ pc = "search" /\ result = Proved
  /\ props' = [props EXCEPT ![index].status = IF IsExistsPath(index) THEN "REFUTED" ELSE "PROVED"]
  /\ Advance
  /\ UNCHANGED <<vars, problem>>

\* check_CTL
CheckCTL ==
  /\ pc = "check" /\ ~Skipped(index)
  /\ ~Translates /\ ~IsAGp(Formula(index))
  /\ LET notF == Nodes(BddNet) \ CTL(BddNet, problem.label, Formula(index))
         bad  == MeetsInit(BddNet, notF \cap BddNet.constraint)
     IN  props' = [props EXCEPT ![index].status = IF bad THEN "REFUTED" ELSE "PROVED"]
  /\ Advance
  /\ UNCHANGED <<vars, problem>>

EngineTerminated == pc \in {"done", "rejected", "unsat"} /\ UNCHANGED allVars

EngineNext ==
  \/ Prepare \/ SkipProperty \/ StartSearch \/ Search \/ EndRefuted \/ EndProved \/ CheckCTL
  \/ EngineTerminated

EngineSpec == EngineInit /\ [][EngineNext]_allVars

-----------------------------------------------------------------------------
(***************************************************************************)
(* Properties.                                                             *)
(***************************************************************************)

HoldsVerdict(i)    == IF IsExistsPath(i) THEN "REFUTED" ELSE "PROVED"
ViolatedVerdict(i) == IF IsExistsPath(i) THEN "PROVED" ELSE "REFUTED"

\* What the search looks for: a reachable cycle that avoids p, or a reachable state
\* without p, of the netlist with the assumptions in its constraints.
Searched(i) == Translates \/ IsAGp(Formula(i))

Exists(i) ==
  IF Translates THEN \E s \in State : AvoidsForEver(Recurrence(i), s)
  ELSE Violated(About(BddNet, Formula(i)[2]))

\* The translated assumptions have to be met on every return to the copy, so that two of
\* them may hold on a cycle and still not let the monitor around it.
AtMostOneRecurs == \A i, j \in Ids : IsAssumption(i) /\ IsAssumption(j) => i = j

\* The verdict of a search is about the design itself: whatever the translation, the
\* order of the properties and the property kind, a property is violated iff the
\* design has such a cycle or state, on runs of any length, also those that end in a
\* dead end.  With several assumptions of liveness, it may be proved nonetheless.
SearchVerdictsAreRight ==
  \A i \in Ids : Searched(i) =>
    /\ props[i].status = HoldsVerdict(i) /\ (Translates => AtMostOneRecurs) => ~Exists(i)
    /\ props[i].status = ViolatedVerdict(i) => Exists(i)

\* Whatever way a property takes, fixpoints or search, its verdict is that of its CTL
\* formula on the states of the netlist, dead ends included: it is proved iff the formula
\* holds in all initial states that have an allowed input.  Covers are searched; formulas whose
\* predicates read inputs are about nodes, not about states.
VerdictsMatchFormulas ==
  ~Translates =>
    \A i \in Ids :
      /\ props[i].status \in {"PROVED", "REFUTED"}
      /\ IsExistsPath(i) => Searched(i)
      /\ InputFree(BddNet, problem.label, Formula(i))
      => (props[i].status = HoldsVerdict(i) <=>
            LiveInit(BddNet) \subseteq Meaning(BddNet, problem.label, Formula(i)))

\* A trace is as short as a trace can be: without assumptions, the property fails in
\* its last timeframe and in no other.
TraceIsShortest ==
  (\A i \in Ids : ~IsAssumption(i)) =>
    \A i \in Ids : LET t == props[i].trace IN t.length > 0 => t.fails = {t.length - 1}

\* The search and the SAT solver that recomputes its counterexample agree, unless a state
\* in which the property fails is a dead end, which the solver does not know.
CounterexampleExists == pc = "unsat" => ~BadStatesMoveOn(design)

=============================================================================
