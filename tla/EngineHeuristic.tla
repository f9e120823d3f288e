----------------------------- MODULE EngineHeuristic -----------------------------
(***************************************************************************)
(* A run of ebmc, property_checker(): a command that names an engine runs  *)
(* that engine once; without one, engine_heuristic() tries six engines one *)
(* after the other on the same list of properties, copies their results,   *)
(* and resets what an engine could not decide.  The engines share the      *)
(* statuses of the properties and nothing else, so a verdict is right only *)
(* if every engine leaves the statuses of its predecessors in order and    *)
(* reads them the way they were meant.                                     *)
(*                                                                         *)
(* The SAT solver picks the path that satisfies a query, and may give up   *)
(* on any query.                                                           *)
(***************************************************************************)
EXTENDS WordLevel

CONSTANTS Problems,         \* the designs with their properties, by name
          Modes,            \* the choices for --bmc-with-assumptions
          Commands,         \* the choices of an engine on the command line
          Bounds,           \* the choices for --bound
          Horizon           \* the longest lasso that the reference semantics looks at

ASSUME HorizonAssumption == Horizon \in Nat \ {0}
ASSUME ModeAssumption    == Modes \subseteq BOOLEAN
ASSUME BoundAssumption   == Bounds \subseteq Nat

\* Without a property the code throws before it runs an engine.
ASSUME ProblemAssumption ==
  \A name \in DOMAIN Problems :
    /\ Problems[name] \in Problem
    /\ Problems[name].props # <<>>
    /\ \A i \in DOMAIN Problems[name].props :
         Problems[name].props[i].role = "cover" => Problems[name].props[i].form = "G"

ASSUME LatchAssumption == IsFiniteSet(Latches)

\* Engines that a command runs by themselves: --bound, --aig, --k-induction.
SingleEngines == {"word-level BMC", "bit-level BMC", "k-induction"}

ASSUME CommandAssumption == Commands \subseteq SingleEngines

VARIABLES
  problem,    \* the name of the transition system; never changes
  withAssumptions, \* --bmc-with-assumptions; never changes
  selected,   \* the property named by --property, or 0
  pc,         \* where the run is: see PCs
  engine,     \* the engine of the command, or the one in turn
  props,      \* the heuristic's ebmc_propertiest: index -> result fields
  work,       \* the engine's copy, property_checker_resultt::properties
  bound,      \* of the command, then of the BMC run in progress
  index       \* the next property, where there is a query for each

vars == <<problem, withAssumptions, selected, pc, engine, props, work, bound, index>>

PCs == {"start", "engine", "solve", "bit-level solve", "bmc done", "copy", "done", "error", "aborted"}

Statuses == {"UNKNOWN", "DISABLED", "ASSUMED", "UNSUPPORTED", "PROVED", "PROVED_WITH_BOUND",
             "REFUTED", "REFUTED_WITH_BOUND", "FAILURE", "INCONCLUSIVE"}

D == Problems[problem]

Ids  == DOMAIN D.props
P(i) == D.props[i]

\* The result fields.  trace: the witness_trace, as the set of properties that it
\* falsifies, or {} when there is none.
Res(s) == [status |-> s, bound |-> 0, trace |-> {}]

Results == [status : Statuses, bound : Nat, trace : {{}} \cup {{m} : m \in SUBSET Ids}]

IsAssumption(i)  == P(i).role = "assume"
IsExistsPath(i)  == P(i).role = "cover"
HasStatus(ps, i, ss) == ps[i].status \in ss

\* Setting a status leaves bound and witness_trace alone.
To(r, s) == [r EXCEPT !.status = s]

WithBound(r, s, b) == [r EXCEPT !.status = s, !.bound = b]

\* The verdict when a violation of the normalized property exists, and when none does.
ViolatedVerdict(i) == IF IsExistsPath(i) THEN "PROVED" ELSE "REFUTED"
HoldsVerdict(i)    == IF IsExistsPath(i) THEN "REFUTED" ELSE "PROVED"
BoundedVerdict(i)  == IF IsExistsPath(i) THEN "REFUTED_WITH_BOUND" ELSE "PROVED_WITH_BOUND"

HasUnfinished(ps) ==
  \E i \in Ids : /\ ~IsAssumption(i)
                 /\ HasStatus(ps, i, {"UNKNOWN", "UNSUPPORTED", "FAILURE", "INCONCLUSIVE"})

\* from_transition_system(), then select_property()
InitialStatus(i, sel) ==
  IF i = sel THEN "UNKNOWN"
  ELSE IF IsAssumption(i) THEN "ASSUMED"
  ELSE IF sel = 0 THEN "UNKNOWN" ELSE "DISABLED"

Init ==
  /\ problem \in DOMAIN Problems
  /\ selected \in {0} \cup Ids
  /\ props = [i \in Ids |-> Res(InitialStatus(i, selected))]
  /\ work = props
  /\ pc = "start"
  /\ withAssumptions \in Modes
  /\ \/ engine = "tautology" /\ bound = 0
     \/ engine \in Commands /\ bound \in Bounds
  /\ index = 1

Start ==
  /\ pc = "start"
  /\ pc' = IF engine \in SingleEngines \/ HasUnfinished(props) THEN "engine" ELSE "done"
  /\ UNCHANGED <<problem, withAssumptions, selected, engine, props, work, bound, index>>

\* An engine returns `ps`.
Return(ps) == work' = ps /\ pc' = "copy"

-----------------------------------------------------------------------------
\* Tautology check, and the transition property engine.

IsTautology(p) ==
  /\ p.form \in {"now", "next", "G", "F", "GF"}
  /\ p.form = "now" \/ p.lang = "LTL"
  /\ p.pred = Node

\* A query that the solver gives up leaves the property unknown.
TautologyEngine ==
  /\ pc = "engine" /\ engine = "tautology"
  /\ \E found \in SUBSET {i \in Ids : HasStatus(props, i, {"UNKNOWN"}) /\ IsTautology(P(i))} :
       Return([i \in Ids |-> IF i \in found THEN To(props[i], HoldsVerdict(i)) ELSE props[i]])
  /\ UNCHANGED <<problem, withAssumptions, selected, engine, props, bound, index>>

IsTransitionProperty(p) == p.form \in {"G", "GX"}

HoldsForAllTransitions(p) ==
  IF p.form = "G" THEN \A e \in Edges(D) : e[1] \in p.pred ELSE Edges(D) \subseteq p.step

TransitionPropertyEngine ==
  /\ pc = "engine" /\ engine = "transition property"
  /\ Return([i \in Ids |->
       IF ~HasStatus(props, i, {"UNKNOWN"}) THEN props[i]
       ELSE IF ~IsTransitionProperty(P(i)) THEN To(props[i], "UNSUPPORTED")
       ELSE IF HoldsForAllTransitions(P(i)) THEN To(props[i], HoldsVerdict(i))
       ELSE To(props[i], "INCONCLUSIVE")])
  /\ UNCHANGED <<problem, withAssumptions, selected, engine, props, bound, index>>

-----------------------------------------------------------------------------
\* Completeness threshold.  A threshold is a set of at most one number.

RecurrenceDiameterOneLess(d) == IF d.wide THEN {} ELSE {2 ^ Cardinality(Latches) - 2}

RecurrenceDiameter(d) == IF d.wide THEN {} ELSE {2 ^ Cardinality(Latches) - 1}

CompletenessThreshold(d, p) ==
  CASE p.form = "now"        -> {0}
    [] p.form = "next"       -> {1}
    [] p.form \in {"G", "F"} -> RecurrenceDiameter(d)
    [] OTHER                 -> {}

Thresholds(d) == UNION {CompletenessThreshold(d, d.props[i]) : i \in DOMAIN d.props}

\* max_completeness_threshold
MaxThreshold == CHOOSE b \in Thresholds(D) : \A c \in Thresholds(D) : c <= b

-----------------------------------------------------------------------------
\* bmc(b), on the statuses ps.

SkippedByBmc(ps, i) == HasStatus(ps, i, {"DISABLED", "FAILURE"})

\* have_supported_property(): an unsupported property fails; with none left the
\* run is over, otherwise the solver is set up.
EnterBmc(ps, b) ==
  LET marked == [i \in Ids |-> IF SkippedByBmc(ps, i) \/ BmcSupports(P(i))
                               THEN ps[i] ELSE To(ps[i], "FAILURE")]
  IN  /\ work' = marked
      /\ bound' = b
      /\ index' = 1
      /\ pc' = IF \E i \in Ids : ~SkippedByBmc(ps, i) /\ BmcSupports(P(i))
               THEN "solve" ELSE "bmc done"

\* The bounds that a BMC run may have.
BmcBounds(d) == {1, 5} \cup Bounds \cup Thresholds(d)

\* A path counts by the set of properties that it falsifies.  Models: these sets,
\* for every problem and every bound.
Models ==
  UNION {LET d == Problems[name] IN
         UNION {{<<name, b, {i \in DOMAIN d.props : Falsified(d.props[i], path, b)}>> :
                   path \in Paths(d, b)} : b \in BmcBounds(d)} :
           name \in DOMAIN Problems}

\* The models of the unwinding in which every assumed property holds.
AllModels == {m \in SUBSET Ids : <<problem, bound, m>> \in Models}

AssumedModels ==
  {m \in SUBSET {i \in Ids : ~HasStatus(work, i, {"ASSUMED"})} : <<problem, bound, m>> \in Models}

Found(i, m) == [work[i] EXCEPT !.status = ViolatedVerdict(i), !.trace = {m}]

NotFoundInTimeframes(i) == WithBound(work[i], BoundedVerdict(i), bound + 1)

NotFound(i) == WithBound(work[i], BoundedVerdict(i), bound)

\* The base case of k-induction never uses solver assumptions.
Strengthening == ~withAssumptions \/ engine \in {"one induction", "k-induction"}

\* Iterative constraint strengthening: some path falsifies an unknown property;
\* every unknown property that it falsifies is decided by it.
StrengthenSat ==
  /\ pc = "solve" /\ Strengthening
  /\ \E m \in AssumedModels :
       LET hit == {i \in m : HasStatus(work, i, {"UNKNOWN"})}
       IN  /\ hit # {}
           /\ work' = [i \in Ids |-> IF i \in hit THEN Found(i, m) ELSE work[i]]
  /\ UNCHANGED <<problem, withAssumptions, selected, pc, engine, props, bound, index>>

StrengthenUnsat ==
  /\ pc = "solve" /\ Strengthening
  /\ \A m \in AssumedModels : \A i \in m : ~HasStatus(work, i, {"UNKNOWN"})
  /\ work' = [i \in Ids |-> IF HasStatus(work, i, {"UNKNOWN"}) THEN NotFound(i) ELSE work[i]]
  /\ pc' = "bmc done"
  /\ UNCHANGED <<problem, withAssumptions, selected, engine, props, bound, index>>

StrengthenError ==
  /\ pc = "solve" /\ Strengthening
  /\ work' = [i \in Ids |-> IF HasStatus(work, i, {"UNKNOWN"}) THEN To(work[i], "FAILURE") ELSE work[i]]
  /\ pc' = "bmc done"
  /\ UNCHANGED <<problem, withAssumptions, selected, engine, props, bound, index>>

\* bmc_with_assumptions(): one query for each property, in the order of the list.
Advance(i) ==
  /\ index' = i + 1
  /\ pc' = IF i + 1 \in Ids THEN pc ELSE "bmc done"

SkippedByCheck(i) == HasStatus(work, i, {"DISABLED", "FAILURE", "ASSUMED"})

Falsifying(i) == {m \in AssumedModels : i \in m}

CheckProperty ==
  /\ pc = "solve" /\ ~Strengthening
  /\ LET i == index
     IN  /\ \/ SkippedByCheck(i) /\ UNCHANGED work
            \/ /\ ~SkippedByCheck(i)
               /\ \E m \in Falsifying(i) : work' = [work EXCEPT ![i] = Found(i, m)]
            \/ /\ ~SkippedByCheck(i)
               /\ Falsifying(i) = {}
               /\ work' = [work EXCEPT ![i] = NotFound(i)]
            \/ /\ ~SkippedByCheck(i)
               /\ work' = [work EXCEPT ![i] = To(@, "FAILURE")]
         /\ Advance(i)
  /\ UNCHANGED <<problem, withAssumptions, selected, engine, props, bound>>

-----------------------------------------------------------------------------
CTEngine ==
  /\ pc = "engine" /\ engine = "completeness threshold"
  /\ IF Thresholds(D) = {} THEN Return(props) /\ UNCHANGED <<bound, index>>
                        ELSE EnterBmc(props, MaxThreshold)
  /\ UNCHANGED <<problem, withAssumptions, selected, engine, props>>

\* A bounded proof at the bound of the run becomes a proof, or is forgotten.
Upgraded(i) ==
  IF ~HasStatus(work, i, {"PROVED_WITH_BOUND"}) THEN work[i]
  ELSE IF \E ct \in CompletenessThreshold(D, P(i)) : ct >= bound THEN To(work[i], "PROVED")
  ELSE To(work[i], "UNKNOWN")

CTFinish ==
  /\ pc = "bmc done" /\ engine = "completeness threshold"
  /\ Return([i \in Ids |-> Upgraded(i)])
  /\ UNCHANGED <<problem, withAssumptions, selected, engine, props, bound, index>>

-----------------------------------------------------------------------------
\* 1-induction.

InductionSupports(p) == p.form = "G"

\* An unsupported assumption is dropped: the base case does not constrain by it.
AssumptionUnsupported ==
  \E i \in Ids : HasStatus(props, i, {"ASSUMED"}) /\ ~InductionSupports(P(i))

Inductions == {"one induction", "k-induction"}

InductionDepth == IF engine = "one induction" THEN 1 ELSE bound

InductionEngine ==
  /\ pc = "engine" /\ engine \in Inductions
  /\ \E i \in Ids : InductionSupports(P(i))
  /\ EnterBmc([i \in Ids |->
        IF InductionSupports(P(i)) \/ HasStatus(props, i, {"DISABLED", "PROVED"})
        THEN props[i] ELSE To(props[i], "UNSUPPORTED")], InductionDepth)
  /\ UNCHANGED <<problem, withAssumptions, selected, engine, props>>

\* Without a property that k-induction supports the command throws; for the heuristic
\* the properties are unsupported.
InductionFailsEarly ==
  /\ pc = "engine" /\ engine \in Inductions
  /\ \A i \in Ids : ~InductionSupports(P(i))
  /\ \/ engine = "k-induction" /\ pc' = "error" /\ UNCHANGED work
     \/ /\ engine = "one induction"
        /\ Return([i \in Ids |-> IF HasStatus(props, i, {"ASSUMED", "DISABLED", "PROVED"})
                                  THEN props[i] ELSE To(props[i], "UNSUPPORTED")])
  /\ UNCHANGED <<problem, withAssumptions, selected, engine, props, bound, index>>

\* The step case: timeframes 0 .. k without an initial state, under the assumptions
\* that are still assumed; the property holds before timeframe k.
StepAssumption == {n \in Node : \A j \in Ids : HasStatus(work, j, {"ASSUMED"}) => n \in P(j).pred}

FreePaths == {Unwind(D, s, u, bound) : s \in State, u \in [0 .. bound -> Inputs]}

Inductive(i) ==
  \A path \in FreePaths :
    /\ \A t \in 0 .. bound : path[t] \in StepAssumption
    /\ \A t \in 0 .. bound - 1 : path[t] \in P(i).pred
    => path[bound] \in P(i).pred

PassedOverUnlessUnsupported(i) == HasStatus(work, i, {"DISABLED", "FAILURE", "ASSUMED", "PROVED"})

PassedOverUnlessProved(i) == HasStatus(work, i, {"DISABLED", "FAILURE", "ASSUMED", "UNSUPPORTED"})

\* Skipped before the support is looked at; a refuted property, after that.
PassedOver(i) == HasStatus(work, i, {"DISABLED", "FAILURE", "ASSUMED", "UNSUPPORTED", "PROVED"})

SkippedByStep(i) == PassedOver(i) \/ HasStatus(work, i, {"REFUTED"})

AfterStep(i) ==
  IF SkippedByStep(i) THEN work[i]
  ELSE To(work[i], IF Inductive(i) THEN HoldsVerdict(i) ELSE "INCONCLUSIVE")

\* With an unsupported assumption, refutations are inconclusive.
AfterInduction(i) ==
  IF AssumptionUnsupported /\ AfterStep(i).status = "REFUTED"
  THEN To(work[i], "INCONCLUSIVE") ELSE AfterStep(i)

InductionFinish ==
  /\ pc = "bmc done" /\ engine \in Inductions
  /\ IF \A i \in Ids : PassedOver(i) \/ InductionSupports(P(i))
     THEN Return([i \in Ids |-> AfterInduction(i)])
     ELSE pc' = "aborted" /\ UNCHANGED work      \* the DATA_INVARIANT
  /\ UNCHANGED <<problem, withAssumptions, selected, engine, props, bound, index>>

-----------------------------------------------------------------------------
\* Liveness lemmas.  A lemma comes from a property that is proved; the original
\* expression of an assumption is not an `always`, so it never yields one.

LemmaCandidatesUnproved == {i \in Ids : P(i).role = "assert"
                                /\ P(i).lang = "SVA" /\ P(i).form \in {"G", "GX"}}

LemmaCandidates == {i \in Ids : HasStatus(props, i, {"PROVED"}) /\ P(i).role = "assert"
                                /\ P(i).lang = "SVA" /\ P(i).form \in {"G", "GX"}}

Lemmas == {P(i).live : i \in {i \in LemmaCandidates : P(i).body = "rank"}}

\* The disjunct that is not `live` has to be a ranged always.
LemmaPrecondition == \A i \in LemmaCandidates : ~(P(i).form = "G" /\ P(i).body = "or")

LivenessLemmaEngine ==
  /\ pc = "engine" /\ engine = "liveness lemma"
  /\ IF LemmaPrecondition
     THEN Return([i \in Ids |->
            IF HasStatus(props, i, {"UNKNOWN"}) /\ P(i).form = "GF" /\ P(i).lang = "SVA"
               /\ P(i).pred \in Lemmas
            THEN To(props[i], "PROVED") ELSE props[i]])
     ELSE pc' = "aborted" /\ UNCHANGED work
  /\ UNCHANGED <<problem, withAssumptions, selected, engine, props, bound, index>>

-----------------------------------------------------------------------------
\* BMC with bound 5, and the command with a bound.

BmcEngine ==
  /\ pc = "engine" /\ engine \in {"BMC with bound 5", "word-level BMC"}
  /\ EnterBmc(props, IF engine = "word-level BMC" THEN bound ELSE 5)
  /\ UNCHANGED <<problem, withAssumptions, selected, engine, props>>

BmcFinish ==
  /\ pc = "bmc done" /\ engine \in {"BMC with bound 5", "word-level BMC"}
  /\ Return(work)
  /\ UNCHANGED <<problem, withAssumptions, selected, engine, props, bound, index>>

-----------------------------------------------------------------------------
\* BMC on the netlist.  What it does not support fails, assumptions too; there is one
\* query for each property, and its verdict is the one of an assertion.

NetlistSupports(p) == p.form = "G"

BitLevelEngine ==
  /\ pc = "engine" /\ engine = "bit-level BMC"
  /\ work' = [i \in Ids |-> IF HasStatus(props, i, {"DISABLED"}) \/ NetlistSupports(P(i))
                            THEN props[i] ELSE To(props[i], "FAILURE")]
  /\ index' = 1
  /\ pc' = "bit-level solve"
  /\ UNCHANGED <<problem, withAssumptions, selected, engine, props, bound>>

BitLevelVerdicts(i) ==
  {[work[i] EXCEPT !.status = "REFUTED", !.trace = {m}] : m \in Falsifying(i)}
  \cup {r \in {WithBound(work[i], "PROVED_WITH_BOUND", bound)} : Falsifying(i) = {}}

BitLevelNext(i) ==
  /\ index' = i + 1
  /\ pc' = IF i + 1 \in Ids THEN pc ELSE "copy"

BitLevelCheck ==
  /\ pc = "bit-level solve"
  /\ LET i == index
     IN  \/ SkippedByCheck(i) /\ UNCHANGED work /\ BitLevelNext(i)
         \/ /\ ~SkippedByCheck(i)
            /\ \E r \in BitLevelVerdicts(i) : work' = [work EXCEPT ![i] = r]
            /\ BitLevelNext(i)
         \/ ~SkippedByCheck(i) /\ pc' = "error" /\ UNCHANGED <<work, index>>
  /\ UNCHANGED <<problem, withAssumptions, selected, engine, props, bound>>

-----------------------------------------------------------------------------
\* The transition property engine and the step case throw on a solver error.
Throw ==
  /\ \/ /\ pc = "engine" /\ engine = "transition property"
        /\ \E i \in Ids : HasStatus(props, i, {"UNKNOWN"}) /\ IsTransitionProperty(P(i))
     \/ /\ pc = "bmc done" /\ engine \in Inductions
        /\ \E i \in Ids : ~SkippedByStep(i)
  /\ pc' = "error"
  /\ UNCHANGED <<problem, withAssumptions, selected, engine, props, work, bound, index>>

\* engines[]
NextEngine ==
  [e \in {"tautology", "transition property", "completeness threshold", "one induction",
          "liveness lemma"} |->
     CASE e = "tautology"              -> "transition property"
       [] e = "transition property"    -> "completeness threshold"
       [] e = "completeness threshold" -> "one induction"
       [] e = "one induction"          -> "liveness lemma"
       [] OTHER                        -> "BMC with bound 5"]

\* reset_failure(), reset_inconclusive(), reset_unsupported()
ResetInconclusiveKept(i, r) ==
  IF r.status \in {"FAILURE", "UNSUPPORTED"}
  THEN To(r, IF IsAssumption(i) THEN "ASSUMED" ELSE "UNKNOWN") ELSE r

ResetFailureOnly(i, r) ==
  IF r.status = "FAILURE" THEN To(r, IF IsAssumption(i) THEN "ASSUMED" ELSE "UNKNOWN")
  ELSE IF r.status \in {"UNSUPPORTED", "INCONCLUSIVE"} /\ ~IsAssumption(i) THEN To(r, "UNKNOWN") ELSE r

Reset(i, r) ==
  IF r.status \in {"FAILURE", "UNSUPPORTED"}
  THEN To(r, IF IsAssumption(i) THEN "ASSUMED" ELSE "UNKNOWN")
  ELSE IF r.status = "INCONCLUSIVE" THEN To(r, "UNKNOWN") ELSE r

\* copy_results_to(), and on to the next engine.
CopyResults ==
  /\ pc = "copy"
  /\ IF engine \notin SingleEngines /\ HasUnfinished(work)
     THEN /\ props' = [i \in Ids |-> Reset(i, work[i])]
          /\ IF engine \in DOMAIN NextEngine
             THEN engine' = NextEngine[engine] /\ pc' = "engine"
             ELSE UNCHANGED engine /\ pc' = "done"
     ELSE props' = work /\ pc' = "done" /\ UNCHANGED engine
  /\ UNCHANGED <<problem, withAssumptions, selected, work, bound, index>>

Terminated == pc \in {"done", "error", "aborted"} /\ UNCHANGED vars

Next ==
  \/ Start \/ TautologyEngine \/ TransitionPropertyEngine
  \/ StrengthenSat \/ StrengthenUnsat \/ StrengthenError \/ CheckProperty
  \/ CTEngine \/ CTFinish \/ InductionEngine \/ InductionFailsEarly \/ InductionFinish
  \/ LivenessLemmaEngine \/ BmcEngine \/ BmcFinish \/ BitLevelEngine \/ BitLevelCheck
  \/ Throw \/ CopyResults
  \/ Terminated

Spec == Init /\ [][Next]_vars

-----------------------------------------------------------------------------
(***************************************************************************)
(* Properties.                                                             *)
(***************************************************************************)

\* The reference verdicts: the timeframes by which some word that meets every
\* assumption violates property i of d; empty when the property holds.
MeetsAssumptions(d, sel, w) ==
  \A i \in DOMAIN d.props : d.props[i].role = "assume" /\ i # sel => ViolatedBy(d.props[i], w) = {}

Truth ==
  UNION {LET d == Problems[name]
             words == Words(d, Horizon)
         IN UNION {LET fair == {w \in words : MeetsAssumptions(d, sel, w)} IN
                   UNION {{<<name, sel, i, t>> : t \in UNION {ViolatedBy(d.props[i], w) : w \in fair}} :
                            i \in DOMAIN d.props} :
                     sel \in {0} \cup DOMAIN d.props} :
           name \in DOMAIN Problems}

Violations(i) == {t \in 0 .. Horizon : <<problem, selected, i, t>> \in Truth}

\* What the verdicts are right for.  A property is an assumption unless it is selected.
AssumptionsOf(d, sel) ==
  {d.props[i] : i \in {i \in DOMAIN d.props : d.props[i].role = "assume" /\ i # sel}}

\* An assumed liveness property constrains the lassos of a path and not its runs.
SafetyAssumptions(d) ==
  \A i \in DOMAIN d.props : d.props[i].role = "assume" => d.props[i].form \notin {"F", "GF"}

\* The completeness threshold is one for invariants under invariants.
ThresholdFits(d) ==
  ~d.wide => \A i \in DOMAIN d.props :
               d.props[i].form # "F" /\ (d.props[i].role = "assume" => d.props[i].form = "G")

\* A ranking lemma says that a number decreases while `live` does not hold.
RankingsDecrease(d, Ranks) ==
  \A i \in DOMAIN d.props :
    d.props[i].body = "rank" =>
      /\ d.props[i].form = "GX"
      /\ \E rank \in [Node -> Ranks] : \A e \in d.props[i].step :
           e[1] \in d.props[i].live \/ rank[e[2]] < rank[e[1]]

\* k-induction may drop an assumption and keep the cover that was found without it.
CoversFit(d) ==
  (\E i \in DOMAIN d.props : d.props[i].role = "cover") =>
    \A i \in DOMAIN d.props : d.props[i].role = "assume" => d.props[i].form = "G"

\* The horizon is beyond every bound, and no path of a query runs into a dead end of the
\* assumptions before it comes back.
Completable(d) ==
  \A sel \in {0} \cup DOMAIN d.props, b \in BmcBounds(d) :
    /\ b <= Horizon
    /\ \A path \in Paths(d, b) :
         (\A q \in AssumptionsOf(d, sel) : ~Falsified(q, path, b)) =>
            \E w \in Words(d, Horizon) :
              /\ w.last >= b /\ \A t \in 0 .. b : w.path[t] = path[t]
              /\ MeetsAssumptions(d, sel, w)

\* Bit-level BMC is wrong on covers, and when it drops an assumption.
WithinBitLevel(i) ==
  /\ ~IsExistsPath(i)
  /\ \A j \in Ids : IsAssumption(j) /\ j # selected => NetlistSupports(P(j))

\* Assertions and covers, without the properties that no engine supports.
Checked == {i \in Ids : /\ ~IsAssumption(i)
                        /\ BmcSupports(P(i))
                        /\ engine = "bit-level BMC" => WithinBitLevel(i)}

\* The variables have their types; a result that no engine may leave behind, FAILURE,
\* UNSUPPORTED or INCONCLUSIVE, is never the input of an engine.
TypeOK ==
  /\ problem \in DOMAIN Problems
  /\ selected \in {0} \cup Ids
  /\ pc \in PCs
  /\ withAssumptions \in Modes
  /\ engine \in {"BMC with bound 5"} \cup DOMAIN NextEngine \cup Commands
  /\ props \in [Ids -> Results] /\ work \in [Ids -> Results]
  /\ pc = "engine" => \A i \in Ids : ~HasStatus(props, i, {"FAILURE", "UNSUPPORTED", "INCONCLUSIVE"})
  /\ index \in Nat /\ (pc \in {"solve", "bit-level solve"} => index \in Ids)
  /\ bound \in Nat

\* No violation exists of what is PROVED for good; none exists of a cover that is
\* REFUTED for good (ebmc_properties.h: "property is true, unbounded").
ProvedIsSound ==
  \A i \in Checked : HasStatus(props, i, {HoldsVerdict(i)}) => Violations(i) = {}

\* A violation exists, within the assumptions, of what is REFUTED; a witness
\* exists of a cover that is PROVED.
RefutedIsSound ==
  \A i \in Checked : HasStatus(props, i, {ViolatedVerdict(i)}) => Violations(i) # {}

\* A verdict with a bound is right about every run up to that bound.
BoundedIsSound ==
  \A i \in Checked : HasStatus(props, i, {BoundedVerdict(i)}) =>
    \A t \in Violations(i) : t > props[i].bound

\* An engine may mark an assumption that it cannot use as UNSUPPORTED or FAILURE,
\* but the next engine gets every assumption back.
AssumptionsRestored ==
  pc = "engine" => \A i \in Ids : IsAssumption(i) /\ i # selected => HasStatus(props, i, {"ASSUMED"})

\* The trace that is reported with a verdict keeps the assumptions and shows the
\* violation (or the cover).
TracesShowVerdict ==
  \A i \in Checked : HasStatus(props, i, {ViolatedVerdict(i)}) =>
    \A m \in props[i].trace :
      i \in m /\ \A j \in m : ~(IsAssumption(j) /\ j # selected)

\* The step case of k-induction never meets a property that k-induction does not
\* support (its DATA_INVARIANT): only the liveness lemma engine may abort.
InductionNeverAborts == pc = "aborted" => engine = "liveness lemma"

\* A verdict without a bound is not taken back by a later engine.  There are two
\* exceptions: bmc_with_assumptions() checks, and may replace, what is already proved;
\* and k-induction, when it drops an assumption, withdraws what was known of a cover.
VerdictStands(i) == ~withAssumptions /\ (IsExistsPath(i) => ~AssumptionUnsupported)

ProvedIsFinal ==
  [][\A i \in Ids : VerdictStands(i) /\ HasStatus(props, i, {HoldsVerdict(i)}) =>
                      HasStatus(props', i, {HoldsVerdict(i)})]_props

=============================================================================
