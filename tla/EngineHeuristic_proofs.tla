--------------------------- MODULE EngineHeuristic_proofs ---------------------------
(***************************************************************************)
(* What holds of the statuses for every list of problems: engines leave    *)
(* the assumptions to their successors, 1-induction never meets a property *)
(* that it does not support, and a verdict without a bound stands.         *)
(***************************************************************************)
EXTENDS EngineHeuristic, WordLevel_proofs, TLAPS

Assumed(i) == IsAssumption(i) /\ i # selected

\* What the engines rely on, property by property.
AssumptionKept(i) ==
  Assumed(i) /\ pc # "done" =>
    /\ HasStatus(props, i, {"ASSUMED"})
    /\ HasStatus(work, i, {"ASSUMED", "FAILURE", "UNSUPPORTED"})
    /\ pc \in {"solve", "bit-level solve"} /\ engine \notin Inductions =>
         HasStatus(work, i, {"ASSUMED", "FAILURE"})

ReadyForStep(i) ==
  pc \in {"solve", "bmc done"} /\ engine \in Inductions =>
    InductionSupports(P(i)) \/ HasStatus(work, i, {"DISABLED", "PROVED", "UNSUPPORTED", "FAILURE"})

ProvedIsSupported(i) ==
  ~IsExistsPath(i) /\ (HasStatus(props, i, {"PROVED"}) \/ HasStatus(work, i, {"PROVED"})) =>
    BmcSupports(P(i))

NoVerdictYet(i) ==
  pc = "start" \/ (engine \in SingleEngines /\ pc # "done") =>
    HasStatus(props, i, {"UNKNOWN", "ASSUMED", "DISABLED"})

VerdictKept(i) ==
  /\ pc \in {"solve", "bmc done", "copy"}
  /\ VerdictStands(i)
  /\ HasStatus(props, i, {HoldsVerdict(i)})
  => HasStatus(work, i, {HoldsVerdict(i)})

StatusInv(i) ==
  /\ AssumptionKept(i)
  /\ ReadyForStep(i)
  /\ ProvedIsSupported(i)
  /\ NoVerdictYet(i)
  /\ VerdictKept(i)

\* Which engines reach which part of the run.
EngineOfPc ==
  /\ pc = "bit-level solve" => engine = "bit-level BMC"
  /\ InductionNeverAborts

EngineInv == TypeOK /\ EngineOfPc /\ \A i \in Ids : StatusInv(i)

-----------------------------------------------------------------------------
\* The constants.

LEMMA ProblemType ==
  ASSUME problem \in DOMAIN Problems
  PROVE  /\ D \in Problem
         /\ \E n \in Nat \ {0} : Ids = 1 .. n
         /\ \A i \in Ids : P(i) \in Property
         /\ \A i \in Ids : IsExistsPath(i) => P(i).form = "G"
<1>1. D \in Problem /\ D.props # <<>>
  BY ProblemAssumption DEF D
<1>2. D.props \in Seq(Property)
  BY <1>1 DEF Problem
<1>3. DOMAIN D.props = 1 .. Len(D.props) /\ Len(D.props) \in Nat
  BY <1>2
<1>4. Len(D.props) # 0
  BY <1>1, <1>2
<1>5. \A i \in Ids : P(i) \in Property
  BY <1>2, <1>3 DEF Ids, P
<1>6. \A i \in Ids : IsExistsPath(i) => P(i).form = "G"
  BY ProblemAssumption DEF D, Ids, P, IsExistsPath
<1> QED BY <1>1, <1>3, <1>4, <1>5, <1>6 DEF Ids

\* No step changes the problem.
LEMMA SameProblem ==
  ASSUME Next
  PROVE  /\ problem' = problem /\ withAssumptions' = withAssumptions /\ selected' = selected
         /\ D' = D /\ Ids' = Ids /\ Results' = Results
<1>1. problem' = problem /\ withAssumptions' = withAssumptions /\ selected' = selected
  BY DEF Next, Start, TautologyEngine, TransitionPropertyEngine, StrengthenSat, StrengthenUnsat,
         StrengthenError, CheckProperty, CTEngine, CTFinish, InductionEngine, InductionFailsEarly,
         InductionFinish, LivenessLemmaEngine, BmcEngine, BmcFinish, BitLevelEngine, BitLevelCheck,
         Throw, CopyResults, Terminated, vars
<1>2. D' = D
  BY <1>1 DEF D
<1>3. Ids' = Ids
  BY <1>2 DEF Ids
<1> QED BY <1>1, <1>2, <1>3 DEF Results

LEMMA MaxThresholdIsNat ==
  ASSUME problem \in DOMAIN Problems, Thresholds(D) # {}
  PROVE  /\ MaxThreshold \in Nat
         /\ MaxThreshold \in Thresholds(D) /\ \A b \in Thresholds(D) : b <= MaxThreshold
<1>1. \A p : CompletenessThreshold(D, p) \subseteq {0, 1, 2 ^ Cardinality(Latches) - 1}
  BY DEF CompletenessThreshold, RecurrenceDiameter
<1>2. Thresholds(D) \subseteq {0, 1, 2 ^ Cardinality(Latches) - 1}
  BY <1>1 DEF Thresholds
<1> DEFINE c == 2 ^ Cardinality(Latches) - 1
<1>3. c \in Nat
  BY LatchAssumption, StateCount
<1>4. Thresholds(D) \subseteq {0, 1, c}
  BY <1>2
<1> HIDE DEF c
<1>5. \E b \in Thresholds(D) : \A e \in Thresholds(D) : e <= b
  <2>1. CASE c \in Thresholds(D) /\ c # 0
    BY <1>3, <1>4, <2>1
  <2>2. CASE c \notin Thresholds(D) \/ c = 0
    <3>1. Thresholds(D) \subseteq {0, 1}
      BY <1>4, <2>2
    <3> QED BY <3>1
  <2> QED BY <2>1, <2>2
<1>6. MaxThreshold \in Thresholds(D) /\ \A b \in Thresholds(D) : b <= MaxThreshold
  BY <1>5 DEF MaxThreshold
<1> QED BY <1>3, <1>4, <1>6

\* The result fields after a change of status.
LEMMA ResultTypes ==
  ASSUME NEW r \in Results
  PROVE  /\ \A s \in Statuses : To(r, s) \in Results /\ To(r, s).status = s
         /\ \A s \in Statuses, b \in Nat : WithBound(r, s, b) \in Results /\ WithBound(r, s, b).status = s
         /\ \A s \in Statuses, m \in SUBSET Ids :
              LET f == [r EXCEPT !.status = s, !.trace = {m}] IN f \in Results /\ f.status = s
<1>1. ASSUME NEW s \in Statuses PROVE To(r, s) \in Results /\ To(r, s).status = s
  BY DEF Results, To
<1>2. ASSUME NEW s \in Statuses, NEW b \in Nat
      PROVE  WithBound(r, s, b) \in Results /\ WithBound(r, s, b).status = s
  BY DEF Results, WithBound
<1>3. ASSUME NEW s \in Statuses, NEW m \in SUBSET Ids
      PROVE  LET f == [r EXCEPT !.status = s, !.trace = {m}] IN f \in Results /\ f.status = s
  BY DEF Results
<1> QED BY <1>1, <1>2, <1>3

LEMMA VerdictTypes ==
  ASSUME NEW i
  PROVE  {ViolatedVerdict(i), HoldsVerdict(i), BoundedVerdict(i)} \subseteq Statuses
BY DEF ViolatedVerdict, HoldsVerdict, BoundedVerdict, Statuses

-----------------------------------------------------------------------------
\* Types.

\* The answers of BMC.
LEMMA AnswerTypes ==
  ASSUME TypeOK, NEW i \in Ids
  PROVE  /\ \A s \in Statuses : To(work[i], s) \in Results /\ To(props[i], s) \in Results
         /\ \A m \in SUBSET Ids : Found(i, m) \in Results
         /\ NotFound(i) \in Results
         /\ {To(props[i], HoldsVerdict(i)), To(work[i], HoldsVerdict(i))} \subseteq Results
<1>1. work[i] \in Results /\ props[i] \in Results /\ bound \in Nat
  BY DEF TypeOK
<1>2. \A s \in Statuses : To(work[i], s) \in Results /\ To(props[i], s) \in Results
  BY <1>1, ResultTypes
<1>3. \A m \in SUBSET Ids : Found(i, m) \in Results
  BY <1>1, ResultTypes, VerdictTypes DEF Found
<1>4. NotFound(i) \in Results
  BY <1>1, ResultTypes, VerdictTypes DEF NotFound
<1> QED BY <1>2, <1>3, <1>4, VerdictTypes

LEMMA EnterBmcTypes ==
  ASSUME TypeOK, NEW ps \in [Ids -> Results], NEW b \in Nat, EnterBmc(ps, b)
  PROVE  work' \in [Ids -> Results] /\ bound' \in Nat /\ index' = 1 /\ pc' \in {"solve", "bmc done"}
<1>1. \A i \in Ids : To(ps[i], "FAILURE") \in Results
  BY ResultTypes DEF Statuses
<1> QED BY <1>1 DEF EnterBmc

LEMMA TypeInit == ASSUME Init PROVE TypeOK
<1>1. \A i : InitialStatus(i, selected) \in Statuses \ {"FAILURE", "UNSUPPORTED", "INCONCLUSIVE"}
  BY DEF InitialStatus, Statuses
<1>2. \A i : Res(InitialStatus(i, selected)) \in Results
  BY <1>1 DEF Res, Results
<1>3. props \in [Ids -> Results] /\ work = props
  BY <1>2 DEF Init
<1>4. engine \in {"BMC with bound 5"} \cup DOMAIN NextEngine \cup Commands
  BY DEF Init, NextEngine
<1>5. bound \in Nat
  <2>1. bound = 0 \/ bound \in Bounds
    BY DEF Init
  <2>2. \A b \in Bounds : b \in Nat
    BY BoundAssumption
  <2> QED BY <2>1, <2>2
<1> QED BY <1>3, <1>4, <1>5 DEF Init, TypeOK, PCs

LEMMA TypeStep == ASSUME TypeOK, \A i \in Ids : NoVerdictYet(i), Next PROVE TypeOK'
<1>1. /\ problem' \in DOMAIN Problems /\ selected' \in {0} \cup Ids' /\ withAssumptions' \in Modes
      /\ Ids' = Ids /\ Results' = Results
  BY SameProblem DEF TypeOK
<1>2. PICK n \in Nat \ {0} : Ids = 1 .. n
  BY ProblemType DEF TypeOK
<1>3. 1 \in Ids
  BY <1>2
<1> DEFINE Moved == /\ pc' \in PCs
                    /\ engine' \in {"BMC with bound 5"} \cup DOMAIN NextEngine \cup Commands
                    /\ props' \in [Ids -> Results] /\ work' \in [Ids -> Results]
                    /\ pc' = "engine" =>
                         \A i \in Ids : props'[i].status \notin {"FAILURE", "UNSUPPORTED", "INCONCLUSIVE"}
                    /\ index' \in Nat /\ (pc' \in {"solve", "bit-level solve"} => index' \in Ids)
                    /\ bound' \in Nat
<1>4. SUFFICES Moved
  BY <1>1 DEF TypeOK, HasStatus
<1>5. CASE Start
  <2>1. pc' = "engine" => \A i \in Ids : props[i].status \notin {"FAILURE", "UNSUPPORTED", "INCONCLUSIVE"}
    BY <1>5 DEF Start, NoVerdictYet, HasStatus
  <2> QED BY <1>5, <2>1 DEF Start, TypeOK, PCs
<1>6. CASE TautologyEngine
  BY <1>6, AnswerTypes DEF TautologyEngine, TypeOK, PCs, Return
<1>7. CASE TransitionPropertyEngine
  BY <1>7, AnswerTypes DEF TransitionPropertyEngine, TypeOK, PCs, Return, Statuses
<1>8. CASE StrengthenSat
  <2>1. PICK m \in AssumedModels :
          work' = [i \in Ids |-> IF i \in {j \in m : HasStatus(work, j, {"UNKNOWN"})}
                                   THEN Found(i, m) ELSE work[i]]
    BY <1>8 DEF StrengthenSat
  <2>2. m \in SUBSET Ids
    BY DEF AssumedModels
  <2>3. work' \in [Ids -> Results]
    BY <2>1, <2>2, AnswerTypes DEF TypeOK
  <2> QED BY <1>8, <2>3 DEF StrengthenSat, TypeOK
<1>9. CASE StrengthenUnsat
  BY <1>9, AnswerTypes DEF StrengthenUnsat, TypeOK, PCs
<1>10. CASE StrengthenError
  BY <1>10, AnswerTypes DEF StrengthenError, TypeOK, PCs, Statuses
<1>11. CASE CheckProperty
  <2>1. index \in Ids
    BY <1>11 DEF CheckProperty, TypeOK
  <2>2. \A m \in Falsifying(index) : Found(index, m) \in Results
    BY <2>1, AnswerTypes DEF Falsifying, AssumedModels
  <2>3. NotFound(index) \in Results /\ To(work[index], "FAILURE") \in Results
    BY <2>1, AnswerTypes DEF Statuses
  <2>4. work' \in [Ids -> Results]
    BY <1>11, <2>2, <2>3 DEF CheckProperty, TypeOK
  <2>5. Advance(index)
    BY <1>11 DEF CheckProperty
  <2>6. pc = "solve" /\ engine' = engine /\ props' = props /\ bound' = bound
    BY <1>11 DEF CheckProperty
  <2>7. index' \in Nat /\ pc' \in {"solve", "bmc done"} /\ (pc' = "solve" => index' \in Ids)
    <3>1. index \in Nat
      BY DEF TypeOK
    <3>2. index' = index + 1
      BY <2>5 DEF Advance
    <3>3. pc' = "bmc done" \/ (pc' = pc /\ index' \in Ids)
      BY <2>5, <3>2 DEF Advance
    <3>4. index' \in Nat
      BY <3>1, <3>2
    <3> QED BY <2>6, <3>3, <3>4
  <2> QED BY <2>4, <2>6, <2>7 DEF TypeOK, PCs
<1>12. CASE CTEngine
  <2>1. CASE Thresholds(D) = {}
    BY <1>12, <2>1 DEF CTEngine, TypeOK, PCs, Return
  <2>2. CASE Thresholds(D) # {}
    <3>1. MaxThreshold \in Nat /\ EnterBmc(props, MaxThreshold)
      BY <1>12, <2>2, MaxThresholdIsNat DEF CTEngine, TypeOK
    <3>2. work' \in [Ids -> Results] /\ bound' \in Nat /\ index' = 1 /\ pc' \in {"solve", "bmc done"}
      BY <3>1, EnterBmcTypes DEF TypeOK
    <3> QED BY <1>3, <1>12, <3>2 DEF CTEngine, TypeOK, PCs
  <2> QED BY <2>1, <2>2
<1>13. CASE CTFinish
  <2>1. \A i \in Ids : Upgraded(i) \in Results
    BY AnswerTypes DEF Upgraded, TypeOK, Statuses
  <2> QED BY <1>13, <2>1 DEF CTFinish, TypeOK, PCs, Return
<1>14. CASE InductionEngine
  <2> DEFINE ps == [i \in Ids |-> IF InductionSupports(P(i)) \/ HasStatus(props, i, {"DISABLED", "PROVED"})
                                   THEN props[i] ELSE To(props[i], "UNSUPPORTED")]
  <2>1. ps \in [Ids -> Results]
    BY AnswerTypes DEF TypeOK, Statuses
  <2>2. InductionDepth \in Nat /\ EnterBmc(ps, InductionDepth)
    BY <1>14 DEF InductionEngine, InductionDepth, TypeOK
  <2>3. work' \in [Ids -> Results] /\ bound' \in Nat /\ index' = 1 /\ pc' \in {"solve", "bmc done"}
    BY <2>1, <2>2, EnterBmcTypes
  <2> QED BY <1>3, <1>14, <2>3 DEF InductionEngine, TypeOK, PCs
<1>15. CASE InductionFailsEarly
  BY <1>15, AnswerTypes DEF InductionFailsEarly, TypeOK, PCs, Return, Statuses
<1>16. CASE InductionFinish
  <2>1. \A i \in Ids : AfterInduction(i) \in Results
    BY AnswerTypes DEF AfterInduction, AfterStep, TypeOK, Statuses
  <2> QED BY <1>16, <2>1 DEF InductionFinish, TypeOK, PCs, Return
<1>17. CASE LivenessLemmaEngine
  BY <1>17, AnswerTypes DEF LivenessLemmaEngine, TypeOK, PCs, Return, Statuses
<1>18. CASE BmcEngine
  <2>1. PICK b \in Nat : EnterBmc(props, b)
    BY <1>18 DEF BmcEngine, TypeOK
  <2>2. work' \in [Ids -> Results] /\ bound' \in Nat /\ index' = 1 /\ pc' \in {"solve", "bmc done"}
    BY <2>1, EnterBmcTypes DEF TypeOK
  <2> QED BY <1>3, <1>18, <2>2 DEF BmcEngine, TypeOK, PCs
<1>19. CASE BmcFinish
  BY <1>19 DEF BmcFinish, TypeOK, PCs, Return
<1>20. CASE BitLevelEngine
  BY <1>3, <1>20, AnswerTypes DEF BitLevelEngine, TypeOK, PCs, Statuses
<1>21. CASE BitLevelCheck
  <2>1. index \in Ids
    BY <1>21 DEF BitLevelCheck, TypeOK
  <2>2. BitLevelVerdicts(index) \subseteq Results
    <3>1. \A m \in Falsifying(index) : m \in SUBSET Ids
      BY DEF Falsifying, AssumedModels
    <3>2. work[index] \in Results /\ bound \in Nat
      BY <2>1 DEF TypeOK
    <3>3. WithBound(work[index], "PROVED_WITH_BOUND", bound) \in Results
      BY <3>2, ResultTypes DEF Statuses
    <3>4. \A m \in Falsifying(index) : [work[index] EXCEPT !.status = "REFUTED", !.trace = {m}] \in Results
      BY <3>1, <3>2, ResultTypes DEF Statuses
    <3> QED BY <3>3, <3>4 DEF BitLevelVerdicts
  <2>3. work' \in [Ids -> Results]
    BY <1>21, <2>2 DEF BitLevelCheck, TypeOK
  <2>4. \/ index' = index + 1 /\ pc' = IF index + 1 \in Ids THEN pc ELSE "copy"
        \/ index' = index /\ pc' = "error"
    BY <1>21 DEF BitLevelCheck, BitLevelNext
  <2>5. pc = "bit-level solve" /\ engine' = engine /\ props' = props /\ bound' = bound
    BY <1>21 DEF BitLevelCheck
  <2>6. index' \in Nat /\ pc' \in {"bit-level solve", "copy", "error"} /\ (pc' = "bit-level solve" => index' \in Ids)
    <3>1. index \in Nat
      BY DEF TypeOK
    <3>2. index' \in Nat
      BY <2>4, <3>1
    <3> QED BY <2>4, <2>5, <3>2
  <2> QED BY <2>3, <2>5, <2>6 DEF TypeOK, PCs
<1>22. CASE Throw
  BY <1>22 DEF Throw, TypeOK, PCs
<1>23. CASE CopyResults
  <2>1. \A i \in Ids : /\ Reset(i, work[i]) \in Results
                         /\ Reset(i, work[i]).status \notin {"FAILURE", "UNSUPPORTED", "INCONCLUSIVE"}
    <3> SUFFICES ASSUME NEW i \in Ids PROVE /\ Reset(i, work[i]) \in Results
                         /\ Reset(i, work[i]).status \notin {"FAILURE", "UNSUPPORTED", "INCONCLUSIVE"}
      OBVIOUS
    <3>1. work[i] \in Results
      BY DEF TypeOK
    <3>2. \A s \in {"ASSUMED", "UNKNOWN"} : To(work[i], s) \in Results /\ To(work[i], s).status = s
      <4>1. {"ASSUMED", "UNKNOWN"} \subseteq Statuses
        BY DEF Statuses
      <4>2. \A s \in Statuses : To(work[i], s) \in Results /\ To(work[i], s).status = s
        BY <3>1, ResultTypes
      <4> QED BY <4>1, <4>2
    <3> QED BY <3>1, <3>2 DEF Reset
  <2>2. \A e \in DOMAIN NextEngine : NextEngine[e] \in {"BMC with bound 5"} \cup DOMAIN NextEngine
    BY DEF NextEngine
  <2> QED BY <1>23, <2>1, <2>2 DEF CopyResults, TypeOK, PCs
<1>24. CASE Terminated
  BY <1>24 DEF Terminated, vars, TypeOK
<1> QED
  BY <1>5, <1>6, <1>7, <1>8, <1>9, <1>10, <1>11, <1>12, <1>13, <1>14, <1>15, <1>16, <1>17, <1>18,
     <1>19, <1>20, <1>21, <1>22, <1>23, <1>24 DEF Next

-----------------------------------------------------------------------------
\* Statuses.

LEMMA StatusInit == ASSUME Init, NEW i \in Ids PROVE StatusInv(i)
<1>1. /\ props[i].status = InitialStatus(i, selected) /\ work = props /\ pc = "start"
  BY DEF Init, Res
<1>2. InitialStatus(i, selected) \in {"UNKNOWN", "ASSUMED", "DISABLED"}
  BY DEF InitialStatus
<1>3. Assumed(i) => InitialStatus(i, selected) = "ASSUMED"
  BY DEF InitialStatus, Assumed
<1> QED
  BY <1>1, <1>2, <1>3 DEF StatusInv, AssumptionKept, ReadyForStep, ProvedIsSupported, NoVerdictYet,
     VerdictKept, HasStatus

\* What a step has to do for property i, in terms of the state before it.
StepIsFine(i) ==
  /\ Assumed(i) /\ pc' # "done" =>
       /\ props'[i].status = "ASSUMED"
       /\ work'[i].status \in {"ASSUMED", "FAILURE", "UNSUPPORTED"}
       /\ pc' \in {"solve", "bit-level solve"} /\ engine' \notin Inductions =>
            work'[i].status \in {"ASSUMED", "FAILURE"}
  /\ pc' \in {"solve", "bmc done"} /\ engine' \in Inductions =>
       InductionSupports(P(i)) \/ work'[i].status \in {"DISABLED", "PROVED", "UNSUPPORTED", "FAILURE"}
  /\ ~IsExistsPath(i) /\ (props'[i].status = "PROVED" \/ work'[i].status = "PROVED") => BmcSupports(P(i))
  /\ pc' = "start" \/ (engine' \in SingleEngines /\ pc' # "done") =>
       props'[i].status \in {"UNKNOWN", "ASSUMED", "DISABLED"}
  /\ pc' \in {"solve", "bmc done", "copy"} =>
       /\ props' = props
       /\ VerdictStands(i) /\ props[i].status = HoldsVerdict(i) => work'[i].status = HoldsVerdict(i)

LEMMA StepIsEnough ==
  ASSUME Next, NEW i \in Ids, StepIsFine(i) PROVE StatusInv(i)'
<1>1. D' = D /\ Ids' = Ids /\ selected' = selected /\ withAssumptions' = withAssumptions
  BY SameProblem
<1>2. P(i)' = P(i) /\ Assumed(i)' = Assumed(i) /\ IsExistsPath(i)' = IsExistsPath(i)
  BY <1>1 DEF P, Assumed, IsAssumption, IsExistsPath
<1>3. props' = props => (AssumptionUnsupported' <=> AssumptionUnsupported)
  BY <1>1 DEF AssumptionUnsupported, P
<1>4. HoldsVerdict(i)' = HoldsVerdict(i)
  BY <1>2 DEF HoldsVerdict
<1>5. AssumptionKept(i)'
  BY <1>2 DEF StepIsFine, AssumptionKept, HasStatus, Inductions
<1>6. ReadyForStep(i)'
  BY <1>2 DEF StepIsFine, ReadyForStep, HasStatus, Inductions, InductionSupports
<1>7. ProvedIsSupported(i)'
  BY <1>2 DEF StepIsFine, ProvedIsSupported, HasStatus, BmcSupports
<1>8. NoVerdictYet(i)'
  BY <1>2 DEF StepIsFine, NoVerdictYet, HasStatus, SingleEngines
<1>9. VerdictKept(i)'
  BY <1>1, <1>2, <1>3, <1>4 DEF StepIsFine, VerdictKept, HasStatus, VerdictStands
<1> QED BY <1>5, <1>6, <1>7, <1>8, <1>9 DEF StatusInv

\* The invariant of property i, without the helpers.
LEMMA StatusFacts ==
  ASSUME EngineInv, NEW i \in Ids
  PROVE  /\ Assumed(i) /\ pc # "done" =>
              /\ props[i].status = "ASSUMED" /\ work[i].status \in {"ASSUMED", "FAILURE", "UNSUPPORTED"}
              /\ pc \in {"solve", "bit-level solve"} /\ engine \notin Inductions =>
                   work[i].status \in {"ASSUMED", "FAILURE"}
         /\ pc \in {"solve", "bmc done"} /\ engine \in Inductions =>
              InductionSupports(P(i)) \/ work[i].status \in {"DISABLED", "PROVED", "UNSUPPORTED", "FAILURE"}
         /\ ~IsExistsPath(i) /\ (props[i].status = "PROVED" \/ work[i].status = "PROVED") => BmcSupports(P(i))
         /\ pc = "start" \/ (engine \in SingleEngines /\ pc # "done") =>
              props[i].status \in {"UNKNOWN", "ASSUMED", "DISABLED"}
         /\ pc \in {"solve", "bmc done", "copy"} /\ VerdictStands(i) /\ props[i].status = HoldsVerdict(i) =>
              work[i].status = HoldsVerdict(i)
         /\ props[i] \in Results /\ work[i] \in Results
         /\ IsExistsPath(i) => P(i).form = "G"
         /\ HoldsVerdict(i) = IF IsExistsPath(i) THEN "REFUTED" ELSE "PROVED"
         /\ IsExistsPath(i) => ~Assumed(i)
<1>1. StatusInv(i)
  BY DEF EngineInv
<1>2. props[i] \in Results /\ work[i] \in Results /\ (IsExistsPath(i) => P(i).form = "G")
  BY ProblemType DEF EngineInv, TypeOK
<1>3. IsExistsPath(i) => ~Assumed(i)
  BY DEF IsExistsPath, Assumed, IsAssumption
<1> QED
  BY <1>1, <1>2, <1>3 DEF StatusInv, AssumptionKept, ReadyForStep, ProvedIsSupported, NoVerdictYet,
     VerdictKept, HasStatus, HoldsVerdict

\* bmc() begins: what it does not support fails.
LEMMA EnterBmcStatus ==
  ASSUME NEW ps \in [Ids -> Results], NEW b, EnterBmc(ps, b), NEW i \in Ids
  PROVE  /\ pc' \in {"solve", "bmc done"}
         /\ work'[i].status = ps[i].status
            \/ (work'[i].status = "FAILURE" /\ ~BmcSupports(P(i)) /\ ps[i].status # "DISABLED")
<1>1. ps[i] \in Results /\ "FAILURE" \in Statuses
  BY DEF Statuses
<1>2. To(ps[i], "FAILURE").status = "FAILURE"
  BY <1>1, ResultTypes
<1>3. pc' \in {"solve", "bmc done"}
  BY DEF EnterBmc
<1>4. \/ work'[i] = ps[i]
      \/ work'[i] = To(ps[i], "FAILURE") /\ ~SkippedByBmc(ps, i) /\ ~BmcSupports(P(i))
  BY DEF EnterBmc
<1> QED BY <1>2, <1>3, <1>4 DEF SkippedByBmc, HasStatus

\* An answer of BMC goes to properties that are not decided, or under
\* bmc_with_assumptions() to one that is neither assumed nor disabled.
LEMMA BmcAnswers ==
  ASSUME TypeOK, NEW i \in Ids
  PROVE  /\ \A m \in SUBSET Ids : Found(i, m).status = ViolatedVerdict(i)
         /\ NotFound(i).status = BoundedVerdict(i)
         /\ To(work[i], "FAILURE").status = "FAILURE"
         /\ \A s \in Statuses : To(work[i], s).status = s /\ To(props[i], s).status = s
<1>1. work[i] \in Results /\ props[i] \in Results /\ bound \in Nat
  BY DEF TypeOK
<1>2. \A m \in SUBSET Ids : Found(i, m).status = ViolatedVerdict(i)
  BY <1>1, ResultTypes, VerdictTypes DEF Found
<1>3. NotFound(i).status = BoundedVerdict(i)
  <2>1. WithBound(work[i], BoundedVerdict(i), bound).status = BoundedVerdict(i)
    BY <1>1 DEF WithBound, Results
  <2> QED BY <2>1 DEF NotFound
<1>4. \A s \in Statuses : To(work[i], s).status = s /\ To(props[i], s).status = s
  BY <1>1, ResultTypes
<1> QED BY <1>2, <1>3, <1>4 DEF Statuses

LEMMA StatusStep == ASSUME EngineInv, Next, NEW i \in Ids PROVE StatusInv(i)'
<1>1. TypeOK /\ EngineOfPc
  BY DEF EngineInv
<1>2. SUFFICES StepIsFine(i)
  BY StepIsEnough
<1>3. \A s \in Statuses : To(work[i], s).status = s /\ To(props[i], s).status = s
  BY <1>1, BmcAnswers
<1>4. HoldsVerdict(i) \in Statuses
  BY VerdictTypes
<1>5. CASE Start
  <2>1. pc = "start" /\ pc' \in {"engine", "done"} /\ props' = props /\ work' = work /\ engine' = engine
    BY <1>5 DEF Start
  <2> QED BY <2>1, StatusFacts DEF StepIsFine
<1>6. CASE TautologyEngine
  <2>1. pc = "engine" /\ pc' = "copy" /\ props' = props /\ engine' = "tautology"
    BY <1>6 DEF TautologyEngine, Return
  <2>2. work'[i] = props[i] \/ (/\ props[i].status = "UNKNOWN" /\ IsTautology(P(i))
                                /\ work'[i] = To(props[i], HoldsVerdict(i)))
    BY <1>6 DEF TautologyEngine, Return, HasStatus
  <2>3. work'[i].status = props[i].status
        \/ (props[i].status = "UNKNOWN" /\ IsTautology(P(i)) /\ work'[i].status = HoldsVerdict(i))
    BY <1>3, <1>4, <2>2
  <2> QED BY <2>1, <2>3, StatusFacts DEF StepIsFine, SingleEngines, IsTautology, BmcSupports
<1>7. CASE TransitionPropertyEngine
  <2>1. pc = "engine" /\ pc' = "copy" /\ props' = props /\ engine' = "transition property"
    BY <1>7 DEF TransitionPropertyEngine, Return
  <2>2. work'[i] = props[i]
        \/ (props[i].status = "UNKNOWN" /\
             (\/ IsTransitionProperty(P(i)) /\ work'[i] = To(props[i], HoldsVerdict(i))
              \/ work'[i] = To(props[i], "UNSUPPORTED") \/ work'[i] = To(props[i], "INCONCLUSIVE")))
    BY <1>7 DEF TransitionPropertyEngine, Return, HasStatus
  <2>3. work'[i].status = props[i].status
        \/ (props[i].status = "UNKNOWN" /\
             (\/ IsTransitionProperty(P(i)) /\ work'[i].status = HoldsVerdict(i)
              \/ work'[i].status \in {"UNSUPPORTED", "INCONCLUSIVE"}))
    BY <1>3, <1>4, <2>2 DEF Statuses
  <2> QED BY <2>1, <2>3, StatusFacts DEF StepIsFine, SingleEngines, IsTransitionProperty, BmcSupports
<1>8. CASE StrengthenSat
  <2>1. PICK m \in AssumedModels :
          work'[i] = IF i \in m /\ HasStatus(work, i, {"UNKNOWN"}) THEN Found(i, m) ELSE work[i]
    BY <1>8 DEF StrengthenSat
  <2>2. m \in SUBSET Ids
    BY DEF AssumedModels
  <2>3. work'[i].status = work[i].status
        \/ (work[i].status = "UNKNOWN" /\ work'[i].status = ViolatedVerdict(i))
    BY <1>1, <2>1, <2>2, BmcAnswers DEF HasStatus
  <2>4. pc = "solve" /\ pc' = pc /\ engine' = engine /\ props' = props
    BY <1>8 DEF StrengthenSat
  <2> QED BY <2>3, <2>4, StatusFacts DEF StepIsFine, ViolatedVerdict
<1>9. CASE StrengthenUnsat
  <2>1. work'[i].status = work[i].status
        \/ (work[i].status = "UNKNOWN" /\ work'[i].status = BoundedVerdict(i))
    BY <1>1, <1>9, BmcAnswers DEF StrengthenUnsat, HasStatus
  <2>2. pc = "solve" /\ pc' = "bmc done" /\ engine' = engine /\ props' = props
    BY <1>9 DEF StrengthenUnsat
  <2> QED BY <2>1, <2>2, StatusFacts DEF StepIsFine, BoundedVerdict
<1>10. CASE StrengthenError
  <2>1. work'[i].status = work[i].status
        \/ (work[i].status = "UNKNOWN" /\ work'[i].status = "FAILURE")
    BY <1>1, <1>10, BmcAnswers DEF StrengthenError, HasStatus
  <2>2. pc = "solve" /\ pc' = "bmc done" /\ engine' = engine /\ props' = props
    BY <1>10 DEF StrengthenError
  <2> QED BY <2>1, <2>2, StatusFacts DEF StepIsFine
<1>11. CASE CheckProperty
  <2>1. /\ pc = "solve" /\ pc' \in {pc, "bmc done"} /\ engine' = engine /\ props' = props
        /\ withAssumptions /\ engine \notin Inductions
    <3>1. Advance(index)
      BY <1>11 DEF CheckProperty
    <3>2. pc' \in {pc, "bmc done"}
      BY <3>1 DEF Advance
    <3> QED BY <1>11, <3>2 DEF CheckProperty, Strengthening, Inductions
  <2>2. ~VerdictStands(i)
    BY <2>1 DEF VerdictStands
  <2>3. work'[i].status = work[i].status
        \/ (/\ work[i].status \notin {"DISABLED", "FAILURE", "ASSUMED"}
            /\ work'[i].status \in {ViolatedVerdict(i), BoundedVerdict(i), "FAILURE"})
    <3>1. CASE i # index
      <4>1. work' = work \/ \E r : work' = [work EXCEPT ![index] = r]
        BY <1>11 DEF CheckProperty
      <4> QED BY <1>1, <3>1, <4>1 DEF TypeOK
    <3>2. CASE i = index
      <4>1. \A m \in Falsifying(i) : m \in SUBSET Ids
        BY DEF Falsifying, AssumedModels
      <4>2. \/ work'[i] = work[i]
            \/ /\ ~SkippedByCheck(i)
               /\ \/ \E m \in Falsifying(i) : work'[i] = Found(i, m)
                  \/ work'[i] = NotFound(i)
                  \/ work'[i] = To(work[i], "FAILURE")
        BY <1>1, <1>11, <3>2 DEF CheckProperty, TypeOK
      <4> QED BY <1>1, <4>1, <4>2, BmcAnswers DEF SkippedByCheck, HasStatus
    <3> QED BY <3>1, <3>2
  <2>4. Assumed(i) => work'[i].status = work[i].status
    BY <2>1, <2>3, StatusFacts
  <2>5. ~IsExistsPath(i) /\ work'[i].status = "PROVED" => work[i].status = "PROVED"
    BY <2>3 DEF ViolatedVerdict, BoundedVerdict
  <2> QED BY <2>1, <2>2, <2>4, <2>5, StatusFacts DEF StepIsFine
<1>12. CASE CTEngine
  <2>1. pc = "engine" /\ engine = "completeness threshold" /\ engine' = engine /\ props' = props
    BY <1>12 DEF CTEngine
  <2>2. CASE Thresholds(D) = {}
    BY <1>12, <2>1, <2>2, StatusFacts DEF CTEngine, Return, StepIsFine, SingleEngines
  <2>3. CASE Thresholds(D) # {}
    <3>1. EnterBmc(props, MaxThreshold) /\ props \in [Ids -> Results]
      BY <1>1, <1>12, <2>3 DEF CTEngine, TypeOK
    <3>2. /\ pc' \in {"solve", "bmc done"}
          /\ work'[i].status = props[i].status
             \/ (work'[i].status = "FAILURE" /\ ~BmcSupports(P(i)))
      BY <3>1, EnterBmcStatus
    <3> QED BY <2>1, <3>2, StatusFacts DEF StepIsFine, SingleEngines, Inductions, BmcSupports
  <2> QED BY <2>2, <2>3
<1>13. CASE CTFinish
  <2>1. pc = "bmc done" /\ pc' = "copy" /\ engine' = "completeness threshold" /\ engine = engine' /\ props' = props
    BY <1>13 DEF CTFinish, Return
  <2>2. work'[i] = Upgraded(i)
    BY <1>13 DEF CTFinish, Return
  <2>3. work'[i].status = work[i].status
        \/ (/\ work[i].status = "PROVED_WITH_BOUND"
            /\ \/ work'[i].status = "PROVED" /\ CompletenessThreshold(D, P(i)) # {}
               \/ work'[i].status = "UNKNOWN")
    BY <1>3, <2>2 DEF Upgraded, HasStatus, Statuses
  <2>4. CompletenessThreshold(D, P(i)) # {} => BmcSupports(P(i))
    BY DEF CompletenessThreshold, BmcSupports
  <2> QED BY <2>1, <2>3, <2>4, StatusFacts DEF StepIsFine, SingleEngines
<1>14. CASE InductionEngine
  <2> DEFINE ps == [j \in Ids |-> IF InductionSupports(P(j)) \/ HasStatus(props, j, {"DISABLED", "PROVED"})
                                   THEN props[j] ELSE To(props[j], "UNSUPPORTED")]
  <2>1. pc = "engine" /\ engine \in Inductions /\ engine' = engine /\ props' = props
    BY <1>14 DEF InductionEngine
  <2>2. ps \in [Ids -> Results]
    BY <1>1, AnswerTypes DEF TypeOK, Statuses
  <2>3. \E b : EnterBmc(ps, b)
    BY <1>14 DEF InductionEngine
  <2>4. \/ /\ InductionSupports(P(i)) \/ props[i].status \in {"DISABLED", "PROVED"}
           /\ ps[i] = props[i]
        \/ /\ ~InductionSupports(P(i)) /\ props[i].status \notin {"DISABLED", "PROVED"}
           /\ ps[i].status = "UNSUPPORTED"
    BY <1>3 DEF HasStatus, Statuses
  <2> HIDE DEF ps
  <2>5. /\ pc' \in {"solve", "bmc done"}
        /\ work'[i].status = ps[i].status
           \/ (work'[i].status = "FAILURE" /\ ~BmcSupports(P(i)))
    BY <2>2, <2>3, EnterBmcStatus
  <2> QED BY <2>1, <2>4, <2>5, StatusFacts DEF StepIsFine, BmcSupports, InductionSupports
<1>15. CASE InductionFailsEarly
  <2>1. pc = "engine" /\ engine \in Inductions /\ engine' = engine /\ props' = props /\ ~InductionSupports(P(i))
    BY <1>15 DEF InductionFailsEarly
  <2>2. \/ pc' = "error" /\ work' = work
        \/ /\ pc' = "copy"
           /\ work'[i].status = props[i].status
              \/ (props[i].status \notin {"ASSUMED", "PROVED"} /\ work'[i].status = "UNSUPPORTED")
    BY <1>3, <1>15 DEF InductionFailsEarly, Return, HasStatus, Statuses
  <2> QED BY <2>1, <2>2, StatusFacts DEF StepIsFine, InductionSupports
<1>16. CASE InductionFinish
  <2>1. pc = "bmc done" /\ engine \in Inductions /\ engine' = engine /\ props' = props
    BY <1>16 DEF InductionFinish
  <2>2. CASE pc' = "aborted" /\ work' = work
    BY <2>1, <2>2, StatusFacts DEF StepIsFine
  <2>3. CASE pc' = "copy" /\ work'[i] = AfterInduction(i) /\ (PassedOver(i) \/ InductionSupports(P(i)))
    <3>1. AfterStep(i).status = work[i].status
          \/ (/\ ~SkippedByStep(i)
              /\ AfterStep(i).status \in {HoldsVerdict(i), "INCONCLUSIVE"})
      BY <1>3, <1>4 DEF AfterStep, Statuses
    <3>2. SkippedByStep(i) => AfterStep(i).status = work[i].status
      BY DEF AfterStep
    <3>3. SkippedByStep(i) <=> work[i].status \in
            {"DISABLED", "FAILURE", "ASSUMED", "UNSUPPORTED", "PROVED", "REFUTED"}
      BY DEF SkippedByStep, PassedOver, HasStatus
    <3>4. ~SkippedByStep(i) => BmcSupports(P(i))
      BY <2>3 DEF SkippedByStep, InductionSupports, BmcSupports
    <3>5. work'[i].status = AfterStep(i).status
          \/ (/\ AssumptionUnsupported /\ AfterStep(i).status = "REFUTED"
              /\ work'[i].status = "INCONCLUSIVE")
      BY <1>3, <2>3 DEF AfterInduction, Statuses
    <3>6. AssumptionUnsupported /\ IsExistsPath(i) => ~VerdictStands(i)
      BY DEF VerdictStands
    <3> HIDE DEF SkippedByStep
    <3> QED BY <2>1, <2>3, <3>1, <3>2, <3>3, <3>4, <3>5, <3>6, StatusFacts DEF StepIsFine
  <2> QED BY <1>16, <2>2, <2>3 DEF InductionFinish, Return
<1>17. CASE LivenessLemmaEngine
  <2>1. pc = "engine" /\ engine' = "liveness lemma" /\ props' = props
    BY <1>17 DEF LivenessLemmaEngine
  <2>2. \/ pc' = "aborted" /\ work' = work
        \/ /\ pc' = "copy"
           /\ work'[i] = props[i] \/ (/\ props[i].status = "UNKNOWN" /\ P(i).form = "GF"
                                      /\ work'[i] = To(props[i], "PROVED"))
    BY <1>17 DEF LivenessLemmaEngine, Return, HasStatus
  <2>3. \/ pc' = "aborted" /\ work' = work
        \/ /\ pc' = "copy"
           /\ work'[i].status = props[i].status \/ (/\ props[i].status = "UNKNOWN" /\ P(i).form = "GF"
                                                    /\ work'[i].status = "PROVED")
    BY <1>3, <2>2 DEF Statuses
  <2> QED BY <2>1, <2>3, StatusFacts DEF StepIsFine, SingleEngines, BmcSupports
<1>18. CASE BmcEngine
  <2>1. /\ pc = "engine" /\ engine \in {"BMC with bound 5", "word-level BMC"} /\ engine' = engine /\ props' = props
        /\ \E b : EnterBmc(props, b) /\ props \in [Ids -> Results]
    BY <1>1, <1>18 DEF BmcEngine, TypeOK
  <2>2. /\ pc' \in {"solve", "bmc done"}
        /\ work'[i].status = props[i].status \/ (work'[i].status = "FAILURE" /\ ~BmcSupports(P(i)))
    BY <2>1, EnterBmcStatus
  <2> QED BY <2>1, <2>2, StatusFacts DEF StepIsFine, Inductions, BmcSupports
<1>19. CASE BmcFinish
  <2>1. /\ pc = "bmc done" /\ pc' = "copy" /\ engine' = engine /\ props' = props /\ work' = work
    BY <1>19 DEF BmcFinish, Return
  <2> QED BY <2>1, StatusFacts DEF StepIsFine
<1>20. CASE BitLevelEngine
  <2>1. pc = "engine" /\ pc' = "bit-level solve" /\ engine' = "bit-level BMC" /\ engine = engine' /\ props' = props
    BY <1>20 DEF BitLevelEngine
  <2>2. work'[i] = props[i] \/ work'[i] = To(props[i], "FAILURE")
    BY <1>20 DEF BitLevelEngine
  <2>3. work'[i].status = props[i].status \/ work'[i].status = "FAILURE"
    BY <1>3, <2>2 DEF Statuses
  <2> QED BY <2>1, <2>3, StatusFacts DEF StepIsFine, SingleEngines, Inductions
<1>21. CASE BitLevelCheck
  <2>1. /\ pc = "bit-level solve" /\ pc' \in {pc, "copy", "error"} /\ engine' = engine /\ props' = props
        /\ engine = "bit-level BMC"
    BY <1>1, <1>21 DEF BitLevelCheck, BitLevelNext, EngineOfPc
  <2>2. props[i].status # HoldsVerdict(i)
    BY <2>1, StatusFacts DEF SingleEngines
  <2>3. work'[i].status = work[i].status
        \/ (/\ work[i].status \notin {"DISABLED", "FAILURE", "ASSUMED"}
            /\ work'[i].status \in {"REFUTED", "PROVED_WITH_BOUND"})
    <3>1. CASE i # index
      BY <1>1, <1>21, <3>1 DEF BitLevelCheck, TypeOK
    <3>2. CASE i = index
      <4>1. \A r \in BitLevelVerdicts(i) : r.status \in {"REFUTED", "PROVED_WITH_BOUND"}
        <5>1. \A m \in Falsifying(i) : m \in SUBSET Ids
          BY DEF Falsifying, AssumedModels
        <5>2. work[i] \in Results /\ bound \in Nat
          BY <1>1 DEF TypeOK
        <5>3. WithBound(work[i], "PROVED_WITH_BOUND", bound).status = "PROVED_WITH_BOUND"
          BY <5>2 DEF WithBound, Results
        <5>4. \A m \in Falsifying(i) : [work[i] EXCEPT !.status = "REFUTED", !.trace = {m}].status = "REFUTED"
          BY <5>2 DEF Results
        <5> QED BY <5>3, <5>4 DEF BitLevelVerdicts
      <4>2. \/ work'[i] = work[i]
            \/ ~SkippedByCheck(i) /\ \E r \in BitLevelVerdicts(i) : work'[i] = r
        BY <1>1, <1>21, <3>2 DEF BitLevelCheck, TypeOK
      <4> QED BY <4>1, <4>2 DEF SkippedByCheck, HasStatus
    <3> QED BY <3>1, <3>2
  <2>4. Assumed(i) => work'[i].status = work[i].status
    BY <2>1, <2>3, StatusFacts DEF Inductions
  <2> QED BY <2>1, <2>2, <2>3, <2>4, StatusFacts DEF StepIsFine, Inductions
<1>22. CASE Throw
  <2>1. pc' = "error" /\ engine' = engine /\ props' = props /\ work' = work /\ pc # "done"
    BY <1>22 DEF Throw
  <2> QED BY <2>1, StatusFacts DEF StepIsFine
<1>23. CASE CopyResults
  <2>1. pc = "copy" /\ work' = work /\ pc' \in {"engine", "done"}
    BY <1>23 DEF CopyResults
  <2>2. \/ props'[i] = work[i] /\ pc' = "done" /\ engine' = engine
        \/ /\ props'[i] = Reset(i, work[i])
           /\ engine \notin SingleEngines
           /\ engine' \notin SingleEngines
    BY <1>23 DEF CopyResults, NextEngine, SingleEngines
  <2>3. Reset(i, work[i]).status =
          IF work[i].status \in {"FAILURE", "UNSUPPORTED"}
          THEN IF IsAssumption(i) THEN "ASSUMED" ELSE "UNKNOWN"
          ELSE IF work[i].status = "INCONCLUSIVE" THEN "UNKNOWN" ELSE work[i].status
    BY <1>3 DEF Reset, Statuses
  <2> QED BY <2>1, <2>2, <2>3, StatusFacts DEF StepIsFine, Assumed
<1>24. CASE Terminated
  <2>1. pc' = pc /\ engine' = engine /\ props' = props /\ work' = work /\ pc \in {"done", "error", "aborted"}
    BY <1>24 DEF Terminated, vars
  <2> QED BY <2>1, StatusFacts DEF StepIsFine
<1> QED
  BY <1>5, <1>6, <1>7, <1>8, <1>9, <1>10, <1>11, <1>12, <1>13, <1>14, <1>15, <1>16, <1>17, <1>18,
     <1>19, <1>20, <1>21, <1>22, <1>23, <1>24 DEF Next

-----------------------------------------------------------------------------
\* An aborted run was in the liveness lemma engine.
LEMMA EngineOfPcStep == ASSUME EngineInv, Next PROVE EngineOfPc'
<1>1. pc' = "bit-level solve" => engine' = "bit-level BMC"
  <2>1. CASE BitLevelEngine
    BY <2>1 DEF BitLevelEngine
  <2>2. CASE BitLevelCheck
    BY <2>2 DEF BitLevelCheck, EngineInv, EngineOfPc
  <2>3. CASE CheckProperty
    BY <2>3 DEF CheckProperty, Advance
  <2>4. ASSUME ~BitLevelEngine, ~BitLevelCheck, ~CheckProperty PROVE pc' # "bit-level solve"
    BY <2>4 DEF Next, Start, TautologyEngine, TransitionPropertyEngine, StrengthenSat, StrengthenUnsat,
       StrengthenError, CTEngine, CTFinish, InductionEngine, InductionFailsEarly, InductionFinish,
       LivenessLemmaEngine, BmcEngine, BmcFinish, Throw, CopyResults, Terminated, vars, Return, EnterBmc
  <2> QED BY <2>1, <2>2, <2>3, <2>4
<1>2. pc' = "aborted" => engine' = "liveness lemma"
  <2>1. CASE InductionFinish
    <3>1. \A i \in Ids : PassedOver(i) \/ InductionSupports(P(i))
      <4> SUFFICES ASSUME NEW i \in Ids PROVE PassedOver(i) \/ InductionSupports(P(i))
        OBVIOUS
      <4>1. pc = "bmc done" /\ engine \in Inductions
        BY <2>1 DEF InductionFinish
      <4> QED BY <4>1, StatusFacts DEF PassedOver, HasStatus
    <3> QED BY <2>1, <3>1 DEF InductionFinish, Return
  <2>2. CASE LivenessLemmaEngine
    BY <2>2 DEF LivenessLemmaEngine
  <2>3. CASE Terminated
    BY <2>3 DEF Terminated, vars, EngineInv, EngineOfPc, InductionNeverAborts
  <2>4. CASE CheckProperty
    BY <2>4 DEF CheckProperty, Advance
  <2>5. CASE BitLevelCheck
    BY <2>5 DEF BitLevelCheck, BitLevelNext
  <2>6. ASSUME ~InductionFinish, ~LivenessLemmaEngine, ~Terminated, ~CheckProperty, ~BitLevelCheck
        PROVE  pc' # "aborted"
    BY <2>6 DEF Next, Start, TautologyEngine, TransitionPropertyEngine, StrengthenSat, StrengthenUnsat,
       StrengthenError, CTEngine, CTFinish, InductionEngine, InductionFailsEarly,
       BmcEngine, BmcFinish, BitLevelEngine, Throw, CopyResults, Return, EnterBmc
  <2> QED BY <2>1, <2>2, <2>3, <2>4, <2>5, <2>6
<1> QED BY <1>1, <1>2 DEF EngineOfPc, InductionNeverAborts

LEMMA StutterKeeps == ASSUME EngineInv, UNCHANGED vars PROVE EngineInv'
<1>1. Ids' = Ids /\ Results' = Results /\ D' = D
  BY DEF vars, Ids, D, Results
<1>2. TypeOK'
  BY <1>1 DEF EngineInv, TypeOK, vars, HasStatus
<1>3. EngineOfPc'
  BY DEF EngineInv, EngineOfPc, InductionNeverAborts, vars
<1>4. ASSUME NEW i \in Ids PROVE StatusInv(i)'
  <2>1. Terminated \/ ~Terminated
    OBVIOUS
  <2>2. StatusInv(i)
    BY DEF EngineInv
  <2> QED
    BY <1>1, <2>2 DEF vars, StatusInv, AssumptionKept, ReadyForStep, ProvedIsSupported, NoVerdictYet, VerdictKept,
       HasStatus, Assumed, IsAssumption, IsExistsPath, P, HoldsVerdict, VerdictStands,
       AssumptionUnsupported, InductionSupports, BmcSupports, Inductions, SingleEngines
<1> QED BY <1>1, <1>2, <1>3, <1>4 DEF EngineInv

LEMMA EngineInvariant == Spec => []EngineInv
<1>1. Init => EngineInv
  <2>1. ASSUME Init PROVE EngineInv
    <3>1. EngineOfPc
      BY <2>1 DEF Init, EngineOfPc, InductionNeverAborts
    <3> QED BY <2>1, <3>1, TypeInit, StatusInit DEF EngineInv
  <2> QED BY <2>1
<1>2. EngineInv /\ [Next]_vars => EngineInv'
  <2>1. ASSUME EngineInv, Next PROVE EngineInv'
    <3>1. TypeOK'
      BY <2>1, TypeStep DEF EngineInv, StatusInv
    <3>2. EngineOfPc'
      BY <2>1, EngineOfPcStep
    <3>3. Ids' = Ids
      BY <2>1, SameProblem
    <3>4. \A i \in Ids : StatusInv(i)'
      BY <2>1, StatusStep
    <3> QED BY <3>1, <3>2, <3>3, <3>4 DEF EngineInv
  <2> QED BY <2>1, StutterKeeps
<1> QED BY <1>1, <1>2, PTL DEF Spec

\* The variables keep their types, and no engine is given a status that its
\* predecessor has left unfinished (engine_heuristic.cpp).
THEOREM TypeCorrect == Spec => []TypeOK
<1>1. EngineInv => TypeOK
  BY DEF EngineInv
<1> QED BY <1>1, EngineInvariant, PTL

\* Every engine of the heuristic is given every assumption, whatever the engines
\* before it could not use.
THEOREM AssumptionsAlwaysRestored == Spec => []AssumptionsRestored
<1>1. EngineInv => AssumptionsRestored
  BY DEF EngineInv, AssumptionsRestored, StatusInv, AssumptionKept, Assumed
<1> QED BY <1>1, EngineInvariant, PTL

\* The step case of k-induction never meets a property that it does not support
\* (the DATA_INVARIANT of k_induction.cpp).
THEOREM InductionIsSafe == Spec => []InductionNeverAborts
<1>1. EngineInv => InductionNeverAborts
  BY DEF EngineInv, EngineOfPc
<1> QED BY <1>1, EngineInvariant, PTL

\* An engine that runs after a proof leaves the proof alone.
THEOREM VerdictsAreFinal == Spec => ProvedIsFinal
<1>1. ASSUME EngineInv, [Next]_vars, NEW i \in Ids, VerdictStands(i), HasStatus(props, i, {HoldsVerdict(i)})
      PROVE  HasStatus(props', i, {HoldsVerdict(i)}) \/ props' = props
  <2>1. CASE CopyResults
    <3>1. pc = "copy" /\ props'[i] \in {work[i], Reset(i, work[i])}
      BY <2>1 DEF CopyResults
    <3>2. work[i].status = HoldsVerdict(i)
      BY <1>1, <3>1, StatusFacts DEF HasStatus
    <3>3. Reset(i, work[i]) = work[i]
      BY <3>2 DEF Reset, HoldsVerdict
    <3> QED BY <3>1, <3>2, <3>3 DEF HasStatus
  <2>2. CASE ~CopyResults
    BY <1>1, <2>2 DEF Next, Start, TautologyEngine, TransitionPropertyEngine, StrengthenSat, StrengthenUnsat,
       StrengthenError, CheckProperty, CTEngine, CTFinish, InductionEngine, InductionFailsEarly, InductionFinish,
       LivenessLemmaEngine, BmcEngine, BmcFinish, BitLevelEngine, BitLevelCheck, Throw, Terminated, vars
  <2> QED BY <2>1, <2>2
<1>2. EngineInv /\ [Next]_vars =>
        [\A i \in Ids : VerdictStands(i) /\ HasStatus(props, i, {HoldsVerdict(i)}) =>
                           HasStatus(props', i, {HoldsVerdict(i)})]_props
  BY <1>1
<1> QED BY <1>2, EngineInvariant, PTL DEF Spec, ProvedIsFinal

-----------------------------------------------------------------------------
\* Traces, where every assumption is one that all engines support.

SupportedAssumptions ==
  \A name \in DOMAIN Problems : \A i \in DOMAIN Problems[name].props :
    Problems[name].props[i].role = "assume" => Problems[name].props[i].form = "G"

\* An assumption is always used, and a recorded trace falsifies its property only.
TraceInv ==
  \A i \in Ids :
    /\ Assumed(i) /\ pc # "done" => work[i].status = "ASSUMED"
    /\ \A m \in props[i].trace \cup work[i].trace : i \in m /\ \A j \in m : ~Assumed(j)

LEMMA TraceKept ==
  ASSUME NEW r \in Results, NEW s, NEW b
  PROVE  To(r, s).trace = r.trace /\ WithBound(r, s, b).trace = r.trace
BY DEF To, WithBound, Results

\* What the engines do to property i.
LEMMA TraceStep ==
  ASSUME SupportedAssumptions, EngineInv, TraceInv, Next, NEW i \in Ids
  PROVE  /\ Assumed(i) /\ pc # "done" => work'[i].status = "ASSUMED"
         /\ \A m \in work'[i].trace :
              \/ m \in work[i].trace \cup props[i].trace
              \/ i \in m /\ m \in AssumedModels /\ pc \in {"solve", "bit-level solve"}
<1> DEFINE Kept == /\ Assumed(i) /\ pc # "done" => work'[i].status = "ASSUMED"
                   /\ work'[i].trace \subseteq work[i].trace \cup props[i].trace
<1> DEFINE Good(m) == i \in m /\ m \in AssumedModels /\ pc \in {"solve", "bit-level solve"}
<1>1. TypeOK /\ work[i] \in Results /\ props[i] \in Results
  BY DEF EngineInv, TypeOK
<1>2. /\ Assumed(i) /\ pc # "done" => work[i].status = "ASSUMED" /\ props[i].status = "ASSUMED"
      /\ Assumed(i) => P(i).form = "G"
  <2>1. Assumed(i) => P(i).form = "G"
    BY <1>1 DEF SupportedAssumptions, TypeOK, Assumed, IsAssumption, P, D, Ids
  <2> QED BY <2>1, StatusFacts DEF TraceInv
<1>3. \A s : To(work[i], s).trace = work[i].trace /\ To(props[i], s).trace = props[i].trace
  BY <1>1, TraceKept
<1>4. CASE Start \/ Throw \/ CopyResults \/ Terminated \/ BmcFinish
  <2>1. work' = work
    BY <1>4 DEF Start, Throw, CopyResults, Terminated, BmcFinish, Return, vars
  <2> QED BY <1>2, <2>1
<1>5. CASE TautologyEngine \/ TransitionPropertyEngine \/ LivenessLemmaEngine
  <2>1. work' = work \/ work'[i] = props[i] \/ (props[i].status = "UNKNOWN" /\ \E s : work'[i] = To(props[i], s))
    BY <1>5 DEF TautologyEngine, TransitionPropertyEngine, LivenessLemmaEngine, Return, HasStatus
  <2>2. Kept
    BY <1>2, <1>3, <2>1, <1>5 DEF TautologyEngine, TransitionPropertyEngine, LivenessLemmaEngine
  <2> QED BY <2>2
<1>6. CASE StrengthenSat
  <2>1. PICK m \in AssumedModels :
          work'[i] = IF i \in m /\ HasStatus(work, i, {"UNKNOWN"}) THEN Found(i, m) ELSE work[i]
    BY <1>6 DEF StrengthenSat
  <2>2. pc = "solve"
    BY <1>6 DEF StrengthenSat
  <2>3. Found(i, m).trace = {m}
    BY <1>1 DEF Found, Results
  <2>4. CASE i \in m /\ HasStatus(work, i, {"UNKNOWN"})
    BY <1>2, <2>1, <2>2, <2>3, <2>4 DEF HasStatus
  <2>5. CASE ~(i \in m /\ HasStatus(work, i, {"UNKNOWN"}))
    BY <1>2, <2>1, <2>5
  <2> QED BY <2>4, <2>5
<1>7. CASE StrengthenUnsat \/ StrengthenError
  <2>1. work'[i] = work[i]
        \/ (work[i].status = "UNKNOWN" /\ (work'[i] = NotFound(i) \/ work'[i] = To(work[i], "FAILURE")))
    BY <1>7 DEF StrengthenUnsat, StrengthenError, HasStatus
  <2>2. NotFound(i).trace = work[i].trace
    BY <1>1, TraceKept DEF NotFound
  <2>3. pc # "done"
    BY <1>7 DEF StrengthenUnsat, StrengthenError
  <2> QED BY <1>2, <1>3, <2>1, <2>2, <2>3
<1>8. CASE CheckProperty \/ BitLevelCheck
  <2>1. pc \in {"solve", "bit-level solve"}
    BY <1>8 DEF CheckProperty, BitLevelCheck
  <2>2. \/ work'[i] = work[i]
        \/ /\ work[i].status # "ASSUMED"
           /\ \/ \E m \in Falsifying(i) : work'[i].trace = {m}
              \/ work'[i].trace = work[i].trace
    <3>1. CASE i # index
      <4>1. work' = work \/ \E r : work' = [work EXCEPT ![index] = r]
        BY <1>8 DEF CheckProperty, BitLevelCheck
      <4> QED BY <1>1, <3>1, <4>1 DEF TypeOK
    <3>2. CASE i = index
      <4>1. \/ work'[i] = work[i]
            \/ /\ ~SkippedByCheck(i)
               /\ \/ \E m \in Falsifying(i) : work'[i] = Found(i, m)
                  \/ work'[i] = NotFound(i)
                  \/ work'[i] = To(work[i], "FAILURE")
                  \/ \E m \in Falsifying(i) : work'[i] = [work[i] EXCEPT !.status = "REFUTED", !.trace = {m}]
                  \/ work'[i] = WithBound(work[i], "PROVED_WITH_BOUND", bound)
        BY <1>1, <1>8, <3>2 DEF CheckProperty, BitLevelCheck, BitLevelVerdicts, TypeOK
      <4>2. \A m : /\ Found(i, m).trace = {m}
                   /\ [work[i] EXCEPT !.status = "REFUTED", !.trace = {m}].trace = {m}
        BY <1>1 DEF Found, Results
      <4>3. NotFound(i).trace = work[i].trace /\ WithBound(work[i], "PROVED_WITH_BOUND", bound).trace = work[i].trace
        BY <1>1, TraceKept DEF NotFound
      <4>4. To(work[i], "FAILURE").trace = work[i].trace
        BY <1>1 DEF To, Results
      <4>5. ~SkippedByCheck(i) => work[i].status # "ASSUMED"
        BY DEF SkippedByCheck, HasStatus
      <4> QED BY <4>1, <4>2, <4>3, <4>4, <4>5
    <3> QED BY <3>1, <3>2
  <2>3. \A m \in Falsifying(i) : Good(m)
    BY <2>1 DEF Falsifying
  <2> QED BY <1>2, <2>1, <2>2, <2>3
<1>9. CASE CTEngine \/ InductionEngine \/ BmcEngine
  <2>1. pc = "engine"
    BY <1>9 DEF CTEngine, InductionEngine, BmcEngine
  <2> DEFINE Marked(r) == work'[i] = r \/ (~BmcSupports(P(i)) /\ work'[i] = To(r, "FAILURE"))
  <2>2. \A ps, b : EnterBmc(ps, b) => Marked(ps[i])
    BY DEF EnterBmc
  <2>3. Marked(props[i]) \/ (~InductionSupports(P(i)) /\ Marked(To(props[i], "UNSUPPORTED")))
    <3>1. CASE CTEngine
      BY <2>2, <3>1 DEF CTEngine, Return
    <3>2. CASE BmcEngine
      BY <2>2, <3>2 DEF BmcEngine
    <3>3. CASE InductionEngine
      <4> DEFINE ps == [j \in Ids |-> IF InductionSupports(P(j)) \/ HasStatus(props, j, {"DISABLED", "PROVED"})
                                       THEN props[j] ELSE To(props[j], "UNSUPPORTED")]
      <4>1. EnterBmc(ps, InductionDepth)
        BY <3>3 DEF InductionEngine
      <4>2. ps[i] = props[i] \/ (~InductionSupports(P(i)) /\ ps[i] = To(props[i], "UNSUPPORTED"))
        OBVIOUS
      <4> HIDE DEF ps
      <4>3. Marked(ps[i])
        BY <2>2, <4>1
      <4> QED BY <4>2, <4>3
    <3> QED BY <1>9, <3>1, <3>2, <3>3
  <2>4. \A s, t : To(To(props[i], s), t).trace = props[i].trace
    BY <1>1 DEF To, Results
  <2>5. work'[i].trace = props[i].trace
    BY <1>3, <2>3, <2>4
  <2>6. Assumed(i) => work'[i] = props[i]
    BY <1>2, <2>3 DEF InductionSupports, BmcSupports
  <2> QED BY <1>2, <2>1, <2>5, <2>6
<1>10. CASE CTFinish
  <2>1. pc = "bmc done" /\ work'[i] = Upgraded(i)
    BY <1>10 DEF CTFinish, Return
  <2>2. work'[i] = work[i] \/ (work[i].status = "PROVED_WITH_BOUND" /\ \E s : work'[i] = To(work[i], s))
    BY <2>1 DEF Upgraded, HasStatus
  <2> QED BY <1>2, <1>3, <2>1, <2>2
<1>11. CASE InductionFailsEarly
  <2>1. pc = "engine" /\ ~InductionSupports(P(i))
    BY <1>11 DEF InductionFailsEarly
  <2>2. work' = work \/ work'[i] = props[i] \/ work'[i] = To(props[i], "UNSUPPORTED")
    BY <1>11 DEF InductionFailsEarly, Return
  <2> QED BY <1>2, <1>3, <2>1, <2>2 DEF InductionSupports
<1>12. CASE InductionFinish
  <2>1. pc = "bmc done" /\ (work' = work \/ work'[i] = AfterInduction(i))
    BY <1>12 DEF InductionFinish, Return
  <2>2. work[i].status = "ASSUMED" => AfterInduction(i) = work[i]
    BY DEF AfterInduction, AfterStep, SkippedByStep, PassedOver, HasStatus
  <2>3. AfterInduction(i).trace = work[i].trace
    BY <1>3 DEF AfterInduction, AfterStep
  <2> QED BY <1>2, <2>1, <2>2, <2>3
<1>13. CASE BitLevelEngine
  <2>1. pc = "engine" /\ (work'[i] = props[i] \/ (~NetlistSupports(P(i)) /\ work'[i] = To(props[i], "FAILURE")))
    BY <1>13 DEF BitLevelEngine
  <2> QED BY <1>2, <1>3, <2>1 DEF NetlistSupports
<1> QED
  BY <1>4, <1>5, <1>6, <1>7, <1>8, <1>9, <1>10, <1>11, <1>12, <1>13 DEF Next

LEMMA TraceInvariant == ASSUME SupportedAssumptions PROVE Spec => []TraceInv
<1>1. ASSUME Init PROVE TraceInv
  <2>1. ASSUME NEW i \in Ids
        PROVE  props[i] = Res(InitialStatus(i, selected)) /\ work[i] = props[i]
    BY <1>1, <2>1 DEF Init
  <2>2. \A i \in Ids : Assumed(i) => InitialStatus(i, selected) = "ASSUMED"
    BY DEF InitialStatus, Assumed
  <2>3. ASSUME NEW i \in Ids
        PROVE  props[i].trace = {} /\ work[i].trace = {} /\ work[i].status = InitialStatus(i, selected)
    <3>1. \A s : Res(s).trace = {} /\ Res(s).status = s
      BY DEF Res
    <3> QED BY <2>1, <3>1
  <2> QED BY <2>2, <2>3 DEF TraceInv
<1>2. ASSUME EngineInv, TraceInv, Next PROVE TraceInv'
  <2>1. D' = D /\ Ids' = Ids /\ selected' = selected
    BY <1>2, SameProblem
  <2>2. \A i : Assumed(i)' = Assumed(i)
    BY <2>1 DEF Assumed, IsAssumption, P
  <2>3. pc = "done" => pc' = "done" /\ work' = work
    BY <1>2 DEF Next, Start, TautologyEngine, TransitionPropertyEngine, StrengthenSat, StrengthenUnsat,
       StrengthenError, CheckProperty, CTEngine, CTFinish, InductionEngine, InductionFailsEarly, InductionFinish,
       LivenessLemmaEngine, BmcEngine, BmcFinish, BitLevelEngine, BitLevelCheck, Throw, CopyResults, Terminated, vars
  <2>4. ASSUME NEW i \in Ids
        PROVE  /\ Assumed(i) /\ pc' # "done" => work'[i].status = "ASSUMED"
               /\ \A m \in props'[i].trace \cup work'[i].trace : i \in m /\ \A j \in m : ~Assumed(j)
    <3>1. Assumed(i) /\ pc' # "done" => work'[i].status = "ASSUMED"
      BY <1>2, <2>3, TraceStep
    <3>2. ASSUME NEW m \in AssumedModels, pc \in {"solve", "bit-level solve"}, NEW j \in m PROVE ~Assumed(j)
      <4>1. j \in Ids /\ work[j].status # "ASSUMED"
        BY DEF AssumedModels, HasStatus
      <4> QED BY <1>2, <3>2, <4>1 DEF TraceInv
    <3>3. \A m \in work'[i].trace : i \in m /\ \A j \in m : ~Assumed(j)
      <4> SUFFICES ASSUME NEW m \in work'[i].trace PROVE i \in m /\ \A j \in m : ~Assumed(j)
        OBVIOUS
      <4>1. \/ m \in work[i].trace \cup props[i].trace
            \/ i \in m /\ m \in AssumedModels /\ pc \in {"solve", "bit-level solve"}
        BY <1>2, TraceStep
      <4> QED BY <1>2, <3>2, <4>1 DEF TraceInv
    <3>4. props'[i].trace \subseteq props[i].trace \cup work[i].trace
      <4>1. work[i] \in Results
        BY <1>2 DEF EngineInv, TypeOK
      <4>2. Reset(i, work[i]).trace = work[i].trace
        BY <4>1, TraceKept DEF Reset
      <4>3. props' = props \/ props' = work \/ props'[i] = Reset(i, work[i])
        BY <1>2 DEF Next, Start, TautologyEngine, TransitionPropertyEngine, StrengthenSat, StrengthenUnsat,
           StrengthenError, CheckProperty, CTEngine, CTFinish, InductionEngine, InductionFailsEarly, InductionFinish,
           LivenessLemmaEngine, BmcEngine, BmcFinish, BitLevelEngine, BitLevelCheck, Throw, CopyResults, Terminated, vars
      <4> QED BY <4>2, <4>3
    <3> QED BY <1>2, <3>1, <3>3, <3>4 DEF TraceInv
  <2> QED BY <2>1, <2>2, <2>4 DEF TraceInv
<1>3. ASSUME TraceInv, UNCHANGED vars PROVE TraceInv'
  BY <1>3 DEF TraceInv, vars, Assumed, IsAssumption, P, D, Ids
<1>4. EngineInv /\ TraceInv /\ [Next]_vars => TraceInv'
  BY <1>2, <1>3
<1>5. Init => TraceInv
  BY <1>1
<1> QED BY <1>4, <1>5, EngineInvariant, PTL DEF Spec

\* When k-induction supports every assumption, the trace that is kept with a
\* property falsifies it and keeps the assumptions.
THEOREM TracesAreGenuine == ASSUME SupportedAssumptions PROVE Spec => []TracesShowVerdict
<1>1. TraceInv => TracesShowVerdict
  BY DEF TraceInv, TracesShowVerdict, Assumed, Checked
<1>2. Spec => []TraceInv
  BY TraceInvariant, PTL
<1> QED BY <1>1, <1>2, PTL

=============================================================================
