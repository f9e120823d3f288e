-------------------------- MODULE EngineSoundness_proofs --------------------------
(***************************************************************************)
(* The verdicts of the engines are right: what is proved with a bound, for *)
(* good, and refuted, compared with the words of the design that meet the  *)
(* assumptions, for every set of designs, every command and every bound.   *)
(*                                                                         *)
(* First, how a run of the engines goes, property by property.  Origin:    *)
(* every step keeps a result, takes over the one of the predecessor, marks *)
(* it, or decides it for one of eight reasons, each with its evidence.     *)
(* RunInv: the bound of the BMC run in progress, the bounds of the         *)
(* verdicts that an engine meets, and the assumptions that its queries     *)
(* use.  Then each verdict is traced back to the evidence of the engine    *)
(* that gave it, and the evidence to the words (WordLevel_proofs).         *)
(***************************************************************************)
EXTENDS EngineHeuristic_proofs

BoundedStatuses == {"PROVED_WITH_BOUND", "REFUTED_WITH_BOUND"}

\* What says nothing about a property.
Neutral == {"UNKNOWN", "UNSUPPORTED", "FAILURE", "INCONCLUSIVE"}

BmcEngines == {"completeness threshold", "one induction", "k-induction", "BMC with bound 5", "word-level BMC"}

-----------------------------------------------------------------------------
\* Where the result of a property comes from.

\* An engine that begins takes the result of its predecessor, or marks what it does not
\* support; one without a SAT query may also return so.
TakenOver(i) ==
  /\ pc = "engine" /\ pc' \in {"copy", "solve", "bmc done", "bit-level solve"}
  /\ \/ /\ work'[i] = props[i]
        /\ pc' = "bmc done" => props[i].status \in {"DISABLED", "FAILURE"}
     \/ \E s \in Neutral :
          /\ work'[i] = To(props[i], s)
          /\ props[i].status # "DISABLED"
          /\ pc' # "copy" => s \in {"FAILURE", "UNSUPPORTED"} /\ P(i).form # "G"
          /\ pc' # "copy" /\ engine \notin Inductions \cup {"bit-level BMC"} => ~BmcSupports(P(i))

Kept(i) ==
  /\ work'[i] = work[i]
  /\ pc = "solve" /\ engine \in Inductions => pc' = "solve" \/ work[i].status # "UNKNOWN"
  /\ pc = "engine" => pc' \in {"error", "aborted"}
  /\ pc = "bmc done" /\ pc' = "copy" /\ engine \in Inductions /\ AssumptionUnsupported =>
       work[i].status # "REFUTED"

GivenUp(i) ==
  /\ pc \in {"solve", "bmc done"}
  /\ work[i].status \notin {"DISABLED", "ASSUMED"}
  /\ \E s \in Neutral : work'[i] = To(work[i], s) /\ (pc' # "copy" => s = "FAILURE")

ByTautology(i) ==
  /\ pc = "engine" /\ pc' = "copy" /\ props[i].status = "UNKNOWN"
  /\ IsTautology(P(i))
  /\ work'[i] = To(props[i], HoldsVerdict(i))

ByTransitions(i) ==
  /\ pc = "engine" /\ pc' = "copy" /\ props[i].status = "UNKNOWN"
  /\ IsTransitionProperty(P(i)) /\ HoldsForAllTransitions(P(i))
  /\ work'[i] = To(props[i], HoldsVerdict(i))

ByLemma(i) ==
  /\ pc = "engine" /\ pc' = "copy" /\ engine = "liveness lemma" /\ props[i].status = "UNKNOWN"
  /\ P(i).form = "GF" /\ P(i).pred \in Lemmas
  /\ work'[i] = To(props[i], "PROVED")

ByModel(i) ==
  /\ pc = "solve" /\ work[i].status \notin {"DISABLED", "ASSUMED"}
  /\ \E m \in Falsifying(i) : work'[i] = Found(i, m)

ByAbsence(i) ==
  /\ pc = "solve" /\ work[i].status \notin {"DISABLED", "ASSUMED"}
  /\ Falsifying(i) = {}
  /\ work'[i] = NotFound(i)

ByThreshold(i) ==
  /\ pc = "bmc done" /\ pc' = "copy" /\ engine = "completeness threshold"
  /\ work[i].status = "PROVED_WITH_BOUND"
  /\ \E ct \in CompletenessThreshold(D, P(i)) : ct >= bound
  /\ work'[i] = To(work[i], "PROVED")

ByInduction(i) ==
  /\ pc = "bmc done" /\ pc' = "copy" /\ engine \in Inductions
  /\ work[i].status \notin {"DISABLED", "FAILURE", "ASSUMED", "UNSUPPORTED", "PROVED", "REFUTED"}
  /\ Inductive(i)
  /\ work'[i] = To(work[i], HoldsVerdict(i))

ByNetlist(i) ==
  /\ pc = "bit-level solve" /\ work[i].status \notin {"DISABLED", "FAILURE", "ASSUMED"}
  /\ work'[i] \in BitLevelVerdicts(i)

Origin(i) ==
  \/ Kept(i) \/ TakenOver(i) \/ GivenUp(i)
  \/ ByTautology(i) \/ ByTransitions(i) \/ ByLemma(i)
  \/ ByModel(i) \/ ByAbsence(i) \/ ByThreshold(i) \/ ByInduction(i) \/ ByNetlist(i)

\* bmc() begins.
LEMMA EnterBmcOrigin ==
  ASSUME TypeOK, pc = "engine", NEW ps \in [Ids -> Results], NEW b, EnterBmc(ps, b), NEW i \in Ids,
         \/ ps[i] = props[i]
         \/ /\ ps[i] = To(props[i], "UNSUPPORTED") /\ props[i].status # "DISABLED"
            /\ P(i).form # "G" /\ engine \in Inductions
  PROVE  TakenOver(i)
<1>1. pc' \in {"solve", "bmc done"} /\ props[i] \in Results /\ ps[i] \in Results
  BY DEF EnterBmc, TypeOK
<1>2. \A s \in Statuses : To(props[i], s).status = s /\ To(ps[i], s).status = s
  BY <1>1, ResultTypes
<1>3. \/ work'[i] = ps[i] /\ (SkippedByBmc(ps, i) \/ BmcSupports(P(i)))
      \/ work'[i] = To(ps[i], "FAILURE") /\ ~SkippedByBmc(ps, i) /\ ~BmcSupports(P(i))
  BY DEF EnterBmc
<1>4. pc' = "bmc done" => SkippedByBmc(ps, i) \/ ~BmcSupports(P(i))
  BY DEF EnterBmc
<1>5. ~BmcSupports(P(i)) => P(i).form # "G"
  BY DEF BmcSupports
<1>6. CASE ps[i] = props[i] /\ work'[i] = ps[i]
  <2>1. pc' = "bmc done" => props[i].status \in {"DISABLED", "FAILURE"}
    BY <1>2, <1>3, <1>4, <1>6 DEF SkippedByBmc, HasStatus, Statuses
  <2> QED BY <1>1, <1>6, <2>1 DEF TakenOver
<1>7. CASE ps[i] = props[i] /\ work'[i] # ps[i]
  <2>1. work'[i] = To(props[i], "FAILURE") /\ props[i].status # "DISABLED" /\ ~BmcSupports(P(i))
    BY <1>3, <1>7 DEF SkippedByBmc, HasStatus
  <2> QED BY <1>1, <1>5, <2>1 DEF TakenOver, Neutral
<1>8. CASE ps[i] # props[i]
  <2>1. /\ ps[i] = To(props[i], "UNSUPPORTED") /\ props[i].status # "DISABLED"
        /\ P(i).form # "G" /\ engine \in Inductions
    BY <1>8
  <2>2. To(ps[i], "FAILURE") = To(props[i], "FAILURE")
    BY <1>1, <2>1 DEF To, Results
  <2>3. \E s \in {"FAILURE", "UNSUPPORTED"} : work'[i] = To(props[i], s)
    BY <1>3, <2>1, <2>2
  <2> QED BY <1>1, <2>1, <2>3 DEF TakenOver, Neutral
<1> QED BY <1>6, <1>7, <1>8

\* What a step does to property i.
LEMMA OriginStep == ASSUME EngineInv, Next, NEW i \in Ids PROVE Origin(i)
<1>1. /\ TypeOK /\ EngineOfPc /\ work[i] \in Results /\ props[i] \in Results
      /\ DOMAIN work = Ids /\ props \in [Ids -> Results]
  BY DEF EngineInv, TypeOK
<1>2. \A s \in Statuses : To(work[i], s).status = s /\ To(props[i], s).status = s
  BY <1>1, BmcAnswers
<1>5. CASE Start
  BY <1>5 DEF Start, Kept, Origin
<1>6. CASE TautologyEngine
  <2>1. pc = "engine" /\ pc' = "copy"
    BY <1>6 DEF TautologyEngine, Return
  <2>2. work'[i] = props[i] \/ (/\ props[i].status = "UNKNOWN" /\ IsTautology(P(i))
                                /\ work'[i] = To(props[i], HoldsVerdict(i)))
    BY <1>6 DEF TautologyEngine, Return, HasStatus
  <2> QED BY <2>1, <2>2 DEF Origin, TakenOver, ByTautology
<1>7. CASE TransitionPropertyEngine
  <2>1. pc = "engine" /\ pc' = "copy"
    BY <1>7 DEF TransitionPropertyEngine, Return
  <2>2. work'[i] = props[i]
        \/ (props[i].status = "UNKNOWN" /\
             (\/ IsTransitionProperty(P(i)) /\ HoldsForAllTransitions(P(i)) /\ work'[i] = To(props[i], HoldsVerdict(i))
              \/ work'[i] = To(props[i], "UNSUPPORTED") \/ work'[i] = To(props[i], "INCONCLUSIVE")))
    BY <1>7 DEF TransitionPropertyEngine, Return, HasStatus
  <2> QED BY <2>1, <2>2 DEF Origin, TakenOver, ByTransitions, Neutral
<1>8. CASE StrengthenSat
  <2>1. PICK m \in AssumedModels :
          work'[i] = IF i \in m /\ HasStatus(work, i, {"UNKNOWN"}) THEN Found(i, m) ELSE work[i]
    BY <1>8 DEF StrengthenSat
  <2>2. pc = "solve" /\ pc' = pc
    BY <1>8 DEF StrengthenSat
  <2>3. CASE i \in m /\ HasStatus(work, i, {"UNKNOWN"})
    <3>1. m \in Falsifying(i) /\ work'[i] = Found(i, m) /\ work[i].status = "UNKNOWN"
      BY <2>1, <2>3 DEF Falsifying, HasStatus
    <3> QED BY <2>2, <3>1 DEF Origin, ByModel
  <2>4. CASE ~(i \in m /\ HasStatus(work, i, {"UNKNOWN"}))
    BY <2>1, <2>2, <2>4 DEF Origin, Kept
  <2> QED BY <2>3, <2>4
<1>9. CASE StrengthenUnsat
  <2>1. pc = "solve" /\ \A m \in AssumedModels : i \in m => work[i].status # "UNKNOWN"
    BY <1>9 DEF StrengthenUnsat, HasStatus
  <2>2. work'[i] = IF work[i].status = "UNKNOWN" THEN NotFound(i) ELSE work[i]
    BY <1>9 DEF StrengthenUnsat, HasStatus
  <2>3. work[i].status = "UNKNOWN" => Falsifying(i) = {}
    BY <2>1 DEF Falsifying
  <2> QED BY <2>1, <2>2, <2>3 DEF Origin, ByAbsence, Kept
<1>10. CASE StrengthenError
  <2>1. pc = "solve" /\ pc' = "bmc done"
    BY <1>10 DEF StrengthenError
  <2>2. work'[i] = IF work[i].status = "UNKNOWN" THEN To(work[i], "FAILURE") ELSE work[i]
    BY <1>10 DEF StrengthenError, HasStatus
  <2> QED BY <2>1, <2>2 DEF Origin, GivenUp, Kept, Neutral
<1>11. CASE CheckProperty
  <2>1. pc = "solve" /\ engine \notin Inductions
    BY <1>11 DEF CheckProperty, Strengthening, Inductions
  <2>2. pc' \in {"solve", "bmc done"}
    BY <1>11 DEF CheckProperty, Advance
  <2>3. CASE i # index \/ work' = work
    BY <1>1, <1>11, <2>1, <2>2, <2>3 DEF CheckProperty, Origin, Kept
  <2>4. CASE i = index /\ work' # work
    <3>1. /\ ~SkippedByCheck(i)
          /\ \/ \E m \in Falsifying(i) : work'[i] = Found(i, m)
             \/ Falsifying(i) = {} /\ work'[i] = NotFound(i)
             \/ work'[i] = To(work[i], "FAILURE")
      BY <1>1, <1>11, <2>4 DEF CheckProperty
    <3> QED BY <2>1, <2>2, <3>1 DEF Origin, ByModel, ByAbsence, GivenUp, Neutral, SkippedByCheck, HasStatus
  <2> QED BY <2>3, <2>4
<1>12. CASE CTEngine
  <2>1. pc = "engine"
    BY <1>12 DEF CTEngine
  <2>2. CASE Thresholds(D) = {}
    BY <1>12, <2>1, <2>2 DEF CTEngine, Return, Origin, TakenOver
  <2>3. CASE Thresholds(D) # {}
    <3>1. EnterBmc(props, MaxThreshold)
      BY <1>12, <2>3 DEF CTEngine
    <3> QED BY <1>1, <2>1, <3>1, EnterBmcOrigin DEF Origin
  <2> QED BY <2>2, <2>3
<1>13. CASE CTFinish
  <2>1. pc = "bmc done" /\ pc' = "copy" /\ engine = "completeness threshold" /\ work'[i] = Upgraded(i)
    BY <1>13 DEF CTFinish, Return
  <2>2. \/ work'[i] = work[i]
        \/ /\ work[i].status = "PROVED_WITH_BOUND"
           /\ \/ (\E ct \in CompletenessThreshold(D, P(i)) : ct >= bound) /\ work'[i] = To(work[i], "PROVED")
              \/ work'[i] = To(work[i], "UNKNOWN")
    BY <2>1 DEF Upgraded, HasStatus
  <2> QED BY <2>1, <2>2 DEF Origin, Kept, ByThreshold, GivenUp, Neutral, Inductions
<1>14. CASE InductionEngine
  <2> DEFINE ps == [j \in Ids |-> IF InductionSupports(P(j)) \/ HasStatus(props, j, {"DISABLED", "PROVED"})
                                   THEN props[j] ELSE To(props[j], "UNSUPPORTED")]
  <2>1. pc = "engine" /\ engine \in Inductions /\ EnterBmc(ps, InductionDepth)
    BY <1>14 DEF InductionEngine
  <2>2. ps \in [Ids -> Results]
    BY <1>1, AnswerTypes DEF TypeOK, Statuses
  <2>3. \/ ps[i] = props[i]
        \/ /\ ps[i] = To(props[i], "UNSUPPORTED") /\ props[i].status # "DISABLED" /\ P(i).form # "G"
    BY DEF InductionSupports, HasStatus
  <2> HIDE DEF ps
  <2> QED BY <1>1, <2>1, <2>2, <2>3, EnterBmcOrigin DEF Origin
<1>15. CASE InductionFailsEarly
  <2>1. pc = "engine" /\ engine \in Inductions
    BY <1>15 DEF InductionFailsEarly
  <2>2. \/ pc' = "error" /\ work' = work
        \/ /\ pc' = "copy"
           /\ \/ work'[i] = props[i]
              \/ props[i].status # "DISABLED" /\ work'[i] = To(props[i], "UNSUPPORTED")
    BY <1>15 DEF InductionFailsEarly, Return, HasStatus
  <2> QED BY <2>1, <2>2 DEF Origin, TakenOver, Kept, Neutral
<1>16. CASE InductionFinish
  <2>1. pc = "bmc done" /\ engine \in Inductions
    BY <1>16 DEF InductionFinish
  <2>2. CASE pc' = "aborted" /\ work' = work
    BY <2>1, <2>2 DEF Origin, Kept
  <2>3. CASE pc' = "copy" /\ work'[i] = AfterInduction(i)
    <3>1. SkippedByStep(i) <=> work[i].status \in
            {"DISABLED", "FAILURE", "ASSUMED", "UNSUPPORTED", "PROVED", "REFUTED"}
      BY DEF SkippedByStep, PassedOver, HasStatus
    <3>2. CASE SkippedByStep(i)
      <4>1. work'[i] = IF AssumptionUnsupported /\ work[i].status = "REFUTED"
                       THEN To(work[i], "INCONCLUSIVE") ELSE work[i]
        BY <2>3, <3>2 DEF AfterInduction, AfterStep
      <4> QED BY <2>1, <2>3, <4>1 DEF Origin, Kept, GivenUp, Neutral
    <3>3. CASE ~SkippedByStep(i)
      <4>1. work'[i] = To(work[i], "INCONCLUSIVE") \/ (Inductive(i) /\ work'[i] = To(work[i], HoldsVerdict(i)))
        BY <2>3, <3>3 DEF AfterInduction, AfterStep
      <4>2. work[i].status \notin {"DISABLED", "FAILURE", "ASSUMED", "UNSUPPORTED", "PROVED", "REFUTED"}
        BY <3>1, <3>3
      <4> QED BY <2>1, <2>3, <4>1, <4>2 DEF Origin, ByInduction, GivenUp, Neutral
    <3> QED BY <3>2, <3>3
  <2> QED BY <1>16, <2>2, <2>3 DEF InductionFinish, Return
<1>17. CASE LivenessLemmaEngine
  <2>1. pc = "engine" /\ engine = "liveness lemma"
    BY <1>17 DEF LivenessLemmaEngine
  <2>2. \/ pc' = "aborted" /\ work' = work
        \/ /\ pc' = "copy"
           /\ work'[i] = props[i] \/ (/\ props[i].status = "UNKNOWN" /\ P(i).form = "GF" /\ P(i).pred \in Lemmas
                                      /\ work'[i] = To(props[i], "PROVED"))
    BY <1>17 DEF LivenessLemmaEngine, Return, HasStatus
  <2> QED BY <2>1, <2>2 DEF Origin, Kept, TakenOver, ByLemma
<1>18. CASE BmcEngine
  <2>1. pc = "engine" /\ \E b : EnterBmc(props, b)
    BY <1>18 DEF BmcEngine
  <2> QED BY <1>1, <2>1, EnterBmcOrigin DEF Origin
<1>19. CASE BmcFinish
  BY <1>19 DEF BmcFinish, Return, Origin, Kept, Inductions
<1>20. CASE BitLevelEngine
  <2>1. pc = "engine" /\ pc' = "bit-level solve" /\ engine = "bit-level BMC"
    BY <1>20 DEF BitLevelEngine
  <2>2. \/ work'[i] = props[i]
        \/ work'[i] = To(props[i], "FAILURE") /\ props[i].status # "DISABLED" /\ P(i).form # "G"
    BY <1>20 DEF BitLevelEngine, NetlistSupports, HasStatus
  <2> QED BY <2>1, <2>2 DEF Origin, TakenOver, Neutral
<1>21. CASE BitLevelCheck
  <2>1. pc = "bit-level solve"
    BY <1>21 DEF BitLevelCheck
  <2>2. work'[i] = work[i] \/ (~SkippedByCheck(i) /\ work'[i] \in BitLevelVerdicts(i))
    <3>1. CASE i # index
      BY <1>1, <1>21, <3>1 DEF BitLevelCheck
    <3>2. CASE i = index
      BY <1>1, <1>21, <3>2 DEF BitLevelCheck
    <3> QED BY <3>1, <3>2
  <2> QED BY <2>1, <2>2 DEF Origin, Kept, ByNetlist, SkippedByCheck, HasStatus
<1>22. CASE Throw
  BY <1>22 DEF Throw, Origin, Kept
<1>23. CASE CopyResults
  BY <1>23 DEF CopyResults, Origin, Kept
<1>24. CASE Terminated
  BY <1>24 DEF Terminated, vars, Origin, Kept
<1> QED
  BY <1>5, <1>6, <1>7, <1>8, <1>9, <1>10, <1>11, <1>12, <1>13, <1>14, <1>15, <1>16, <1>17, <1>18,
     <1>19, <1>20, <1>21, <1>22, <1>23, <1>24 DEF Next

-----------------------------------------------------------------------------
\* How a run goes from engine to engine, and which bound BMC has.

\* The bound of the BMC run that an engine begins.
BoundOfEngine(e, b) ==
  CASE e = "completeness threshold" -> MaxThreshold
    [] e = "one induction"          -> 1
    [] e = "BMC with bound 5"       -> 5
    [] OTHER                        -> b

Flow ==
  /\ pc # "copy" => props' = props /\ engine' = engine
  /\ pc = "copy" =>
       /\ work' = work
       /\ \/ props' = work /\ engine' = engine /\ pc' = "done"
          \/ /\ props' = [i \in Ids |-> Reset(i, work[i])]
             /\ engine \notin SingleEngines
             /\ \/ engine' = engine /\ pc' = "done"
                \/ engine \in DOMAIN NextEngine /\ engine' = NextEngine[engine] /\ pc' = "engine"
  /\ pc' \in {"solve", "bmc done"} => pc \in {"engine", "solve"}
  /\ pc' = "bit-level solve" => pc \in {"engine", "bit-level solve"}
  /\ pc' = "engine" => pc \in {"start", "copy"}
  /\ pc' = "done" => pc \in {"start", "copy", "done"}
  /\ pc = "done" => pc' = "done"
  /\ pc' # "start"
  /\ \/ bound' = bound /\ ~(pc = "engine" /\ pc' \in {"solve", "bmc done"})
     \/ /\ pc = "engine" /\ pc' \in {"solve", "bmc done"} /\ engine \in BmcEngines
        /\ bound' = BoundOfEngine(engine, bound)
        /\ engine = "completeness threshold" => Thresholds(D) # {}
  /\ pc = "engine" /\ pc' = "bit-level solve" => engine = "bit-level BMC"

\* How a step moves the run from place to place and from engine to engine.
LEMMA FlowStep == ASSUME TypeOK, Next PROVE Flow
<1>1. CASE Start
  BY <1>1 DEF Start, Flow
<1>2. CASE TautologyEngine \/ TransitionPropertyEngine \/ LivenessLemmaEngine
  BY <1>2 DEF TautologyEngine, TransitionPropertyEngine, LivenessLemmaEngine, Return, Flow
<1>3. CASE StrengthenSat \/ StrengthenUnsat \/ StrengthenError
  BY <1>3 DEF StrengthenSat, StrengthenUnsat, StrengthenError, Flow
<1>4. CASE CheckProperty
  <2>1. pc = "solve" /\ props' = props /\ engine' = engine /\ bound' = bound /\ pc' \in {"solve", "bmc done"}
    BY <1>4 DEF CheckProperty, Advance
  <2> QED BY <2>1 DEF Flow
<1>5. CASE CTEngine
  <2>1. pc = "engine" /\ engine = "completeness threshold" /\ props' = props /\ engine' = engine
    BY <1>5 DEF CTEngine
  <2>2. \/ pc' = "copy" /\ bound' = bound
        \/ pc' \in {"solve", "bmc done"} /\ bound' = MaxThreshold /\ Thresholds(D) # {}
    BY <1>5 DEF CTEngine, Return, EnterBmc
  <2> QED BY <2>1, <2>2 DEF Flow, BoundOfEngine, BmcEngines
<1>6. CASE CTFinish \/ BmcFinish
  BY <1>6 DEF CTFinish, BmcFinish, Return, Flow
<1>7. CASE InductionEngine
  <2>1. /\ pc = "engine" /\ engine \in Inductions /\ props' = props /\ engine' = engine
        /\ pc' \in {"solve", "bmc done"} /\ bound' = InductionDepth
    BY <1>7 DEF InductionEngine, EnterBmc
  <2> QED BY <2>1 DEF Flow, BoundOfEngine, BmcEngines, InductionDepth, Inductions
<1>8. CASE InductionFailsEarly
  BY <1>8 DEF InductionFailsEarly, Return, Flow
<1>9. CASE InductionFinish
  BY <1>9 DEF InductionFinish, Return, Flow
<1>10. CASE BmcEngine
  <2>1. /\ pc = "engine" /\ engine \in {"BMC with bound 5", "word-level BMC"} /\ props' = props /\ engine' = engine
        /\ pc' \in {"solve", "bmc done"} /\ bound' = IF engine = "word-level BMC" THEN bound ELSE 5
    BY <1>10 DEF BmcEngine, EnterBmc
  <2> QED BY <2>1 DEF Flow, BoundOfEngine, BmcEngines
<1>11. CASE BitLevelEngine
  BY <1>11 DEF BitLevelEngine, Flow
<1>12. CASE BitLevelCheck
  <2>1. pc = "bit-level solve" /\ props' = props /\ engine' = engine /\ bound' = bound /\ pc' \in {pc, "copy", "error"}
    BY <1>12 DEF BitLevelCheck, BitLevelNext
  <2> QED BY <2>1 DEF Flow
<1>13. CASE Throw
  BY <1>13 DEF Throw, Flow
<1>14. CASE CopyResults
  BY <1>14 DEF CopyResults, Flow
<1>15. CASE Terminated
  BY <1>15 DEF Terminated, vars, Flow
<1> QED
  BY <1>1, <1>2, <1>3, <1>4, <1>5, <1>6, <1>7, <1>8, <1>9, <1>10, <1>11, <1>12, <1>13, <1>14, <1>15 DEF Next

-----------------------------------------------------------------------------
\* What holds of a run besides EngineInv.

BoundKnown ==
  /\ engine \in SingleEngines => bound \in Bounds
  /\ pc \in {"solve", "bmc done"} => engine \in BmcEngines
  /\ pc \in {"solve", "bmc done", "bit-level solve"} => bound \in BmcBounds(D)
  /\ engine = "one induction" /\ pc \in {"solve", "bmc done"} => bound = 1
  /\ engine = "completeness threshold" /\ pc \in {"solve", "bmc done"} =>
       Thresholds(D) # {} /\ bound = MaxThreshold

\* With --property, every other property is disabled; a selected assumption may be
\* assumed again after a failure.
Selection(i) ==
  /\ "ASSUMED" \in {props[i].status, work[i].status} => IsAssumption(i)
  /\ selected # 0 /\ i # selected /\ ~IsAssumption(i) =>
       props[i].status = "DISABLED" /\ work[i].status = "DISABLED"

\* No engine before the completeness threshold leaves a bounded verdict, and
\* k-induction meets bounded verdicts that cover its base case.
BoundsOfVerdicts(i) ==
  /\ engine \in {"tautology", "transition property"} =>
       props[i].status \notin BoundedStatuses /\ work[i].status \notin BoundedStatuses
  /\ engine = "completeness threshold" =>
       /\ pc # "done" => props[i].status \notin BoundedStatuses
       /\ pc \in {"solve", "bmc done"} /\ work[i].status \in BoundedStatuses => work[i].bound = bound
  /\ engine \in Inductions /\ pc \in {"solve", "bmc done"} /\ work[i].status \in BoundedStatuses =>
       work[i].bound >= bound - 1

\* The bounded verdict on a cover is a refutation, but for the netlist.
RoleOfVerdicts(i) ==
  /\ IsExistsPath(i) /\ engine # "bit-level BMC" =>
       "PROVED_WITH_BOUND" \notin {props[i].status, work[i].status}
  /\ ~IsExistsPath(i) => "REFUTED_WITH_BOUND" \notin {props[i].status, work[i].status}

\* The base case leaves nothing open.
BaseCaseAnswers(i) ==
  /\ pc \in {"solve", "bmc done"} => work[i].status # "INCONCLUSIVE"
  /\ pc = "bmc done" /\ engine \in Inductions => work[i].status # "UNKNOWN"

\* The queries constrain by every assumption that the engine supports.
AssumptionUsed(i) ==
  Assumed(i) /\ pc \in {"solve", "bit-level solve"} =>
    \/ work[i].status = "ASSUMED"
    \/ P(i).form # "G" /\ engine \in Inductions \cup {"bit-level BMC"}
    \/ ~BmcSupports(P(i))

RunStatus(i) ==
  Selection(i) /\ BoundsOfVerdicts(i) /\ RoleOfVerdicts(i) /\ BaseCaseAnswers(i) /\ AssumptionUsed(i)

RunInv == EngineInv /\ BoundKnown /\ \A i \in Ids : RunStatus(i)

\* The statuses that the list is built with.
LEMMA RunInit == ASSUME Init PROVE BoundKnown /\ \A i \in Ids : RunStatus(i)
<1>1. BoundKnown
  BY DEF Init, BoundKnown, SingleEngines
<1>2. ASSUME NEW i \in Ids PROVE RunStatus(i)
  <2>1. /\ props[i].status = InitialStatus(i, selected) /\ work = props /\ pc = "start"
    BY DEF Init, Res
  <2>2. /\ InitialStatus(i, selected) \in {"UNKNOWN", "ASSUMED", "DISABLED"}
        /\ InitialStatus(i, selected) = "ASSUMED" => IsAssumption(i)
        /\ selected # 0 /\ i # selected /\ ~IsAssumption(i) => InitialStatus(i, selected) = "DISABLED"
    BY DEF InitialStatus
  <2> QED
    BY <2>1, <2>2 DEF RunStatus, Selection, BoundsOfVerdicts, RoleOfVerdicts, BaseCaseAnswers,
       AssumptionUsed, BoundedStatuses
<1> QED BY <1>1, <1>2

\* The bound is the one of the engine in turn.
LEMMA BoundStep == ASSUME EngineInv, BoundKnown, Next PROVE BoundKnown'
<1>1. Flow /\ TypeOK /\ EngineOfPc /\ D' = D
  BY FlowStep, SameProblem DEF EngineInv
<1>2. Thresholds(D)' = Thresholds(D) /\ BmcBounds(D)' = BmcBounds(D) /\ MaxThreshold' = MaxThreshold
  BY <1>1 DEF Thresholds, BmcBounds, MaxThreshold
<1>3. \A e : engine = e /\ e \notin SingleEngines => engine' \notin SingleEngines
  BY <1>1 DEF Flow, NextEngine, SingleEngines
<1>4. engine' \in SingleEngines => engine' = engine
  BY <1>1, <1>3 DEF Flow
<1>5. CASE bound' = bound /\ ~(pc = "engine" /\ pc' \in {"solve", "bmc done"})
  <2>1. engine' \in SingleEngines => bound' \in Bounds
    BY <1>4, <1>5 DEF BoundKnown
  <2>2. pc' \in {"solve", "bmc done"} => pc = "solve" /\ engine' = engine
    BY <1>1, <1>5 DEF Flow
  <2>3. pc' = "bit-level solve" => bound \in BmcBounds(D)
    <3>1. pc' = "bit-level solve" => pc = "bit-level solve" \/ (pc = "engine" /\ engine = "bit-level BMC")
      BY <1>1 DEF Flow
    <3>2. Bounds \subseteq BmcBounds(D)
      BY DEF BmcBounds
    <3> QED BY <3>1, <3>2 DEF BoundKnown, SingleEngines
  <2> QED BY <1>2, <1>5, <2>1, <2>2, <2>3 DEF BoundKnown
<1>6. CASE pc = "engine" /\ pc' \in {"solve", "bmc done"}
  <2>1. /\ engine' = engine /\ engine \in BmcEngines /\ bound' = BoundOfEngine(engine, bound)
        /\ engine = "completeness threshold" => Thresholds(D) # {}
    BY <1>1, <1>6 DEF Flow
  <2>2. engine = "completeness threshold" => MaxThreshold \in Thresholds(D)
    BY <1>1, <2>1, MaxThresholdIsNat DEF TypeOK
  <2>3. Bounds \cup Thresholds(D) \cup {1, 5} \subseteq BmcBounds(D)
    BY DEF BmcBounds
  <2>4. engine \in SingleEngines => bound' = bound /\ bound \in Bounds
    BY <2>1 DEF BoundKnown, BoundOfEngine, SingleEngines
  <2>5. bound' \in BmcBounds(D)
    BY <2>1, <2>2, <2>3, <2>4 DEF BoundOfEngine, BmcEngines, SingleEngines
  <2> QED BY <1>2, <1>6, <2>1, <2>4, <2>5 DEF BoundKnown, BoundOfEngine
<1> QED BY <1>1, <1>5, <1>6 DEF Flow

\* The statuses and bounds of new results.
LEMMA NewResults ==
  ASSUME TypeOK, NEW i \in Ids
  PROVE  /\ \A s \in Statuses : To(work[i], s).status = s /\ To(props[i], s).status = s
         /\ \A s \in Statuses : To(work[i], s).bound = work[i].bound /\ To(props[i], s).bound = props[i].bound
         /\ \A m \in Falsifying(i) : Found(i, m).status = ViolatedVerdict(i)
         /\ NotFound(i).status = BoundedVerdict(i) /\ NotFound(i).bound = bound
         /\ \A r \in BitLevelVerdicts(i) :
              \/ r.status = "REFUTED" /\ Falsifying(i) # {}
              \/ r.status = "PROVED_WITH_BOUND" /\ r.bound = bound /\ Falsifying(i) = {}
<1>1. work[i] \in Results /\ props[i] \in Results /\ bound \in Nat
  BY DEF TypeOK
<1>2. ASSUME NEW s \in Statuses
      PROVE  /\ To(work[i], s).status = s /\ To(props[i], s).status = s
             /\ To(work[i], s).bound = work[i].bound /\ To(props[i], s).bound = props[i].bound
  BY <1>1 DEF To, Results
<1>3. \A m \in Falsifying(i) : Found(i, m).status = ViolatedVerdict(i)
  BY BmcAnswers DEF Falsifying, AssumedModels
<1>4. NotFound(i).status = BoundedVerdict(i) /\ NotFound(i).bound = bound
  BY <1>1 DEF NotFound, WithBound, Results
<1>5. ASSUME NEW r \in BitLevelVerdicts(i)
      PROVE  \/ r.status = "REFUTED" /\ Falsifying(i) # {}
             \/ r.status = "PROVED_WITH_BOUND" /\ r.bound = bound /\ Falsifying(i) = {}
  <2>1. \A m : [work[i] EXCEPT !.status = "REFUTED", !.trace = {m}].status = "REFUTED"
    BY <1>1 DEF Results
  <2>2. /\ WithBound(work[i], "PROVED_WITH_BOUND", bound).status = "PROVED_WITH_BOUND"
        /\ WithBound(work[i], "PROVED_WITH_BOUND", bound).bound = bound
    BY <1>1 DEF WithBound, Results
  <2> QED BY <2>1, <2>2 DEF BitLevelVerdicts
<1> QED BY <1>2, <1>3, <1>4, <1>5

-----------------------------------------------------------------------------

\* RunStatus(i)', in terms of the constant parts before the step.
NextRunStatus(i) ==
  /\ "ASSUMED" \in {props'[i].status, work'[i].status} => IsAssumption(i)
  /\ selected # 0 /\ i # selected /\ ~IsAssumption(i) =>
       props'[i].status = "DISABLED" /\ work'[i].status = "DISABLED"
  /\ engine' \in {"tautology", "transition property"} =>
       props'[i].status \notin BoundedStatuses /\ work'[i].status \notin BoundedStatuses
  /\ engine' = "completeness threshold" =>
       /\ pc' # "done" => props'[i].status \notin BoundedStatuses
       /\ pc' \in {"solve", "bmc done"} /\ work'[i].status \in BoundedStatuses => work'[i].bound = bound'
  /\ engine' \in Inductions /\ pc' \in {"solve", "bmc done"} /\ work'[i].status \in BoundedStatuses =>
       work'[i].bound >= bound' - 1
  /\ IsExistsPath(i) /\ engine' # "bit-level BMC" =>
       "PROVED_WITH_BOUND" \notin {props'[i].status, work'[i].status}
  /\ ~IsExistsPath(i) => "REFUTED_WITH_BOUND" \notin {props'[i].status, work'[i].status}
  /\ pc' \in {"solve", "bmc done"} => work'[i].status # "INCONCLUSIVE"
  /\ pc' = "bmc done" /\ engine' \in Inductions => work'[i].status # "UNKNOWN"
  /\ Assumed(i) /\ pc' \in {"solve", "bit-level solve"} =>
       \/ work'[i].status = "ASSUMED"
       \/ P(i).form # "G" /\ engine' \in Inductions \cup {"bit-level BMC"}
       \/ ~BmcSupports(P(i))

\* The problem never changes, so the statuses after the step say it all.
LEMMA NextRunStatusIsEnough ==
  ASSUME Next, NEW i \in Ids, NextRunStatus(i) PROVE RunStatus(i)'
<1>1. D' = D /\ Ids' = Ids /\ selected' = selected
  BY SameProblem
<1>2. P(i)' = P(i) /\ Assumed(i)' = Assumed(i) /\ IsExistsPath(i)' = IsExistsPath(i)
      /\ IsAssumption(i)' = IsAssumption(i)
  BY <1>1 DEF P, Assumed, IsAssumption, IsExistsPath
<1>3. Selection(i)'
  BY <1>1, <1>2 DEF NextRunStatus, Selection
<1>4. BoundsOfVerdicts(i)'
  BY DEF NextRunStatus, BoundsOfVerdicts, BoundedStatuses, Inductions
<1>5. RoleOfVerdicts(i)'
  BY <1>2 DEF NextRunStatus, RoleOfVerdicts
<1>6. BaseCaseAnswers(i)'
  BY DEF NextRunStatus, BaseCaseAnswers, Inductions
<1>7. AssumptionUsed(i)'
  BY <1>1 DEF NextRunStatus, AssumptionUsed, Assumed, IsAssumption, P, BmcSupports, Inductions
<1> QED BY <1>3, <1>4, <1>5, <1>6, <1>7 DEF RunStatus

\* The invariant of property i, without the helpers.
LEMMA RunFacts ==
  ASSUME RunInv, NEW i \in Ids
  PROVE  /\ "ASSUMED" \in {props[i].status, work[i].status} => IsAssumption(i)
         /\ selected # 0 /\ i # selected /\ ~IsAssumption(i) =>
              props[i].status = "DISABLED" /\ work[i].status = "DISABLED"
         /\ engine \in {"tautology", "transition property"} =>
              props[i].status \notin BoundedStatuses /\ work[i].status \notin BoundedStatuses
         /\ engine = "completeness threshold" =>
              /\ pc # "done" => props[i].status \notin BoundedStatuses
              /\ pc \in {"solve", "bmc done"} /\ work[i].status \in BoundedStatuses => work[i].bound = bound
         /\ engine \in Inductions /\ pc \in {"solve", "bmc done"} /\ work[i].status \in BoundedStatuses =>
              work[i].bound >= bound - 1
         /\ IsExistsPath(i) /\ engine # "bit-level BMC" =>
              "PROVED_WITH_BOUND" \notin {props[i].status, work[i].status}
         /\ ~IsExistsPath(i) => "REFUTED_WITH_BOUND" \notin {props[i].status, work[i].status}
         /\ pc \in {"solve", "bmc done"} => work[i].status # "INCONCLUSIVE"
         /\ pc = "bmc done" /\ engine \in Inductions => work[i].status # "UNKNOWN"
         /\ Assumed(i) /\ pc \in {"solve", "bit-level solve"} =>
              \/ work[i].status = "ASSUMED"
              \/ P(i).form # "G" /\ engine \in Inductions \cup {"bit-level BMC"}
              \/ ~BmcSupports(P(i))
         /\ engine \in SingleEngines /\ pc # "done" => props[i].status \in {"UNKNOWN", "ASSUMED", "DISABLED"}
         /\ pc = "engine" => props[i].status \notin {"FAILURE", "UNSUPPORTED", "INCONCLUSIVE"}
         /\ Assumed(i) /\ pc # "done" => props[i].status = "ASSUMED"
         /\ work[i] \in Results /\ props[i] \in Results /\ bound \in Nat
<1>1. RunStatus(i)
  BY DEF RunInv
<1>2. work[i] \in Results /\ props[i] \in Results /\ bound \in Nat
      /\ (pc = "engine" => props[i].status \notin {"FAILURE", "UNSUPPORTED", "INCONCLUSIVE"})
  BY DEF RunInv, EngineInv, TypeOK, HasStatus
<1>3. /\ engine \in SingleEngines /\ pc # "done" => props[i].status \in {"UNKNOWN", "ASSUMED", "DISABLED"}
      /\ Assumed(i) /\ pc # "done" => props[i].status = "ASSUMED"
  BY StatusFacts DEF RunInv
<1> QED
  BY <1>1, <1>2, <1>3 DEF RunStatus, Selection, BoundsOfVerdicts, RoleOfVerdicts, BaseCaseAnswers, AssumptionUsed

\* One step: the results of the predecessor first, then the copy of the engine,
\* by the origin of its result.
LEMMA RunStatusStep == ASSUME RunInv, Next, NEW i \in Ids PROVE RunStatus(i)'
<1>1. /\ EngineInv /\ TypeOK /\ EngineOfPc /\ Flow /\ Origin(i) /\ BoundKnown
      /\ work[i] \in Results /\ props[i] \in Results
  BY FlowStep, OriginStep DEF RunInv, EngineInv, TypeOK
<1>2. SUFFICES NextRunStatus(i)
  BY NextRunStatusIsEnough
<1>3. /\ \A s \in Statuses : To(work[i], s).status = s /\ To(props[i], s).status = s
      /\ \A s \in Statuses : To(work[i], s).bound = work[i].bound /\ To(props[i], s).bound = props[i].bound
      /\ \A m \in Falsifying(i) : Found(i, m).status = ViolatedVerdict(i)
      /\ NotFound(i).status = BoundedVerdict(i) /\ NotFound(i).bound = bound
      /\ \A r \in BitLevelVerdicts(i) : r.status \in {"REFUTED", "PROVED_WITH_BOUND"}
  BY <1>1, NewResults
<1>4. Neutral \subseteq Statuses /\ HoldsVerdict(i) \in {"PROVED", "REFUTED"} /\ {"PROVED", "REFUTED"} \subseteq Statuses
      /\ ViolatedVerdict(i) \in {"PROVED", "REFUTED"}
      /\ BoundedVerdict(i) = (IF IsExistsPath(i) THEN "REFUTED_WITH_BOUND" ELSE "PROVED_WITH_BOUND")
  BY DEF Neutral, Statuses, HoldsVerdict, ViolatedVerdict, BoundedVerdict
<1>5. Assumed(i) => IsAssumption(i) /\ ~IsExistsPath(i)
  BY DEF Assumed, IsAssumption, IsExistsPath
<1>6. CASE pc = "copy"
  <2>1. /\ work' = work /\ pc' \in {"engine", "done"}
        /\ \/ props'[i] = work[i] /\ engine' = engine /\ pc' = "done"
           \/ /\ props'[i] = Reset(i, work[i])
              /\ engine \notin SingleEngines
              /\ \/ engine' = engine /\ pc' = "done"
                 \/ engine \in DOMAIN NextEngine /\ engine' = NextEngine[engine]
    BY <1>1, <1>6 DEF Flow
  <2>2. Reset(i, work[i]).status =
          IF work[i].status \in {"FAILURE", "UNSUPPORTED"}
          THEN IF IsAssumption(i) THEN "ASSUMED" ELSE "UNKNOWN"
          ELSE IF work[i].status = "INCONCLUSIVE" THEN "UNKNOWN" ELSE work[i].status
    BY <1>3 DEF Reset, Statuses
  <2>3. /\ engine' \in {"tautology", "transition property"} => engine \in {"tautology", "transition property"}
        /\ engine' = "completeness threshold" /\ pc' # "done" => engine = "transition property"
        /\ engine' # "bit-level BMC" => engine # "bit-level BMC"
    BY <2>1 DEF NextEngine, SingleEngines
  <2>4. props'[i].status = work[i].status \/ props'[i].status \in {"ASSUMED", "UNKNOWN"}
    BY <2>1, <2>2
  <2>5. props'[i].status = "ASSUMED" => work[i].status = "ASSUMED" \/ IsAssumption(i)
    BY <2>1, <2>2
  <2>6. work[i].status = "DISABLED" => props'[i].status = "DISABLED"
    BY <2>1, <2>2
  <2> QED
    BY <2>1, <2>3, <2>4, <2>5, <2>6, RunFacts DEF NextRunStatus, BoundedStatuses
<1>7. CASE pc # "copy"
  <2>1. /\ props' = props /\ engine' = engine
        /\ pc' \in {"solve", "bmc done"} => pc \in {"engine", "solve"}
        /\ pc' = "bit-level solve" => pc \in {"engine", "bit-level solve"}
        /\ pc' = "done" => pc \in {"start", "done"}
        /\ pc = "done" => pc' = "done"
    BY <1>1, <1>7 DEF Flow
  <2>2. pc # "engine" => bound' = bound
    BY <1>1 DEF Flow
  <2>3. CASE Kept(i)
    <3>1. /\ work'[i] = work[i]
          /\ pc = "engine" => pc' \in {"error", "aborted"}
          /\ pc = "solve" /\ pc' = "bmc done" /\ engine \in Inductions => work[i].status # "UNKNOWN"
      BY <2>3 DEF Kept
    <3>2. pc' \in {"solve", "bmc done"} => pc = "solve" /\ bound' = bound
      BY <2>1, <2>2, <3>1
    <3>3. pc' = "bit-level solve" => pc = "bit-level solve"
      BY <2>1, <3>1
    <3> QED BY <2>1, <3>1, <3>2, <3>3, RunFacts DEF NextRunStatus, BoundedStatuses
  <2>4. CASE TakenOver(i)
    <3>1. /\ work'[i].bound = props[i].bound
          /\ \/ work'[i].status = props[i].status
             \/ work'[i].status \in Neutral /\ props[i].status # "DISABLED"
      <4>1. CASE work'[i] = props[i]
        BY <4>1
      <4>2. CASE work'[i] # props[i]
        <5>1. PICK s \in Neutral : work'[i] = To(props[i], s) /\ props[i].status # "DISABLED"
          BY <2>4, <4>2 DEF TakenOver
        <5>2. work'[i].status = s /\ work'[i].bound = props[i].bound
          BY <1>3, <1>4, <5>1
        <5> QED BY <5>1, <5>2
      <4> QED BY <4>1, <4>2
    <3>2. /\ pc = "engine"
          /\ pc' \in {"solve", "bmc done", "bit-level solve"} =>
               work'[i].status = props[i].status \/ work'[i].status \in {"FAILURE", "UNSUPPORTED"}
          /\ pc' = "bmc done" => work'[i].status \in {"DISABLED", "FAILURE", "UNSUPPORTED"}
      BY <1>3, <1>4, <2>4 DEF TakenOver
    <3>3. Assumed(i) /\ pc' \in {"solve", "bit-level solve"} =>
            \/ work'[i].status = "ASSUMED"
            \/ P(i).form # "G" /\ engine \in Inductions \cup {"bit-level BMC"}
            \/ ~BmcSupports(P(i))
      BY <2>4, RunFacts DEF TakenOver
    <3>4. engine \in Inductions /\ pc' \in {"solve", "bmc done"} /\ work'[i].status \in BoundedStatuses =>
            work'[i].bound >= bound' - 1
      <4>1. CASE engine = "one induction" /\ pc' \in {"solve", "bmc done"}
        <5>1. bound' = 1
          BY <1>1, <3>2, <4>1 DEF Flow, BoundOfEngine
        <5>2. work'[i].bound \in Nat
          BY <1>1, <3>1 DEF Results
        <5>3. work'[i].bound >= bound' - 1
          BY <5>1, <5>2
        <5> QED BY <5>3
      <4>2. CASE engine = "k-induction"
        <5>1. props[i].status \in {"UNKNOWN", "ASSUMED", "DISABLED"}
          BY <3>2, <4>2, RunFacts DEF SingleEngines
        <5> QED BY <3>1, <5>1 DEF Neutral, BoundedStatuses
      <4> QED BY <4>1, <4>2 DEF Inductions
    <3> QED BY <2>1, <3>1, <3>2, <3>3, <3>4, RunFacts DEF NextRunStatus, BoundedStatuses, Neutral
  <2>5. CASE GivenUp(i)
    <3>1. work'[i].status \in Neutral /\ (pc' # "copy" => work'[i].status = "FAILURE")
      <4>1. PICK s \in Neutral : work'[i] = To(work[i], s) /\ (pc' # "copy" => s = "FAILURE")
        BY <2>5 DEF GivenUp
      <4>2. work'[i].status = s
        BY <1>3, <1>4, <4>1
      <4> QED BY <4>1, <4>2
    <3> QED BY <2>1, <2>2, <2>5, <3>1, RunFacts DEF GivenUp, NextRunStatus, BoundedStatuses, Neutral
  <2>6. CASE ByTautology(i) \/ ByTransitions(i) \/ ByLemma(i)
    <3>1. pc = "engine" /\ pc' = "copy" /\ props[i].status = "UNKNOWN"
      BY <2>6 DEF ByTautology, ByTransitions, ByLemma
    <3>2. work'[i] = To(props[i], HoldsVerdict(i)) \/ work'[i] = To(props[i], "PROVED")
      BY <2>6 DEF ByTautology, ByTransitions, ByLemma
    <3>3. work'[i].status \in {"PROVED", "REFUTED"}
      BY <1>3, <1>4, <3>2
    <3> QED BY <2>1, <3>1, <3>3, RunFacts DEF NextRunStatus, BoundedStatuses
  <2>7. CASE ByModel(i)
    <3>1. work'[i].status \in {"PROVED", "REFUTED"} /\ pc = "solve" /\ work[i].status \notin {"DISABLED", "ASSUMED"}
      BY <1>3, <1>4, <2>7 DEF ByModel
    <3> QED BY <2>1, <2>2, <3>1, RunFacts DEF NextRunStatus, BoundedStatuses
  <2>8. CASE ByAbsence(i)
    <3>1. /\ pc = "solve" /\ work[i].status \notin {"DISABLED", "ASSUMED"}
          /\ work'[i].status = BoundedVerdict(i) /\ work'[i].bound = bound
      BY <1>3, <2>8 DEF ByAbsence
    <3>2. engine \notin {"tautology", "transition property", "bit-level BMC"}
      BY <1>1, <3>1 DEF BoundKnown, BmcEngines
    <3>3. bound \in Nat /\ bound >= bound - 1
      <4>1. bound \in Nat
        BY <1>1 DEF TypeOK
      <4> QED BY <4>1
    <3> QED BY <1>4, <2>1, <2>2, <3>1, <3>2, <3>3, RunFacts DEF NextRunStatus, BoundedStatuses
  <2>9. CASE ByThreshold(i) \/ ByInduction(i)
    <3>1. /\ work'[i].status \in {"PROVED", "REFUTED"} /\ pc = "bmc done" /\ pc' = "copy"
          /\ work[i].status \notin {"DISABLED", "ASSUMED"}
      <4>1. \E s \in {"PROVED", "REFUTED"} : work'[i] = To(work[i], s)
        BY <1>4, <2>9 DEF ByThreshold, ByInduction
      <4>2. work'[i].status \in {"PROVED", "REFUTED"}
        BY <1>3, <1>4, <4>1
      <4> QED BY <2>9, <4>2 DEF ByThreshold, ByInduction
    <3> QED BY <2>1, <3>1, RunFacts DEF NextRunStatus, BoundedStatuses
  <2>10. CASE ByNetlist(i)
    <3>1. /\ work'[i].status \in {"REFUTED", "PROVED_WITH_BOUND"} /\ pc = "bit-level solve"
          /\ work[i].status \notin {"DISABLED", "ASSUMED"}
      BY <1>3, <2>10 DEF ByNetlist
    <3>2. engine = "bit-level BMC"
      BY <1>1, <3>1 DEF EngineOfPc
    <3> QED BY <2>1, <2>2, <3>1, <3>2, RunFacts DEF NextRunStatus, BoundedStatuses, Inductions
  <2> QED BY <1>1, <2>3, <2>4, <2>5, <2>6, <2>7, <2>8, <2>9, <2>10 DEF Origin
<1> QED BY <1>6, <1>7

\* Every run.
LEMMA RunInvariant == Spec => []RunInv
<1>1. ASSUME RunInv, Next, EngineInv' PROVE RunInv'
  <2>1. BoundKnown'
    BY <1>1, BoundStep DEF RunInv
  <2>2. Ids' = Ids
    BY <1>1, SameProblem
  <2>3. \A i \in Ids : RunStatus(i)'
    BY <1>1, RunStatusStep
  <2> QED BY <1>1, <2>1, <2>2, <2>3 DEF RunInv
<1>2. ASSUME RunInv, UNCHANGED vars, EngineInv' PROVE RunInv'
  <2>1. BoundKnown'
    <3>1. D' = D /\ bound' = bound /\ pc' = pc /\ engine' = engine
      BY <1>2 DEF vars, D
    <3>2. Thresholds(D)' = Thresholds(D) /\ BmcBounds(D)' = BmcBounds(D) /\ MaxThreshold' = MaxThreshold
      BY <3>1 DEF Thresholds, BmcBounds, MaxThreshold
    <3> QED BY <1>2, <3>1, <3>2 DEF RunInv, BoundKnown
  <2>2. Ids' = Ids
    BY <1>2 DEF vars, Ids, D
  <2>3. ASSUME NEW i \in Ids PROVE RunStatus(i)'
    <3>1. RunStatus(i)
      BY <1>2 DEF RunInv
    <3>2. Assumed(i)' = Assumed(i) /\ IsAssumption(i)' = IsAssumption(i) /\ IsExistsPath(i)' = IsExistsPath(i)
          /\ P(i)' = P(i)
      BY <1>2 DEF vars, Assumed, IsAssumption, IsExistsPath, P, D
    <3>3. Selection(i)' /\ BoundsOfVerdicts(i)' /\ RoleOfVerdicts(i)'
      BY <1>2, <3>1, <3>2 DEF RunStatus, Selection, BoundsOfVerdicts, RoleOfVerdicts, vars
    <3>4. BaseCaseAnswers(i)' /\ AssumptionUsed(i)'
      BY <1>2, <3>1, <3>2 DEF RunStatus, BaseCaseAnswers, AssumptionUsed, vars
    <3> QED BY <3>3, <3>4 DEF RunStatus
  <2> QED BY <1>2, <2>1, <2>2, <2>3 DEF RunInv
<1>3. Init /\ EngineInv => RunInv
  BY RunInit DEF RunInv
<1>4. EngineInv /\ EngineInv' /\ RunInv /\ [Next]_vars => RunInv'
  BY <1>1, <1>2
<1>5. Spec => []EngineInv
  BY EngineInvariant
<1> QED BY <1>3, <1>4, <1>5, PTL DEF Spec

-----------------------------------------------------------------------------
\* Queries and violations.

\* The assumptions as a set of properties.
LEMMA AssumptionsMeaning ==
  ASSUME NEW d, NEW sel
  PROVE  /\ \A w : MeetsAssumptions(d, sel, w) <=> \A q \in AssumptionsOf(d, sel) : ViolatedBy(q, w) = {}
         /\ \A j \in DOMAIN d.props : d.props[j].role = "assume" /\ j # sel => d.props[j] \in AssumptionsOf(d, sel)
         /\ \A q \in AssumptionsOf(d, sel) : \E j \in DOMAIN d.props :
              q = d.props[j] /\ d.props[j].role = "assume" /\ j # sel
BY DEF MeetsAssumptions, AssumptionsOf

\* Truth, a set of tuples over all problems, read for the problem of the run.
LEMMA ViolationsMeaning ==
  ASSUME problem \in DOMAIN Problems, selected \in {0} \cup Ids, NEW i \in Ids, NEW t
  PROVE  t \in Violations(i) <=>
           /\ t \in 0 .. Horizon
           /\ \E w \in Words(D, Horizon) : MeetsAssumptions(D, selected, w) /\ t \in ViolatedBy(P(i), w)
<1> DEFINE tuple == <<problem, selected, i, t>>
           Meets(d, sel) == {w \in Words(d, Horizon) : MeetsAssumptions(d, sel, w)}
           Of(d, sel, j) == UNION {ViolatedBy(d.props[j], w) : w \in Meets(d, sel)}
           Tuples(name, d, sel) == UNION {{<<name, sel, j, x>> : x \in Of(d, sel, j)} : j \in DOMAIN d.props}
           All(name, d) == UNION {Tuples(name, d, sel) : sel \in {0} \cup DOMAIN d.props}
<1>1. Truth = UNION {All(name, Problems[name]) : name \in DOMAIN Problems}
  BY DEF Truth
<1>2. t \in Of(D, selected, i) <=>
        \E w \in Words(D, Horizon) : MeetsAssumptions(D, selected, w) /\ t \in ViolatedBy(P(i), w)
  BY DEF P
<1> HIDE DEF Of
<1>3. \A name, d, sel : tuple \in Tuples(name, d, sel) <=>
        name = problem /\ sel = selected /\ i \in DOMAIN d.props /\ t \in Of(d, sel, i)
  OBVIOUS
<1> HIDE DEF Tuples
<1>4. \A name, d : tuple \in All(name, d) <=>
        name = problem /\ selected \in {0} \cup DOMAIN d.props /\ i \in DOMAIN d.props /\ t \in Of(d, selected, i)
  BY <1>3
<1> HIDE DEF All
<1>5. tuple \in Truth <=> t \in Of(D, selected, i)
  BY <1>1, <1>4 DEF D, Ids
<1> QED BY <1>2, <1>5 DEF Violations

\* The sets of falsified properties are those of paths.
LEMMA ModelsMeaning ==
  ASSUME problem \in DOMAIN Problems, NEW b, NEW m
  PROVE  <<problem, b, m>> \in Models <=>
           b \in BmcBounds(D) /\ \E path \in Paths(D, b) : m = {j \in Ids : Falsified(P(j), path, b)}
<1> DEFINE tuple == <<problem, b, m>>
           Set(d, path, c) == {j \in DOMAIN d.props : Falsified(d.props[j], path, c)}
           OfBound(name, d, c) == {<<name, c, Set(d, path, c)>> : path \in Paths(d, c)}
           All(name, d) == UNION {OfBound(name, d, c) : c \in BmcBounds(d)}
<1>1. Models = UNION {All(name, Problems[name]) : name \in DOMAIN Problems}
  BY DEF Models
<1>2. \A path : Set(D, path, b) = {j \in Ids : Falsified(P(j), path, b)}
  BY DEF Ids, P
<1> HIDE DEF Set
<1>3. \A name, d, c : tuple \in OfBound(name, d, c) <=>
        name = problem /\ c = b /\ \E path \in Paths(d, c) : m = Set(d, path, c)
  OBVIOUS
<1> HIDE DEF OfBound
<1>4. \A name, d : tuple \in All(name, d) <=>
        name = problem /\ b \in BmcBounds(d) /\ \E path \in Paths(d, b) : m = Set(d, path, b)
  BY <1>3
<1> HIDE DEF All
<1>5. tuple \in Models <=> b \in BmcBounds(D) /\ \E path \in Paths(D, b) : m = Set(D, path, b)
  BY <1>1, <1>4 DEF D
<1> QED BY <1>2, <1>5

\* No path of b transitions that keeps the assumptions falsifies p.
NoPath(d, As, p, b) == \A path \in Paths(d, b) : KeepsAll(As, path, b) => ~Falsified(p, path, b)

\* The designs and bounds of the runs are what the lemmas on unwindings ask for.
LEMMA RunIsOfDesign ==
  ASSUME TypeOK
  PROVE  /\ IsDesign(D) /\ Horizon \in Nat
         /\ problem \in DOMAIN Problems /\ selected \in {0} \cup Ids
         /\ \A i \in Ids : P(i).form \in Forms /\ P(i) \in Property
<1>1. D \in Problem /\ \A i \in Ids : P(i) \in Property
  BY ProblemType DEF TypeOK
<1>2. IsDesign(D)
  BY <1>1 DEF Problem, IsDesign
<1>3. \A i \in Ids : P(i).form \in Forms
  BY <1>1 DEF Property
<1> QED BY <1>1, <1>2, <1>3, HorizonAssumption DEF TypeOK

\* No --property is no property.
LEMMA ZeroIsNoProperty == ASSUME TypeOK PROVE 0 \notin Ids
<1>1. PICK n \in Nat \ {0} : Ids = 1 .. n
  BY ProblemType DEF TypeOK
<1> QED BY <1>1

\* A query that is unsatisfiable leaves no path: it constrains by nothing but assumptions.
LEMMA AbsenceIsGenuine ==
  ASSUME RunInv, NEW i \in Ids, ~IsAssumption(i), work[i].status # "DISABLED",
         pc \in {"solve", "bit-level solve"}, Falsifying(i) = {}
  PROVE  NoPath(D, AssumptionsOf(D, selected), P(i), bound)
<1>1. TypeOK /\ problem \in DOMAIN Problems /\ bound \in BmcBounds(D)
  BY DEF RunInv, EngineInv, TypeOK, BoundKnown
<1>2. SUFFICES ASSUME NEW path \in Paths(D, bound), KeepsAll(AssumptionsOf(D, selected), path, bound),
                      Falsified(P(i), path, bound)
               PROVE  FALSE
  BY DEF NoPath
<1> DEFINE m == {j \in Ids : Falsified(P(j), path, bound)}
<1>3. <<problem, bound, m>> \in Models
  BY <1>1, ModelsMeaning
<1>4. ASSUME NEW j \in Ids, work[j].status = "ASSUMED" PROVE ~Falsified(P(j), path, bound)
  <2>1. IsAssumption(j) /\ (selected = 0 \/ i = selected)
    BY <1>4, RunFacts
  <2>2. j # selected
    <3>1. 0 \notin Ids
      BY <1>1, ZeroIsNoProperty
    <3> QED BY <2>1, <3>1
  <2>3. P(j) \in AssumptionsOf(D, selected)
    BY <2>1, <2>2, AssumptionsMeaning DEF IsAssumption, P, Ids
  <2> QED BY <1>2, <2>3 DEF KeepsAll
<1>5. m \in AssumedModels
  BY <1>3, <1>4 DEF AssumedModels, HasStatus
<1>6. i \in m
  BY <1>2
<1> QED BY <1>5, <1>6 DEF Falsifying

\* A query that is satisfiable shows a path, if it constrains by every assumption.
LEMMA ModelIsGenuine ==
  ASSUME RunInv, NEW i \in Ids, Falsifying(i) # {},
         \A j \in Ids : Assumed(j) => work[j].status = "ASSUMED" \/ ~BmcSupports(P(j))
  PROVE  /\ bound \in BmcBounds(D)
         /\ \E path \in Paths(D, bound) :
              KeepsAll(AssumptionsOf(D, selected), path, bound) /\ Falsified(P(i), path, bound)
<1>1. problem \in DOMAIN Problems
  BY DEF RunInv, EngineInv, TypeOK
<1>2. PICK m \in AssumedModels : i \in m
  BY DEF Falsifying
<1>3. PICK path \in Paths(D, bound) : m = {j \in Ids : Falsified(P(j), path, bound)} /\ bound \in BmcBounds(D)
  BY <1>1, <1>2, ModelsMeaning DEF AssumedModels
<1>4. ASSUME NEW q \in AssumptionsOf(D, selected) PROVE ~Falsified(q, path, bound)
  <2>1. PICK j \in Ids : q = P(j) /\ Assumed(j)
    BY AssumptionsMeaning DEF Assumed, IsAssumption, P, Ids
  <2>2. CASE work[j].status = "ASSUMED"
    BY <1>2, <1>3, <2>1, <2>2 DEF AssumedModels, HasStatus
  <2>3. CASE ~BmcSupports(P(j))
    BY <2>1, <2>3 DEF BmcSupports, Falsified
  <2> QED BY <2>1, <2>2, <2>3
<1> QED BY <1>2, <1>3, <1>4 DEF KeepsAll

\* A word that meets the assumptions unrolls to paths that keep them.
LEMMA UnrollingKeepsAll ==
  ASSUME TypeOK, SafetyAssumptions(D), NEW w \in Words(D, Horizon), MeetsAssumptions(D, selected, w),
         NEW b \in Nat, NEW path, FollowsWord(path, b, w)
  PROVE  KeepsAll(AssumptionsOf(D, selected), path, b)
<1>1. SUFFICES ASSUME NEW q \in AssumptionsOf(D, selected) PROVE ~Falsified(q, path, b)
  BY DEF KeepsAll
<1>2. ViolatedBy(q, w) = {}
  BY AssumptionsMeaning
<1>3. PICK j \in Ids : q = P(j) /\ P(j).role = "assume"
  BY AssumptionsMeaning DEF P, Ids
<1>4. q.form \in Forms /\ q.form \notin {"F", "GF"}
  BY <1>3, RunIsOfDesign DEF SafetyAssumptions, P, Ids
<1>5. CASE q.form = "EX"
  BY <1>5 DEF Falsified
<1>6. CASE q.form # "EX"
  <2>1. q.form \in SafetyForms
    BY <1>4, <1>6 DEF Forms, SafetyForms
  <2> QED BY <1>2, <2>1, RunIsOfDesign, PrefixKeeps
<1> QED BY <1>5, <1>6

\* What BMC does not find up to a bound is no violation up to it.
LEMMA NoPathNoViolation ==
  ASSUME TypeOK, SafetyAssumptions(D), NEW i \in Ids, NEW b \in Nat,
         NoPath(D, AssumptionsOf(D, selected), P(i), b)
  PROVE  \A t \in Violations(i) : t > b
<1>1. SUFFICES ASSUME NEW t \in Violations(i), t <= b PROVE FALSE
  <2>1. \A t \in Violations(i) : t \in Int
    BY DEF Violations
  <2> QED BY <2>1
<1>2. PICK w \in Words(D, Horizon) : MeetsAssumptions(D, selected, w) /\ t \in ViolatedBy(P(i), w)
  BY RunIsOfDesign, ViolationsMeaning
<1>3. PICK path \in Paths(D, b) : FollowsWord(path, b, w)
  BY RunIsOfDesign, WordUnrolls
<1>4. KeepsAll(AssumptionsOf(D, selected), path, b)
  BY <1>2, <1>3, UnrollingKeepsAll
<1>5. Falsified(P(i), path, b)
  BY <1>1, <1>2, <1>3, RunIsOfDesign, PrefixShows
<1> QED BY <1>3, <1>4, <1>5 DEF NoPath

-----------------------------------------------------------------------------
\* Verdicts with a bound.

BoundedOk(i, r) ==
  ~IsAssumption(i) /\ r.status = BoundedVerdict(i) => NoPath(D, AssumptionsOf(D, selected), P(i), r.bound)

BoundedInv == \A i \in Ids : BoundedOk(i, props[i]) /\ BoundedOk(i, work[i])

\* Resetting a result gives a result that says nothing, or changes nothing.
LEMMA ResetResult ==
  ASSUME TypeOK, NEW i \in Ids
  PROVE  \/ Reset(i, work[i]) = work[i]
         \/ Reset(i, work[i]).status \in {"UNKNOWN", "ASSUMED"}
<1>1. work[i] \in Results /\ "UNKNOWN" \in Statuses /\ "ASSUMED" \in Statuses
  BY DEF TypeOK, Statuses
<1>2. To(work[i], "UNKNOWN").status = "UNKNOWN" /\ To(work[i], "ASSUMED").status = "ASSUMED"
  BY <1>1, ResultTypes
<1> QED BY <1>2 DEF Reset

\* What becomes of the results of the predecessor.
LEMMA PropsStep ==
  ASSUME EngineInv, Next, NEW i \in Ids
  PROVE  \/ props'[i] = props[i] /\ (pc # "copy" => engine' = engine)
         \/ pc = "copy" /\ props'[i] = work[i]
         \/ pc = "copy" /\ props'[i].status \in {"UNKNOWN", "ASSUMED"}
<1>1. Flow /\ TypeOK
  BY FlowStep DEF EngineInv
<1>2. pc # "copy" => props' = props /\ engine' = engine
  BY <1>1 DEF Flow
<1>3. pc = "copy" => props'[i] = work[i] \/ props'[i] = Reset(i, work[i])
  BY <1>1 DEF Flow
<1> QED BY <1>1, <1>2, <1>3, ResetResult

\* Only a query without a model gives a verdict with a bound.
LEMMA BoundedStep == ASSUME RunInv, BoundedInv, Next PROVE BoundedInv'
<1>1. EngineInv /\ TypeOK /\ EngineOfPc
  BY DEF RunInv, EngineInv
<1>2. D' = D /\ Ids' = Ids /\ selected' = selected
  BY <1>1, SameProblem
<1>3. ASSUME NEW i \in Ids PROVE BoundedOk(i, props'[i]) /\ BoundedOk(i, work'[i])
  <2>1. BoundedOk(i, props[i]) /\ BoundedOk(i, work[i])
    BY DEF BoundedInv
  <2>2. \A r : r.status \notin BoundedStatuses => BoundedOk(i, r)
    BY DEF BoundedOk, BoundedVerdict, BoundedStatuses
  <2>3. /\ \A s \in Statuses : To(work[i], s).status = s /\ To(props[i], s).status = s
        /\ \A m \in Falsifying(i) : Found(i, m).status = ViolatedVerdict(i)
        /\ NotFound(i).status = BoundedVerdict(i) /\ NotFound(i).bound = bound
        /\ \A r \in BitLevelVerdicts(i) :
              \/ r.status = "REFUTED" /\ Falsifying(i) # {}
              \/ r.status = "PROVED_WITH_BOUND" /\ r.bound = bound /\ Falsifying(i) = {}
    <3>1. \A s \in Statuses : To(work[i], s).status = s /\ To(props[i], s).status = s
      BY <1>1, BmcAnswers
    <3> QED BY <1>1, <3>1, NewResults
  <2>4. /\ Neutral \subseteq Statuses \ BoundedStatuses
        /\ {HoldsVerdict(i), ViolatedVerdict(i), "PROVED", "REFUTED"} \subseteq Statuses \ BoundedStatuses
        /\ {"UNKNOWN", "ASSUMED"} \cap BoundedStatuses = {}
    BY DEF Neutral, Statuses, HoldsVerdict, ViolatedVerdict, BoundedStatuses
  <2>5. BoundedOk(i, props'[i])
    <3>1. props'[i].status \in {"UNKNOWN", "ASSUMED"} \/ props'[i] = props[i] \/ props'[i] = work[i]
      BY <1>1, PropsStep
    <3>2. CASE props'[i].status \in {"UNKNOWN", "ASSUMED"}
      BY <2>2, <2>4, <3>2
    <3> QED BY <2>1, <3>1, <3>2
  <2>6. CASE Kept(i)
    BY <2>1, <2>5, <2>6 DEF Kept
  <2>7. CASE TakenOver(i)
    <3>1. work'[i] = props[i] \/ \E s \in Neutral : work'[i] = To(props[i], s)
      BY <2>7 DEF TakenOver
    <3>2. work'[i] = props[i] \/ work'[i].status \notin BoundedStatuses
      BY <2>3, <2>4, <3>1
    <3> QED BY <2>1, <2>2, <2>5, <3>2
  <2>8. CASE GivenUp(i)
    <3>1. PICK s \in Neutral : work'[i] = To(work[i], s)
      BY <2>8 DEF GivenUp
    <3>2. work'[i].status = s
      BY <2>3, <2>4, <3>1
    <3> QED BY <2>4, <2>2, <2>5, <3>2
  <2>9. CASE ByTautology(i) \/ ByTransitions(i) \/ ByLemma(i)
    <3>1. \E s \in {HoldsVerdict(i), "PROVED"} : work'[i] = To(props[i], s)
      BY <2>9 DEF ByTautology, ByTransitions, ByLemma
    <3>2. work'[i].status \notin BoundedStatuses
      BY <2>3, <2>4, <3>1
    <3> QED BY <2>2, <2>5, <3>2
  <2>10. CASE ByThreshold(i) \/ ByInduction(i)
    <3>1. \E s \in {HoldsVerdict(i), "PROVED"} : work'[i] = To(work[i], s)
      BY <2>10 DEF ByThreshold, ByInduction
    <3>2. work'[i].status \notin BoundedStatuses
      BY <2>3, <2>4, <3>1
    <3> QED BY <2>2, <2>5, <3>2
  <2>11. CASE ByModel(i)
    <3>1. work'[i].status \notin BoundedStatuses
      BY <2>3, <2>4, <2>11 DEF ByModel
    <3> QED BY <2>2, <2>5, <3>1
  <2>12. CASE ByAbsence(i)
    <3>1. work'[i].bound = bound /\ pc = "solve" /\ work[i].status # "DISABLED" /\ Falsifying(i) = {}
      BY <2>3, <2>12 DEF ByAbsence
    <3>2. ~IsAssumption(i) => NoPath(D, AssumptionsOf(D, selected), P(i), bound)
      BY <3>1, AbsenceIsGenuine
    <3> QED BY <2>5, <3>1, <3>2 DEF BoundedOk
  <2>13. CASE ByNetlist(i)
    <3>1. /\ pc = "bit-level solve" /\ work[i].status # "DISABLED"
          /\ \/ work'[i].status = "REFUTED"
             \/ work'[i].bound = bound /\ Falsifying(i) = {}
      BY <2>3, <2>13 DEF ByNetlist
    <3>2. ~IsAssumption(i) /\ Falsifying(i) = {} => NoPath(D, AssumptionsOf(D, selected), P(i), bound)
      BY <3>1, AbsenceIsGenuine
    <3>3. CASE work'[i].status = "REFUTED"
      BY <2>2, <2>4, <2>5, <3>3
    <3>4. CASE work'[i].bound = bound /\ Falsifying(i) = {}
      BY <2>5, <3>2, <3>4 DEF BoundedOk
    <3> QED BY <3>1, <3>3, <3>4
  <2> QED BY <1>1, <2>6, <2>7, <2>8, <2>9, <2>10, <2>11, <2>12, <2>13, OriginStep DEF Origin
<1>4. ASSUME NEW i \in Ids PROVE BoundedOk(i, props[i])' /\ BoundedOk(i, work[i])'
  <2>1. P(i)' = P(i) /\ AssumptionsOf(D, selected)' = AssumptionsOf(D, selected)
    BY <1>2 DEF P, AssumptionsOf
  <2>2. (IsAssumption(i)' <=> IsAssumption(i)) /\ BoundedVerdict(i)' = BoundedVerdict(i)
    BY <2>1 DEF IsAssumption, BoundedVerdict, IsExistsPath
  <2> QED BY <1>2, <1>3, <2>1, <2>2 DEF BoundedOk
<1> QED BY <1>2, <1>4 DEF BoundedInv

\* Every run.
LEMMA BoundedInvariant == Spec => []BoundedInv
<1>1. Init => BoundedInv
  <2>1. ASSUME Init, NEW i \in Ids PROVE props[i].status \notin BoundedStatuses /\ work[i] = props[i]
    BY <2>1 DEF Init, Res, InitialStatus, BoundedStatuses
  <2>2. \A i \in Ids : \A r : r.status \notin BoundedStatuses => BoundedOk(i, r)
    BY DEF BoundedOk, BoundedVerdict, BoundedStatuses
  <2> QED BY <2>1, <2>2 DEF BoundedInv
<1>2. ASSUME BoundedInv, UNCHANGED vars PROVE BoundedInv'
  <2>1. D' = D /\ Ids' = Ids /\ selected' = selected /\ props' = props /\ work' = work
    BY <1>2 DEF vars, D, Ids
  <2>2. ASSUME NEW i \in Ids PROVE BoundedOk(i, props[i])' /\ BoundedOk(i, work[i])'
    <3>1. P(i)' = P(i) /\ AssumptionsOf(D, selected)' = AssumptionsOf(D, selected)
      BY <2>1 DEF P, AssumptionsOf
    <3>2. (IsAssumption(i)' <=> IsAssumption(i)) /\ BoundedVerdict(i)' = BoundedVerdict(i)
      BY <3>1 DEF IsAssumption, BoundedVerdict, IsExistsPath
    <3> QED BY <1>2, <2>1, <3>1, <3>2 DEF BoundedInv, BoundedOk
  <2> QED BY <2>1, <2>2 DEF BoundedInv
<1>3. RunInv /\ BoundedInv /\ [Next]_vars => BoundedInv'
  BY <1>2, BoundedStep
<1> QED BY <1>1, <1>3, RunInvariant, PTL DEF Spec

\* A verdict with a bound is right about every run up to that bound, when no assumption
\* is about liveness.
THEOREM BoundedVerdictsAreSound == Spec => [](SafetyAssumptions(D) => BoundedIsSound)
<1>1. RunInv /\ BoundedInv => (SafetyAssumptions(D) => BoundedIsSound)
  <2>1. SUFFICES ASSUME RunInv, BoundedInv, SafetyAssumptions(D),
                        NEW i \in Checked, props[i].status = BoundedVerdict(i)
                 PROVE  \A t \in Violations(i) : t > props[i].bound
    BY DEF BoundedIsSound, HasStatus
  <2>2. TypeOK
    BY <2>1 DEF RunInv, EngineInv
  <2>3. i \in Ids /\ ~IsAssumption(i) /\ props[i].bound \in Nat
    BY <2>2 DEF Checked, TypeOK, Results
  <2>4. NoPath(D, AssumptionsOf(D, selected), P(i), props[i].bound)
    BY <2>1, <2>3 DEF BoundedInv, BoundedOk
  <2> QED BY <2>1, <2>2, <2>3, <2>4, NoPathNoViolation
<1> QED BY <1>1, RunInvariant, BoundedInvariant, PTL

-----------------------------------------------------------------------------
\* Verdicts for good: why each engine is right.

\* The violations of property i are those of words.
LEMMA HoldsOnWords ==
  ASSUME TypeOK, NEW i \in Ids,
         \A w \in Words(D, Horizon) : MeetsAssumptions(D, selected, w) => ViolatedBy(P(i), w) = {}
  PROVE  Violations(i) = {}
<1>1. SUFFICES ASSUME NEW t \in Violations(i) PROVE FALSE
  OBVIOUS
<1> QED BY <1>1, RunIsOfDesign, ViolationsMeaning

\* The other way round.
LEMMA HoldsOnEveryWord ==
  ASSUME TypeOK, NEW i \in Ids, Violations(i) = {}, NEW w \in Words(D, Horizon), MeetsAssumptions(D, selected, w)
  PROVE  ViolatedBy(P(i), w) = {}
<1>1. SUFFICES ASSUME NEW t \in ViolatedBy(P(i), w) PROVE FALSE
  OBVIOUS
<1>2. w.last \in 1 .. Horizon /\ Horizon \in Nat
  BY RunIsOfDesign, WordType
<1>3. t \in 0 .. Horizon
  BY <1>1, <1>2, RunIsOfDesign DEF ViolatedBy, Forms
<1> QED BY <1>1, <1>3, RunIsOfDesign, ViolationsMeaning

\* A tautology holds on every word.
LEMMA TautologyHolds ==
  ASSUME TypeOK, NEW i \in Ids, IsTautology(P(i)) PROVE Violations(i) = {}
<1>1. SUFFICES ASSUME NEW w \in Words(D, Horizon) PROVE ViolatedBy(P(i), w) = {}
  BY HoldsOnWords
<1>2. w.last \in Nat \ {0} /\ w.loop \in 0 .. w.last - 1 /\ IsRun(D, w.path, w.last)
  BY RunIsOfDesign, WordType
<1>3. \A t \in 0 .. w.last : w.path[t] \in Node
  BY <1>2 DEF IsRun
<1>4. P(i).pred = Node /\ P(i).form \in {"now", "next", "G", "F", "GF"}
  BY DEF IsTautology
<1>5. 0 \in 0 .. w.last /\ 1 \in 0 .. w.last /\ w.last \in 0 .. w.last /\ w.last \in w.loop .. w.last
  BY <1>2
<1> QED BY <1>3, <1>4, <1>5 DEF ViolatedBy

\* What holds for every transition of the design holds along every word.
LEMMA TransitionsHold ==
  ASSUME TypeOK, NEW i \in Ids, IsTransitionProperty(P(i)), HoldsForAllTransitions(P(i)) PROVE Violations(i) = {}
<1>1. SUFFICES ASSUME NEW w \in Words(D, Horizon) PROVE ViolatedBy(P(i), w) = {}
  BY HoldsOnWords
<1>2. /\ \A t \in 0 .. w.last : \E e \in Edges(D) : e[1] = w.path[t]
      /\ \A t \in 1 .. w.last : <<w.path[t - 1], w.path[t]>> \in Edges(D)
  BY RunIsOfDesign, WordFollowsEdges
<1>3. CASE P(i).form = "G"
  <2>1. \A e \in Edges(D) : e[1] \in P(i).pred
    BY <1>3 DEF HoldsForAllTransitions
  <2> QED BY <1>2, <1>3, <2>1 DEF ViolatedBy
<1>4. CASE P(i).form = "GX"
  <2>1. Edges(D) \subseteq P(i).step
    BY <1>4 DEF HoldsForAllTransitions
  <2> QED BY <1>2, <1>4, <2>1 DEF ViolatedBy
<1> QED BY <1>3, <1>4 DEF IsTransitionProperty

\* Where every assumption is an invariant, they constrain each timeframe by itself.
InvariantNodes(As) == {n \in Node : \A q \in As : n \in q.pred}

\* They hold along a word, and a run through the nodes where they hold keeps them.
LEMMA InvariantAssumptions ==
  ASSUME TypeOK, \A q \in AssumptionsOf(D, selected) : q.form = "G"
  PROVE  /\ \A b \in Nat : \A path \in Paths(D, b) :
              (\A x \in 0 .. b : path[x] \in InvariantNodes(AssumptionsOf(D, selected))) =>
                KeepsAll(AssumptionsOf(D, selected), path, b)
         /\ \A w \in Words(D, Horizon) : MeetsAssumptions(D, selected, w) =>
              \A x \in 0 .. w.last : w.path[x] \in InvariantNodes(AssumptionsOf(D, selected))
<1> DEFINE As == AssumptionsOf(D, selected)
<1>1. \A w : MeetsAssumptions(D, selected, w) => \A q \in As : ViolatedBy(q, w) = {}
  BY AssumptionsMeaning
<1>2. \A q \in As : q.form = "G"
  OBVIOUS
<1> HIDE DEF As
<1>3. ASSUME NEW b \in Nat, NEW path \in Paths(D, b), \A x \in 0 .. b : path[x] \in InvariantNodes(As)
      PROVE  KeepsAll(As, path, b)
  BY <1>2, <1>3 DEF KeepsAll, Falsified, InvariantNodes
<1>4. ASSUME NEW w \in Words(D, Horizon), MeetsAssumptions(D, selected, w), NEW x \in 0 .. w.last
      PROVE  w.path[x] \in InvariantNodes(As)
  <2>1. w.path[x] \in Node
    <3>1. IsRun(D, w.path, w.last)
      BY RunIsOfDesign, WordType
    <3> QED BY <3>1 DEF IsRun
  <2>2. ASSUME NEW q \in As PROVE w.path[x] \in q.pred
    <3>1. ViolatedBy(q, w) = {} /\ q.form = "G"
      BY <1>1, <1>2, <1>4
    <3>2. {t \in 0 .. w.last : w.path[t] \notin q.pred} = {}
      BY <3>1 DEF ViolatedBy
    <3> QED BY <3>2
  <2> QED BY <2>1, <2>2 DEF InvariantNodes
<1> QED BY <1>3, <1>4 DEF As

\* A bounded proof at the largest threshold is a proof for the properties that have it:
\* every node that a word visits is on a path of at most that many transitions.
LEMMA ThresholdHolds ==
  ASSUME TypeOK, SafetyAssumptions(D), ThresholdFits(D), NEW i \in Ids,
         Thresholds(D) # {}, bound = MaxThreshold, NEW ct \in CompletenessThreshold(D, P(i)), ct >= bound,
         NoPath(D, AssumptionsOf(D, selected), P(i), bound)
  PROVE  Violations(i) = {}
<1>1. bound \in Nat /\ ct = bound
  <2>1. ct \in Thresholds(D)
    BY DEF Thresholds, P, Ids
  <2>2. MaxThreshold \in Nat /\ ct <= MaxThreshold
    BY <2>1, MaxThresholdIsNat DEF TypeOK
  <2>3. ct \in Int
    <3>1. 2 ^ Cardinality(Latches) - 1 \in Nat
      BY LatchAssumption, StateCount
    <3> QED BY <3>1 DEF CompletenessThreshold, RecurrenceDiameter
  <2> QED BY <2>2, <2>3
<1>2. \A t \in Violations(i) : t > ct
  BY <1>1, NoPathNoViolation
<1>3. CASE P(i).form = "now" \/ P(i).form = "next"
  <2>1. SUFFICES ASSUME NEW t \in Violations(i) PROVE FALSE
    OBVIOUS
  <2>2. PICK w \in Words(D, Horizon) : t \in ViolatedBy(P(i), w)
    BY <2>1, RunIsOfDesign, ViolationsMeaning
  <2>3. ct = t
    BY <1>3, <2>2 DEF CompletenessThreshold, ViolatedBy
  <2> QED BY <1>1, <1>2, <2>1, <2>3
<1>4. CASE P(i).form \in {"G", "F"}
  <2>1. ~D.wide /\ ct = 2 ^ Cardinality(Latches) - 1
    BY <1>4 DEF CompletenessThreshold, RecurrenceDiameter
  <2>2. P(i).form = "G" /\ \A q \in AssumptionsOf(D, selected) : q.form = "G"
    BY <1>4, <2>1 DEF ThresholdFits, AssumptionsOf, P, Ids
  <2> DEFINE A == InvariantNodes(AssumptionsOf(D, selected))
  <2>3. ASSUME NEW path \in Paths(D, ct), \A x \in 0 .. ct : path[x] \in A, NEW x \in 0 .. ct
        PROVE  path[x] \in P(i).pred
    <3>1. ~Falsified(P(i), path, ct)
      BY <1>1, <2>2, <2>3, InvariantAssumptions DEF NoPath
    <3> QED BY <2>2, <3>1 DEF Falsified
  <2>4. ASSUME NEW w \in Words(D, Horizon), MeetsAssumptions(D, selected, w) PROVE ViolatedBy(P(i), w) = {}
    <3>1. \A x \in 0 .. w.last : w.path[x] \in A
      BY <2>2, <2>4, InvariantAssumptions
    <3> HIDE DEF A
    <3>2. \A t \in 0 .. w.last : w.path[t] \in P(i).pred
      BY <2>1, <2>3, <3>1, LatchAssumption, RunIsOfDesign, ThresholdIsComplete
    <3> QED BY <2>2, <3>2 DEF ViolatedBy
  <2> QED BY <2>4, HoldsOnWords
<1> QED BY <1>3, <1>4 DEF CompletenessThreshold

\* What FreePaths enumerates.
LEMMA FreePathsAreRuns ==
  ASSUME TypeOK, NEW path, IsRun(D, path, bound) PROVE path \in FreePaths
<1>1. bound \in Nat
  BY DEF TypeOK
<1>2. PICK s \in State, u \in [0 .. bound -> Inputs] : path = Unwind(D, s, u, bound)
  BY <1>1, RunIsOfDesign, RunIsUnwind
<1> QED BY <1>2 DEF FreePaths

\* A bounded proof and the step case make a proof, at every depth, also when the base
\* case was proved by an earlier engine with a bound of its own.
LEMMA InductionHolds ==
  ASSUME RunInv, BoundedInv, SafetyAssumptions(D), NEW i \in Ids, ~IsAssumption(i),
         pc = "bmc done", engine \in Inductions,
         work[i].status \notin {"DISABLED", "FAILURE", "ASSUMED", "UNSUPPORTED", "PROVED", "REFUTED"},
         Inductive(i)
  PROVE  Violations(i) = {}
<1>1. TypeOK /\ EngineInv /\ bound \in Nat /\ work[i] \in Results
  BY DEF RunInv, EngineInv, TypeOK
<1>2. work[i].status \in BoundedStatuses
  <2>1. work[i].status \in Statuses
    BY <1>1 DEF Results
  <2>2. work[i].status \notin {"UNKNOWN", "INCONCLUSIVE"}
    BY RunFacts
  <2> QED BY <2>1, <2>2 DEF Statuses, BoundedStatuses
<1>3. work[i].status = BoundedVerdict(i) /\ work[i].bound >= bound - 1 /\ work[i].bound \in Nat
  <2>1. work[i].status = BoundedVerdict(i)
    BY <1>2, RunFacts DEF BoundedStatuses, BoundedVerdict, Inductions
  <2>2. work[i].bound >= bound - 1
    BY <1>2, RunFacts
  <2> QED BY <1>1, <2>1, <2>2 DEF Results
<1>4. NoPath(D, AssumptionsOf(D, selected), P(i), work[i].bound)
  BY <1>3 DEF BoundedInv, BoundedOk
<1>5. P(i).form = "G"
  BY <1>1, StatusFacts DEF InductionSupports
<1>6. ASSUME NEW w \in Words(D, Horizon), MeetsAssumptions(D, selected, w) PROVE ViolatedBy(P(i), w) = {}
  <2>1. \A x \in 0 .. w.last : w.path[x] \in StepAssumption
    <3>1. SUFFICES ASSUME NEW x \in 0 .. w.last, NEW j \in Ids, work[j].status = "ASSUMED"
                   PROVE  w.path[x] \in Node /\ w.path[x] \in P(j).pred
      <4>1. IsRun(D, w.path, w.last)
        BY <1>1, RunIsOfDesign, WordType
      <4>2. \A x \in 0 .. w.last : w.path[x] \in Node
        BY <4>1 DEF IsRun
      <4> QED BY <4>2 DEF StepAssumption, HasStatus
    <3>2. IsAssumption(j) /\ (selected = 0 \/ i = selected)
      BY <3>1, RunFacts
    <3>3. j # selected
      <4>1. 0 \notin Ids
        BY <1>1, ZeroIsNoProperty
      <4>2. i # j
        BY <3>2
      <4> QED BY <3>1, <3>2, <4>1, <4>2
    <3>4. P(j) \in AssumptionsOf(D, selected) /\ P(j).form = "G"
      <4>1. P(j).form = "G"
        BY <1>1, <3>1, StatusFacts DEF InductionSupports
      <4> QED BY <3>2, <3>3, <4>1, AssumptionsMeaning DEF IsAssumption, P, Ids
    <3>5. ViolatedBy(P(j), w) = {}
      BY <1>6, <3>4, AssumptionsMeaning
    <3>6. {t \in 0 .. w.last : w.path[t] \notin P(j).pred} = {}
      BY <3>4, <3>5 DEF ViolatedBy
    <3>7. IsRun(D, w.path, w.last)
      BY <1>1, RunIsOfDesign, WordType
    <3> QED BY <3>1, <3>6, <3>7 DEF IsRun
  <2>2. ASSUME NEW path \in Paths(D, work[i].bound), FollowsWord(path, work[i].bound, w),
               NEW x \in 0 .. work[i].bound
        PROVE  path[x] \in P(i).pred
    <3>1. KeepsAll(AssumptionsOf(D, selected), path, work[i].bound)
      BY <1>1, <1>3, <1>6, <2>2, UnrollingKeepsAll
    <3>2. ~Falsified(P(i), path, work[i].bound)
      BY <1>4, <3>1 DEF NoPath
    <3> QED BY <1>5, <3>2 DEF Falsified
  <2>3. ASSUME NEW path, IsRun(D, path, bound), \A x \in 0 .. bound : path[x] \in StepAssumption,
               \A x \in 0 .. bound - 1 : path[x] \in P(i).pred
        PROVE  path[bound] \in P(i).pred
    BY <1>1, <2>3, FreePathsAreRuns DEF Inductive
  <2>4. \A t \in 0 .. w.last : w.path[t] \in P(i).pred
    <3> DEFINE A == StepAssumption
               c == work[i].bound
               k == bound
               Q == P(i).pred
    <3>1. /\ \A path \in Paths(D, c) : FollowsWord(path, c, w) => \A x \in 0 .. c : path[x] \in Q
          /\ \A path : IsRun(D, path, k) /\ (\A x \in 0 .. k : path[x] \in A)
                         /\ (\A x \in 0 .. k - 1 : path[x] \in Q) => path[k] \in Q
          /\ \A x \in 0 .. w.last : w.path[x] \in A
          /\ c \in Nat /\ k \in Nat /\ c >= k - 1
      BY <1>1, <1>3, <2>1, <2>2, <2>3
    <3>2. IsDesign(D) /\ Horizon \in Nat /\ w \in Words(D, Horizon)
      BY <1>1, <1>6, RunIsOfDesign
    <3> HIDE DEF A, c, k, Q
    <3>3. \A t \in 0 .. w.last : w.path[t] \in Q
      BY ONLY <3>1, <3>2, InductionIsComplete, ZenonT(60)
    <3> QED BY <3>3 DEF Q
  <2> QED BY <1>5, <2>4 DEF ViolatedBy
<1> QED BY <1>1, <1>6, HoldsOnWords

-----------------------------------------------------------------------------
\* Verdicts for good.

FinalOk(i, r) == r.status = HoldsVerdict(i) => Violations(i) = {}

FinalInv == \A i \in Checked : FinalOk(i, props[i]) /\ FinalOk(i, work[i])

\* A ranking lemma that is proved brings every word to `live` in each turn of its loop.
LEMMA LivenessLemmaHolds ==
  ASSUME TypeOK, RankingsDecrease(D, Nat), engine = "liveness lemma",
         \A j \in Checked : FinalOk(j, props[j]),
         NEW i \in Ids, P(i).form = "GF", P(i).pred \in Lemmas
  PROVE  Violations(i) = {}
<1>1. PICK j \in Ids : /\ props[j].status = "PROVED" /\ P(j).role = "assert" /\ P(j).form \in {"G", "GX"}
                       /\ P(j).body = "rank" /\ P(j).live = P(i).pred
  BY DEF Lemmas, LemmaCandidates, HasStatus
<1>2. j \in Checked
  BY <1>1 DEF Checked, IsAssumption, BmcSupports
<1>3. Violations(j) = {}
  BY <1>1, <1>2 DEF FinalOk, HoldsVerdict, IsExistsPath
<1>4. P(j).form = "GX"
  BY <1>1 DEF RankingsDecrease, P, Ids
<1>5. PICK rank \in [Node -> Nat] : \A e \in P(j).step : e[1] \in P(i).pred \/ rank[e[2]] < rank[e[1]]
  BY <1>1 DEF RankingsDecrease, P, Ids
<1>6. ASSUME NEW w \in Words(D, Horizon), MeetsAssumptions(D, selected, w) PROVE ViolatedBy(P(i), w) = {}
  <2>1. ViolatedBy(P(j), w) = {}
    BY <1>3, <1>6, HoldsOnEveryWord
  <2>2. \A t \in 1 .. w.last : <<w.path[t - 1], w.path[t]>> \in P(j).step
    BY <1>4, <2>1 DEF ViolatedBy
  <2>3. \A t \in 1 .. w.last : w.path[t - 1] \in P(i).pred \/ rank[w.path[t]] < rank[w.path[t - 1]]
    BY <1>5, <2>2
  <2>4. \E t \in w.loop .. w.last : w.path[t] \in P(i).pred
    BY <2>3, RunIsOfDesign, RankingBringsLive
  <2> QED BY <2>4 DEF ViolatedBy
<1> QED BY <1>6, HoldsOnWords

\* The properties that are looked at are the same in every step.
LEMMA SameChecked ==
  ASSUME EngineInv, Next PROVE Checked' = Checked
<1>1. D' = D /\ Ids' = Ids /\ selected' = selected
  BY SameProblem
<1>2. engine' = "bit-level BMC" <=> engine = "bit-level BMC"
  BY FlowStep DEF EngineInv, Flow, NextEngine, SingleEngines
<1>3. ASSUME NEW i \in Ids
      PROVE  P(i)' = P(i) /\ (IsAssumption(i)' <=> IsAssumption(i)) /\ (WithinBitLevel(i)' <=> WithinBitLevel(i))
             /\ (BmcSupports(P(i))' <=> BmcSupports(P(i)))
  BY <1>1 DEF P, IsAssumption, WithinBitLevel, IsExistsPath, NetlistSupports, BmcSupports
<1> QED BY <1>1, <1>2, <1>3 DEF Checked

\* A proof for good comes from one of six engines, or was there before.
LEMMA FinalStep ==
  ASSUME SafetyAssumptions(D), ThresholdFits(D), RankingsDecrease(D, Nat),
         RunInv, BoundedInv, FinalInv, Next
  PROVE  FinalInv'
<1>1. EngineInv /\ TypeOK /\ EngineOfPc /\ BoundKnown
  BY DEF RunInv, EngineInv
<1>2. D' = D /\ Ids' = Ids /\ selected' = selected /\ problem' = problem
  BY <1>1, SameProblem
<1>3. ASSUME NEW i \in Checked PROVE FinalOk(i, props'[i]) /\ FinalOk(i, work'[i])
  <2>1. FinalOk(i, props[i]) /\ FinalOk(i, work[i]) /\ i \in Ids /\ ~IsAssumption(i)
    BY DEF FinalInv, Checked
  <2>2. \A r : r.status # HoldsVerdict(i) => FinalOk(i, r)
    BY DEF FinalOk
  <2>3. \A r : Violations(i) = {} => FinalOk(i, r)
    BY DEF FinalOk
  <2>4. /\ \A s \in Statuses : To(work[i], s).status = s /\ To(props[i], s).status = s
        /\ \A m \in Falsifying(i) : Found(i, m).status = ViolatedVerdict(i)
        /\ NotFound(i).status = BoundedVerdict(i)
        /\ \A r \in BitLevelVerdicts(i) : r.status \in {"REFUTED", "PROVED_WITH_BOUND"}
    <3>1. \A s \in Statuses : To(work[i], s).status = s /\ To(props[i], s).status = s
      BY <1>1, <2>1, BmcAnswers
    <3> QED BY <1>1, <2>1, <3>1, NewResults
  <2>5. /\ Neutral \subseteq Statuses
        /\ HoldsVerdict(i) \notin Neutral \cup {ViolatedVerdict(i), BoundedVerdict(i), "UNKNOWN", "ASSUMED"}
    BY DEF Neutral, Statuses, HoldsVerdict, ViolatedVerdict, BoundedVerdict
  <2>6. FinalOk(i, props'[i])
    <3>1. props'[i].status \in {"UNKNOWN", "ASSUMED"} \/ props'[i] = props[i] \/ props'[i] = work[i]
      BY <1>1, <2>1, PropsStep
    <3>2. CASE props'[i].status \in {"UNKNOWN", "ASSUMED"}
      BY <2>2, <2>5, <3>2
    <3> QED BY <2>1, <3>1, <3>2
  <2>7. CASE Kept(i)
    BY <2>1, <2>6, <2>7 DEF Kept
  <2>8. CASE TakenOver(i)
    <3>1. work'[i] = props[i] \/ \E s \in Neutral : work'[i] = To(props[i], s)
      BY <2>8 DEF TakenOver
    <3>2. work'[i] = props[i] \/ work'[i].status # HoldsVerdict(i)
      BY <2>4, <2>5, <3>1
    <3> QED BY <2>1, <2>2, <2>6, <3>2
  <2>9. CASE GivenUp(i)
    <3>1. PICK s \in Neutral : work'[i] = To(work[i], s)
      BY <2>9 DEF GivenUp
    <3>2. work'[i].status = s
      BY <2>4, <2>5, <3>1
    <3> QED BY <2>5, <2>2, <2>6, <3>2
  <2>10. CASE ByTautology(i)
    BY <1>1, <2>1, <2>3, <2>6, <2>10, TautologyHolds DEF ByTautology
  <2>11. CASE ByTransitions(i)
    BY <1>1, <2>1, <2>3, <2>6, <2>11, TransitionsHold DEF ByTransitions
  <2>12. CASE ByLemma(i)
    BY <1>1, <2>1, <2>3, <2>6, <2>12, LivenessLemmaHolds DEF ByLemma, FinalInv
  <2>13. CASE ByModel(i)
    <3>1. work'[i].status # HoldsVerdict(i)
      BY <2>4, <2>5, <2>13 DEF ByModel
    <3> QED BY <2>2, <2>6, <3>1
  <2>14. CASE ByAbsence(i)
    <3>1. work'[i].status # HoldsVerdict(i)
      BY <2>4, <2>5, <2>14 DEF ByAbsence
    <3> QED BY <2>2, <2>6, <3>1
  <2>15. CASE ByThreshold(i)
    <3>1. /\ pc = "bmc done" /\ engine = "completeness threshold" /\ work[i].status = "PROVED_WITH_BOUND"
          /\ \E ct \in CompletenessThreshold(D, P(i)) : ct >= bound
      BY <2>15 DEF ByThreshold
    <3>2. Thresholds(D) # {} /\ bound = MaxThreshold
      BY <1>1, <3>1 DEF BoundKnown
    <3>3. work[i].bound = bound /\ BoundedVerdict(i) = "PROVED_WITH_BOUND"
      BY <2>1, <3>1, RunFacts DEF BoundedStatuses, BoundedVerdict
    <3>4. NoPath(D, AssumptionsOf(D, selected), P(i), bound)
      BY <2>1, <3>1, <3>3 DEF BoundedInv, BoundedOk
    <3>5. Violations(i) = {}
      BY <1>1, <2>1, <3>1, <3>2, <3>4, ThresholdHolds
    <3> QED BY <2>3, <2>6, <3>5
  <2>16. CASE ByInduction(i)
    BY <2>1, <2>3, <2>6, <2>16, InductionHolds DEF ByInduction
  <2>17. CASE ByNetlist(i)
    <3>1. engine = "bit-level BMC"
      BY <1>1, <2>17 DEF ByNetlist, EngineOfPc
    <3>2. ~IsExistsPath(i)
      BY <3>1 DEF Checked, WithinBitLevel
    <3>3. work'[i].status \in {"REFUTED", "PROVED_WITH_BOUND"}
      BY <2>4, <2>17 DEF ByNetlist
    <3>4. work'[i].status # HoldsVerdict(i)
      BY <3>2, <3>3 DEF HoldsVerdict
    <3> QED BY <2>2, <2>6, <3>4
  <2> QED BY <1>1, <2>1, <2>7, <2>8, <2>9, <2>10, <2>11, <2>12, <2>13, <2>14, <2>15, <2>16, <2>17,
             OriginStep DEF Origin
<1>4. ASSUME NEW i \in Checked PROVE FinalOk(i, props[i])' /\ FinalOk(i, work[i])'
  <2>1. Violations(i)' = Violations(i)
    BY <1>2 DEF Violations
  <2>2. HoldsVerdict(i)' = HoldsVerdict(i)
    BY <1>2 DEF HoldsVerdict, IsExistsPath, P
  <2> QED BY <1>3, <2>1, <2>2 DEF FinalOk
<1> QED BY <1>1, <1>4, SameChecked DEF FinalInv

\* What the verdicts for good rest on.
ProofsFit(d) == SafetyAssumptions(d) /\ ThresholdFits(d) /\ RankingsDecrease(d, Nat)

\* Every run.
LEMMA FinalInvariant == Spec => [](ProofsFit(D) => FinalInv)
<1>1. Init => FinalInv
  <2>1. ASSUME Init, NEW i \in Checked PROVE props[i].status # HoldsVerdict(i) /\ work[i] = props[i]
    BY <2>1 DEF Init, Res, InitialStatus, HoldsVerdict, Checked
  <2> QED BY <2>1 DEF FinalInv, FinalOk
<1>2. ASSUME FinalInv, UNCHANGED vars PROVE FinalInv'
  <2>1. D' = D /\ Ids' = Ids /\ selected' = selected /\ props' = props /\ work' = work /\ problem' = problem
        /\ engine' = engine
    BY <1>2 DEF vars, D, Ids
  <2>2. Checked' = Checked
    BY <2>1 DEF Checked, P, IsAssumption, WithinBitLevel, IsExistsPath, NetlistSupports, BmcSupports
  <2>3. ASSUME NEW i \in Checked PROVE FinalOk(i, props[i])' /\ FinalOk(i, work[i])'
    <3>1. Violations(i)' = Violations(i)
      BY <2>1 DEF Violations
    <3>2. HoldsVerdict(i)' = HoldsVerdict(i)
      BY <2>1 DEF HoldsVerdict, IsExistsPath, P
    <3> QED BY <1>2, <2>1, <3>1, <3>2 DEF FinalInv, FinalOk
  <2> QED BY <2>2, <2>3 DEF FinalInv
<1>3. RunInv /\ BoundedInv /\ (ProofsFit(D) => FinalInv) /\ [Next]_vars => (ProofsFit(D) => FinalInv)'
  <2>1. SUFFICES ASSUME RunInv, BoundedInv, ProofsFit(D) => FinalInv, [Next]_vars, ProofsFit(D)'
                 PROVE  FinalInv'
    OBVIOUS
  <2>2. D' = D
    BY <2>1, SameProblem DEF vars, D
  <2>3. ProofsFit(D)
    BY <2>1, <2>2 DEF ProofsFit, SafetyAssumptions, ThresholdFits, RankingsDecrease
  <2> QED BY <1>2, <2>1, <2>3, FinalStep DEF ProofsFit
<1> QED BY <1>1, <1>3, RunInvariant, BoundedInvariant, PTL DEF Spec

\* No violation exists of what is PROVED for good, and no witness of a cover that is REFUTED.
THEOREM FinalVerdictsAreSound == Spec => [](ProofsFit(D) => ProvedIsSound)
<1>1. FinalInv => ProvedIsSound
  BY DEF FinalInv, FinalOk, ProvedIsSound, HasStatus
<1> QED BY <1>1, FinalInvariant, PTL

-----------------------------------------------------------------------------
\* Verdicts that rest on a path.

\* Where a run goes from the inside of an engine.
LEMMA PcStep ==
  ASSUME EngineInv, Next
  PROVE  /\ pc = "solve" => pc' \in {"solve", "bmc done"}
         /\ pc = "bmc done" => pc' \in {"copy", "error", "aborted"}
         /\ pc \in {"error", "aborted"} => pc' = pc
<1>1. CASE Start \/ TautologyEngine \/ TransitionPropertyEngine \/ LivenessLemmaEngine \/ CTEngine
           \/ InductionEngine \/ InductionFailsEarly \/ BmcEngine \/ BitLevelEngine \/ BitLevelCheck \/ CopyResults
  BY <1>1 DEF Start, TautologyEngine, TransitionPropertyEngine, LivenessLemmaEngine, CTEngine, InductionEngine,
     InductionFailsEarly, BmcEngine, BitLevelEngine, BitLevelCheck, CopyResults
<1>2. CASE StrengthenSat \/ StrengthenUnsat \/ StrengthenError
  BY <1>2 DEF StrengthenSat, StrengthenUnsat, StrengthenError
<1>3. CASE CheckProperty
  BY <1>3 DEF CheckProperty, Advance
<1>4. CASE CTFinish \/ BmcFinish \/ InductionFinish
  BY <1>4 DEF CTFinish, BmcFinish, InductionFinish, Return
<1>5. CASE Throw
  BY <1>5 DEF Throw
<1>6. CASE Terminated
  BY <1>6 DEF Terminated, vars
<1> QED BY <1>1, <1>2, <1>3, <1>4, <1>5, <1>6 DEF Next

\* A path that keeps the assumptions and falsifies the property is one of a run that violates it.
LEMMA PathViolates ==
  ASSUME TypeOK, Completable(D), NEW i \in Ids, NEW b \in BmcBounds(D), b \in Nat,
         NEW path \in Paths(D, b), KeepsAll(AssumptionsOf(D, selected), path, b), Falsified(P(i), path, b),
         SafetyAssumptions(D)
  PROVE  Violations(i) # {}
<1>1. b <= Horizon /\ Horizon \in Nat /\ IsDesign(D) /\ P(i).form \in Forms /\ selected \in {0} \cup DOMAIN D.props
  BY RunIsOfDesign DEF Completable, Ids
<1>2. SUFFICES \E w \in Words(D, Horizon) :
                 MeetsAssumptions(D, selected, w) /\ \E t \in ViolatedBy(P(i), w) : t <= w.last
  <2>1. ASSUME NEW w \in Words(D, Horizon), MeetsAssumptions(D, selected, w),
               NEW t \in ViolatedBy(P(i), w), t <= w.last
        PROVE  t \in Violations(i)
    <3>1. w.last \in 1 .. Horizon
      BY <1>1, WordType
    <3>2. t \in 0 .. w.last
      BY <1>1, <2>1, <3>1 DEF ViolatedBy
    <3>3. t \in 0 .. Horizon
      BY <1>1, <3>1, <3>2
    <3> QED BY <2>1, <3>3, RunIsOfDesign, ViolationsMeaning
  <2> QED BY <2>1
<1>3. CASE P(i).form \in SafetyForms
  <2>1. PICK w \in Words(D, Horizon) :
               /\ w.last >= b /\ \A t \in 0 .. b : w.path[t] = path[t]
               /\ MeetsAssumptions(D, selected, w)
    BY <1>1 DEF Completable, KeepsAll
  <2>2. w.last \in Nat
    BY <1>1, WordType
  <2>3. \E t \in ViolatedBy(P(i), w) : t <= w.last
    BY <1>3, <2>1, <2>2, WordShows
  <2> QED BY <2>1, <2>3
<1>4. CASE P(i).form \in {"F", "GF"}
  <2>1. PICK w \in Words(D, Horizon) :
               (\E t \in ViolatedBy(P(i), w) : t <= w.last) /\ KeepsWhatPathKeeps(w, path, b)
    BY <1>1, <1>4, LassoShows
  <2>2. MeetsAssumptions(D, selected, w)
    <3>1. SUFFICES ASSUME NEW q \in AssumptionsOf(D, selected) PROVE ViolatedBy(q, w) = {}
      BY AssumptionsMeaning
    <3>2. PICK j \in Ids : q = P(j) /\ P(j).role = "assume"
      BY AssumptionsMeaning DEF P, Ids
    <3>3. q.form \in Forms /\ q.form \notin {"F", "GF"}
      BY <3>2, RunIsOfDesign DEF SafetyAssumptions, P, Ids
    <3>4. CASE q.form = "EX"
      BY <3>4 DEF ViolatedBy
    <3>5. CASE q.form \in SafetyForms
      BY <2>1, <3>5 DEF KeepsAll, KeepsWhatPathKeeps
    <3> QED BY <3>3, <3>4, <3>5 DEF Forms, SafetyForms
  <2> QED BY <2>1, <2>2
<1>5. P(i).form # "EX"
  BY DEF Falsified
<1> QED BY <1>1, <1>3, <1>4, <1>5 DEF Forms, SafetyForms

\* A query that is satisfiable under every assumption shows a violation.
LEMMA ModelViolates ==
  ASSUME RunInv, SafetyAssumptions(D), Completable(D), NEW i \in Checked, Falsifying(i) # {},
         pc \in {"solve", "bit-level solve"}, engine \in Inductions => ~AssumptionUnsupported
  PROVE  Violations(i) # {}
<1>1. TypeOK /\ EngineOfPc /\ i \in Ids /\ bound \in Nat
  BY DEF RunInv, EngineInv, TypeOK, Checked
<1>2. ASSUME NEW j \in Ids, Assumed(j), work[j].status # "ASSUMED" PROVE ~BmcSupports(P(j))
  <2>1. CASE P(j).form # "G" /\ engine \in Inductions
    <3>1. props[j].status = "ASSUMED"
      BY <1>2, RunFacts
    <3> QED BY <2>1, <3>1 DEF AssumptionUnsupported, HasStatus, InductionSupports
  <2>2. CASE P(j).form # "G" /\ engine = "bit-level BMC"
    BY <1>2, <2>2 DEF Checked, WithinBitLevel, NetlistSupports, Assumed
  <2> QED BY <1>2, <2>1, <2>2, RunFacts
<1>3. PICK path \in Paths(D, bound) :
        KeepsAll(AssumptionsOf(D, selected), path, bound) /\ Falsified(P(i), path, bound)
  BY <1>1, <1>2, ModelIsGenuine
<1>4. bound \in BmcBounds(D)
  BY <1>1, <1>2, ModelIsGenuine
<1> QED BY <1>1, <1>3, <1>4, PathViolates

RefutedOk(i, r) == r.status = ViolatedVerdict(i) => Violations(i) # {}

\* While k-induction works without an assumption, a refutation is not yet a verdict.
Pending(i) ==
  /\ engine \in Inductions /\ pc \in {"solve", "bmc done", "error", "aborted"}
  /\ AssumptionUnsupported

RefutedInv == \A i \in Checked : RefutedOk(i, props[i]) /\ (RefutedOk(i, work[i]) \/ Pending(i))

\* With a cover, no assumption is dropped.
LEMMA CoverUsesAssumptions ==
  ASSUME RunInv, CoversFit(D), NEW i \in Ids, IsExistsPath(i)
  PROVE  ~AssumptionUnsupported
<1>1. SUFFICES ASSUME NEW j \in Ids, props[j].status = "ASSUMED", P(j).form # "G" PROVE FALSE
  BY DEF AssumptionUnsupported, HasStatus, InductionSupports
<1>2. P(j).role = "assume"
  BY <1>1, RunFacts DEF IsAssumption
<1> QED BY <1>1, <1>2 DEF CoversFit, IsExistsPath, P, Ids

\* A refutation comes from a query with a model, or was there before.
LEMMA RefutedStep ==
  ASSUME SafetyAssumptions(D), CoversFit(D), Completable(D), RunInv, RefutedInv, Next
  PROVE  RefutedInv'
<1>1. EngineInv /\ TypeOK /\ EngineOfPc /\ BoundKnown /\ Flow
  BY FlowStep DEF RunInv, EngineInv
<1>2. D' = D /\ Ids' = Ids /\ selected' = selected /\ problem' = problem
  BY <1>1, SameProblem
<1>3. pc # "copy" => (AssumptionUnsupported' <=> AssumptionUnsupported) /\ engine' = engine
  <2>1. ASSUME pc # "copy" PROVE props' = props /\ engine' = engine
    BY <1>1, <2>1 DEF Flow
  <2>2. \A j \in Ids : P(j)' = P(j)
    BY <1>2 DEF P
  <2> QED BY <1>2, <2>1, <2>2 DEF AssumptionUnsupported, HasStatus, InductionSupports
<1>4. ASSUME NEW i \in Checked PROVE RefutedOk(i, props'[i]) /\ (RefutedOk(i, work'[i]) \/ Pending(i)')
  <2>1. RefutedOk(i, props[i]) /\ (RefutedOk(i, work[i]) \/ Pending(i)) /\ i \in Ids /\ ~IsAssumption(i)
    BY DEF RefutedInv, Checked
  <2>2. \A r : r.status # ViolatedVerdict(i) => RefutedOk(i, r)
    BY DEF RefutedOk
  <2>3. \A r : Violations(i) # {} => RefutedOk(i, r)
    BY DEF RefutedOk
  <2>4. /\ \A s \in Statuses : To(work[i], s).status = s /\ To(props[i], s).status = s
        /\ NotFound(i).status = BoundedVerdict(i)
        /\ \A r \in BitLevelVerdicts(i) :
              \/ r.status = "REFUTED" /\ Falsifying(i) # {}
              \/ r.status = "PROVED_WITH_BOUND"
    <3>1. \A s \in Statuses : To(work[i], s).status = s /\ To(props[i], s).status = s
      BY <1>1, <2>1, BmcAnswers
    <3> QED BY <1>1, <2>1, <3>1, NewResults
  <2>5. /\ Neutral \subseteq Statuses /\ HoldsVerdict(i) \in Statuses
        /\ ViolatedVerdict(i) \notin Neutral \cup {HoldsVerdict(i), BoundedVerdict(i), "UNKNOWN", "ASSUMED",
                                                   "PROVED_WITH_BOUND"}
    BY DEF Neutral, Statuses, HoldsVerdict, ViolatedVerdict, BoundedVerdict
  <2>6. IsExistsPath(i) => ~AssumptionUnsupported
    BY <2>1, CoverUsesAssumptions
  <2>7. RefutedOk(i, props'[i])
    <3>1. \/ props'[i].status \in {"UNKNOWN", "ASSUMED"} \/ props'[i] = props[i]
          \/ pc = "copy" /\ props'[i] = work[i]
      BY <1>1, <2>1, PropsStep
    <3>2. CASE props'[i].status \in {"UNKNOWN", "ASSUMED"}
      BY <2>2, <2>5, <3>2
    <3>3. pc = "copy" => RefutedOk(i, work[i])
      BY <2>1 DEF Pending
    <3> QED BY <2>1, <3>1, <3>2, <3>3
  <2>8. CASE Kept(i)
    <3>1. work'[i] = work[i]
      BY <2>8 DEF Kept
    <3>2. CASE Pending(i)
      <4>1. pc' \in {"solve", "bmc done", "error", "aborted"} => Pending(i)'
        BY <1>3, <3>2 DEF Pending
      <4>2. CASE pc' \notin {"solve", "bmc done", "error", "aborted"}
        <5>1. pc = "bmc done" /\ pc' = "copy" /\ engine \in Inductions /\ AssumptionUnsupported
          BY <1>1, <3>2, <4>2, PcStep DEF Pending
        <5>2. work[i].status # "REFUTED"
          BY <2>8, <5>1 DEF Kept
        <5>3. ViolatedVerdict(i) = "REFUTED"
          BY <2>6, <5>1 DEF ViolatedVerdict
        <5> QED BY <2>2, <2>7, <3>1, <5>2, <5>3
      <4> QED BY <2>7, <4>1, <4>2
    <3> QED BY <2>1, <2>7, <3>1, <3>2
  <2>9. CASE TakenOver(i)
    <3>1. work'[i] = props[i] \/ \E s \in Neutral : work'[i] = To(props[i], s)
      BY <2>9 DEF TakenOver
    <3>2. work'[i] = props[i] \/ work'[i].status # ViolatedVerdict(i)
      BY <2>4, <2>5, <3>1
    <3> QED BY <2>1, <2>2, <2>7, <3>2
  <2>10. CASE GivenUp(i)
    <3>1. PICK s \in Neutral : work'[i] = To(work[i], s)
      BY <2>10 DEF GivenUp
    <3>2. work'[i].status = s
      BY <2>4, <2>5, <3>1
    <3> QED BY <2>2, <2>5, <2>7, <3>2
  <2>11. CASE ByTautology(i) \/ ByTransitions(i) \/ ByInduction(i)
    <3>1. work'[i] = To(work[i], HoldsVerdict(i)) \/ work'[i] = To(props[i], HoldsVerdict(i))
      BY <2>11 DEF ByTautology, ByTransitions, ByInduction
    <3>2. work'[i].status # ViolatedVerdict(i)
      BY <2>4, <2>5, <3>1
    <3> QED BY <2>2, <2>7, <3>2
  <2>12. CASE ByLemma(i) \/ ByThreshold(i)
    <3>1. ~IsExistsPath(i)
      <4>1. CASE ByLemma(i)
        <5>1. P(i).form = "GF"
          BY <4>1 DEF ByLemma
        <5>2. P(i).role = "cover" => P(i).form = "G"
          BY <1>1, <2>1, ProblemAssumption DEF TypeOK, P, D, Ids
        <5> QED BY <5>1, <5>2 DEF IsExistsPath
      <4>2. CASE ByThreshold(i)
        BY <2>1, <4>2, RunFacts DEF ByThreshold
      <4> QED BY <2>12, <4>1, <4>2
    <3>2. work'[i] = To(work[i], "PROVED") \/ work'[i] = To(props[i], "PROVED")
      BY <2>12 DEF ByLemma, ByThreshold
    <3>3. work'[i].status = "PROVED" /\ ViolatedVerdict(i) = "REFUTED"
      BY <2>4, <3>1, <3>2 DEF Statuses, ViolatedVerdict
    <3> QED BY <2>2, <2>7, <3>3
  <2>13. CASE ByModel(i)
    <3>1. pc = "solve" /\ Falsifying(i) # {}
      BY <2>13 DEF ByModel
    <3>2. CASE engine \in Inductions /\ AssumptionUnsupported
      <4>1. Pending(i)'
        BY <1>1, <1>3, <3>1, <3>2, PcStep DEF Pending
      <4> QED BY <2>7, <4>1
    <3>3. CASE ~(engine \in Inductions /\ AssumptionUnsupported)
      <4>1. Violations(i) # {}
        BY <3>1, <3>3, ModelViolates
      <4> QED BY <2>3, <2>7, <4>1
    <3> QED BY <3>2, <3>3
  <2>14. CASE ByAbsence(i)
    <3>1. work'[i].status # ViolatedVerdict(i)
      BY <2>4, <2>5, <2>14 DEF ByAbsence
    <3> QED BY <2>2, <2>7, <3>1
  <2>15. CASE ByNetlist(i)
    <3>1. pc = "bit-level solve" /\ work'[i] \in BitLevelVerdicts(i)
      BY <2>15 DEF ByNetlist
    <3>2. engine \notin Inductions
      BY <1>1, <3>1 DEF EngineOfPc, Inductions
    <3>3. CASE Falsifying(i) # {}
      <4>1. Violations(i) # {}
        BY <3>1, <3>2, <3>3, ModelViolates
      <4> QED BY <2>3, <2>7, <4>1
    <3>4. CASE work'[i].status = "PROVED_WITH_BOUND"
      BY <2>2, <2>5, <2>7, <3>4
    <3> QED BY <2>4, <3>1, <3>3, <3>4
  <2> QED BY <1>1, <2>1, <2>8, <2>9, <2>10, <2>11, <2>12, <2>13, <2>14, <2>15, OriginStep DEF Origin
<1>5. ASSUME NEW i \in Checked PROVE RefutedOk(i, props[i])' /\ (RefutedOk(i, work[i])' \/ Pending(i)')
  <2>1. Violations(i)' = Violations(i)
    BY <1>2 DEF Violations
  <2>2. ViolatedVerdict(i)' = ViolatedVerdict(i)
    BY <1>2 DEF ViolatedVerdict, IsExistsPath, P
  <2> QED BY <1>4, <2>1, <2>2 DEF RefutedOk
<1> QED BY <1>1, <1>5, SameChecked DEF RefutedInv

\* What the refutations rest on.
RefutationsFit(d) == SafetyAssumptions(d) /\ CoversFit(d) /\ Completable(d)

\* Every run.
LEMMA RefutedInvariant == Spec => [](RefutationsFit(D) => RefutedInv)
<1>1. Init => RefutedInv
  <2>1. ASSUME Init, NEW i \in Checked PROVE props[i].status # ViolatedVerdict(i) /\ work[i] = props[i]
    BY <2>1 DEF Init, Res, InitialStatus, ViolatedVerdict, Checked
  <2> QED BY <2>1 DEF RefutedInv, RefutedOk
<1>2. ASSUME RefutedInv, UNCHANGED vars PROVE RefutedInv'
  <2>1. D' = D /\ Ids' = Ids /\ selected' = selected /\ props' = props /\ work' = work /\ problem' = problem
        /\ engine' = engine /\ pc' = pc
    BY <1>2 DEF vars, D, Ids
  <2>2. Checked' = Checked
    BY <2>1 DEF Checked, P, IsAssumption, WithinBitLevel, IsExistsPath, NetlistSupports, BmcSupports
  <2>3. ASSUME NEW i \in Checked PROVE RefutedOk(i, props[i])' /\ (RefutedOk(i, work[i])' \/ Pending(i)')
    <3>1. Violations(i)' = Violations(i)
      BY <2>1 DEF Violations
    <3>2. ViolatedVerdict(i)' = ViolatedVerdict(i)
      BY <2>1 DEF ViolatedVerdict, IsExistsPath, P
    <3>3. Pending(i)' <=> Pending(i)
      BY <2>1 DEF Pending, AssumptionUnsupported, HasStatus, InductionSupports, P
    <3> QED BY <1>2, <2>1, <3>1, <3>2, <3>3 DEF RefutedInv, RefutedOk
  <2> QED BY <2>2, <2>3 DEF RefutedInv
<1>3. RunInv /\ (RefutationsFit(D) => RefutedInv) /\ [Next]_vars => (RefutationsFit(D) => RefutedInv)'
  <2>1. SUFFICES ASSUME RunInv, RefutationsFit(D) => RefutedInv, [Next]_vars, RefutationsFit(D)'
                 PROVE  RefutedInv'
    OBVIOUS
  <2>2. D' = D
    BY <2>1, SameProblem DEF vars, D
  <2>3. RefutationsFit(D)
    BY <2>1, <2>2 DEF RefutationsFit, SafetyAssumptions, CoversFit, Completable
  <2> QED BY <1>2, <2>1, <2>3, RefutedStep DEF RefutationsFit
<1> QED BY <1>1, <1>3, RunInvariant, PTL DEF Spec

\* A violation exists, within the assumptions, of what is REFUTED, and a witness of a
\* cover that is PROVED.
THEOREM RefutedVerdictsAreSound == Spec => [](RefutationsFit(D) => RefutedIsSound)
<1>1. RefutedInv => RefutedIsSound
  BY DEF RefutedInv, RefutedOk, RefutedIsSound, HasStatus
<1> QED BY <1>1, RefutedInvariant, PTL

\* When every path that keeps the assumptions goes on, a horizon that leaves room for every
\* timeframe of the design is enough.
THEOREM HorizonIsEnough ==
  ASSUME IsFiniteSet(Inputs), NEW d, IsDesign(d), SafetyAssumptions(d),
         \A i \in DOMAIN d.props : d.props[i].form \in Forms,
         \A sel \in {0} \cup DOMAIN d.props : NoDeadEnd(d, AssumptionsOf(d, sel)),
         \A b \in BmcBounds(d) : b \in Nat /\ Horizon >= b + Cardinality(Node)
  PROVE  Completable(d)
<1>1. SUFFICES ASSUME NEW sel \in {0} \cup DOMAIN d.props, NEW b \in BmcBounds(d)
               PROVE  /\ b <= Horizon
                      /\ \A path \in Paths(d, b) :
                           (\A q \in AssumptionsOf(d, sel) : ~Falsified(q, path, b)) =>
                              \E w \in Words(d, Horizon) :
                                /\ w.last >= b /\ \A t \in 0 .. b : w.path[t] = path[t]
                                /\ MeetsAssumptions(d, sel, w)
  BY DEF Completable
<1> DEFINE All == AssumptionsOf(d, sel)
           As  == {q \in All : q.form \in SafetyForms}
<1>2. ASSUME NEW q \in All PROVE q \in As \/ q.form = "EX"
  <2>1. PICK j \in DOMAIN d.props : q = d.props[j] /\ d.props[j].role = "assume"
    BY AssumptionsMeaning
  <2> QED BY <2>1 DEF SafetyAssumptions, Forms, SafetyForms
<1>3. \A path, c : KeepsAll(All, path, c) <=> KeepsAll(As, path, c)
  BY <1>2 DEF KeepsAll, Falsified
<1>4. NoDeadEnd(d, As)
  <2>1. NoDeadEnd(d, All)
    OBVIOUS
  <2> QED BY <1>3, <2>1 DEF NoDeadEnd
<1>5. b \in Nat /\ Horizon \in Nat /\ Horizon >= b + Cardinality(Node)
  BY HorizonAssumption
<1>6. b <= Horizon
  <2>1. Cardinality(Node) \in Nat
    <3>1. IsFiniteSet(Node)
      BY LatchAssumption, StateCount, FS_Product DEF Node
    <3> QED BY <3>1, FS_CardinalityType
  <2> QED BY <1>5, <2>1
<1>7. ASSUME NEW path \in Paths(d, b), KeepsAll(All, path, b)
      PROVE  \E w \in Words(d, Horizon) :
               /\ w.last >= b /\ \A t \in 0 .. b : w.path[t] = path[t]
               /\ MeetsAssumptions(d, sel, w)
  <2>1. \A q \in As : q.form \in SafetyForms
    OBVIOUS
  <2>2. KeepsAll(As, path, b)
    BY <1>3, <1>7
  <2> DEFINE h == Horizon
  <2>3. /\ IsFiniteSet(Latches) /\ IsFiniteSet(Inputs) /\ IsDesign(d) /\ NoDeadEnd(d, As)
        /\ b \in Nat /\ h \in Nat /\ h >= b + Cardinality(Node)
    BY <1>4, <1>5, LatchAssumption
  <2> HIDE DEF All, As, h
  <2>4. Completes(d, As, b, h)
    BY ONLY <2>1, <2>3, PathsAreCompleted
  <2>5. PICK w \in Words(d, Horizon) : /\ w.last >= b /\ \A x \in 0 .. b : w.path[x] = path[x]
                                       /\ \A q \in As : ViolatedBy(q, w) = {}
    BY <2>2, <2>4 DEF Completes, h
  <2>6. MeetsAssumptions(d, sel, w)
    <3>1. \A q : q.form = "EX" => ViolatedBy(q, w) = {}
      BY DEF ViolatedBy
    <3>2. \A q \in All : ViolatedBy(q, w) = {}
      BY <1>2, <2>5, <3>1
    <3> QED BY <3>2, AssumptionsMeaning DEF All
  <2> QED BY <2>5, <2>6
<1> QED BY <1>6, <1>7 DEF KeepsAll
=============================================================================
