# Verification of EBMC's model-checking core

EBMC takes a hardware design (Verilog, SMV, AIGER, BTOR, VHDL), turns it into a
transition system and decides temporal properties of it.  This directory holds
TLA+ models of the parts that decide: the synthesis of Verilog processes to a
transition system, the IC3 solver, the BDD engine with the liveness-to-safety
translation, the heuristic that runs six engines over one list of properties, and
the encoding of temporal properties for bounded model checking. TLC checks them on
small instances, and TLAPS proves results for every design about the IC3 solver, the
BDD engine (its search, its CTL fixpoints, its verdicts, traces and what they say of
infinite runs), the liveness-to-safety translation, and the verdicts of the engine
heuristic.

Paths in this file are relative to `src/` of the repository, so `ebmc/bmc.cpp`
is `src/src/ebmc/bmc.cpp` in `PROJECT.json`, which maps every definition to the
lines it models, every property to the mutation that breaks it, and every
hazard to the properties that cover it.

## 1. The system

EBMC is a sequential program around SAT and SMT solvers.  Nothing runs
concurrently and nothing persists.  What makes it hard is of a different kind:

* every query has many answers (models, unsatisfiable cores, failures), and the
  algorithm has to be right whichever the solver returns;
* incremental state is kept in step with other state by hand (the frame solvers
  of IC3, the clauses of two frames during propagation);
* verdicts live in one mutable status field per property, which six engines
  write in turn and read with different intentions;
* bounds count states in one place, transitions in another; a finite unwinding
  stands for infinite runs by way of lassos, so off-by-ones change verdicts;
* Verilog is a language of concurrent processes, and the synthesis gives one
  deterministic answer for what the language leaves to the scheduler.

### Inventory

| component | state | operations | interacts with | hard behaviour | what makes it correct | status |
|---|---|---|---|---|---|---|
| IC3 solver (`new-ic3/ic3_solver.*`) | delta frames, lazily built solvers, obligation queue | `solve`, `get_solver`, `add_clause`, `relative_induction`, `lift`, `generalize`, `ctg_down`, `propagate` | netlist, SAT solver | any model, any core; solvers updated by hand; termination | right answers, frames over-approximate, solvers match frames, termination | modelled, proved |
| IC3 driver (`new-ic3/new_ic3_engine.*`) | none | one solver run per property | IC3 solver, properties | – | copies the answer | partly |
| property status (`ebmc/ebmc_properties.*`) | one status, bound, trace per property | setters, resets, copy, selection, exit code | all engines | statuses written by many | nothing unfinished leaks, assumptions survive | partly |
| engine heuristic (`ebmc/engine_heuristic.*`) | current engine, property list | run engine, copy, reset | all engines | order of engines and resets | verdicts sound and final | modelled, proved |
| property checker (`ebmc/property_checker.*`) | none | choice of engine, bit-level BMC | engines | covers in bit-level BMC | exit code 0 only if everything is proved | partly |
| BMC (`ebmc/bmc.*`) | solver, handles, statuses | strengthening loop, per-property loop | unwinding, obligations | assumptions, errors, covers | bounded verdicts right, traces genuine | modelled, proved |
| k-induction (`ebmc/k_induction.*`) | statuses | base, step | BMC | unsupported assumptions | no verdict beyond the evidence | modelled, proved, any k |
| completeness threshold (`ebmc/completeness_threshold.*`) | bound | threshold, BMC, upgrade | BMC | diameter of a lasso | an upgraded verdict is right | modelled, proved for invariants |
| tautology, transition property, liveness lemma engines | statuses | one pass each | property status | lemma of another property | sound verdicts | modelled, proved |
| unwinding and obligations (`trans-word-level/`) | none | `unwind`, `property`, `instantiate_sequence`, `lasso_constraints` | BMC | lassos, ranges, NNF, pending matches | no false alarm, violations are found | partly: no `$past` |
| temporal logic (`temporal-logic/`) | none | normalisation, NNF, rewriting and matches of sequences, SVA to LTL, LTL to CTL, Büchi | obligations, BDD engine | duals, empty matches | meaning is kept | partly: no Büchi automata, `disable iff`, `if` |
| liveness to safety (`ebmc/liveness_to_safety.*`) | added registers | instrumentation | design, BDD engine | saving once, clearing `live` | safe iff live | modelled, proved |
| BDD engine (`ebmc/bdd_*`) | BDDs, statuses | backward search, CTL fixpoints, recomputed trace | netlist, SAT solver, liveness to safety | fixpoint and trace disagree; assumptions | CTL semantics, shortest traces | modelled; search, fixpoints, LTL to CTL, verdicts and traces proved |
| Verilog synthesis (`verilog/verilog_synthesis.*`) | value maps, assignments, invariants | items, statements, jumps, calls, assertions | type checker, engines | merges of branches and jumps, order of items | agrees with the simulation | partly: procedural code |
| netlist, AIG, netlist unwinding | graph | conversion | – | data | same function | partly: its meaning |
| traces and reports (`trans-netlist/trans_trace.*`, `ebmc/report_results.*`) | none | cut at the failing timeframe, print | BMC | length of a trace | the trace shows the violation | partly: the cut |
| past operators, Büchi (`ebmc/instrument_*.cpp`) | added registers | instrumentation | design | initial values | monitor = semantics | not modelled |
| ranking functions, neural liveness | – | guess and check | solver | loop with an external guesser | – | not modelled |
| diameter, dependency graph (`trans-netlist/compute_ct.*`, `ldg.*`) | graph | threshold of a netlist | – | graph algorithm | a bound of the diameter | not modelled |
| random traces, SAT-based quantifier elimination | – | – | – | – | – | not modelled |
| CEGAR, interpolation, coverage, old IC3, VCEGAR | – | – | – | not reachable in the build, superseded, or glue | – | not modelled |
| other front ends, `hw-cbmc`, `vlindex`, command line | – | – | – | compilers, file formats, glue | – | not modelled |

## 2. Modules

```
TransitionSystem <- SafetyVerdict                              what any safety checker promises
TransitionSystem <- NewIC3 <- MCNewIC3                         the IC3 solver, its instances
                    NewIC3 <- NewIC3_proofs
TransitionSystem <- Netlist                                    two kinds of constraints, dead ends
Netlist <- BddReachability <- BddReachability_proofs           the backward search of the BDD engine
Netlist <- LivenessToSafety                                    the translation, as operators
BddReachability <- CtlFixpoints                                the CTL fixpoints, and what CTL means
                   CtlFixpoints <- LtlTranslation              LTL to CTL, and what LTL means
                   LtlTranslation, BddReachability_proofs <- CtlFixpoints_proofs
                   LtlTranslation, LivenessToSafety <- BddEngine <- BddSemantics <- MCBddEngine
                   CtlFixpoints_proofs, BddEngine <- BddEngine_proofs
                   BddSemantics INSTANCEs TemporalFormula
WordLevel <- EngineHeuristic <- MCEngineHeuristic              all engines over one property list
WordLevel <- WordLevel_proofs                                  paths, words, lassos, thresholds
             EngineHeuristic, WordLevel_proofs <- EngineHeuristic_proofs
             EngineHeuristic_proofs <- EngineSoundness_proofs
SvaSequences <- Obligations <- MCObligations                   the BMC encoding of temporal properties
                Obligations INSTANCEs TemporalFormula
VerilogStatements <- VerilogSynthesis <- VerilogSimulation <- MCVerilogSynthesis
```

`NewIC3` and `BddReachability` instantiate `SafetyVerdict` as the specification
that they implement.  `NumberInduction` has the induction over numbers that
`BddReachability_proofs` and `WordLevel_proofs` use, and the induction and recursion
over formulas, by their height, of `CtlFixpoints_proofs`.

### 2.1 TransitionSystem, SafetyVerdict, NewIC3

`TransitionSystem` is the netlist as IC3 sees it: latches, inputs (which also
stand for the nondeterministic nodes), next-state functions, initial states, one
predicate for the constraints of both kinds, as `unwind()` conjoins them in every
timeframe, one safety property.  Reachability is the smallest
closed set, so that nothing is recursive.  `SafetyVerdict` is the abstract
checker: one answer, never revised; PROVED only if the property holds; REFUTED
only with the number of states of a trace that exists.

`NewIC3` is `ic3_solvert::solve()` with everything it calls.

| variable | in the code |
|---|---|
| `design` | the netlist and the property literal |
| `pc` | position in `solve()`: initial checks, bad-state query, obligation loop, `generalize`, `ctg_down`, `propagate` |
| `k`, `frames` | `number_of_frames() - 1`, `frame_clauses`; a clause is written as the cube it negates |
| `solvers` | the clauses in each `frame_solvers[i]` that has been built |
| `obligations` | the priority queue |
| `mic` | the locals of `generalize()` and `ctg_down()` with the obligation in work |
| `todo` | the locals of `propagate()` |
| `result` | `ic3_resultt` |

One action is one turn of a loop of the code, with all calls in it: a query is
made, `get_solver()` builds the solver if needed, the core is taken, repaired
against the initial states, and added to frames and solvers.  The solver's
freedom is `\E`: over models (`Predecessors`, `BadModels`), over cores (`Cores`,
`Lift`: any subset that is unsatisfiable, minimal or not), over the order in
which clauses are walked and ties in the queue.  The order of the literals with which
`generalize()` begins is free too (`Orders`), and kept from then on (`mic.before`):
`DropLiteral` takes the literal at the index, and what `repair_init()` adds again comes
last (`Appended`), so that a literal that failed may be tried again, and one that was
not tried may be passed over.

Left out: activities (an order, and every order is allowed), don't-care bits in
lifted cubes, `netlist.initial` that reads inputs, and the lifting of the full
state for anonymous inputs.  `CTG_MAX` is 0 in the code; the branch it disables
is in the model under the constant `CtgMax`.

### 2.2 WordLevel, EngineHeuristic

`WordLevel` holds designs, their unwinding over timeframes, lassos, and the
shapes of properties that the engines tell apart (`now`, `next`, `G`, `GX`, `F`,
`GF`, and one that BMC does not support).  `Falsified` is what the handles say of
a path; `ViolatedBy` is what the property means on an ultimately periodic word.

`EngineHeuristic` is a run of `property_checker()`.  Without an engine on the
command line it is `engine_heuristic()`: tautology check, transition property,
completeness threshold, 1-induction, liveness lemma, BMC with bound 5.  With one
(the constant `Commands`) that engine runs alone: word-level BMC, bit-level BMC or
k-induction, with `--bound` from `Bounds`.  `props` is the command's property list,
`work` the copy an engine works on, `bound` and `index` belong to the BMC run in
progress.  BMC takes one action per query, as each model refutes a set of
properties and changes what the next query asks.  Every query may fail
(`StrengthenError`, the last disjunct of `CheckProperty`, `Throw` where the code
throws).  `--property` is `selected`, `--bmc-with-assumptions` is drawn from the
constant `Modes`.

Abstractions: the next-state relation is left-total, as
`ebmc/transition_property.cpp:119` assumes; `wide` stands for a constant
register that takes the design over the 8 bits of `recurrence_diameter()`; a
witness trace is the set of properties that it falsifies; a lemma matches a
property when their predicates are equal; an assumption never yields a lemma
because its original expression is not an `always`.

### 2.3 SvaSequences, TemporalFormula, Obligations

`SvaSequences` has SystemVerilog sequences as tuples, what they match by the
standard (`Ends`, the times at which a match ends), and the three things the code
does to them: `rewrite_sva_sequence()`, which moves empty matches out of the way;
`instantiate_sequence()`, the potential matches over the timeframes with the
*pending* ones, which may be completed beyond the bound; and
`LTL_sequence_matches()`, the matches as conditions on consecutive positions.

`TemporalFormula` has formulas as tuples, their semantics on lasso words, and
`trivial_sva()`, `normalize_property()`, `negate_property_node()`,
`property_nnf()` and `SVA_to_LTL()`.  What it needs to know of sequences comes
with four operator constants: `Obligations` binds them to those of `SvaSequences`,
the BDD engine, whose problems have only sequences of one state predicate, to
one-line versions.

`Obligations` is `property_obligations_rec()` and its callers.  The conditions of
the code are evaluated on the path that the solver has picked, so an obligation is
`<<timeframe, BOOLEAN>>`; the ranges, the timeframes, the lasso rules, the
clamping and the dropping of pending matches are those of the code.  A state of the
module is a property and a path, and `Extend` goes to the next bound.  Operators
that the code treats in one branch share a name (`G` for `G`, `AG`, `always`; `R`
for `until_with` with the operands swapped).

### 2.4 Netlist, LivenessToSafety

`Netlist` is the design as the BDD engine sees it, which keeps the constraints (SMV
`INVAR`, Verilog `assume`) apart from the constraints on transitions (SMV `TRANS`).
`EX`, `check_AGp` and `check_CTL` conjoin the former to every set of nodes, and the
latter to the move only, so a state that must not move on is a *dead end*: it exists, and
the runs that get there end.  For `unwind()`, which conjoins both in every timeframe,
the last one included, it does not exist (`Merged`).

`LivenessToSafety` is the translation of `always s_eventually p`: `Monitored(d)` is the
product of a netlist with the copy `loop`, the flags `saved` and `live`, and the input `save`.
An assumption is translated like a property, with a flag of its own in `seen`, and becomes a
constraint: whenever the state returns to the copy the flag is set (`Assuming`).
`AvoidsForEver` says, without the monitor, that a reachable cycle avoids p and meets what is
assumed to recur.  The BDD engine runs the same `Monitored` in front of its search.

### 2.5 BddReachability, CtlFixpoints, LtlTranslation, BddEngine, BddSemantics

`BddReachability` is `check_AGp` up to the verdict: BDDs are sets of states, one
action is one turn of the loop (intersect with the initial states, project, unite,
compare).

`CtlFixpoints` is `bdd_model_checkert` and `bdd_enginet::CTL`: the loops that repeat
an operator until nothing changes, and the evaluation of a formula from its operands
(AF, AG, ER and AR by way of their duals, as in the code).  Next to it is what a
CTL formula means, on the states that have an allowed input (`Meaning`): paths
instead of loops, `Some` the smallest set that a path can reach a goal from, `Ever`
the largest set in which a path need not end.  Both are about the graph of the moves with
its dead ends: a path may end in a state without an
allowed successor, in the code as in the meaning, `AX` holds there and `EX` does not.
All are recursive functions over the set `Formulas`, whose members have
a height above that of their operands, so that they can be proved about.

`LtlTranslation` is `LTL_to_CTL`, as a recursive function over the set `LtlFormulas`, next to
what LTL formulas mean: the times of an infinite run at which they hold (`HoldsAt`, `Runs`).
TLC cannot evaluate infinite runs, so this meaning is for the proofs, and the lassos of
`BddSemantics` are for the runs of TLC.

`BddEngine` is `bdd_enginet` around it: `Prepare` (which properties are
supported; the CTL formula left in `normalized_expr`; the liveness-to-safety
translation, of the assumptions too; the assumptions that fit into the BDDs), one property after the other,
`check_AGp` or the CTL fixpoints, the verdicts with those of covers reversed, and
`compute_counterexample`, a SAT query for a path of the length that the search gave, on the
netlist without the assumptions and in which dead ends do not exist.  When it has no
answer, the verdict is set, and the engine throws (`EndRefuted`, `pc = "unsat"`).
A trace is its length and the timeframes in which it falsifies the property.

What is done to formulas before they are LTL comes with three operator constants
(`Normalized`, `IsTemporal`, `LtlOfSva`).  `BddSemantics` defines them (normalisation,
`has_temporal_operator` and `SVA_to_LTL`) next to the meaning of LTL and SVA properties
on lassos, and the `.cfg` files bind them.  So what an LTL, SVA or universal CTL property means
there is about runs that go on for ever, and the two meanings differ where there are dead ends.

### 2.6 VerilogStatements, VerilogSynthesis, VerilogSimulation

`VerilogStatements` has expressions and statements as tuples and runs them on a
valuation.  `VerilogSynthesis` is `verilog_synthesist` on the items of one module,
one item per action: a value map with `current` and `final` values; both branches
executed and merged; `break`, `continue` and `return` that save the map and merge
it in later; parts and bits assigned through the old value; the checks that report
conflicting assignments; the guards of assertions; wires, nets and the freeing of
wires that depend on themselves (`PostProcessWire`); and `trans`, the initial values,
next values and invariants that come out.  `VerilogSimulation` runs the same module
as the language defines it: items of one time step in every order, nonblocking
writes after them, combinational items until nothing changes.  Its properties
compare each simulated step with the steps of the synthesized system.

`Width` gives the bits of each variable, `Commands` the modules and options
(`--ignore-initial`, `--initial-zero`).  Widths 1 and 2, so values wrap.  An x is any
value.

Modules 2.3, 2.5 (`BddSemantics`) and 2.6 use RECURSIVE operators, since formulas
and statements are trees; no theorem is stated about them.

## 3. Runs

| run | instance | question |
|---|---|---|
| `ic3_two_latches` | all 256 two-latch designs without inputs, `CtgMax` 0, `JoinMax` 3, `MicFailMax` 2 | Is every answer right, do frames only shrink, does every obligation come to an end, does the solver stop? |
| `ic3_three_latches` | three-latch designs with inputs, several initial states or constraints, one with no live state, one in which a literal is put back and tried again; `CtgMax` 1 | Do generalisation, joins, repair and the disabled branch keep frames, solvers, cubes and PROVED right over several frames? |
| `heuristic` | 26 designs with properties, two or fewer inputs, four states, with and without a threshold, every `--property`, the heuristic or one engine alone, bounds 0 and 2, with and without `--bmc-with-assumptions` | Are the verdicts right, final, and with genuine traces? Do assumptions survive? |
| `obligations` | 84 formulas over two atoms, every path of up to 4 letters | Does the encoding agree with the semantics, do sequences match where they should, and does `SVA_to_LTL` keep the meaning? |
| `bdd` | 52 netlists with CTL, LTL, SVA and cover properties, assumptions, dead ends by constraints and by constraints on transitions, liveness translated with and without assumptions | Do search and fixpoints agree with the semantics, and the traces with the search? |
| `synthesis` | 38 Verilog modules | Is the synthesized system the module? |
| `ic3_spurious`, `threshold_lasso`, `until_lasso`, `ltl_to_ctl`, `dead_end`, `early_return` | one design, formula or module each | disagreements, section 6 |

**Bounds.**  Two latches with all designs give every transition graph on four
states; three latches with inputs give cubes that are long enough for dropping, joins
and repairs to happen (two latches never join twice).  `JoinMax` is the code's value;
`MicFailMax` 2 lets `generalize()` give up on three literals.  `Horizon` 8 is longer
than any simple lasso of four states and two inputs that the problems need, and longer than
every bound a BMC run uses (0, 1, 2, 3, 5); in `bdd` it is 5, one more than the states.
Paths of 4 letters over 2 atoms have lassos with stems of 0 to 2 and loops of 1 to 3,
and the reference words extend a path by two more letters and a loop; `Unrolling` 1
grants BMC one more turn of the loop, since an eventuality below another operator is
refuted only by a loop that starts late enough.  The sequences have matches of up to
three ticks or no limit, so that some end inside the path, some at the bound, and
some are pending.  The Verilog modules have variables of one or two bits, loops of two iterations,
one to four items, and every kind of statement next to every kind of jump; wider
variables and longer loops repeat what those do.

**Deadlock** is checked, but for the runs of `Obligations` and of
`VerilogSimulation`: `Extend` stops at `MaxFrames`, which bounds the bound, and a
module that is rejected has no next step.

**Fairness.**  `NewIC3` has `WF_vars(Next)`: a sequential program that can take a
step takes one, and a SAT call returns.  Nothing is assumed of which model or
core comes.  The violation runs that need it use the fair specification too.  No
other module states liveness: their loops walk over finite lists.

## 4. Properties

IC3 (`NewIC3.tla`): `FramesOverapproximate`, `FramesSafe`, `SolversMatchFrames`,
`GeneralizedCubeIsInductive`, `ObligationsReachBad`, `LevelZeroRefutes`,
`ProvedIsSound`; the action properties `FramesOnlyShrink` and
`BlockingBlocks`; `Terminates`; and the refinement `ImplementsSafetyVerdict`.

Engines (`EngineHeuristic.tla`): `ProvedIsSound`, `RefutedIsSound` and
`BoundedIsSound` compare each verdict with the words of the design that meet the
assumptions; `TracesShowVerdict`: a reported trace keeps the assumptions and shows
its verdict; `AssumptionsRestored`; `InductionNeverAborts` (a DATA_INVARIANT of the code
that depends on three loops in order); `ProvedIsFinal`.  The latter has two
exceptions that the code makes on purpose (`VerdictStands`): under
`--bmc-with-assumptions` a decided property is checked again, and REFUTED of a cover
is taken back when an assumption was dropped (`ebmc/k_induction.cpp:227`).

Encoding (`Obligations.tla`): `AlarmIsGenuine`, `ViolationIsFound`,
`TraceShowsViolation`, `AlarmPersists`, `RewritingKeepsMeaning`, `ObligationsInRange`;
`MatchesAreExact` (the matches inside the unwinding are those of the standard) and
`SvaToLtlKeepsMeaning`.

BDD engine (`BddEngine.tla`, `BddSemantics.tla`): `SearchByDistance`;
`SearchVerdictsAreRight`: what the search proves or refutes, also on a translated
netlist, is a state or a cycle of the design itself, on runs of any length, dead ends
included (what is proved under several assumptions of liveness is left out: section 6);
`TraceIsShortest`; `CounterexampleExists`: the SAT query for the trace is
unsatisfiable only where a bad state is a dead end; `VerdictsMatchFormulas`: whichever way
a property takes, search or
fixpoints, its verdict is that of its CTL formula on the graph of states (of a formula whose
predicates read no input, and of a cover that is searched); `ProvedIsRight` and
`RefutedIsRight` compare the verdicts with the meaning of the property as it was written, on
the runs that go on for ever.  So they need conditions: PROVED of a CTL formula with a
quantifier over some path may rest on a dead end, and so may every REFUTED without
the translation (`NoDeadEnd`).  `DeadEndsDoNotFalsify` is the latter without the condition, as
a test of the repository states it, and fails (run `dead_end`).

Synthesis (`VerilogSimulation.tla`): `SimulationIsCovered` (every simulated step, in
every order of the items, is one of the synthesized system), `SynthesisIsExact` (and
the other way round, for modules whose values are all determined),
`AssertionsAsExecuted`, `ConflictsAreReported`.

## 5. Proofs

**`NewIC3_proofs`** proves, for all finite or infinite sets of designs over any set
of latches and inputs and all limits (`DesignsAssumption`, `LimitsAssumption`):

* `TypeCorrect`;
* `FramesSound`, `FramesExcludeBad`, `SolversNeverStale`, `GeneralizeSound`, `ProvedSound`,
  `FramesShrinkAlways`;
* `LevelZeroAlwaysRefutes`, `BlockingAlwaysBlocks`;
* and for designs without constraints (`Unconstrained`) `RefutedGenuine`,
  `ObligationDepths` and `IC3ImplementsVerdict`, the step simulation of
  `SafetyVerdict`.

The safety properties are not inductive one by one.  That a step keeps the
frames over-approximating needs that queries were answered by solvers that match
the frames, and that the cube in `generalize()` is inductive relative to the
frame below; that the solvers still match after `propagate()` moves a clause needs that
frames are nested; and both need the locals to be those of the step in progress.  `FrameInv`
conjoins them: types and bounds of the levels, `Sync` (each built solver has, up to
subsumption, the clauses of its level), `LocalsInStep`, `FramesOverapproximate`,
`FramesSafe`, `GeneralizedCubeIsInductive`, `ProvedIsSound`.  The induction step
is divided twice: one lemma for each conjunct, and `FrameStep`, which reduces the twenty
actions to three kinds of change of the frames (a clause is added, a clause moves
up, a frame is opened).  `RefuteInv` adds what an obligation knows: its states
are exactly `depth` steps away from a violation.  This fails under constraints
(section 6), hence the hypothesis.

**`BddReachability_proofs`**: `TypeCorrect`, `SearchGoesByDistance` (after n turns the
set holds exactly the states that reach a violation in at most n transitions) and
`BddAnswersAreRight` (a violation is reached, dead ends included, iff the search says so), all
for every netlist, with constraints of both kinds; and `BddImplementsVerdict`, the refinement
of `SafetyVerdict` for the design that `unwind()` sees, when the states in which the property
fails move on (`BadStatesMoveOn`).  Without this hypothesis it is false (section 6, *BDD engine*).  `SearchInv` adds to the distance that no initial state was
among the states of fewer turns (`NotCloser`), which makes the number of turns the
length of a trace.  It asks little of the netlist (`IsNetlist`), so it holds of the
searches that the engine makes on translated designs as well.

**`CtlFixpoints_proofs`** proves `FixpointsAreRight` and `LtlMappingIsSound`.  First: for every netlist with finitely
many nodes, constraints of both kinds, every set of formulas and every formula whose predicates
read no input, the nested loops of the engine yield the states in which the formula holds on the
graph of the moves with its dead ends.

* A recursive function is a CHOOSE, and that there is one has to be proved.  For the turns
  of a loop it is induction over their number (`TurnsFunction`), for formulas induction over
  their height (`HeightInduction` and `RecursiveFunction` of `NumberInduction`): both are about
  sets, so no theorem about an operator is needed.  `CTLUnfolds`, `MeaningUnfolds` and `InputFreeUnfolds`
  are the definitions by cases that follow;
* a loop ends: a chain of subsets of a finite set has two equal neighbours among its
  first n + 1 (`ChainEnds`), so what `fixedpoint` yields is a fixpoint of its operator, and is in
  every family of sets that has the start and is closed under the operator (`FixpointReached`).
  With `{y : y \subseteq L}` as the family, it is the smallest or the largest;
* a set of nodes `Represents` a set of states if it has all allowed nodes of those and no
  allowed node of others.  The lemmas `Represents...` show of each operator that the engine
  keeps this.  Only AU needs an argument: the loop steps with AX, while its meaning is by
  the dual, no path in which g fails up to a state without f and g, and none on which g fails
  for ever.  The states outside the loop's result have such a path: in the part that reaches
  no state without f and g, every state has a successor in the part.

Then `LtlMappingIsSound`: where an infinite path comes through a state in which the CTL
formula of an LTL formula holds, the LTL formula holds from there on.  `PathAX`, `PathAR`,
`PathAG` and `PathAF` say what the operators promise of a path: the states that it visits
without A are closed under its steps, so they are in the largest such set (AF), and cannot
leave the smallest one (AR).  `PathRelease` is the one case that takes both: AF gives a first
state with A (`LeastNumber`), and AR gives B up to it and in it.  State formulas hold in
both senses or in neither (`StateFormulasOnPaths`).  The converse is false (section 6, 4), and
the theorem is the direction on which PROVED rests.

**`BddEngine_proofs`**: `TranslationIsExact`, the liveness-to-safety translation is sound
for every netlist and every set of assumptions of liveness, and complete for at most one.
Sound: while `live` is false, the design
went from the copy to the current state without p, and where the flag of an assumption is set it
saw what is assumed on the way (`Follows`).  Complete: the monitor
states from which no violation can be reached are closed under its steps; those
without a copy cover what the design reaches, and those with s in the copy cover what
it reaches from s without p, so no cycle through s avoids p and meets the assumption.

Then, for every set of
problems and whatever the operator constants do to formulas, the seven theorems about
`bdd_enginet`: `EngineSearchesByDistance`, `SearchVerdicts`, `CounterexampleIsFound`,
`TraceShortest`, `VerdictsMatch`, `ProvedOnRuns` and `ProvedSeenForEver`.  `EngineInv` joins
the properties to `SearchInv` and `OnIndex` (the
search is that of the property in work); each action is a step of the search, a step that
decides nothing, or `Decide`.  The counterexample is recomputed on the netlist without the
assumptions, which has every path of the constrained one (`SearchConstrains`), and
every path is an unwinding (`PathIsUnwinding`) if its last state moves on: this is where a bad
dead end is left without a trace.

`VerdictsMatch` brings the two halves of the engine together.  `CheckMeansFormula` is
`FixpointsAreRight` for the formula of a property; `AboutMeansAG` says that the search of AG p looks
for the states that the meaning of AG p excludes (`ReachedOrNot`: backwards from a violation
or forwards from the initial states is the same).  `MeaningInv` adds to `EngineInv` that the
formulas in work are those that the properties are converted to, and are in `Formulas`.

`ProvedOnRuns` follows from it and `LtlMappingIsSound`: an LTL or SVA property that the engine
reports as proved (a cover: as refuted) holds, as the LTL formula that `SVA_to_LTL` yields for
it, on every infinite run within the constraints and the assumptions.  An infinite run has no dead
end, so dead ends make this direction no weaker.  For translated designs it
is `ProvedSeenForEver`, with at most one assumption of liveness, for the runs that meet it: a run
that sees p finitely often visits a state twice after the last
time (`RunRepeats`, by the pigeonhole principle), and so has the cycle that the search excludes
(`AvoidingRunHasCycle`).

What is assumed: `ProblemsAssumption` (the problems are a set of netlists with their types, and
each has a property),
`FormulasAssumption` (the operands of a formula are formulas, and lower),
`LtlFormulasAssumption` (the same for LTL), `FinitenessAssumption` (finitely many latches and
inputs), `TemporalAssumption` (a formula is temporal iff its operator is or an operand is),
`PropertiesAssumption` and `TranslationAssumption` (the properties are in `LtlFormulas` or
`Formulas` after normalisation and `LtlOfSva`, and so is what they become in CTL).  TLC evaluates
them on the instance of the run `bdd`.

**`EngineHeuristic_proofs`** proves, for every set of problems and every command,
`TypeCorrect`, `AssumptionsAlwaysRestored`, `InductionIsSafe`, `VerdictsAreFinal` and
`TracesAreGenuine`.  The assumptions are those of the module: `ProblemAssumption`
(at least one property, covers are about state predicates), `LatchAssumption`
(finitely many latches) and the types of the options.  `EngineInv` says, for each
property, which statuses it may have at each place of the run: an assumption is
ASSUMED between engines and only ever replaced by what the reset undoes
(`AssumptionKept`), the step case finds a status it can handle (`ReadyForStep`), what is
PROVED is supported by the engine that proved it (`ProvedIsSupported`), and a verdict in
`props` is the one in `work` unless it is revised (`VerdictKept`, `NoVerdictYet`).
`TraceInv` adds the traces.

**`WordLevel_proofs`** proves what the engines rely on, for every design: the paths of
a query are prefixes of the words and the other way round (`WordUnrolls`,
`PathsAreCompleted`), `ThresholdIsComplete` (an invariant that holds on the paths of
2^n - 1 transitions holds for ever: a longer path to a violation visits a state twice,
and `Glue` cuts the part in between out), `InductionIsComplete` and `RankingBringsLive`.
The library's induction theorems cannot be instantiated by the provers, so induction
over timeframes is `LeastNumber` (`NumberInduction`): a set of numbers that is not empty has a
least element, which follows from the well-foundedness of finite sets.  The other proof modules
use it as well.

**`EngineSoundness_proofs`** proves that the verdicts are right: `BoundedVerdictsAreSound`, `FinalVerdictsAreSound`, `RefutedVerdictsAreSound`,
for every set of problems, every command, bound and `--property`.  The argument:

* `Origin` lists where the result of a property can come from in a step: it is kept, taken over
  from the previous engine, given up, or decided for one of eight reasons, each with its
  evidence (a model of the query, none, the threshold, the induction step, a lemma ...).
  `OriginStep` shows that no step does anything else;
* `RunInv` adds to `EngineInv` the bound of the BMC run in progress, the bounds of
  the verdicts that an engine meets, and the assumptions of its queries;
* `BoundedInv`: a verdict with a bound has a query without a model behind it.
  `FinalInv`: what is PROVED has no violation; each of the reasons has a lemma of its own,
  and k-induction needs `BoundedInv` for its base case.  `RefutedInv`: what is
  REFUTED has a violation, or is `Pending`: k-induction has dropped an
  assumption, and makes the refutation inconclusive before anyone sees it.

Each theorem is conditional on what the code leaves to the user or gets wrong;
section 6 has the disagreement behind each condition:

| condition | theorem | why |
|---|---|---|
| `SafetyAssumptions` | all three | an assumed liveness property constrains the lassos of a path, and so cuts off finite paths |
| `ThresholdFits` | final | the recurrence diameter is too small for `F p`, and for an assumption over two cycles |
| `RankingsDecrease` | final | a ranking lemma is taken at its word: a property of the shape `live or rank decreases` has to be about a rank |
| `CoversFit` | refuted | the witness of a cover that was found without the dropped assumption is kept |
| `Completable` | refuted | a path of a query that runs into a dead end of the assumptions is a prefix of no run |

`MCEngineHeuristic` assumes, so that TLC evaluates it, which of its 26 designs meet them: all meet
`SafetyAssumptions` and `RankingsDecrease`, 22 `ThresholdFits` and 24 `CoversFit`.  They are
sufficient, not necessary: the run `heuristic` passes on the others as well, whose
lassos are shorter than the threshold.  `Completable` is a condition on `Horizon`, the bound of the
reference semantics, too: `HorizonIsEnough` shows that it holds when no assumption runs into a
dead end and the horizon is at least the bound plus one timeframe for each state and
input.  So no theorem rests on a small horizon.

The assumptions on the constants are those that the modules state and TLC
evaluates: `ProblemAssumption`, `LatchAssumption` (finitely many latches),
`HorizonAssumption` and the types of the options.

TLC only: termination (liveness), and everything in the modules with RECURSIVE operators
(`SvaSequences`, `TemporalFormula`, `Obligations`, `BddSemantics`, Verilog), where a
property is about every formula or statement and a proof would be an induction over
data.  So of the way from a property to its verdict the normalisation and `SVA_to_LTL` are
checked (`ProvedIsRight`, `RewritingKeepsMeaning`, `SvaToLtlKeepsMeaning`), and `LTL_to_CTL` and what
comes after it are proved.  `RefutedIsRight` is false of LTL in general (section 6, 4); the run
`bdd` checks it on properties without F G.

## 6. Disagreements between the code and what it says

With a run each:

1. `ic3_spurious` – `lift()` asks a solver that holds the constraints, so its core
   may rest on the constraint alone; the lifted cube then holds states without the
   transition, and IC3 can answer REFUTED for a property that holds
   (`new-ic3/ic3_solver.cpp:455`; `ic3_solver.h:53`: "The trace is genuine").
2. `threshold_lasso` – the recurrence diameter is one transition short of a lasso, so
   `F p` becomes PROVED (`ebmc/completeness_threshold.cpp:191`).
3. `until_lasso` – the range of W and R under a lasso starts before the current
   timeframe (`trans-word-level/property.cpp:456`).
4. `ltl_to_ctl` – `F G p` becomes `AF AG p`
   (`temporal-logic/temporal_logic.cpp:207`).
5. `dead_end` – a branch into a dead end of a `TRANS` constraint refutes `AF AG good`, as `EX`
   conjoins only the constraints to the successors (`ebmc/bdd_model_checker.cpp:65`;
   `regression/ebmc/BDD/AFAG_deadend1.desc` expects PROVED, and is marked KNOWNBUG).
6. `early_return` – of several returns the last one wins
   (`verilog/verilog_synthesis.cpp:516`).

Seen while modelling, without a run of their own.  The passing runs leave these
shapes out.

*Engines and encoding*

* when an assumption was dropped, 1-induction makes every REFUTED inconclusive, also
  that of a cover, where it means that no witness exists and would be right, but not
  a cover that was PROVED by a path (`ebmc/k_induction.cpp:227`);
* an assumed `always s_eventually q` constrains every lasso of the path, and cuts off
  finite paths that pass a state twice before they reach q (`ebmc/bmc.cpp:293`);
* bit-level BMC treats a cover as an assertion: one that is not reached is PROVED with the bound,
  and the exit code is 0 (`ebmc/property_checker.cpp:177`, `:453`);
* bit-level BMC ignores assumptions it does not support, and
  `--bmc-with-assumptions` checks properties again that were proved;
* the threshold is that of the design alone, also under an assumption over two
  cycles, which needs longer paths (`ebmc/completeness_threshold.cpp:80`);
* the upgrade tests `ct >= bound` where its comment says `k>=CT`
  (`ebmc/completeness_threshold.cpp:249`, `:252`), so a property with a smaller
  threshold than the largest is not upgraded: sound, but weaker;
* 1-induction overwrites REFUTED of a property it does not support with UNSUPPORTED,
  which is reset to UNKNOWN, and the next engine looks again (`ebmc/k_induction.cpp:203`);
* `extract_liveness_lemma()` casts one operand of every proved `always (a or b)` to
  a ranged always (`ebmc/liveness_lemma_engine.cpp:62`); the model keeps the abort;
* an inner F after the start of the loop is true (`trans-word-level/property.cpp:264`);
* `X` at the end of a lasso goes to its start, though the two are equal, so a state is
  counted twice (`property.cpp:402`): false alarms for `G(p or X q) and F p`;
* the range of a bounded `s_eventually` is clamped at the last timeframe
  (`property.cpp:299`, `:313`): false alarms that a larger bound takes back;
* the obligations of W and R carry the timeframe where the until starts
  (`property.cpp:476`, `:510`), so a trace is cut too early; `TraceShowsViolation` is
  about formulas without an until;
* `property_nnf()` does not look again at the node under a double negation
  (`temporal-logic/nnf.cpp:177`), so a lasso operator below stays hidden;
* a negated `iff` between temporal operands is not supported and ends in an error;
* `accept_on` and `disable iff` look at the start of an attempt only.

*Sequences*

* `##[n:$]` with n > 1 near the bound has neither a match nor a pending one
  (`trans-word-level/sequence.cpp:144`), a false alarm; `[*n:$]` with n greater than the
  timeframes left aborts (`:452`);
* `not weak(s)` and `not strong(s)` demand the negated condition of a pending match in
  timeframe 0 (`property.cpp`, the branch under `ID_not`): `not (p ##1 q)` is refuted
  with bound 1 by p alone, and no longer with bound 2;
* `#-#` and `#=#` drop the pending matches of their antecedent: false alarms near the
  bound;
* pending matches of `and`, `intersect`, `within` and `throughout` forget the conditions
  of their operands, so a violation is found with a larger bound only, or not at all;
* a sequence that is refuted by the end of its pending matches carries the timeframe
  where it starts, so the trace is cut too early (`p[*2] ##1 q`);
* under a lasso, sequences follow the path beyond its end and pending matches are
  dropped (`property.cpp:911`): false alarms for `s_eventually (p ##2 q)`;
* a ranged delay next to an operand with an empty match aborts
  (`temporal-logic/rewrite_sva_sequence.cpp:171`), and so does `admits_empty()` on `[+]`;
  if both operands of `##n` admit an empty match, one case is lost; empty matches inside
  `and`, `within`, `first_match`, nested repetitions, and in the antecedent of `|=>`
  are dropped;
* `SVA_to_LTL` "returns an equivalent LTL property", but `[*n:m]` stops before m
  and repeats one match of its operand instead of a different one each time
  (`temporal-logic/sva_sequence_match.cpp:83`); it swaps the operands of `sva_implies`
  (`sva_to_ltl.cpp:247`), which normalisation has removed by then;
* the Spot output maps a ranged `always [m:n]` to `F[m:n]`
  (`temporal-logic/ltl_sva_to_string.cpp`).

*BDD engine*

* `EX` projects the inputs of the current timeframe away, so AF, EG and EU of
  predicates that read an input are wrong (`ebmc/bdd_model_checker.cpp:11`);
* a state in which the property fails and from which `TRANS` forbids to move on is refuted by
  the search (`ebmc/bdd_engine.cpp:470`), but `unwind()` conjoins `TRANS` in the last timeframe as well
  (`trans-netlist/unwind_netlist.cpp:80`), so there is no counterexample: the status is set, the
  engine throws "SAT solver says UNSAT!" (`:359`), and the remaining properties are not checked;
* the counterexample is recomputed without the assumptions (`ebmc/bdd_engine.cpp:323`);
* assumptions other than `always p` are dropped without a word (`:812`), unless
  `--liveness-to-safety` has turned them into one;
* under `--liveness-to-safety` the flags of all assumptions have to be set on every return to the
  copy (`ebmc/liveness_to_safety.cpp:251`).  A cycle that visits its first state between two things
  that are assumed to recur is lost: with `assume GF i`, `assume GF !i` for an input i, a false
  `assert GF p` is PROVED;
* an LTL property may be refuted by a finite path that ends where no input satisfies
  the constraints, or where `TRANS` forbids to move on.

*Verilog synthesis* (`verilog/verilog_synthesis.cpp`)

* two `continue`s, or a `continue` before a `break`, are merged under guards that do
  not exclude each other; an unconditional jump leaves `false` in the guard, so later
  assertions are vacuous; an assertion after a jump under a condition is not guarded;
* `synth_case` synthesizes its operand again in every branch, and masks x and z for a
  plain `case` as well;
* a part select `x[i -: w]` is recorded as the bits i to i+w-1 (`:1139`);
* in one block, a blocking assignment to a part after a nonblocking one to the same
  variable mixes the two values;
* several continuous assignments to one net become contradictory invariants, and
  an `always_comb` next to an `assign` to the same variable is dropped;
* a wire that depends on itself through an auxiliary wire is not freed;
* `while(1)` with a `break` is unrolled for ever (`:3017`);
* `--initial-zero` rejects a variable that an initial item assigns, and an initial
  item that reads a declared value gets an arbitrary one;
* blocking assignments that two always items race on get the value of one order;
* parameters of a task are registers, so two items that call it conflict;
* the members of two-dimensional arrays are listed with the inner index first.

## 7. Not modelled, and plan

Not modelled and why: `$past` and the monitors of `instrument_past.cpp` and
`instrument_buechi.cpp`; the ranking-function loop, whose guesser is an external
process; the latch dependency graph; the construction of AIG nodes and the netlist
unwinding, which are data conversions; instances, generate blocks, arrays, structs,
the type checker, parser and printer of Verilog, and the other front ends, which are
compilers; CEGAR, interpolation, coverage, VCEGAR and the old IC3, which are not
reachable in the build or superseded.

What would come next:

1. `InstrumentPast`: the monitor latches against the semantics of the past operators.
2. The threshold of the latch dependency graph, an algorithm on graphs.
3. Concurrent assertions and instances in `VerilogSynthesis`.
