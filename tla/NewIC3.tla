--------------------------------- MODULE NewIC3 ---------------------------------
(***************************************************************************)
(* The IC3 solver of src/new-ic3 (ic3_solvert::solve), one run on one      *)
(* netlist and one property literal.                                       *)
(*                                                                         *)
(* The solver is sequential; what is nondeterministic is the SAT solver:   *)
(* which model a satisfiable query returns, and which unsatisfiable core   *)
(* an unsatisfiable one returns.  Every choice the back end may make is a  *)
(* behaviour here.  The order of vectors (the activity order with which    *)
(* generalize() begins, clauses in propagate(), literals of obligations,   *)
(* ties in the priority queue) is left open as well.                       *)
(*                                                                         *)
(* The frames are the delta encoding of the code.  The SAT solvers of the  *)
(* frames are built lazily and then updated by hand, clause by clause, so  *)
(* their clause sets are state of their own.                               *)
(***************************************************************************)
EXTENDS TransitionSystem, FiniteSets

CONSTANTS Designs,      \* the designs a run may be started on
          CtgMax,       \* CTG_MAX: counterexamples to generalization per generalize()
          JoinMax,      \* JOIN_MAX: joins per ctg_down()
          MicFailMax    \* MIC_FAIL_MAX: consecutive failures before generalize() gives up

ASSUME DesignsAssumption == Designs \subseteq Design
ASSUME LimitsAssumption  == CtgMax \in Nat /\ JoinMax \in Nat /\ MicFailMax \in Nat

VARIABLES
  design,       \* the netlist and the property; never changes
  pc,           \* where solve() is: see PCs
  k,            \* number_of_frames() - 1
  frames,       \* frame_clauses: level -> the cubes whose negation is stored there
  solvers,      \* frame_solvers: level -> the clauses in the solver, for built solvers
  obligations,  \* the priority queue
  mic,          \* the locals of generalize() and ctg_down(), and the obligation in work
  todo,         \* propagate(): the frame i, and its copied clauses still to be tried
  result        \* the ic3_resultt

vars == <<design, pc, k, frames, solvers, obligations, mic, todo, result>>

PCs == {"start", "bad", "block", "generalize", "down", "propagate", "done"}

Cube == SUBSET Literal

Obligation == [cube : Cube, level : Nat, depth : Nat]

\* ob: the obligation in work; cube, i, fails, budget: of generalize(); before: the order
\* of the vector cube, as the pairs of an earlier and a later literal; cand, joins: of
\* ctg_down(), whose vector cand keeps that order.
Mic == [ob : Obligation, cube : Cube, before : SUBSET (Literal \X Literal), i : Nat,
        fails : Nat, budget : Nat, cand : Cube, joins : Nat]

NoMic  == [ob |-> [cube |-> {}, level |-> 0, depth |-> 0], cube |-> {}, before |-> {},
           i |-> 0, fails |-> 0, budget |-> 0, cand |-> {}, joins |-> 0]
NoTodo == [i |-> 0, clauses |-> {}]

-----------------------------------------------------------------------------
\* Frames and solvers.

Delta(j) == UNION {frames[m] : m \in j .. k}

\* The states the frame sequence itself describes at level j.
F(j) == {s \in State : (j = 0 => s \in design.init) /\ \A c \in Delta(j) : ~Sat(s, c)}

\* get_solver: a solver that is not there yet is built from the frames.
SolverClauses(j) == IF j \in DOMAIN solvers THEN solvers[j] ELSE Delta(j)

BuiltOneAhead(j) == [m \in DOMAIN solvers \cup {j, j + 1} |-> SolverClauses(m)]

Built(j) == [m \in DOMAIN solvers \cup {j} |-> SolverClauses(m)]

\* The states that satisfy the clauses of the level-j solver.
SWithoutInit(j) == {s \in State : \A c \in SolverClauses(j) : ~Sat(s, c)}

S(j) == {s \in State : (j = 0 => s \in design.init) /\ \A c \in SolverClauses(j) : ~Sat(s, c)}

\* add_clause on frames fs and solvers ss, for the negation of cube c.
Redundant(fs, level, c) == \E j \in level .. k : \E e \in fs[j] : e \subseteq c

AddToFramesErasingStronger(fs, level, c) ==
  IF Redundant(fs, level, c) THEN fs
  ELSE [j \in 0 .. k |-> IF j > level THEN fs[j]
                         ELSE {e \in fs[j] : ~(e \subseteq c \/ c \subseteq e)}
                              \cup (IF j = level THEN {c} ELSE {})]

AddToFrames(fs, level, c) ==
  IF Redundant(fs, level, c) THEN fs
  ELSE [j \in 0 .. k |-> IF j > level THEN fs[j]
                         ELSE {e \in fs[j] : ~(c \subseteq e)}
                              \cup (IF j = level THEN {c} ELSE {})]

AddToSolversBelow(fs, ss, level, c) ==
  IF Redundant(fs, level, c) THEN ss
  ELSE [j \in DOMAIN ss |-> IF j < level THEN ss[j] \cup {c} ELSE ss[j]]

AddToSolvers(fs, ss, level, c) ==
  IF Redundant(fs, level, c) THEN ss
  ELSE [j \in DOMAIN ss |-> IF j <= level THEN ss[j] \cup {c} ELSE ss[j]]

\* is_blocked
IsBlocked(c, level) == \E j \in level .. k : \E e \in frames[j] : e \subseteq c

-----------------------------------------------------------------------------
\* The initial states.

InitValueForced(x) == \E b \in BOOLEAN : \A s \in LiveInit(design) : s[x] = b

InitIsUniqueStateOnceSat == LiveInit(design) # {}

InitIsUniqueState == LiveInit(design) # {} /\ \A x \in Latches : InitValueForced(x)

\* A literal that a forced initial value contradicts (init_values is unknown
\* for every latch when the initial states are unsatisfiable).
Contradicted(l) == LiveInit(design) # {} /\ \A s \in LiveInit(design) : s[l[1]] # l[2]

\* init_intersects: the syntactic checks first, then the initial-state solver.
InitIntersects(c) ==
  IF \E l \in c : Contradicted(l) THEN FALSE
  ELSE \/ InitIsUniqueState
       \/ \E s \in LiveInit(design) : Sat(s, c)

\* repair_init: literals of cube are put back until reduced misses the initial
\* states.  The empty set of results stands for UNREACHABLE.
RepairInitOmitted(cube, reduced) == {reduced}

RepairInit(cube, reduced) ==
  {reduced \cup X : X \in {Y \in SUBSET (cube \ reduced) :
     /\ ~InitIntersects(reduced \cup Y)
     /\ Y # {} => \E l \in Y : InitIntersects(reduced \cup (Y \ {l}))}}

\* repair_init walks cube in its order, up to the literal that is enough.
WalksInOrder(before, cube, reduced, core) ==
  /\ \A l \in core \ reduced, x \in cube \ reduced : <<x, l>> \in before => x \in core
  /\ \A l \in core \ reduced :
       (\A x \in core \ reduced : <<l, x>> \notin before) => InitIntersects(core \ {l})

\* The order of the core: what repair_init puts back comes last.
Appended(before, reduced, core) ==
  {p \in before : p \in (reduced \X reduced) \cup ((core \ reduced) \X (core \ reduced))}
    \cup (reduced \X (core \ reduced))

-----------------------------------------------------------------------------
\* SAT queries.

\* Models of  F_level /\ ~cube /\ T /\ cube', as pairs of a state and an input.
Predecessors(level, cube) ==
  {m \in S(level) \X Inputs :
     /\ m \in design.constraint
     /\ ~Sat(m[1], cube)
     /\ Sat(design.next[m], cube)}

\* The literals of the cube that relative_induction may find in the conflict: a
\* non-empty set that the solver refutes; when the conflict names no literal of the
\* cube, the whole cube.  A constant-false next-state function makes {l} such a set
\* without a query.
Conflicts(level, cube) ==
  {c \in SUBSET cube \ {{}} :
    \A m \in S(level) \X Inputs :
      m \in design.constraint /\ ~Sat(m[1], cube) => ~Sat(design.next[m], c)}

\* The cores relative_induction may leave in `core`.
Cores(level, cube) == UNION {RepairInit(cube, c) : c \in Conflicts(level, cube)}

\* relative_induction builds the solver it queries, unless a literal with a
\* constant-false next-state function makes the query unnecessary.
ConstantFalse(l) == \A s \in State, i \in Inputs : design.next[<<s, i>>][l[1]] # l[2]

SolversAfterQuery(level, cube) ==
  {Built(level)} \cup (IF \E l \in cube : ConstantFalse(l) THEN {solvers} ELSE {})

\* lift: the cubes that may replace the full state of the model m when every
\* state of the cube must be in target with the model's input.  The lifting
\* solver holds the constraints as well, so the core need only refute the states
\* that satisfy them under that input.
Lift(m, target) ==
  {c \in SUBSET FullCube(m[1]) \ {{}} :
     \A t \in State :
       Sat(t, c) /\ <<t, m[2]>> \in design.constraint => <<t, m[2]>> \in target}

LiftedPredecessors(level, cube) ==
  LET intoCube == {q \in State \X Inputs : Sat(design.next[q], cube)}
  IN  UNION {Lift(m, intoCube) : m \in Predecessors(level, cube)}

BadModelsBelow(level) ==
  {m \in S(level - 1) \X Inputs : m \in design.constraint /\ m \notin design.property}

BadModels(level) ==
  {m \in S(level) \X Inputs : m \in design.constraint /\ m \notin design.property}

LiftedBad(level) ==
  LET violating == (State \X Inputs) \ design.property
  IN  UNION {Lift(m, violating) : m \in BadModels(level)}

-----------------------------------------------------------------------------
Init ==
  /\ design \in Designs
  /\ pc = "start"
  /\ k = 0
  /\ frames = [j \in {0} |-> {}]
  /\ solvers = [j \in {} |-> {}]
  /\ obligations = {}
  /\ mic = NoMic
  /\ todo = NoTodo
  /\ result = Running

Finish(r) == pc' = "done" /\ result' = r

\* new_frame
NewFrame ==
  /\ k' = k + 1
  /\ frames' = [j \in 0 .. k + 1 |-> IF j = k + 1 THEN {} ELSE frames[j]]
  /\ pc' = "bad"

\* solve: initial_state_is_bad, and the first frame
InitiallyBad ==
  /\ pc = "start"
  /\ \E s \in LiveInit(design) : Bad(design, s)
  /\ Finish(Refuted(1))
  /\ UNCHANGED <<design, k, frames, solvers, obligations, mic, todo>>

InitiallyGood ==
  /\ pc = "start"
  /\ ~\E s \in LiveInit(design) : Bad(design, s)
  /\ NewFrame
  /\ UNCHANGED <<design, solvers, obligations, mic, todo, result>>

\* solve_bad(k) finds a cube, which becomes the first obligation
BadCube ==
  /\ pc = "bad"
  /\ \E c \in LiftedBad(k) :
       obligations' = {[cube |-> c, level |-> k, depth |-> 0]}
  /\ solvers' = Built(k)
  /\ pc' = "block"
  /\ UNCHANGED <<design, k, frames, mic, todo, result>>

\* solve_bad(k) finds none: the blocking phase is over, propagate() starts.
\* prop_current.is_true() needs no solver.
FrontierSafe ==
  /\ pc = "bad"
  /\ BadModels(k) = {}
  /\ \/ solvers' = Built(k)
     \/ design.property = State \X Inputs /\ UNCHANGED solvers
  /\ pc' = "propagate"
  /\ todo' = [i |-> 1, clauses |-> frames[1]]
  /\ UNCHANGED <<design, k, frames, obligations, mic, result>>

-----------------------------------------------------------------------------
\* The blocking loop.

\* The obligation that the priority queue may return.
Top(ob) == ob \in obligations /\ \A o \in obligations : ob.level <= o.level

QueueEmptyWithoutRecheck ==
  /\ pc = "block"
  /\ obligations = {}
  /\ pc' = "propagate"
  /\ todo' = [i |-> 1, clauses |-> frames[1]]
  /\ UNCHANGED <<design, k, frames, solvers, obligations, mic, result>>

QueueEmpty ==
  /\ pc = "block"
  /\ obligations = {}
  /\ pc' = "bad"
  /\ UNCHANGED <<design, k, frames, solvers, obligations, mic, todo, result>>

\* is_blocked: the obligation is dropped
DropBlocked ==
  /\ pc = "block"
  /\ \E ob \in obligations :
       /\ Top(ob)
       /\ IsBlocked(ob.cube, ob.level)
       /\ obligations' = obligations \ {ob}
  /\ UNCHANGED <<design, pc, k, frames, solvers, mic, todo, result>>

\* The cube contains an initial state.
Refute ==
  /\ pc = "block"
  /\ \E ob \in obligations :
       /\ Top(ob)
       /\ ~IsBlocked(ob.cube, ob.level)
       /\ InitIntersects(ob.cube)
       /\ obligations' = obligations \ {ob}
       /\ Finish(Refuted(ob.depth + 1))
  /\ UNCHANGED <<design, k, frames, solvers, mic, todo>>

\* The level-0 branch, or a predecessor: both stay in the blocking loop.
BlockAtZero(ob) ==
  /\ ob.level = 0
  /\ obligations' = obligations \ {ob}
  /\ frames' = AddToFrames(frames, 0, ob.cube)
  /\ solvers' = AddToSolvers(frames, solvers, 0, ob.cube)

PushPredecessor(ob) ==
  /\ ob.level > 0
  /\ \E p \in LiftedPredecessors(ob.level - 1, ob.cube) :
       obligations' = obligations \cup
         {[cube |-> p, level |-> ob.level - 1, depth |-> ob.depth + 1]}
  /\ solvers' = Built(ob.level - 1)
  /\ UNCHANGED frames

Predecessor ==
  /\ pc = "block"
  /\ \E ob \in obligations :
       /\ Top(ob)
       /\ ~IsBlocked(ob.cube, ob.level)
       /\ ~InitIntersects(ob.cube)
       /\ IF ob.level = 0 THEN BlockAtZero(ob) ELSE PushPredecessor(ob)
  /\ UNCHANGED <<design, pc, k, mic, todo, result>>

\* std::sort by activity, which leaves the literals of a cube in some order.
Orders(c) ==
  {{p \in c \X c : place[p[1]] < place[p[2]]} :
     place \in {f \in [c -> 1 .. Cardinality(c)] : \A x, y \in c : f[x] = f[y] => x = y}}

\* The cube is unreachable from the frame below; generalize() starts on the core.
StartGeneralize ==
  /\ pc = "block"
  /\ \E ob \in obligations :
       /\ Top(ob)
       /\ ~IsBlocked(ob.cube, ob.level)
       /\ ~InitIntersects(ob.cube)
       /\ ob.level > 0
       /\ solvers' \in SolversAfterQuery(ob.level - 1, ob.cube)
       /\ \E core \in Cores(ob.level - 1, ob.cube) : \E before \in Orders(core) :
            mic' = [NoMic EXCEPT !.ob = ob, !.cube = core, !.before = before, !.budget = CtgMax]
       /\ obligations' = obligations \ {ob}
  /\ pc' = "generalize"
  /\ UNCHANGED <<design, k, frames, todo, result>>

-----------------------------------------------------------------------------
\* generalize(level, core), with level = mic.ob.level - 1.

MicMayDrop ==
  Cardinality(mic.cube) > 1 /\ mic.i < Cardinality(mic.cube) /\ mic.fails < MicFailMax

Index(l) == Cardinality({x \in mic.cube : <<x, l>> \in mic.before})

\* One iteration of the MIC loop leaves out the literal at index i, which may be one that
\* has failed before and was put back at the end, and enters ctg_down().
DropLiteral ==
  /\ pc = "generalize"
  /\ MicMayDrop
  /\ \E l \in mic.cube :
       /\ Index(l) = mic.i
       /\ mic' = [mic EXCEPT !.cand = mic.cube \ {l}, !.joins = 0]
  /\ pc' = "down"
  /\ UNCHANGED <<design, k, frames, solvers, obligations, todo, result>>

\* generalize() returns: add_clause, and the obligation moves up a level.
BlockCubeCountingPush ==
  /\ pc = "generalize"
  /\ ~MicMayDrop
  /\ frames' = AddToFrames(frames, mic.ob.level, mic.cube)
  /\ solvers' = AddToSolvers(frames, solvers, mic.ob.level, mic.cube)
  /\ obligations' = IF mic.ob.level + 1 <= k
                    THEN obligations \cup {[mic.ob EXCEPT !.level = @ + 1, !.depth = @ + 1]}
                    ELSE obligations
  /\ mic' = NoMic
  /\ pc' = "block"
  /\ UNCHANGED <<design, k, todo, result>>

BlockCubeBelow ==
  /\ pc = "generalize"
  /\ ~MicMayDrop
  /\ frames' = AddToFrames(frames, mic.ob.level - 1, mic.cube)
  /\ solvers' = AddToSolvers(frames, solvers, mic.ob.level - 1, mic.cube)
  /\ obligations' = IF mic.ob.level + 1 <= k
                    THEN obligations \cup {[mic.ob EXCEPT !.level = @ + 1]}
                    ELSE obligations
  /\ mic' = NoMic
  /\ pc' = "block"
  /\ UNCHANGED <<design, k, todo, result>>

BlockCube ==
  /\ pc = "generalize"
  /\ ~MicMayDrop
  /\ frames' = AddToFrames(frames, mic.ob.level, mic.cube)
  /\ solvers' = AddToSolvers(frames, solvers, mic.ob.level, mic.cube)
  /\ obligations' = IF mic.ob.level + 1 <= k
                    THEN obligations \cup {[mic.ob EXCEPT !.level = @ + 1]}
                    ELSE obligations
  /\ mic' = NoMic
  /\ pc' = "block"
  /\ UNCHANGED <<design, k, todo, result>>

\* ctg_down(level, cand, ctg_budget)

DownLevel == mic.ob.level - 1

\* The literal could not be left out: i and consecutive_fails advance.
DownFails ==
  [mic EXCEPT !.i = @ + 1, !.fails = @ + 1, !.cand = {}, !.joins = 0]

DownHitsInit ==
  /\ pc = "down"
  /\ InitIntersects(mic.cand)
  /\ mic' = DownFails
  /\ pc' = "generalize"
  /\ UNCHANGED <<design, k, frames, solvers, obligations, todo, result>>

\* The candidate is relatively inductive, and its core is the new cube; i stays.
DownSucceeds ==
  /\ pc = "down"
  /\ ~InitIntersects(mic.cand)
  /\ solvers' \in SolversAfterQuery(DownLevel, mic.cand)
  /\ \E c \in Conflicts(DownLevel, mic.cand) : \E core \in RepairInit(mic.cand, c) :
       /\ WalksInOrder(mic.before, mic.cand, c, core)
       /\ mic' = [mic EXCEPT !.cube = core, !.before = Appended(@, c, core), !.fails = 0,
                             !.cand = {}, !.joins = 0]
  /\ pc' = "generalize"
  /\ UNCHANGED <<design, k, frames, obligations, todo, result>>

MayBlockCTG(p) ==
  mic.budget > 0 /\ DownLevel > 0 /\ ~InitIntersects(FullCube(p))

\* The predecessor p of the candidate is itself unreachable from the frame:
\* it is blocked and the candidate tried again.
DownBlocksCTGUnchecked ==
  /\ pc = "down"
  /\ ~InitIntersects(mic.cand)
  /\ \E m \in Predecessors(DownLevel, mic.cand) :
       /\ MayBlockCTG(m[1])
       /\ frames' = AddToFrames(frames, DownLevel + 1, FullCube(m[1]))
       /\ solvers' = AddToSolvers(frames, Built(DownLevel), DownLevel + 1, FullCube(m[1]))
  /\ mic' = [mic EXCEPT !.budget = @ - 1]
  /\ UNCHANGED <<design, pc, k, obligations, todo, result>>

DownBlocksCTGInFramesOnly ==
  /\ pc = "down"
  /\ ~InitIntersects(mic.cand)
  /\ \E m \in Predecessors(DownLevel, mic.cand) :
       /\ MayBlockCTG(m[1])
       /\ \E core \in Cores(DownLevel, FullCube(m[1])) :
            frames' = AddToFrames(frames, DownLevel + 1, core)
  /\ solvers' = Built(DownLevel)
  /\ mic' = [mic EXCEPT !.budget = @ - 1]
  /\ UNCHANGED <<design, pc, k, obligations, todo, result>>

DownBlocksCTG ==
  /\ pc = "down"
  /\ ~InitIntersects(mic.cand)
  /\ \E m \in Predecessors(DownLevel, mic.cand) :
       /\ MayBlockCTG(m[1])
       /\ \E core \in Cores(DownLevel, FullCube(m[1])) :
            LET level == IF DownLevel + 1 <= k THEN DownLevel + 1 ELSE k
            IN  /\ frames' = AddToFrames(frames, level, core)
                /\ solvers' = AddToSolvers(frames, Built(DownLevel), level, core)
  /\ mic' = [mic EXCEPT !.budget = @ - 1]
  /\ UNCHANGED <<design, pc, k, obligations, todo, result>>

\* The predecessor is joined with the candidate; the join is the new candidate,
\* or ctg_down() gives up.
DownJoins ==
  /\ pc = "down"
  /\ ~InitIntersects(mic.cand)
  /\ \E m \in Predecessors(DownLevel, mic.cand) :
       /\ MayBlockCTG(m[1]) => Predecessors(DownLevel, FullCube(m[1])) # {}
       /\ LET joined == mic.cand \cap FullCube(m[1])
          IN  IF mic.joins + 1 > JoinMax \/ joined = {} \/ joined = mic.cand
              THEN mic' = DownFails /\ pc' = "generalize"
              ELSE /\ mic' = [mic EXCEPT !.cand = joined, !.joins = @ + 1]
                   /\ pc' = pc
  /\ solvers' = Built(DownLevel)
  /\ UNCHANGED <<design, k, frames, obligations, todo, result>>

-----------------------------------------------------------------------------
\* propagate()

\* No state of frame i runs into the clause's cube.
PushableFromBelow(i, c) ==
  \A m \in S(i - 1) \X Inputs : m \in design.constraint => ~Sat(design.next[m], c)

Pushable(i, c) ==
  \A m \in S(i) \X Inputs : m \in design.constraint => ~Sat(design.next[m], c)

WithClauseAt(ss, level, c) ==
  [j \in DOMAIN ss |-> IF j = level THEN ss[j] \cup {c} ELSE ss[j]]

\* One clause of the copy is tried; get_solver(i) is called before the query.
PropagateClause ==
  /\ pc = "propagate"
  /\ todo.i < k
  /\ \E c \in todo.clauses :
       /\ todo' = [todo EXCEPT !.clauses = @ \ {c}]
       /\ IF Pushable(todo.i, c)
          THEN /\ frames' = [frames EXCEPT ![todo.i] = @ \ {c},
                                           ![todo.i + 1] = @ \cup {c}]
               /\ solvers' = WithClauseAt(Built(todo.i), todo.i + 1, c)
          ELSE /\ UNCHANGED frames
               /\ solvers' = Built(todo.i)
  /\ UNCHANGED <<design, pc, k, obligations, mic, result>>

\* All clauses of frame i are tried, and some stay.
NextLevel ==
  /\ pc = "propagate"
  /\ todo.i < k
  /\ todo.clauses = {}
  /\ frames[todo.i] # {}
  /\ todo' = [i |-> todo.i + 1, clauses |-> frames[todo.i + 1]]
  /\ UNCHANGED <<design, pc, k, frames, solvers, obligations, mic, result>>

\* F_i = F_{i+1}: an inductive invariant.
ConvergedWhenAllTried ==
  /\ pc = "propagate"
  /\ todo.i < k
  /\ todo.clauses = {}
  /\ todo' = NoTodo
  /\ Finish(Proved)
  /\ UNCHANGED <<design, k, frames, solvers, obligations, mic>>

Converged ==
  /\ pc = "propagate"
  /\ todo.i < k
  /\ todo.clauses = {}
  /\ frames[todo.i] = {}
  /\ todo' = NoTodo
  /\ Finish(Proved)
  /\ UNCHANGED <<design, k, frames, solvers, obligations, mic>>

\* No two frames agree: solve() opens another one.
NotConverged ==
  /\ pc = "propagate"
  /\ todo.i = k
  /\ NewFrame
  /\ todo' = NoTodo
  /\ UNCHANGED <<design, solvers, obligations, mic, result>>

-----------------------------------------------------------------------------
Terminated == pc = "done" /\ UNCHANGED vars

Next ==
  \/ InitiallyBad \/ InitiallyGood
  \/ BadCube \/ FrontierSafe
  \/ QueueEmpty \/ DropBlocked \/ Refute \/ Predecessor \/ StartGeneralize
  \/ DropLiteral \/ BlockCube
  \/ DownHitsInit \/ DownSucceeds \/ DownBlocksCTG \/ DownJoins
  \/ PropagateClause \/ NextLevel \/ Converged \/ NotConverged
  \/ Terminated

Spec == Init /\ [][Next]_vars

FairSpec == Spec /\ WF_vars(Next)

-----------------------------------------------------------------------------
(***************************************************************************)
(* Properties.                                                             *)
(***************************************************************************)

ClausesTodo == [i : Nat, clauses : SUBSET Cube]

Result == [outcome : {"running", "PROVED", "REFUTED"}, length : Nat]

\* The variables have their types; the frames are numbered 0 .. k, and a solver
\* exists only for a frame that exists.
TypeOK ==
  /\ design \in Designs
  /\ pc \in PCs
  /\ k \in Nat
  /\ frames \in [0 .. k -> SUBSET Cube]
  /\ DOMAIN solvers \subseteq 0 .. k
  /\ solvers \in [DOMAIN solvers -> SUBSET Cube]
  /\ obligations \subseteq Obligation
  /\ mic \in Mic
  /\ todo \in ClausesTodo
  /\ result \in Result

\* Every frame holds the initial states, and a step from frame j ends in frame
\* j + 1: the clauses that generalize(), repair_init(), the CTG blocking and
\* propagate() leave in the frames are never too strong.
FramesOverapproximate ==
  /\ \A j \in 0 .. k : LiveInit(design) \subseteq F(j)
  /\ \A j \in 0 .. k : j < k =>
       \A s \in F(j), t \in State : Step(design, s, t) => t \in F(j + 1)

\* No frame below the frontier holds a bad state, and the frontier holds none
\* once propagate() runs.
FramesSafe ==
  \A j \in 0 .. k :
    (j < k \/ pc = "propagate") => \A s \in F(j) : ~Bad(design, s)

\* A solver that was built lazily and then updated clause by clause (add_clause
\* at the levels up to the clause's, propagate() at one level only) answers as
\* a solver built from the frames now would.
SolversMatchFrames == \A j \in DOMAIN solvers : S(j) = F(j)

\* In generalize(), the cube in hand misses the initial states, still covers the
\* obligation, and is inductive relative to the frame below, whatever literals
\* were dropped, joined away or put back.
GeneralizedCubeIsInductive ==
  pc \in {"generalize", "down"} =>
    /\ mic.cube \subseteq mic.ob.cube
    /\ \A s \in LiveInit(design) : ~Sat(s, mic.cube)
    /\ \A s \in F(DownLevel), t \in State :
         ~Sat(s, mic.cube) /\ Step(design, s, t) => ~Sat(t, mic.cube)

\* An obligation that has come down to level 0 contains an initial state, so the
\* level-0 branch of solve(), which adds a clause to F_0, is never taken.
LevelZeroRefutes ==
  \A ob \in obligations : ob.level = 0 => InitIntersects(ob.cube)

\* s is depth transitions away from a state that violates the property.
ReachesBad(s, depth) ==
  \E path \in [0 .. depth -> State] :
    /\ path[0] = s
    /\ IsPath(design, path, depth)
    /\ Bad(design, path[depth])

\* The depth of an obligation is what the counterexample length is computed
\* from: every state of its cube violates the property after depth transitions,
\* however often the obligation was pushed to higher levels in between.
ObligationsReachBad ==
  \A ob \in obligations : \A s \in State :
    Sat(s, ob.cube) => ReachesBad(s, ob.depth)

\* PROVED is returned only when no reachable state violates the property.
ProvedIsSound == result.outcome = "PROVED" => Holds(design)

\* REFUTED is returned only with the length of a trace that exists
\* (ic3_solver.h: "The trace is genuine").
RefutedIsGenuine ==
  result.outcome = "REFUTED" => Counterexample(design, result.length)

\* IC3 is a checker of safety properties: it implements SafetyVerdict, which
\* covers ProvedIsSound and RefutedIsGenuine, and that the answer is final.
Verdict == INSTANCE SafetyVerdict
ImplementsSafetyVerdict == Verdict!Spec

\* A frame never grows: clauses are only added, moved up, or replaced by
\* stronger ones.
FramesOnlyShrink ==
  [][\A j \in 0 .. k : {s \in State : s \in F(j)'} \subseteq F(j)]_vars

\* When generalize() returns, the obligation it was called for is blocked at its
\* level, so the blocking loop does not meet it there again.
BlockingBlocks ==
  [][pc = "generalize" /\ pc' = "block" =>
       \E j \in mic.ob.level .. k : \E e \in frames'[j] : e \subseteq mic.ob.cube]_vars

\* solve() returns.
Terminates == <>(pc = "done")

=============================================================================
