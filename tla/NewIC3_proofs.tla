------------------------------ MODULE NewIC3_proofs ------------------------------
(***************************************************************************)
(* Proofs about NewIC3, for every set of latches, inputs and designs.      *)
(***************************************************************************)
EXTENDS NewIC3, TLAPS

\* What keeps the indices of the algorithm inside the frames.
Bounds ==
  /\ pc = "start" => k = 0
  /\ pc \notin {"start", "done"} => k >= 1
  /\ \A ob \in obligations : ob.level <= k
  /\ pc \in {"generalize", "down"} => mic.ob.level \in 1 .. k
  /\ pc = "propagate" => todo.i \in 1 .. k

TypeInv == TypeOK /\ Bounds

-----------------------------------------------------------------------------
\* Lemmas about the operators.

\* What init_intersects computes with its shortcuts is whether the cube holds an
\* initial state.
LEMMA InitIntersectsExact ==
  ASSUME design \in Design, NEW c \in Cube
  PROVE  InitIntersects(c) <=> \E s \in LiveInit(design) : Sat(s, c)
<1>1. LiveInit(design) \subseteq State
  BY DEF LiveInit, Design
<1>2. CASE \E l \in c : Contradicted(l)
  BY <1>2 DEF InitIntersects, Contradicted, Sat
<1>3. CASE ~(\E l \in c : Contradicted(l)) /\ ~InitIsUniqueState
  BY <1>3 DEF InitIntersects
<1>4. CASE ~(\E l \in c : Contradicted(l)) /\ InitIsUniqueState
  <2>1. PICK s \in LiveInit(design) : TRUE
    BY <1>4 DEF InitIsUniqueState
  <2>2. ASSUME NEW l \in c PROVE s[l[1]] = l[2]
    <3>1. l[1] \in Latches
      BY DEF Cube, Literal
    <3>2. PICK t \in LiveInit(design) : t[l[1]] = l[2]
      BY <1>4, <2>1 DEF Contradicted
    <3>3. s[l[1]] = t[l[1]]
      BY <1>4, <3>1 DEF InitIsUniqueState, InitValueForced
    <3> QED BY <3>2, <3>3
  <2>3. Sat(s, c)
    BY <2>2 DEF Sat
  <2> QED BY <1>4, <2>1, <2>3 DEF InitIntersects
<1> QED BY <1>2, <1>3, <1>4

\* repair_init keeps the core inside the cube and away from the initial states.
LEMMA RepairInitResult ==
  ASSUME NEW cube, NEW c \in SUBSET cube, NEW r \in RepairInit(cube, c)
  PROVE  c \subseteq r /\ r \subseteq cube /\ ~InitIntersects(r)
BY DEF RepairInit

\* A core is a part of the cube that misses the initial states and that no state
\* of the frame outside the cube runs into.
LEMMA CoreResult ==
  ASSUME NEW level, NEW cube, NEW core \in Cores(level, cube)
  PROVE  /\ core \subseteq cube
         /\ ~InitIntersects(core)
         /\ \A s \in S(level), i \in Inputs :
              <<s, i>> \in design.constraint /\ ~Sat(s, cube)
                => ~Sat(design.next[<<s, i>>], core)
<1>1. PICK c \in SUBSET cube \ {{}} :
        /\ core \in RepairInit(cube, c)
        /\ \A m \in S(level) \X Inputs :
             m \in design.constraint /\ ~Sat(m[1], cube) => ~Sat(design.next[m], c)
  BY DEF Cores, Conflicts
<1>2. c \subseteq core /\ core \subseteq cube /\ ~InitIntersects(core)
  BY <1>1, RepairInitResult
<1>3. ASSUME NEW s \in S(level), NEW i \in Inputs,
             <<s, i>> \in design.constraint, ~Sat(s, cube)
      PROVE  ~Sat(design.next[<<s, i>>], core)
  <2>1. ~Sat(design.next[<<s, i>>], c)
    BY <1>1, <1>3
  <2> QED BY <1>2, <2>1 DEF Sat
<1> QED BY <1>2, <1>3

-----------------------------------------------------------------------------
\* Type correctness.

LEMMA DesignType == ASSUME TypeOK PROVE design \in Design
BY DesignsAssumption DEF TypeOK

\* Adding a clause keeps the frames and the solvers functions on the same levels.
LEMMA AddClauseType ==
  ASSUME NEW fs \in [0 .. k -> SUBSET Cube], NEW D, NEW ss \in [D -> SUBSET Cube],
         NEW level, NEW c \in Cube
  PROVE  /\ AddToFrames(fs, level, c) \in [0 .. k -> SUBSET Cube]
         /\ AddToSolvers(fs, ss, level, c) \in [D -> SUBSET Cube]
BY DEF AddToFrames, AddToSolvers

\* get_solver yields a set of clauses for the level it is asked for.
LEMMA BuiltType ==
  ASSUME TypeOK, NEW j \in 0 .. k
  PROVE  /\ DOMAIN Built(j) \subseteq 0 .. k
         /\ Built(j) \in [DOMAIN Built(j) -> SUBSET Cube]
         /\ DOMAIN Built(j) = DOMAIN solvers \cup {j}
<1>1. ASSUME NEW m \in 0 .. k PROVE Delta(m) \subseteq Cube
  BY DEF Delta, TypeOK
<1>2. ASSUME NEW m \in DOMAIN solvers \cup {j} PROVE SolverClauses(m) \in SUBSET Cube
  BY <1>1 DEF SolverClauses, TypeOK
<1> QED BY <1>2 DEF Built, TypeOK

\* What lift returns is a cube.
LEMMA LiftType ==
  ASSUME NEW m \in State \X Inputs
  PROVE  \A c \in SUBSET FullCube(m[1]) : c \in Cube
BY DEF FullCube, State, Cube, Literal

LEMMA LiftedBadType == LiftedBad(k) \subseteq Cube
<1>1. ASSUME NEW c \in LiftedBad(k) PROVE c \in Cube
  <2>1. PICK m \in BadModels(k) : c \in SUBSET FullCube(m[1])
    BY <1>1 DEF LiftedBad, Lift
  <2>2. m \in State \X Inputs
    BY DEF BadModels, S
  <2> QED BY <2>1, <2>2, LiftType
<1> QED BY <1>1

LEMMA LiftedPredecessorsType ==
  ASSUME NEW level, NEW cube PROVE LiftedPredecessors(level, cube) \subseteq Cube
<1>1. ASSUME NEW c \in LiftedPredecessors(level, cube) PROVE c \in Cube
  <2>1. PICK m \in Predecessors(level, cube) : c \in SUBSET FullCube(m[1])
    BY <1>1 DEF LiftedPredecessors, Lift
  <2>2. m \in State \X Inputs
    BY DEF Predecessors, S
  <2> QED BY <2>1, <2>2, LiftType
<1> QED BY <1>1

LEMMA QuerySolversType ==
  ASSUME TypeOK, NEW j \in 0 .. k, NEW cube, NEW ss \in SolversAfterQuery(j, cube)
  PROVE  DOMAIN ss \subseteq 0 .. k /\ ss \in [DOMAIN ss -> SUBSET Cube]
<1>1. ss = Built(j) \/ ss = solvers
  BY DEF SolversAfterQuery
<1> QED BY <1>1, BuiltType DEF TypeOK

LEMMA InitTypeInv == Init => TypeInv
<1> SUFFICES ASSUME Init PROVE TypeInv
  OBVIOUS
<1>1. mic \in Mic
  BY DEF Init, NoMic, Mic, Obligation, Cube
<1>2. frames \in [0 .. k -> SUBSET Cube]
  BY DEF Init
<1> QED BY <1>1, <1>2 DEF Init, TypeInv, TypeOK, Bounds, PCs, NoTodo, ClausesTodo, Running, Result

LEMMA NextTypeInv == TypeInv /\ [Next]_vars => TypeInv'
<1> SUFFICES ASSUME TypeInv, [Next]_vars PROVE TypeInv'
  OBVIOUS
<1> USE DEF TypeInv
<1>a. mic \in Mic /\ NoMic \in Mic
  BY DEF TypeOK, NoMic, Mic, Obligation, Cube
<1>1. CASE InitiallyBad
  BY <1>1 DEF InitiallyBad, Finish, Refuted, TypeOK, Bounds, Result, PCs
<1>2. CASE InitiallyGood
  <2>1. k' = k + 1 /\ k' \in Nat /\ k' >= 1 /\ solvers' = solvers
    BY <1>2 DEF InitiallyGood, NewFrame, TypeOK
  <2>2. frames' \in [0 .. k' -> SUBSET Cube]
    BY <1>2, <2>1 DEF InitiallyGood, NewFrame, TypeOK
  <2>3. DOMAIN solvers' \subseteq 0 .. k'
    BY <2>1 DEF TypeOK
  <2>4. \A ob \in obligations' : ob.level <= k'
    BY <1>2, <2>1 DEF InitiallyGood, TypeOK, Bounds, Obligation
  <2> QED BY <1>2, <2>1, <2>2, <2>3, <2>4 DEF InitiallyGood, NewFrame, TypeOK, Bounds, PCs
<1>3. CASE BadCube
  <2>1. k \in 0 .. k
    BY DEF TypeOK
  <2>2. DOMAIN solvers' \subseteq 0 .. k /\ solvers' \in [DOMAIN solvers' -> SUBSET Cube]
    BY <1>3, <2>1, BuiltType DEF BadCube
  <2>3. obligations' \subseteq Obligation /\ \A ob \in obligations' : ob.level = k
    BY <1>3, LiftedBadType DEF BadCube, Obligation, TypeOK
  <2>4. \A ob \in obligations' : ob.level <= k
    BY <2>3 DEF TypeOK
  <2> QED BY <1>3, <2>2, <2>3, <2>4 DEF BadCube, TypeOK, Bounds, PCs
<1>4. CASE FrontierSafe
  <2>1. k \in 0 .. k /\ 1 \in 0 .. k /\ 1 \in 1 .. k
    BY <1>4 DEF TypeOK, Bounds, FrontierSafe
  <2>2. DOMAIN solvers' \subseteq 0 .. k /\ solvers' \in [DOMAIN solvers' -> SUBSET Cube]
    BY <1>4, <2>1, BuiltType DEF FrontierSafe, TypeOK
  <2>3. todo' \in ClausesTodo /\ todo'.i \in 1 .. k
    BY <1>4, <2>1 DEF FrontierSafe, ClausesTodo, TypeOK
  <2> QED BY <1>4, <2>2, <2>3 DEF FrontierSafe, TypeOK, Bounds, PCs
<1>5. CASE QueueEmpty
  BY <1>5 DEF QueueEmpty, TypeOK, Bounds, PCs
<1>6. CASE DropBlocked
  BY <1>6 DEF DropBlocked, TypeOK, Bounds, PCs
<1>7. CASE Refute
  BY <1>7 DEF Refute, Top, Finish, Refuted, TypeOK, Bounds, PCs, Result, Obligation
<1>8. CASE Predecessor
  <2>1. PICK ob \in obligations : IF ob.level = 0 THEN BlockAtZero(ob) ELSE PushPredecessor(ob)
    BY <1>8 DEF Predecessor
  <2>2. ob \in Obligation /\ ob.level \in Nat /\ ob.depth \in Nat /\ ob.level <= k /\ ob.cube \in Cube
    BY DEF TypeOK, Bounds, Obligation
  <2>3. CASE ob.level = 0
    <3>1. BlockAtZero(ob)
      BY <2>1, <2>3
    <3>2. /\ frames' \in [0 .. k -> SUBSET Cube]
          /\ solvers' \in [DOMAIN solvers -> SUBSET Cube]
      BY <3>1, <2>2, AddClauseType DEF BlockAtZero, TypeOK
    <3> QED BY <1>8, <3>1, <3>2 DEF Predecessor, BlockAtZero, TypeOK, Bounds, PCs
  <2>4. CASE ob.level # 0
    <3>1. PushPredecessor(ob) /\ ob.level - 1 \in 0 .. k
      BY <2>1, <2>2, <2>4 DEF TypeOK
    <3>2. DOMAIN solvers' \subseteq 0 .. k /\ solvers' \in [DOMAIN solvers' -> SUBSET Cube]
      BY <3>1, BuiltType DEF PushPredecessor
    <3>3. PICK p \in LiftedPredecessors(ob.level - 1, ob.cube) :
            obligations' = obligations \cup
              {[cube |-> p, level |-> ob.level - 1, depth |-> ob.depth + 1]}
      BY <3>1 DEF PushPredecessor
    <3>4. p \in Cube
      BY LiftedPredecessorsType
    <3>5. obligations' \subseteq Obligation /\ \A o \in obligations' : o.level <= k
      BY <2>2, <3>1, <3>3, <3>4 DEF TypeOK, Bounds, Obligation
    <3> QED BY <1>8, <3>1, <3>2, <3>5 DEF Predecessor, PushPredecessor, TypeOK, Bounds, PCs
  <2> QED BY <2>3, <2>4
<1>9. CASE StartGeneralize
  <2>1. PICK ob \in obligations :
          /\ ob.level > 0
          /\ solvers' \in SolversAfterQuery(ob.level - 1, ob.cube)
          /\ \E core \in Cores(ob.level - 1, ob.cube) : \E before \in Orders(core) :
               mic' = [NoMic EXCEPT !.ob = ob, !.cube = core, !.before = before, !.budget = CtgMax]
          /\ obligations' = obligations \ {ob}
    BY <1>9 DEF StartGeneralize
  <2>2. ob \in Obligation /\ ob.level \in Nat /\ ob.level <= k /\ ob.cube \in Cube
    BY DEF TypeOK, Bounds, Obligation
  <2>3. ob.level - 1 \in 0 .. k /\ ob.level \in 1 .. k
    BY <2>1, <2>2 DEF TypeOK
  <2>4. DOMAIN solvers' \subseteq 0 .. k /\ solvers' \in [DOMAIN solvers' -> SUBSET Cube]
    BY <2>1, <2>3, QuerySolversType
  <2>5. PICK core \in Cores(ob.level - 1, ob.cube) : \E before \in Orders(core) :
          mic' = [NoMic EXCEPT !.ob = ob, !.cube = core, !.before = before, !.budget = CtgMax]
    BY <2>1
  <2>6. PICK before \in Orders(core) :
          mic' = [NoMic EXCEPT !.ob = ob, !.cube = core, !.before = before, !.budget = CtgMax]
    BY <2>5
  <2>7. core \in Cube
    BY <2>2, CoreResult DEF Cube
  <2>8. before \in SUBSET (Literal \X Literal)
    BY <2>7 DEF Orders, Cube
  <2>9. mic' \in Mic /\ mic'.ob = ob
    BY <1>a, <2>2, <2>6, <2>7, <2>8, LimitsAssumption DEF NoMic, Mic
  <2> QED BY <1>9, <2>1, <2>3, <2>4, <2>9 DEF StartGeneralize, TypeOK, Bounds, PCs
<1>10. CASE DropLiteral
  <2>1. PICK l \in mic.cube : mic' = [mic EXCEPT !.cand = mic.cube \ {l}, !.joins = 0]
    BY <1>10 DEF DropLiteral
  <2>2. mic' \in Mic /\ mic'.ob = mic.ob
    BY <1>a, <2>1 DEF Mic, Cube
  <2> QED BY <1>10, <2>2 DEF DropLiteral, TypeOK, Bounds, PCs
<1>11. CASE BlockCube
  <2>1. /\ frames' \in [0 .. k -> SUBSET Cube]
        /\ solvers' \in [DOMAIN solvers -> SUBSET Cube]
    BY <1>a, <1>11, AddClauseType DEF BlockCube, TypeOK, Mic
  <2>2. [mic.ob EXCEPT !.level = @ + 1] \in Obligation
    BY <1>a DEF Mic, Obligation
  <2>3. obligations' \subseteq Obligation
    BY <1>11, <2>2 DEF BlockCube, TypeOK
  <2>4. \A o \in obligations' : o.level <= k
    BY <1>a, <1>11 DEF BlockCube, Bounds, TypeOK, Mic, Obligation
  <2> QED BY <1>a, <1>11, <2>1, <2>3, <2>4 DEF BlockCube, TypeOK, Bounds, PCs
<1>b. DownFails \in Mic /\ DownFails.ob = mic.ob
  <2>1. {} \in Cube /\ mic.i + 1 \in Nat /\ mic.fails + 1 \in Nat
    BY <1>a DEF Mic, Cube
  <2> QED BY <1>a, <2>1 DEF DownFails, Mic
<1>c. ASSUME pc = "down" PROVE DownLevel \in 0 .. k /\ mic.ob.level \in 1 .. k
  BY <1>c DEF DownLevel, Bounds, TypeOK
<1>12. CASE DownHitsInit
  BY <1>b, <1>12 DEF DownHitsInit, TypeOK, Bounds, PCs
<1>13. CASE DownSucceeds
  <2>1. DOMAIN solvers' \subseteq 0 .. k /\ solvers' \in [DOMAIN solvers' -> SUBSET Cube]
    BY <1>c, <1>13, QuerySolversType DEF DownSucceeds
  <2>2. PICK c \in SUBSET mic.cand, core \in Cores(DownLevel, mic.cand) :
          mic' = [mic EXCEPT !.cube = core, !.before = Appended(@, c, core), !.fails = 0,
                             !.cand = {}, !.joins = 0]
    BY <1>13 DEF DownSucceeds, Cores, Conflicts
  <2>3. core \in Cube /\ Appended(mic.before, c, core) \in SUBSET (Literal \X Literal)
    BY <1>a, <2>2, CoreResult DEF Cube, Mic, Appended
  <2>4. mic' \in Mic /\ mic'.ob = mic.ob
    BY <1>a, <2>2, <2>3 DEF Mic, Cube
  <2> QED BY <1>13, <2>1, <2>4 DEF DownSucceeds, TypeOK, Bounds, PCs
<1>14. CASE DownBlocksCTG
  <2>a. PICK m \in Predecessors(DownLevel, mic.cand) :
          /\ MayBlockCTG(m[1])
          /\ \E core \in Cores(DownLevel, FullCube(m[1])) :
               LET level == IF DownLevel + 1 <= k THEN DownLevel + 1 ELSE k
               IN  /\ frames' = AddToFrames(frames, level, core)
                   /\ solvers' = AddToSolvers(frames, Built(DownLevel), level, core)
    BY <1>14 DEF DownBlocksCTG
  <2>1. PICK core \in Cores(DownLevel, FullCube(m[1])) :
          \E level :
            /\ frames' = AddToFrames(frames, level, core)
            /\ solvers' = AddToSolvers(frames, Built(DownLevel), level, core)
    BY <2>a
  <2>2. m \in State \X Inputs
    BY DEF Predecessors, S
  <2>3. core \in Cube
    BY <2>2, CoreResult DEF Cube, FullCube, State, Literal
  <2>4. /\ frames' \in [0 .. k -> SUBSET Cube]
        /\ solvers' \in [DOMAIN Built(DownLevel) -> SUBSET Cube]
        /\ DOMAIN Built(DownLevel) \subseteq 0 .. k
    <3>1. /\ DOMAIN Built(DownLevel) \subseteq 0 .. k
          /\ Built(DownLevel) \in [DOMAIN Built(DownLevel) -> SUBSET Cube]
      BY <1>c, <1>14, BuiltType DEF DownBlocksCTG
    <3>2. frames \in [0 .. k -> SUBSET Cube]
      BY DEF TypeOK
    <3> QED BY <2>1, <2>3, <3>1, <3>2, AddClauseType
  <2>5. mic' \in Mic /\ mic'.ob = mic.ob
    BY <1>a, <1>14, <2>a DEF DownBlocksCTG, MayBlockCTG, Mic
  <2> QED BY <1>14, <2>4, <2>5 DEF DownBlocksCTG, TypeOK, Bounds, PCs
<1>15. CASE DownJoins
  <2>1. DOMAIN solvers' \subseteq 0 .. k /\ solvers' \in [DOMAIN solvers' -> SUBSET Cube]
    BY <1>c, <1>15, BuiltType DEF DownJoins
  <2>2. PICK m \in Predecessors(DownLevel, mic.cand) :
          \/ mic' = DownFails /\ pc' = "generalize"
          \/ /\ mic' = [mic EXCEPT !.cand = mic.cand \cap FullCube(m[1]), !.joins = @ + 1]
             /\ pc' = pc
    BY <1>15 DEF DownJoins
  <2>3. mic' \in Mic /\ mic'.ob = mic.ob
    <3>1. CASE mic' = DownFails
      BY <1>b, <3>1
    <3>2. CASE mic' = [mic EXCEPT !.cand = mic.cand \cap FullCube(m[1]), !.joins = @ + 1]
      <4>1. mic.cand \cap FullCube(m[1]) \in Cube /\ mic.joins + 1 \in Nat
        BY <1>a DEF Mic, Cube
      <4> QED BY <1>a, <3>2, <4>1 DEF Mic
    <3> QED BY <2>2, <3>1, <3>2
  <2>4. pc' \in {"generalize", "down"} /\ pc = "down"
    BY <1>15, <2>2 DEF DownJoins
  <2> QED BY <1>15, <2>1, <2>3, <2>4 DEF DownJoins, TypeOK, Bounds, PCs
<1>16. CASE PropagateClause
  <2>1. todo.i \in 1 .. k /\ todo.i \in 0 .. k /\ todo.i + 1 \in 0 .. k
    BY <1>16 DEF PropagateClause, Bounds, TypeOK
  <2>2. PICK c \in todo.clauses :
       /\ todo' = [todo EXCEPT !.clauses = @ \ {c}]
       /\ IF Pushable(todo.i, c)
          THEN /\ frames' = [frames EXCEPT ![todo.i] = @ \ {c},
                                           ![todo.i + 1] = @ \cup {c}]
               /\ solvers' = WithClauseAt(Built(todo.i), todo.i + 1, c)
          ELSE /\ UNCHANGED frames
               /\ solvers' = Built(todo.i)
    BY <1>16 DEF PropagateClause
  <2>3. c \in Cube /\ todo' \in ClausesTodo /\ todo'.i = todo.i
    BY <2>2 DEF TypeOK, ClausesTodo
  <2>4. DOMAIN solvers' \subseteq 0 .. k /\ solvers' \in [DOMAIN solvers' -> SUBSET Cube]
    <3>1. WithClauseAt(Built(todo.i), todo.i + 1, c) \in [DOMAIN Built(todo.i) -> SUBSET Cube]
      BY <2>1, <2>3, BuiltType DEF WithClauseAt
    <3>2. DOMAIN WithClauseAt(Built(todo.i), todo.i + 1, c) = DOMAIN Built(todo.i)
      BY DEF WithClauseAt
    <3> QED BY <2>1, <2>2, <3>1, <3>2, BuiltType
  <2>5. frames' \in [0 .. k -> SUBSET Cube]
    BY <2>1, <2>2, <2>3 DEF TypeOK
  <2> QED BY <1>16, <2>1, <2>3, <2>4, <2>5 DEF PropagateClause, TypeOK, Bounds, PCs
<1>17. CASE NextLevel
  <2>1. todo.i + 1 \in 1 .. k /\ todo.i + 1 \in 0 .. k
    BY <1>17 DEF NextLevel, TypeOK, Bounds
  <2>2. todo' \in ClausesTodo /\ todo'.i \in 1 .. k
    BY <1>17, <2>1 DEF NextLevel, TypeOK, ClausesTodo
  <2> QED BY <1>17, <2>2 DEF NextLevel, TypeOK, Bounds, PCs
<1>18. CASE Converged
  BY <1>18 DEF Converged, NoTodo, ClausesTodo, Finish, Proved, TypeOK, Bounds, Result, PCs
<1>19. CASE NotConverged
  <2>1. k' = k + 1 /\ k' \in Nat /\ k' >= 1 /\ solvers' = solvers
    BY <1>19 DEF NotConverged, NewFrame, TypeOK
  <2>2. frames' \in [0 .. k' -> SUBSET Cube]
    BY <1>19, <2>1 DEF NotConverged, NewFrame, TypeOK
  <2>3. DOMAIN solvers' \subseteq 0 .. k'
    BY <2>1 DEF TypeOK
  <2>4. \A ob \in obligations' : ob.level <= k'
    BY <1>19, <2>1 DEF NotConverged, TypeOK, Bounds, Obligation
  <2>5. todo' \in ClausesTodo
    BY <1>19 DEF NotConverged, NoTodo, ClausesTodo
  <2> QED BY <1>19, <2>1, <2>2, <2>3, <2>4, <2>5 DEF NotConverged, NewFrame, TypeOK, Bounds, PCs
<1>20. CASE UNCHANGED vars
  BY <1>20 DEF vars, TypeOK, Bounds
<1> QED
  BY <1>1, <1>2, <1>3, <1>4, <1>5, <1>6, <1>7, <1>8, <1>9, <1>10, <1>11, <1>12, <1>13,
     <1>14, <1>15, <1>16, <1>17, <1>18, <1>19, <1>20 DEF Next, Terminated

\* Every variable keeps its type, the frames are numbered 0 .. k and solvers
\* exist for them only: no get_solver() or add_clause() call is out of range.
THEOREM TypeCorrect == Spec => [](TypeOK /\ Bounds)
<1>1. Init => TypeInv
  BY InitTypeInv
<1>2. TypeInv /\ [Next]_vars => TypeInv'
  BY NextTypeInv
<1> QED BY <1>1, <1>2, PTL DEF Spec, TypeInv

-----------------------------------------------------------------------------
\* Frames as a function of the clauses stored in them.

DeltaOf(fs, n, j) == UNION {fs[m] : m \in j .. n}

FrameOf(fs, n, j) ==
  {s \in State : (j = 0 => s \in design.init) /\ \A c \in DeltaOf(fs, n, j) : ~Sat(s, c)}

LEMMA FrameOfFrames == \A j : F(j) = FrameOf(frames, k, j) /\ Delta(j) = DeltaOf(frames, k, j)
BY DEF F, FrameOf, Delta, DeltaOf

\* The frames are ordered: a higher frame keeps fewer clauses.
LEMMA FramesMonotone ==
  ASSUME NEW n \in Nat, NEW fs \in [0 .. n -> SUBSET Cube], NEW j \in 0 .. n, NEW m \in j .. n
  PROVE  FrameOf(fs, n, j) \subseteq FrameOf(fs, n, m)
<1>1. DeltaOf(fs, n, m) \subseteq DeltaOf(fs, n, j)
  BY DEF DeltaOf
<1> QED BY <1>1 DEF FrameOf

\* add_clause removes the states of the cube from the frames up to its level and
\* no others, whether the clause was redundant or made others redundant.
LEMMA AddClauseFrames ==
  ASSUME k \in Nat, NEW fs \in [0 .. k -> SUBSET Cube], NEW level \in 0 .. k, NEW c \in Cube,
         NEW j \in 0 .. k
  PROVE  FrameOf(AddToFrames(fs, level, c), k, j)
           = IF j <= level THEN {s \in FrameOf(fs, k, j) : ~Sat(s, c)} ELSE FrameOf(fs, k, j)
<1> DEFINE gs == AddToFrames(fs, level, c)
<1>1. CASE Redundant(fs, level, c)
  <2>1. gs = fs
    BY <1>1 DEF AddToFrames
  <2>2. PICK m \in level .. k : \E e \in fs[m] : e \subseteq c
    BY <1>1 DEF Redundant
  <2>3. ASSUME j <= level, NEW s \in FrameOf(fs, k, j) PROVE ~Sat(s, c)
    <3>1. m \in j .. k
      BY <2>2, <2>3
    <3>2. PICK e \in fs[m] : e \subseteq c
      BY <2>2
    <3>3. e \in DeltaOf(fs, k, j)
      BY <3>1, <3>2 DEF DeltaOf
    <3>4. ~Sat(s, e)
      BY <3>3, <2>3 DEF FrameOf
    <3> QED BY <3>2, <3>4 DEF Sat
  <2> QED BY <2>1, <2>3
<1>2. CASE ~Redundant(fs, level, c)
  <2>1. \A m \in 0 .. k : gs[m] = IF m > level THEN fs[m]
                                  ELSE {e \in fs[m] : ~(c \subseteq e)}
                                       \cup (IF m = level THEN {c} ELSE {})
    BY <1>2 DEF AddToFrames
  <2> HIDE DEF gs
  <2>a. \A e : /\ e \in DeltaOf(gs, k, j) <=> \E m \in j .. k : e \in gs[m]
               /\ e \in DeltaOf(fs, k, j) <=> \E m \in j .. k : e \in fs[m]
    BY DEF DeltaOf
  <2>b. \A m \in j .. k : m \in 0 .. k /\ m >= j
    OBVIOUS
  <2>2. CASE j > level
    <3>1. \A m \in j .. k : m > level
      BY <2>2
    <3>2. \A m \in j .. k : gs[m] = fs[m]
      BY <2>1, <2>b, <3>1
    <3>3. \A e : e \in DeltaOf(gs, k, j) <=> e \in DeltaOf(fs, k, j)
      BY <2>a, <3>2
    <3> QED BY <2>2, <3>3 DEF FrameOf, gs
  <2>3. CASE j <= level
    <3>1. c \in DeltaOf(gs, k, j)
      <4>1. level \in j .. k /\ ~(level > level)
        BY <2>3
      <4>2. c \in gs[level]
        BY <2>1, <4>1
      <4> QED BY <2>a, <4>1, <4>2
    <3>2. \A e \in DeltaOf(gs, k, j) : e = c \/ e \in DeltaOf(fs, k, j)
      <4>1. \A m \in 0 .. k : \A e \in gs[m] : e = c \/ e \in fs[m]
        BY <2>1
      <4> QED BY <2>a, <2>b, <4>1
    <3>3. \A e \in DeltaOf(fs, k, j) : c \subseteq e \/ e \in DeltaOf(gs, k, j)
      <4>1. \A m \in 0 .. k : \A e \in fs[m] : c \subseteq e \/ e \in gs[m]
        BY <2>1
      <4> QED BY <2>a, <2>b, <4>1
    <3>4. \A s, e : c \subseteq e /\ ~Sat(s, c) => ~Sat(s, e)
      BY DEF Sat
    <3>5. FrameOf(gs, k, j) = {s \in FrameOf(fs, k, j) : ~Sat(s, c)}
      BY <3>1, <3>2, <3>3, <3>4 DEF FrameOf
    <3> QED BY <2>3, <3>5 DEF gs
  <2> QED BY <2>2, <2>3
<1> QED BY <1>1, <1>2

\* propagate()'s move of a clause from frame i to i + 1 changes frame i + 1 only.
MovedUp(fs, i, c) == [fs EXCEPT ![i] = @ \ {c}, ![i + 1] = @ \cup {c}]

LEMMA MoveClauseFrames ==
  ASSUME k \in Nat, NEW fs \in [0 .. k -> SUBSET Cube], NEW i \in 0 .. k, i < k,
         NEW c \in fs[i], NEW j \in 0 .. k
  PROVE  FrameOf(MovedUp(fs, i, c), k, j)
           = IF j = i + 1 THEN {s \in FrameOf(fs, k, j) : ~Sat(s, c)} ELSE FrameOf(fs, k, j)
<1> DEFINE gs == MovedUp(fs, i, c)
<1>1. \A m \in 0 .. k : gs[m] =
         IF m = i THEN fs[m] \ {c} ELSE IF m = i + 1 THEN fs[m] \cup {c} ELSE fs[m]
  <2>1. i + 1 \in 0 .. k /\ i + 1 # i
    OBVIOUS
  <2> QED BY <2>1 DEF MovedUp
<1> HIDE DEF gs
<1>a. \A e : /\ e \in DeltaOf(gs, k, j) <=> \E m \in j .. k : e \in gs[m]
             /\ e \in DeltaOf(fs, k, j) <=> \E m \in j .. k : e \in fs[m]
  BY DEF DeltaOf
<1>b. \A m \in j .. k : m \in 0 .. k
  OBVIOUS
<1>c. i + 1 \in 0 .. k /\ i + 1 # i
  OBVIOUS
<1>2. CASE j > i + 1
  <2>1. \A m \in j .. k : m # i /\ m # i + 1
    BY <1>2
  <2>2. \A m \in j .. k : gs[m] = fs[m]
    BY <1>1, <1>b, <2>1
  <2>3. \A e : e \in DeltaOf(gs, k, j) <=> e \in DeltaOf(fs, k, j)
    BY <1>a, <2>2
  <2> QED BY <1>2, <2>3 DEF FrameOf, gs
<1>3. CASE j = i + 1
  <2>1. \A e : e \in DeltaOf(gs, k, j) <=> e \in DeltaOf(fs, k, j) \/ e = c
    <3>1. \A m \in j .. k : gs[m] = IF m = i + 1 THEN fs[m] \cup {c} ELSE fs[m]
      <4>1. \A m \in j .. k : m # i
        BY <1>3
      <4> QED BY <1>1, <1>b, <4>1
    <3>2. i + 1 \in j .. k
      BY <1>3, <1>c
    <3> QED BY <1>a, <3>1, <3>2
  <2> QED BY <1>3, <2>1 DEF FrameOf, gs
<1>4. CASE j <= i
  <2>1. i \in j .. k /\ i + 1 \in j .. k
    BY <1>4, <1>c
  <2>2. gs[i] = fs[i] \ {c} /\ gs[i + 1] = fs[i + 1] \cup {c}
    BY <1>1, <1>c
  <2>3. \A m \in j .. k : m = i \/ m = i + 1 \/ gs[m] = fs[m]
    BY <1>1, <1>b
  <2>4. \A e : e \in DeltaOf(gs, k, j) <=> e \in DeltaOf(fs, k, j)
    <3>1. c \in DeltaOf(fs, k, j) /\ c \in DeltaOf(gs, k, j)
      BY <1>a, <2>1, <2>2
    <3>2. ASSUME NEW e, e # c PROVE e \in DeltaOf(gs, k, j) <=> e \in DeltaOf(fs, k, j)
      <4>1. \A m \in j .. k : e \in gs[m] <=> e \in fs[m]
        BY <2>2, <2>3, <3>2
      <4> QED BY <1>a, <4>1
    <3> QED BY <3>1, <3>2
  <2> QED BY <1>4, <2>4 DEF FrameOf, gs
<1> QED BY <1>2, <1>3, <1>4

\* A new frame has no clauses, and leaves the others as they are.
Opened(fs) == [j \in 0 .. k + 1 |-> IF j = k + 1 THEN {} ELSE fs[j]]

LEMMA OpenFrames ==
  ASSUME k \in Nat, NEW fs \in [0 .. k -> SUBSET Cube]
  PROVE  /\ \A j \in 0 .. k : /\ DeltaOf(Opened(fs), k + 1, j) = DeltaOf(fs, k, j)
                              /\ FrameOf(Opened(fs), k + 1, j) = FrameOf(fs, k, j)
         /\ FrameOf(Opened(fs), k + 1, k + 1) = State
<1>1. \A m \in 0 .. k : Opened(fs)[m] = fs[m]
  BY DEF Opened
<1>2. Opened(fs)[k + 1] = {}
  BY DEF Opened
<1>3. ASSUME NEW j \in 0 .. k PROVE DeltaOf(Opened(fs), k + 1, j) = DeltaOf(fs, k, j)
  <2>1. j .. (k + 1) = (j .. k) \cup {k + 1}
    OBVIOUS
  <2> QED BY <1>1, <1>2, <2>1 DEF DeltaOf
<1>4. DeltaOf(Opened(fs), k + 1, k + 1) = {}
  BY <1>2 DEF DeltaOf
<1> QED BY <1>3, <1>4 DEF FrameOf

-----------------------------------------------------------------------------
(***************************************************************************)
(* The inductive invariant.  Beyond the properties themselves it says how  *)
(* a built solver relates to the frames: it holds every clause of its      *)
(* frame, and each of its clauses is still subsumed by a clause of the     *)
(* frame ("the subsumed clauses stay in already-built solvers").           *)
(***************************************************************************)

Sync(fs, n, ss) ==
  \A j \in DOMAIN ss :
    /\ DeltaOf(fs, n, j) \subseteq ss[j]
    /\ \A c \in ss[j] : \E d \in DeltaOf(fs, n, j) : d \subseteq c

\* The clauses that propagate() copied are still in the frame, and the candidate
\* of ctg_down() is a part of the cube.
LocalsInStep ==
  /\ pc = "propagate" => todo.clauses \subseteq frames[todo.i]
  /\ pc = "down" => mic.cand \subseteq mic.cube

FrameInv ==
  /\ TypeInv
  /\ Sync(frames, k, solvers)
  /\ LocalsInStep
  /\ FramesOverapproximate
  /\ FramesSafe
  /\ GeneralizedCubeIsInductive
  /\ ProvedIsSound

\* The solvers answer for the frames.
LEMMA SolverIsFrame ==
  ASSUME TypeInv, Sync(frames, k, solvers), NEW j \in 0 .. k
  PROVE  S(j) = F(j)
<1>1. CASE j \notin DOMAIN solvers
  BY <1>1 DEF S, F, SolverClauses
<1>2. CASE j \in DOMAIN solvers
  <2>1. Delta(j) \subseteq solvers[j] /\ \A c \in solvers[j] : \E d \in Delta(j) : d \subseteq c
    BY <1>2, FrameOfFrames DEF Sync
  <2>2. SolverClauses(j) = solvers[j]
    BY <1>2 DEF SolverClauses
  <2>3. \A s : (\A c \in solvers[j] : ~Sat(s, c)) <=> (\A c \in Delta(j) : ~Sat(s, c))
    BY <2>1 DEF Sat
  <2> QED BY <2>2, <2>3 DEF S, F
<1> QED BY <1>1, <1>2

\* Building a solver keeps the solvers in step.
LEMMA BuiltSync ==
  ASSUME TypeInv, Sync(frames, k, solvers), NEW j \in 0 .. k
  PROVE  Sync(frames, k, Built(j))
<1>1. DOMAIN Built(j) = DOMAIN solvers \cup {j}
  BY DEF Built
<1>2. ASSUME NEW m \in DOMAIN Built(j), m \in DOMAIN solvers
      PROVE Built(j)[m] = solvers[m]
  BY <1>1, <1>2 DEF Built, SolverClauses
<1>3. ASSUME NEW m \in DOMAIN Built(j), m \notin DOMAIN solvers
      PROVE Built(j)[m] = DeltaOf(frames, k, m)
  BY <1>1, <1>3, FrameOfFrames DEF Built, SolverClauses
<1> QED BY <1>1, <1>2, <1>3 DEF Sync

\* add_clause keeps the solvers in step.
LEMMA AddClauseSync ==
  ASSUME TypeInv, NEW ss, DOMAIN ss \subseteq 0 .. k, Sync(frames, k, ss),
         NEW level \in 0 .. k, NEW c \in Cube
  PROVE  Sync(AddToFrames(frames, level, c), k, AddToSolvers(frames, ss, level, c))
<1> DEFINE fs == AddToFrames(frames, level, c)
           ts == AddToSolvers(frames, ss, level, c)
<1>1. CASE Redundant(frames, level, c)
  BY <1>1 DEF AddToFrames, AddToSolvers
<1>2. CASE ~Redundant(frames, level, c)
  <2>0. k \in Nat
    BY DEF TypeInv, TypeOK
  <2>1. \A m \in 0 .. k : fs[m] = IF m > level THEN frames[m]
                                  ELSE {e \in frames[m] : ~(c \subseteq e)}
                                       \cup (IF m = level THEN {c} ELSE {})
    BY <1>2 DEF AddToFrames
  <2>2. /\ DOMAIN ts = DOMAIN ss
        /\ \A j \in DOMAIN ss : ts[j] = IF j <= level THEN ss[j] \cup {c} ELSE ss[j]
    BY <1>2 DEF AddToSolvers
  <2> HIDE DEF fs, ts
  <2>3. SUFFICES ASSUME NEW j \in DOMAIN ss
                 PROVE  /\ DeltaOf(fs, k, j) \subseteq ts[j]
                        /\ \A e \in ts[j] : \E d \in DeltaOf(fs, k, j) : d \subseteq e
    BY <2>2 DEF Sync, fs, ts
  <2>4. j \in 0 .. k
    OBVIOUS
  <2>5. /\ DeltaOf(frames, k, j) \subseteq ss[j]
        /\ \A e \in ss[j] : \E d \in DeltaOf(frames, k, j) : d \subseteq e
    BY DEF Sync
  <2>a. \A e : /\ e \in DeltaOf(fs, k, j) <=> \E m \in j .. k : e \in fs[m]
               /\ e \in DeltaOf(frames, k, j) <=> \E m \in j .. k : e \in frames[m]
    BY DEF DeltaOf
  <2>b. \A m \in j .. k : m \in 0 .. k
    BY <2>0, <2>4
  <2>6. CASE j > level
    <3>1. \A m \in j .. k : m > level
      BY <2>0, <2>4, <2>6
    <3>2. \A m \in j .. k : fs[m] = frames[m]
      BY <2>1, <2>b, <3>1
    <3>3. \A e : e \in DeltaOf(fs, k, j) <=> e \in DeltaOf(frames, k, j)
      BY <2>a, <3>2
    <3>4. ts[j] = ss[j]
      BY <2>0, <2>2, <2>4, <2>6
    <3> QED BY <2>5, <3>3, <3>4
  <2>7. CASE j <= level
    <3>1. c \in DeltaOf(fs, k, j)
      <4>1. level \in j .. k /\ ~(level > level)
        BY <2>0, <2>4, <2>7
      <4>2. c \in fs[level]
        BY <2>1, <4>1
      <4> QED BY <2>a, <4>1, <4>2
    <3>2. \A e \in DeltaOf(fs, k, j) : e = c \/ e \in DeltaOf(frames, k, j)
      <4>1. \A m \in 0 .. k : \A e \in fs[m] : e = c \/ e \in frames[m]
        BY <2>1
      <4> QED BY <2>a, <2>b, <4>1
    <3>3. \A e \in DeltaOf(frames, k, j) : c \subseteq e \/ e \in DeltaOf(fs, k, j)
      <4>1. \A m \in 0 .. k : \A e \in frames[m] : c \subseteq e \/ e \in fs[m]
        BY <2>1
      <4> QED BY <2>a, <2>b, <4>1
    <3>4. ts[j] = ss[j] \cup {c}
      BY <2>2, <2>7
    <3>5. DeltaOf(fs, k, j) \subseteq ts[j]
      BY <2>5, <3>2, <3>4
    <3>6. ASSUME NEW e \in ts[j] PROVE \E d \in DeltaOf(fs, k, j) : d \subseteq e
      <4>1. CASE e = c
        BY <3>1, <4>1
      <4>2. CASE e \in ss[j]
        <5>1. PICK d \in DeltaOf(frames, k, j) : d \subseteq e
          BY <2>5, <4>2
        <5> QED BY <3>1, <3>3, <5>1
      <4> QED BY <3>4, <3>6, <4>1, <4>2
    <3> QED BY <3>5, <3>6
  <2> QED BY <2>0, <2>4, <2>6, <2>7
<1> QED BY <1>1, <1>2

\* propagate() keeps the solvers in step although it adds the clause to the
\* solver of one level only.
LEMMA MoveClauseSync ==
  ASSUME TypeInv, NEW ss, DOMAIN ss \subseteq 0 .. k, Sync(frames, k, ss),
         NEW i \in 0 .. k, i < k, NEW c \in frames[i]
  PROVE  Sync(MovedUp(frames, i, c), k, WithClauseAt(ss, i + 1, c))
<1> DEFINE fs == MovedUp(frames, i, c)
           ts == WithClauseAt(ss, i + 1, c)
<1>0. k \in Nat /\ i + 1 \in 0 .. k /\ i + 1 # i
  BY DEF TypeInv, TypeOK
<1>1. fs[i] = frames[i] \ {c} /\ fs[i + 1] = frames[i + 1] \cup {c}
  BY <1>0 DEF MovedUp, TypeInv, TypeOK
<1>2. \A m \in 0 .. k : m = i \/ m = i + 1 \/ fs[m] = frames[m]
  BY <1>0 DEF MovedUp, TypeInv, TypeOK
<1>3. /\ DOMAIN ts = DOMAIN ss
      /\ \A j \in DOMAIN ss : ts[j] = IF j = i + 1 THEN ss[j] \cup {c} ELSE ss[j]
  BY DEF WithClauseAt
<1> HIDE DEF fs, ts
<1>4. SUFFICES ASSUME NEW j \in DOMAIN ss
               PROVE  /\ DeltaOf(fs, k, j) \subseteq ts[j]
                      /\ \A e \in ts[j] : \E d \in DeltaOf(fs, k, j) : d \subseteq e
  BY <1>3 DEF Sync, fs, ts
<1>5. j \in 0 .. k
  OBVIOUS
<1>6. /\ DeltaOf(frames, k, j) \subseteq ss[j]
      /\ \A e \in ss[j] : \E d \in DeltaOf(frames, k, j) : d \subseteq e
  BY DEF Sync
<1>a. \A e : /\ e \in DeltaOf(fs, k, j) <=> \E m \in j .. k : e \in fs[m]
             /\ e \in DeltaOf(frames, k, j) <=> \E m \in j .. k : e \in frames[m]
  BY DEF DeltaOf
<1>b. \A m \in j .. k : m \in 0 .. k
  BY <1>0, <1>5
<1>7. \A e \in DeltaOf(fs, k, j) : e = c \/ e \in DeltaOf(frames, k, j)
  <2>1. \A m \in 0 .. k : \A e \in fs[m] : e = c \/ e \in frames[m]
    BY <1>1, <1>2
  <2> QED BY <1>a, <1>b, <2>1
<1>8. \A e \in DeltaOf(frames, k, j) : e = c \/ e \in DeltaOf(fs, k, j)
  <2>1. \A m \in 0 .. k : \A e \in frames[m] : e = c \/ e \in fs[m]
    BY <1>1, <1>2
  <2> QED BY <1>a, <1>b, <2>1
<1>9. CASE j <= i + 1
  <2>1. i + 1 \in j .. k
    BY <1>0, <1>5, <1>9
  <2>2. c \in DeltaOf(fs, k, j)
    BY <1>a, <1>1, <2>1
  <2>3. c \in ts[j]
    <3>1. CASE j = i + 1
      BY <1>3, <3>1
    <3>2. CASE j # i + 1
      <4>1. i \in j .. k
        BY <1>0, <1>5, <1>9, <3>2
      <4>2. c \in DeltaOf(frames, k, j)
        BY <1>a, <4>1
      <4> QED BY <1>3, <1>6, <3>2, <4>2
    <3> QED BY <3>1, <3>2
  <2>4. DeltaOf(frames, k, j) \subseteq DeltaOf(fs, k, j)
    BY <1>8, <2>2
  <2>5. \A e \in ts[j] : e = c \/ e \in ss[j]
    BY <1>3
  <2>6. ss[j] \subseteq ts[j]
    BY <1>3
  <2> QED BY <1>6, <1>7, <2>2, <2>3, <2>4, <2>5, <2>6
<1>10. CASE j > i + 1
  <2>1. \A m \in j .. k : m # i /\ m # i + 1
    BY <1>0, <1>5, <1>10
  <2>2. \A m \in j .. k : fs[m] = frames[m]
    BY <1>2, <1>b, <2>1
  <2>3. \A e : e \in DeltaOf(fs, k, j) <=> e \in DeltaOf(frames, k, j)
    BY <1>a, <2>2
  <2>4. j # i + 1
    BY <1>0, <1>5, <1>10
  <2>5. ts[j] = ss[j]
    BY <1>3, <2>4
  <2> QED BY <1>6, <2>3, <2>5
<1> QED BY <1>0, <1>5, <1>9, <1>10

-----------------------------------------------------------------------------
\* What a step does to the frames.

\* The negation of c may be added at the level: c misses the initial states, and
\* no state of the frame below that is outside c runs into it.
Blockable(level, c) ==
  /\ \A s \in LiveInit(design) : ~Sat(s, c)
  /\ level > 0 => \A s \in F(level - 1), t \in State :
                    ~Sat(s, c) /\ Step(design, s, t) => ~Sat(t, c)

\* Solvers as a query leaves them.
Queried(ss) == ss = solvers \/ \E j \in 0 .. k : ss = Built(j)

FramesKept == k' = k /\ frames' = frames /\ Queried(solvers')

ClauseAdded(level, c) ==
  /\ k' = k
  /\ Blockable(level, c)
  /\ frames' = AddToFrames(frames, level, c)
  /\ \E ss : Queried(ss) /\ solvers' = AddToSolvers(frames, ss, level, c)

ClauseMoved(i, c) ==
  /\ k' = k
  /\ i < k
  /\ Pushable(i, c)
  /\ frames' = MovedUp(frames, i, c)
  /\ \E ss : Queried(ss) /\ solvers' = WithClauseAt(ss, i + 1, c)

FrameOpened == k' = k + 1 /\ frames' = Opened(frames) /\ solvers' = solvers

FrameChange ==
  \/ FramesKept
  \/ \E level \in 0 .. k, c \in Cube : ClauseAdded(level, c)
  \/ \E i \in 1 .. k : \E c \in frames[i] : ClauseMoved(i, c)
  \/ FrameOpened

\* Any core that a query against the frame below leaves may be blocked.
LEMMA CoreBlockable ==
  ASSUME TypeInv, Sync(frames, k, solvers),
         NEW level \in 0 .. k, NEW cube \in Cube, NEW core \in Cores(level, cube)
  PROVE  /\ core \in Cube
         /\ core \subseteq cube
         /\ \A s \in LiveInit(design) : ~Sat(s, core)
         /\ \A s \in F(level), t \in State :
              ~Sat(s, core) /\ Step(design, s, t) => ~Sat(t, core)
<1>1. /\ core \subseteq cube
      /\ ~InitIntersects(core)
      /\ \A s \in S(level), i \in Inputs :
           <<s, i>> \in design.constraint /\ ~Sat(s, cube)
             => ~Sat(design.next[<<s, i>>], core)
  BY CoreResult
<1>2. core \in Cube
  BY <1>1 DEF Cube
<1>3. \A s \in LiveInit(design) : ~Sat(s, core)
  BY <1>1, <1>2, InitIntersectsExact, DesignType DEF TypeInv
<1>4. ASSUME NEW s \in F(level), NEW t \in State, ~Sat(s, core), Step(design, s, t)
      PROVE  ~Sat(t, core)
  <2>1. PICK i \in Inputs : <<s, i>> \in design.constraint /\ t = design.next[<<s, i>>]
    BY <1>4 DEF Step
  <2>2. s \in S(level)
    BY SolverIsFrame
  <2>3. ~Sat(s, cube)
    BY <1>1, <1>4 DEF Sat
  <2> QED BY <1>1, <2>1, <2>2, <2>3
<1> QED BY <1>1, <1>2, <1>3, <1>4

LEMMA FrameStep == FrameInv /\ [Next]_vars => design' = design /\ FrameChange
<1> SUFFICES ASSUME FrameInv, [Next]_vars PROVE design' = design /\ FrameChange
  OBVIOUS
<1>a. TypeInv /\ Sync(frames, k, solvers) /\ k \in Nat
  BY DEF FrameInv, TypeInv, TypeOK
<1>b. ASSUME NEW j \in 0 .. k, NEW cube, solvers' \in SolversAfterQuery(j, cube)
      PROVE  Queried(solvers')
  BY <1>b DEF SolversAfterQuery, Queried
<1>c. ASSUME pc \in {"generalize", "down"}
      PROVE  /\ mic.ob.level \in 1 .. k /\ DownLevel \in 0 .. k /\ DownLevel + 1 = mic.ob.level
             /\ mic.cube \in Cube /\ mic.cand \in Cube
  BY <1>a, <1>c DEF TypeInv, TypeOK, Bounds, DownLevel, Mic
<1>1. CASE InitiallyBad
  BY <1>1 DEF InitiallyBad, FrameChange, FramesKept, Queried
<1>2. CASE InitiallyGood
  BY <1>2 DEF InitiallyGood, NewFrame, FrameChange, FrameOpened, Opened
<1>3. CASE BadCube
  BY <1>a, <1>3 DEF BadCube, FrameChange, FramesKept, Queried
<1>4. CASE FrontierSafe
  BY <1>a, <1>4 DEF FrontierSafe, FrameChange, FramesKept, Queried
<1>5. CASE QueueEmpty
  BY <1>5 DEF QueueEmpty, FrameChange, FramesKept, Queried
<1>6. CASE DropBlocked
  BY <1>6 DEF DropBlocked, FrameChange, FramesKept, Queried
<1>7. CASE Refute
  BY <1>7 DEF Refute, FrameChange, FramesKept, Queried
<1>8. CASE Predecessor
  <2>1. PICK ob \in obligations :
          /\ ~InitIntersects(ob.cube)
          /\ IF ob.level = 0 THEN BlockAtZero(ob) ELSE PushPredecessor(ob)
    BY <1>8 DEF Predecessor
  <2>2. ob.level \in 0 .. k /\ ob.cube \in Cube
    BY <1>a DEF TypeInv, TypeOK, Bounds, Obligation
  <2>3. CASE ob.level = 0
    <3>1. \A s \in LiveInit(design) : ~Sat(s, ob.cube)
      BY <1>a, <2>1, <2>2, InitIntersectsExact, DesignType DEF TypeInv
    <3>2. Blockable(0, ob.cube)
      BY <3>1 DEF Blockable
    <3>3. ClauseAdded(0, ob.cube)
      BY <1>8, <2>1, <2>3, <3>2 DEF Predecessor, BlockAtZero, ClauseAdded, Queried
    <3>4. 0 \in 0 .. k
      BY <1>a
    <3> QED BY <1>8, <2>2, <3>3, <3>4 DEF Predecessor, FrameChange
  <2>4. CASE ob.level # 0
    <3>1. ob.level - 1 \in 0 .. k
      BY <1>a, <2>2, <2>4
    <3> QED BY <1>8, <2>1, <2>4, <3>1 DEF Predecessor, PushPredecessor, FrameChange, FramesKept, Queried
  <2> QED BY <2>3, <2>4
<1>9. CASE StartGeneralize
  <2>1. PICK ob \in obligations :
          ob.level > 0 /\ solvers' \in SolversAfterQuery(ob.level - 1, ob.cube)
    BY <1>9 DEF StartGeneralize
  <2>2. ob.level - 1 \in 0 .. k
    BY <1>a, <2>1 DEF TypeInv, TypeOK, Bounds, Obligation
  <2> QED BY <1>9, <1>b, <2>1, <2>2 DEF StartGeneralize, FrameChange, FramesKept
<1>10. CASE DropLiteral
  BY <1>10 DEF DropLiteral, FrameChange, FramesKept, Queried
<1>11. CASE BlockCube
  <2>1. GeneralizedCubeIsInductive /\ pc = "generalize"
    BY <1>11 DEF BlockCube, FrameInv
  <2>2. Blockable(mic.ob.level, mic.cube)
    BY <2>1 DEF GeneralizedCubeIsInductive, Blockable, DownLevel
  <2>3. mic.ob.level \in 0 .. k /\ mic.cube \in Cube
    BY <1>a, <1>c, <2>1
  <2>4. ClauseAdded(mic.ob.level, mic.cube)
    BY <1>11, <2>2 DEF BlockCube, ClauseAdded, Queried
  <2> QED BY <1>11, <2>3, <2>4 DEF BlockCube, FrameChange
<1>12. CASE DownHitsInit
  BY <1>12 DEF DownHitsInit, FrameChange, FramesKept, Queried
<1>13. CASE DownSucceeds
  BY <1>13, <1>b, <1>c DEF DownSucceeds, FrameChange, FramesKept
<1>14. CASE DownBlocksCTG
  <2>0. pc = "down" /\ DownLevel \in 0 .. k /\ mic.ob.level \in 1 .. k /\ DownLevel + 1 = mic.ob.level
    BY <1>14, <1>c DEF DownBlocksCTG
  <2>1. PICK m \in Predecessors(DownLevel, mic.cand) :
          \E core \in Cores(DownLevel, FullCube(m[1])) :
               LET level == IF DownLevel + 1 <= k THEN DownLevel + 1 ELSE k
               IN  /\ frames' = AddToFrames(frames, level, core)
                   /\ solvers' = AddToSolvers(frames, Built(DownLevel), level, core)
    BY <1>14 DEF DownBlocksCTG
  <2>2. PICK core \in Cores(DownLevel, FullCube(m[1])) :
            /\ frames' = AddToFrames(frames, mic.ob.level, core)
            /\ solvers' = AddToSolvers(frames, Built(DownLevel), mic.ob.level, core)
    BY <1>a, <2>0, <2>1
  <2>3. FullCube(m[1]) \in Cube
    <3>1. m \in State \X Inputs
      BY DEF Predecessors, S
    <3> QED BY <3>1, LiftType
  <2>4. core \in Cube /\ Blockable(mic.ob.level, core)
    BY <1>a, <2>0, <2>3, CoreBlockable DEF Blockable, DownLevel
  <2>5. ClauseAdded(mic.ob.level, core)
    BY <1>14, <2>0, <2>2, <2>4 DEF ClauseAdded, Queried, DownBlocksCTG
  <2>6. mic.ob.level \in 0 .. k
    BY <1>a, <2>0
  <2> QED BY <1>14, <2>4, <2>5, <2>6 DEF DownBlocksCTG, FrameChange
<1>15. CASE DownJoins
  BY <1>15, <1>c DEF DownJoins, FrameChange, FramesKept, Queried
<1>16. CASE PropagateClause
  <2>1. todo.i \in 1 .. k /\ todo.i \in 0 .. k /\ todo.i < k /\ todo.clauses \subseteq frames[todo.i]
    BY <1>a, <1>16 DEF PropagateClause, TypeInv, Bounds, FrameInv, LocalsInStep
  <2>2. PICK c \in todo.clauses :
          IF Pushable(todo.i, c)
          THEN /\ frames' = MovedUp(frames, todo.i, c)
               /\ solvers' = WithClauseAt(Built(todo.i), todo.i + 1, c)
          ELSE /\ UNCHANGED frames
               /\ solvers' = Built(todo.i)
    BY <1>16 DEF PropagateClause, MovedUp
  <2>3. CASE Pushable(todo.i, c)
    <3>1. ClauseMoved(todo.i, c) /\ c \in frames[todo.i]
      BY <1>16, <2>1, <2>2, <2>3 DEF ClauseMoved, Queried, PropagateClause
    <3> QED BY <1>16, <2>1, <3>1 DEF FrameChange, PropagateClause
  <2>4. CASE ~Pushable(todo.i, c)
    BY <1>16, <2>1, <2>2, <2>4 DEF FrameChange, FramesKept, Queried, PropagateClause
  <2> QED BY <2>3, <2>4
<1>17. CASE NextLevel
  BY <1>17 DEF NextLevel, FrameChange, FramesKept, Queried
<1>18. CASE Converged
  BY <1>18 DEF Converged, FrameChange, FramesKept, Queried
<1>19. CASE NotConverged
  BY <1>19 DEF NotConverged, NewFrame, FrameChange, FrameOpened, Opened
<1>20. CASE UNCHANGED vars
  BY <1>20 DEF vars, FrameChange, FramesKept, Queried
<1> QED
  BY <1>1, <1>2, <1>3, <1>4, <1>5, <1>6, <1>7, <1>8, <1>9, <1>10, <1>11, <1>12, <1>13,
     <1>14, <1>15, <1>16, <1>17, <1>18, <1>19, <1>20 DEF Next, Terminated

\* The solvers stay in step with the frames.
LEMMA NextSync == FrameInv /\ [Next]_vars => Sync(frames, k, solvers)'
<1> SUFFICES ASSUME FrameInv, [Next]_vars PROVE Sync(frames', k', solvers')
  BY DEF Sync, DeltaOf
<1>a. TypeInv /\ Sync(frames, k, solvers) /\ k \in Nat /\ frames \in [0 .. k -> SUBSET Cube]
  BY DEF FrameInv, TypeInv, TypeOK
<1>b. ASSUME NEW ss, Queried(ss) PROVE DOMAIN ss \subseteq 0 .. k /\ Sync(frames, k, ss)
  <2>1. CASE ss = solvers
    BY <1>a, <2>1 DEF TypeInv, TypeOK
  <2>2. CASE \E j \in 0 .. k : ss = Built(j)
    BY <1>a, <2>2, BuiltType, BuiltSync DEF TypeInv
  <2> QED BY <1>b, <2>1, <2>2 DEF Queried
<1>0. FrameChange
  BY FrameStep
<1>1. CASE FramesKept
  BY <1>1, <1>b DEF FramesKept
<1>2. ASSUME NEW level \in 0 .. k, NEW c \in Cube, ClauseAdded(level, c)
      PROVE  Sync(frames', k', solvers')
  BY <1>a, <1>b, <1>2, AddClauseSync DEF ClauseAdded
<1>3. ASSUME NEW i \in 1 .. k, NEW c \in frames[i], ClauseMoved(i, c)
      PROVE  Sync(frames', k', solvers')
  <2>1. i \in 0 .. k
    BY <1>a
  <2> QED BY <1>a, <1>b, <1>3, <2>1, MoveClauseSync DEF ClauseMoved
<1>4. CASE FrameOpened
  <2>1. \A j \in DOMAIN solvers : DeltaOf(Opened(frames), k + 1, j) = DeltaOf(frames, k, j)
    BY <1>a, OpenFrames DEF TypeInv, TypeOK
  <2> QED BY <1>a, <1>4, <2>1 DEF FrameOpened, Sync
<1> QED BY <1>0, <1>1, <1>2, <1>3, <1>4 DEF FrameChange

LEMMA NextFrames ==
  ASSUME design' = design, NEW j PROVE F(j)' = FrameOf(frames', k', j)
BY DEF F, Delta, FrameOf, DeltaOf

\* A frame never grows, from whatever state of the algorithm.
LEMMA FramesShrink ==
  FrameInv /\ [Next]_vars => k <= k' /\ \A j \in 0 .. k : F(j)' \subseteq F(j)
<1> SUFFICES ASSUME FrameInv, [Next]_vars
             PROVE  k <= k' /\ \A j \in 0 .. k : FrameOf(frames', k', j) \subseteq FrameOf(frames, k, j)
  BY FrameStep, NextFrames, FrameOfFrames
<1>a. k \in Nat /\ frames \in [0 .. k -> SUBSET Cube]
  BY DEF FrameInv, TypeInv, TypeOK
<1>1. CASE FramesKept
  BY <1>a, <1>1 DEF FramesKept
<1>2. ASSUME NEW level \in 0 .. k, NEW c \in Cube, ClauseAdded(level, c)
      PROVE  k <= k' /\ \A j \in 0 .. k : FrameOf(frames', k', j) \subseteq FrameOf(frames, k, j)
  <2>1. k' = k /\ frames' = AddToFrames(frames, level, c)
    BY <1>2 DEF ClauseAdded
  <2>2. ASSUME NEW j \in 0 .. k PROVE FrameOf(frames', k', j) \subseteq FrameOf(frames, k, j)
    BY <1>a, <2>1, AddClauseFrames
  <2> QED BY <1>a, <2>1, <2>2
<1>3. ASSUME NEW i \in 1 .. k, NEW c \in frames[i], ClauseMoved(i, c)
      PROVE  k <= k' /\ \A j \in 0 .. k : FrameOf(frames', k', j) \subseteq FrameOf(frames, k, j)
  <2>1. k' = k /\ frames' = MovedUp(frames, i, c) /\ i < k /\ i \in 0 .. k
    BY <1>a, <1>3 DEF ClauseMoved
  <2>2. ASSUME NEW j \in 0 .. k PROVE FrameOf(frames', k', j) \subseteq FrameOf(frames, k, j)
    BY <1>a, <2>1, MoveClauseFrames
  <2> QED BY <1>a, <2>1, <2>2
<1>4. CASE FrameOpened
  <2>1. \A j \in 0 .. k : FrameOf(frames', k', j) = FrameOf(frames, k, j)
    BY <1>a, <1>4, OpenFrames DEF FrameOpened
  <2> QED BY <1>a, <1>4, <2>1 DEF FrameOpened
<1> QED BY FrameStep, <1>1, <1>2, <1>3, <1>4 DEF FrameChange

\* Neither the clauses of generalize() and the CTG blocking nor those moved by
\* propagate() cut off an initial state or a successor.
LEMMA NextOverapproximate == FrameInv /\ [Next]_vars => FramesOverapproximate'
<1> DEFINE G(j) == FrameOf(frames', k', j)
<1> SUFFICES ASSUME FrameInv, [Next]_vars
             PROVE  /\ \A j \in 0 .. k' : LiveInit(design) \subseteq G(j)
                    /\ \A j \in 0 .. k' : j < k' =>
                         \A s \in G(j), t \in State : Step(design, s, t) => t \in G(j + 1)
  BY FrameStep, NextFrames DEF FramesOverapproximate
<1>a. k \in Nat /\ frames \in [0 .. k -> SUBSET Cube] /\ design \in Design
  BY DesignType DEF FrameInv, TypeInv, TypeOK
<1>b. /\ \A j \in 0 .. k : LiveInit(design) \subseteq FrameOf(frames, k, j)
      /\ \A j \in 0 .. k : j < k =>
           \A s \in FrameOf(frames, k, j), t \in State :
             Step(design, s, t) => t \in FrameOf(frames, k, j + 1)
  BY FrameOfFrames DEF FrameInv, FramesOverapproximate
<1>1. CASE FramesKept
  BY <1>1, <1>b DEF FramesKept
<1>2. ASSUME NEW level \in 0 .. k, NEW c \in Cube, ClauseAdded(level, c)
      PROVE  /\ \A j \in 0 .. k' : LiveInit(design) \subseteq G(j)
             /\ \A j \in 0 .. k' : j < k' =>
                  \A s \in G(j), t \in State : Step(design, s, t) => t \in G(j + 1)
  <2>1. k' = k /\ frames' = AddToFrames(frames, level, c) /\ Blockable(level, c)
    BY <1>2 DEF ClauseAdded
  <2>2. \A j \in 0 .. k : G(j) = IF j <= level THEN {s \in FrameOf(frames, k, j) : ~Sat(s, c)}
                                 ELSE FrameOf(frames, k, j)
    BY <1>a, <2>1, AddClauseFrames
  <2> HIDE DEF G
  <2>3. \A j \in 0 .. k' : LiveInit(design) \subseteq G(j)
    BY <1>b, <2>1, <2>2 DEF Blockable
  <2>4. ASSUME NEW j \in 0 .. k, j < k, NEW s \in G(j), NEW t \in State, Step(design, s, t)
        PROVE  t \in G(j + 1)
    <3>1. s \in FrameOf(frames, k, j) /\ j + 1 \in 0 .. k
      BY <1>a, <2>2, <2>4
    <3>2. t \in FrameOf(frames, k, j + 1)
      BY <1>b, <2>4, <3>1
    <3>3. CASE j + 1 <= level
      <4>1. j <= level /\ level > 0 /\ level - 1 \in j .. k
        BY <1>a, <3>3
      <4>2. ~Sat(s, c)
        BY <2>2, <4>1
      <4>3. s \in F(level - 1)
        BY <1>a, <3>1, <4>1, FramesMonotone, FrameOfFrames
      <4>4. ~Sat(t, c)
        BY <2>1, <2>4, <4>1, <4>2, <4>3 DEF Blockable
      <4> QED BY <2>2, <3>1, <3>2, <3>3, <4>4
    <3>4. CASE ~(j + 1 <= level)
      BY <2>2, <3>1, <3>2, <3>4
    <3> QED BY <3>3, <3>4
  <2> QED BY <2>1, <2>3, <2>4
<1>3. ASSUME NEW i \in 1 .. k, NEW c \in frames[i], ClauseMoved(i, c)
      PROVE  /\ \A j \in 0 .. k' : LiveInit(design) \subseteq G(j)
             /\ \A j \in 0 .. k' : j < k' =>
                  \A s \in G(j), t \in State : Step(design, s, t) => t \in G(j + 1)
  <2>1. k' = k /\ frames' = MovedUp(frames, i, c) /\ i < k /\ i \in 0 .. k /\ Pushable(i, c)
    BY <1>a, <1>3 DEF ClauseMoved
  <2>2. \A j \in 0 .. k : G(j) = IF j = i + 1 THEN {s \in FrameOf(frames, k, j) : ~Sat(s, c)}
                                 ELSE FrameOf(frames, k, j)
    BY <1>a, <2>1, MoveClauseFrames
  <2> HIDE DEF G
  <2>3. ASSUME NEW s \in FrameOf(frames, k, i) PROVE ~Sat(s, c)
    <3>1. c \in DeltaOf(frames, k, i)
      BY <1>a, <2>1 DEF DeltaOf
    <3> QED BY <3>1 DEF FrameOf
  <2>4. \A j \in 0 .. k' : LiveInit(design) \subseteq G(j)
    BY <1>b, <2>1, <2>2, <2>3
  <2>5. ASSUME NEW j \in 0 .. k, j < k, NEW s \in G(j), NEW t \in State, Step(design, s, t)
        PROVE  t \in G(j + 1)
    <3>1. s \in FrameOf(frames, k, j) /\ j + 1 \in 0 .. k
      BY <1>a, <2>2, <2>5
    <3>2. t \in FrameOf(frames, k, j + 1)
      BY <1>b, <2>5, <3>1
    <3>3. CASE j = i
      <4>1. s \in S(i)
        BY <2>1, <3>1, <3>3, SolverIsFrame, FrameOfFrames DEF FrameInv
      <4>2. PICK x \in Inputs : <<s, x>> \in design.constraint /\ t = design.next[<<s, x>>]
        BY <2>5 DEF Step
      <4>3. ~Sat(t, c)
        BY <2>1, <4>1, <4>2 DEF Pushable
      <4> QED BY <2>2, <3>1, <3>2, <4>3
    <3>4. CASE j # i
      <4>1. j + 1 # i + 1
        BY <1>a, <2>1, <3>4
      <4> QED BY <2>2, <3>1, <3>2, <4>1
    <3> QED BY <3>3, <3>4
  <2> QED BY <2>1, <2>4, <2>5
<1>4. CASE FrameOpened
  <2>1. k' = k + 1 /\ G(k + 1) = State /\ \A j \in 0 .. k : G(j) = FrameOf(frames, k, j)
    BY <1>a, <1>4, OpenFrames DEF FrameOpened
  <2> HIDE DEF G
  <2>2. LiveInit(design) \subseteq State
    BY <1>a DEF LiveInit, Design
  <2>3. \A j \in 0 .. k + 1 : j = k + 1 \/ j \in 0 .. k
    BY <1>a
  <2>4. \A j \in 0 .. k : j < k => j + 1 \in 0 .. k
    BY <1>a
  <2>5. \A j \in 0 .. k + 1 : j < k + 1 => j \in 0 .. k /\ (j < k \/ j + 1 = k + 1)
    BY <1>a
  <2> QED BY <1>b, <2>1, <2>2, <2>3, <2>4, <2>5
<1> QED BY FrameStep, <1>1, <1>2, <1>3, <1>4 DEF FrameChange

\* The frames below the frontier stay safe, and solve_bad's answer makes the
\* frontier safe before propagate() starts.
LEMMA NextSafe == FrameInv /\ [Next]_vars => FramesSafe'
<1> SUFFICES ASSUME FrameInv, [Next]_vars,
                    NEW j \in 0 .. k', j < k' \/ pc' = "propagate", NEW s \in F(j)'
             PROVE  ~Bad(design, s)
  BY FrameStep DEF FramesSafe
<1>a. k \in Nat /\ frames \in [0 .. k -> SUBSET Cube] /\ TypeInv /\ FramesSafe
  BY DEF FrameInv, TypeInv, TypeOK
<1>b. k' = k \/ FrameOpened
  BY FrameStep DEF FrameChange, FramesKept, ClauseAdded, ClauseMoved
<1>c. ASSUME j \in 0 .. k PROVE s \in F(j)
  BY <1>c, FramesShrink
<1>1. CASE InitiallyGood
  <2>1. k = 0 /\ k' = 1 /\ pc' = "bad"
    BY <1>1, <1>a DEF InitiallyGood, NewFrame, TypeInv, Bounds
  <2>2. j = 0
    BY <1>1, <2>1
  <2>3. s \in design.init
    BY <1>c, <2>1, <2>2 DEF F
  <2>4. ASSUME Bad(design, s) PROVE s \in LiveInit(design)
    BY <2>3, <2>4 DEF Bad, LiveInit
  <2> QED BY <1>1, <2>4 DEF InitiallyGood
<1>2. CASE FrontierSafe
  <2>1. k' = k /\ k \in 0 .. k /\ s \in F(j) /\ BadModels(k) = {}
    BY <1>2, <1>a, <1>c DEF FrontierSafe
  <2>2. CASE j < k
    BY <1>a, <2>1, <2>2 DEF FramesSafe
  <2>3. CASE j = k
    <3>1. s \in S(k)
      BY <2>1, <2>3, SolverIsFrame DEF FrameInv
    <3> QED BY <2>1, <3>1 DEF BadModels, Bad
  <2> QED BY <1>a, <2>1, <2>2, <2>3
<1>3. CASE NotConverged
  <2>1. k' = k + 1 /\ pc = "propagate" /\ pc' = "bad"
    BY <1>3 DEF NotConverged, NewFrame
  <2>2. j \in 0 .. k
    BY <1>a, <2>1
  <2> QED BY <1>a, <1>c, <2>1, <2>2 DEF FramesSafe
<1>4. CASE k' = k /\ (pc' = "propagate" => pc = "propagate")
  BY <1>4, <1>a, <1>c DEF FramesSafe
<1>5. (k' = k /\ (pc' = "propagate" => pc = "propagate")) \/ InitiallyGood \/ FrontierSafe \/ NotConverged
  BY DEF Next, vars, InitiallyBad, BadCube, QueueEmpty, DropBlocked, Refute, Predecessor,
    StartGeneralize, DropLiteral, BlockCube, DownHitsInit, DownSucceeds, DownBlocksCTG, DownJoins,
    PropagateClause, NextLevel, Converged, Terminated, Finish
<1> QED BY <1>1, <1>2, <1>3, <1>4, <1>5

\* propagate()'s copy stays a part of the frame while it works through it, and
\* ctg_down() only shrinks its candidate.
LEMMA NextLocals == FrameInv /\ [Next]_vars => LocalsInStep'
<1> SUFFICES ASSUME FrameInv, [Next]_vars PROVE LocalsInStep'
  OBVIOUS
<1>a. TypeInv /\ LocalsInStep
  BY DEF FrameInv
<1>1. CASE FrontierSafe
  BY <1>1 DEF FrontierSafe, LocalsInStep
<1>2. CASE DropLiteral
  BY <1>2, <1>a DEF DropLiteral, LocalsInStep, TypeInv, TypeOK, Mic
<1>3. CASE DownBlocksCTG
  BY <1>3, <1>a DEF DownBlocksCTG, LocalsInStep, TypeInv, TypeOK, Mic
<1>4. CASE DownJoins
  <2>1. PICK m \in Predecessors(DownLevel, mic.cand) :
          \/ pc' = "generalize"
          \/ mic' = [mic EXCEPT !.cand = mic.cand \cap FullCube(m[1]), !.joins = @ + 1]
    BY <1>4 DEF DownJoins
  <2>2. pc = "down" /\ pc' \in {"down", "generalize"}
    BY <1>4 DEF DownJoins
  <2>3. CASE mic' = [mic EXCEPT !.cand = mic.cand \cap FullCube(m[1]), !.joins = @ + 1]
    <3>1. mic'.cand \subseteq mic.cand /\ mic'.cube = mic.cube
      BY <1>a, <2>3 DEF TypeInv, TypeOK, Mic
    <3> QED BY <1>a, <2>2, <3>1 DEF LocalsInStep
  <2> QED BY <2>1, <2>2, <2>3 DEF LocalsInStep
<1>5. CASE PropagateClause
  <2>1. todo.i \in 1 .. k /\ todo.i + 1 \in 0 .. k /\ todo.i \in 0 .. k /\ todo.i # todo.i + 1
    BY <1>5, <1>a DEF PropagateClause, TypeInv, TypeOK, Bounds
  <2>2. PICK c \in todo.clauses :
          /\ todo' = [todo EXCEPT !.clauses = @ \ {c}]
          /\ frames' = MovedUp(frames, todo.i, c) \/ frames' = frames
    BY <1>5 DEF PropagateClause, MovedUp
  <2>3. todo'.i = todo.i /\ todo'.clauses = todo.clauses \ {c}
    BY <1>a, <2>2 DEF TypeInv, TypeOK, ClausesTodo
  <2>4. frames[todo.i] \ {c} \subseteq frames'[todo.i]
    BY <1>a, <2>1, <2>2 DEF MovedUp, TypeInv, TypeOK
  <2>5. todo.clauses \subseteq frames[todo.i]
    BY <1>5, <1>a DEF PropagateClause, LocalsInStep
  <2> QED BY <1>5, <2>3, <2>4, <2>5 DEF LocalsInStep, PropagateClause
<1>6. CASE NextLevel
  BY <1>6 DEF NextLevel, LocalsInStep
<1>7. CASE pc' \notin {"propagate", "down"}
  BY <1>7 DEF LocalsInStep
<1>8. CASE UNCHANGED vars
  BY <1>8, <1>a DEF vars, LocalsInStep
<1>9. \/ FrontierSafe \/ DropLiteral \/ DownBlocksCTG \/ DownJoins \/ PropagateClause
      \/ NextLevel \/ UNCHANGED vars \/ pc' \notin {"propagate", "down"}
  BY DEF Next, InitiallyBad, InitiallyGood, BadCube, QueueEmpty, DropBlocked, Refute, Predecessor,
    StartGeneralize, BlockCube, DownHitsInit, DownSucceeds, Converged, NotConverged, NewFrame,
    Terminated, Finish
<1> QED BY <1>1, <1>2, <1>3, <1>4, <1>5, <1>6, <1>7, <1>8, <1>9

\* The cube of generalize() may be blocked after every iteration.
LEMMA NextGeneralized == FrameInv /\ [Next]_vars => GeneralizedCubeIsInductive'
<1> SUFFICES ASSUME FrameInv, [Next]_vars PROVE GeneralizedCubeIsInductive'
  OBVIOUS
<1>c. design' = design
  BY FrameStep
<1>d. F(DownLevel)' = FrameOf(frames', k', mic'.ob.level - 1)
  BY <1>c DEF F, Delta, FrameOf, DeltaOf, DownLevel
<1> SUFFICES ASSUME pc' \in {"generalize", "down"}
             PROVE  /\ mic'.cube \subseteq mic'.ob.cube
                    /\ \A s \in LiveInit(design) : ~Sat(s, mic'.cube)
                    /\ \A s \in FrameOf(frames', k', mic'.ob.level - 1), t \in State :
                         ~Sat(s, mic'.cube) /\ Step(design, s, t) => ~Sat(t, mic'.cube)
  BY <1>c, <1>d DEF GeneralizedCubeIsInductive
<1>a. TypeInv /\ Sync(frames, k, solvers) /\ k \in Nat /\ mic \in Mic /\ NoMic \in Mic
  BY DEF FrameInv, TypeInv, TypeOK, NoMic, Mic, Obligation, Cube
<1>b. \A j \in 0 .. k : FrameOf(frames', k', j) \subseteq F(j)
  BY FramesShrink, FrameStep, NextFrames
<1>1. CASE StartGeneralize
  <2>1. PICK ob \in obligations :
          /\ ob.level > 0
          /\ \E core \in Cores(ob.level - 1, ob.cube) : \E before \in Orders(core) :
               mic' = [NoMic EXCEPT !.ob = ob, !.cube = core, !.before = before, !.budget = CtgMax]
    BY <1>1 DEF StartGeneralize
  <2>2. PICK core \in Cores(ob.level - 1, ob.cube) : \E before :
          mic' = [NoMic EXCEPT !.ob = ob, !.cube = core, !.before = before, !.budget = CtgMax]
    BY <2>1
  <2>3. ob.level - 1 \in 0 .. k /\ ob.cube \in Cube
    BY <1>a, <2>1 DEF TypeInv, TypeOK, Bounds, Obligation
  <2>4. mic'.cube = core /\ mic'.ob = ob
    BY <2>2 DEF NoMic
  <2>5. /\ core \subseteq ob.cube
        /\ \A s \in LiveInit(design) : ~Sat(s, core)
        /\ \A s \in F(ob.level - 1), t \in State :
              ~Sat(s, core) /\ Step(design, s, t) => ~Sat(t, core)
    BY <1>a, <2>3, CoreBlockable
  <2>6. FrameOf(frames', k', ob.level - 1) \subseteq F(ob.level - 1)
    BY <1>b, <2>3, <2>4
  <2> QED BY <2>4, <2>5, <2>6
<1>2. ASSUME pc \in {"generalize", "down"}
      PROVE  /\ DownLevel \in 0 .. k
             /\ mic.cube \subseteq mic.ob.cube
             /\ \A s \in LiveInit(design) : ~Sat(s, mic.cube)
             /\ \A s \in F(DownLevel), t \in State :
                  ~Sat(s, mic.cube) /\ Step(design, s, t) => ~Sat(t, mic.cube)
  <2>1. DownLevel \in 0 .. k
    BY <1>2, <1>a DEF TypeInv, Bounds, DownLevel
  <2> QED BY <1>2, <2>1 DEF GeneralizedCubeIsInductive, FrameInv
<1>3. CASE DownSucceeds
  <2>0. pc = "down" /\ mic.cand \subseteq mic.cube
    BY <1>3 DEF DownSucceeds, FrameInv, LocalsInStep
  <2>1. PICK c \in SUBSET mic.cand, core \in Cores(DownLevel, mic.cand) :
          mic' = [mic EXCEPT !.cube = core, !.before = Appended(@, c, core), !.fails = 0,
                             !.cand = {}, !.joins = 0]
    BY <1>3 DEF DownSucceeds, Cores, Conflicts
  <2>2. mic'.cube = core /\ mic'.ob = mic.ob
    BY <1>a, <2>1 DEF Mic
  <2>3. mic.cand \in Cube
    BY <1>a DEF Mic
  <2>4. /\ core \subseteq mic.cand
        /\ \A s \in LiveInit(design) : ~Sat(s, core)
        /\ \A s \in F(DownLevel), t \in State :
              ~Sat(s, core) /\ Step(design, s, t) => ~Sat(t, core)
    BY <1>a, <1>2, <2>0, <2>3, CoreBlockable
  <2>5. FrameOf(frames', k', mic'.ob.level - 1) \subseteq F(DownLevel)
    BY <1>b, <1>2, <2>0, <2>2 DEF DownLevel
  <2> QED BY <1>2, <2>0, <2>2, <2>4, <2>5
<1>4. CASE pc \in {"generalize", "down"} /\ mic'.cube = mic.cube /\ mic'.ob = mic.ob
  <2>1. FrameOf(frames', k', mic'.ob.level - 1) \subseteq F(DownLevel)
    BY <1>b, <1>2, <1>4 DEF DownLevel
  <2> QED BY <1>2, <1>4, <2>1
<1>5. StartGeneralize \/ DownSucceeds
      \/ (pc \in {"generalize", "down"} /\ mic'.cube = mic.cube /\ mic'.ob = mic.ob)
  <2>1. DownFails.cube = mic.cube /\ DownFails.ob = mic.ob
    BY <1>a DEF DownFails, Mic
  <2>2. CASE DropLiteral
    BY <1>a, <2>2 DEF DropLiteral, Mic
  <2>3. CASE DownHitsInit
    BY <2>1, <2>3 DEF DownHitsInit
  <2>4. CASE DownBlocksCTG
    BY <1>a, <2>4 DEF DownBlocksCTG, Mic
  <2>5. CASE DownJoins
    <3>1. PICK m \in Predecessors(DownLevel, mic.cand) :
            \/ mic' = DownFails
            \/ mic' = [mic EXCEPT !.cand = mic.cand \cap FullCube(m[1]), !.joins = @ + 1]
      BY <2>5 DEF DownJoins
    <3>2. CASE mic' = DownFails
      BY <2>1, <2>5, <3>2 DEF DownJoins
    <3>3. CASE mic' = [mic EXCEPT !.cand = mic.cand \cap FullCube(m[1]), !.joins = @ + 1]
      BY <1>a, <2>5, <3>3 DEF DownJoins, Mic
    <3> QED BY <3>1, <3>2, <3>3
  <2>6. CASE UNCHANGED vars
    BY <2>6 DEF vars
  <2> QED
    BY <2>2, <2>3, <2>4, <2>5, <2>6 DEF Next, InitiallyBad, InitiallyGood, BadCube, FrontierSafe,
      QueueEmpty, DropBlocked, Refute, Predecessor, BlockCube, PropagateClause,
      NextLevel, Converged, NotConverged, NewFrame, Terminated, Finish
<1> QED BY <1>1, <1>3, <1>4, <1>5

\* An empty frame below the frontier is an inductive invariant that excludes the
\* bad states.
LEMMA ConvergedHolds ==
  ASSUME FrameInv, NEW i \in 1 .. k, i < k, frames[i] = {}
  PROVE  Holds(design)
<1>a. k \in Nat /\ i \in 0 .. k /\ i + 1 \in 0 .. k
  BY DEF FrameInv, TypeInv, TypeOK
<1>1. F(i + 1) = F(i)
  <2>1. i .. k = {i} \cup ((i + 1) .. k)
    BY <1>a
  <2>2. Delta(i) = Delta(i + 1)
    BY <2>1 DEF Delta
  <2> QED BY <1>a, <2>2 DEF F
<1>2. LiveInit(design) \subseteq F(i)
  BY <1>a DEF FrameInv, FramesOverapproximate
<1>3. Closed(design, F(i))
  BY <1>a, <1>1 DEF FrameInv, FramesOverapproximate, Closed
<1>4. \A s \in F(i) : ~Bad(design, s)
  BY <1>a DEF FrameInv, FramesSafe
<1>5. F(i) \in SUBSET State
  BY DEF F
<1>6. Reachable(design) \subseteq F(i)
  BY <1>2, <1>3, <1>5 DEF Reachable
<1> QED BY <1>4, <1>6 DEF Holds

LEMMA NextProved == FrameInv /\ [Next]_vars => ProvedIsSound'
<1> SUFFICES ASSUME FrameInv, [Next]_vars, result'.outcome = "PROVED" PROVE Holds(design)
  BY FrameStep DEF ProvedIsSound
<1>1. CASE Converged
  <2>1. todo.i \in 1 .. k /\ todo.i < k /\ frames[todo.i] = {}
    BY <1>1 DEF Converged, FrameInv, TypeInv, Bounds
  <2> QED BY <2>1, ConvergedHolds
<1>2. CASE result' = result
  BY <1>2 DEF FrameInv, ProvedIsSound
<1>a. ~InitiallyBad /\ ~Refute
  BY DEF InitiallyBad, Refute, Finish, Refuted
<1>3. Converged \/ result' = result
  BY <1>a DEF Next, vars, InitiallyGood, BadCube, FrontierSafe, QueueEmpty, DropBlocked,
    Predecessor, StartGeneralize, DropLiteral, BlockCube, DownHitsInit, DownSucceeds,
    DownBlocksCTG, DownJoins, PropagateClause, NextLevel, NotConverged, Terminated
<1> QED BY <1>1, <1>2, <1>3

LEMMA InitFrameInv == Init => FrameInv
<1> SUFFICES ASSUME Init PROVE FrameInv
  OBVIOUS
<1>1. TypeInv
  BY InitTypeInv
<1>2. design \in Design
  BY DesignsAssumption DEF Init
<1>3. Delta(0) = {} /\ k = 0
  BY DEF Init, Delta
<1>4. FramesOverapproximate
  BY <1>2, <1>3 DEF FramesOverapproximate, F, LiveInit, Design
<1> QED BY <1>1, <1>4 DEF Init, FrameInv, Sync, LocalsInStep, FramesSafe,
             GeneralizedCubeIsInductive, ProvedIsSound, Running

LEMMA NextFrameInv == FrameInv /\ [Next]_vars => FrameInv'
<1>1. FrameInv /\ [Next]_vars => TypeInv'
  BY NextTypeInv DEF FrameInv
<1> QED BY <1>1, NextSync, NextLocals, NextOverapproximate, NextSafe, NextGeneralized, NextProved
        DEF FrameInv

-----------------------------------------------------------------------------
\* The theorems.

\* The frames over-approximate at every step, whatever the SAT solver returns and
\* for designs with constraints as well: they hold the initial states, and each is
\* closed into the next.
THEOREM FramesSound == Spec => []FramesOverapproximate
<1>1. FrameInv => FramesOverapproximate
  BY DEF FrameInv
<1> QED BY <1>1, InitFrameInv, NextFrameInv, PTL DEF Spec

\* No frame below the frontier holds a bad state: a frame is opened only after the
\* bad-state query of the last one has no model, and no later step adds a state.
THEOREM FramesExcludeBad == Spec => []FramesSafe
<1>1. FrameInv => FramesSafe
  BY DEF FrameInv
<1> QED BY <1>1, InitFrameInv, NextFrameInv, PTL DEF Spec

\* The lazily built, hand-updated solvers never go stale.
THEOREM SolversNeverStale == Spec => []SolversMatchFrames
<1>1. FrameInv => SolversMatchFrames
  <2> SUFFICES ASSUME FrameInv, NEW j \in DOMAIN solvers PROVE S(j) = F(j)
    BY DEF SolversMatchFrames
  <2>1. j \in 0 .. k
    BY DEF FrameInv, TypeInv, TypeOK
  <2> QED BY <2>1, SolverIsFrame DEF FrameInv
<1> QED BY <1>1, InitFrameInv, NextFrameInv, PTL DEF Spec

\* generalize() may block what it returns.
THEOREM GeneralizeSound == Spec => []GeneralizedCubeIsInductive
<1>1. FrameInv => GeneralizedCubeIsInductive
  BY DEF FrameInv
<1> QED BY <1>1, InitFrameInv, NextFrameInv, PTL DEF Spec

\* PROVED is the truth, for every design, constrained or not.
THEOREM ProvedSound == Spec => []ProvedIsSound
<1>1. FrameInv => ProvedIsSound
  BY DEF FrameInv
<1> QED BY <1>1, InitFrameInv, NextFrameInv, PTL DEF Spec

\* No step of the algorithm makes a frame weaker.
THEOREM FramesShrinkAlways == Spec => FramesOnlyShrink
<1>1. FrameInv /\ [Next]_vars =>
        [\A j \in 0 .. k : {s \in State : s \in F(j)'} \subseteq F(j)]_vars
  BY FramesShrink
<1> QED BY <1>1, InitFrameInv, NextFrameInv, PTL DEF Spec, FramesOnlyShrink

-----------------------------------------------------------------------------
(***************************************************************************)
(* REFUTED.  The lifting solver also refutes states because they break the *)
(* constraint, so a lifted cube is a set of states that run into the bad   *)
(* states only when the design has no constraint.                          *)
(***************************************************************************)

Unconstrained == \A d \in Designs : d.constraint = State \X Inputs

CubeReachesBad(ob) == \A s \in State : Sat(s, ob.cube) => ReachesBad(s, ob.depth)

RefuteInv ==
  /\ TypeInv
  /\ ObligationsReachBad
  /\ pc \in {"generalize", "down"} => CubeReachesBad(mic.ob)
  /\ RefutedIsGenuine

\* A bad state reaches a bad state in no step.
LEMMA BadReachesBad ==
  ASSUME NEW s \in State, Bad(design, s) PROVE ReachesBad(s, 0)
<1> DEFINE path == [n \in 0 .. 0 |-> s]
<1>1. path \in [0 .. 0 -> State] /\ path[0] = s
  OBVIOUS
<1>2. IsPath(design, path, 0)
  BY DEF IsPath
<1> QED BY <1>1, <1>2 DEF ReachesBad

\* A predecessor reaches a bad state in one step more.
LEMMA PredecessorReachesBad ==
  ASSUME NEW s \in State, NEW t \in State, NEW n \in Nat,
         Step(design, s, t), ReachesBad(t, n)
  PROVE  ReachesBad(s, n + 1)
<1>1. PICK path \in [0 .. n -> State] :
        path[0] = t /\ IsPath(design, path, n) /\ Bad(design, path[n])
  BY DEF ReachesBad
<1> DEFINE longer == [m \in 0 .. (n + 1) |-> IF m = 0 THEN s ELSE path[m - 1]]
<1>2. \A m \in 1 .. (n + 1) : m - 1 \in 0 .. n /\ m # 0 /\ m \in 0 .. (n + 1)
  OBVIOUS
<1>3. longer \in [0 .. (n + 1) -> State]
  BY <1>1, <1>2
<1>4. longer[0] = s /\ longer[n + 1] = path[n]
  BY <1>2
<1>5. IsPath(design, longer, n + 1)
  <2>1. SUFFICES ASSUME NEW j \in 0 .. (n + 1), j < n + 1
                 PROVE  Step(design, longer[j], longer[j + 1])
    BY DEF IsPath
  <2>2. j + 1 \in 1 .. (n + 1) /\ (j + 1) - 1 = j
    BY <2>1
  <2>3. longer[j + 1] = path[j]
    BY <1>2, <2>2
  <2>4. CASE j = 0
    BY <1>1, <1>4, <2>3, <2>4
  <2>5. CASE j # 0
    <3>1. j - 1 \in 0 .. n /\ j - 1 < n /\ (j - 1) + 1 = j
      BY <2>1, <2>5
    <3>2. Step(design, path[j - 1], path[j])
      BY <1>1, <3>1 DEF IsPath
    <3>3. longer[j] = path[j - 1]
      BY <2>1, <2>5
    <3> QED BY <2>3, <3>2, <3>3
  <2> QED BY <2>4, <2>5
<1> HIDE DEF longer
<1> QED BY <1>1, <1>3, <1>4, <1>5 DEF ReachesBad

\* A trace from an initial state is a counterexample of one state more than it
\* has transitions.
LEMMA ReachesBadIsCounterexample ==
  ASSUME NEW s \in LiveInit(design), NEW n \in Nat, ReachesBad(s, n)
  PROVE  Counterexample(design, n + 1)
<1>1. (n + 1) - 1 = n
  OBVIOUS
<1> QED BY <1>1 DEF ReachesBad, Counterexample

\* Lifted cubes, when there is no constraint.
LEMMA LiftedBadReachesBad ==
  ASSUME design \in Design, design.constraint = State \X Inputs,
         NEW c \in LiftedBad(k), NEW s \in State, Sat(s, c)
  PROVE  ReachesBad(s, 0)
<1>1. PICK m \in BadModels(k) :
        \A t \in State :
          Sat(t, c) /\ <<t, m[2]>> \in design.constraint => <<t, m[2]>> \notin design.property
  BY DEF LiftedBad, Lift
<1>2. m[2] \in Inputs
  BY DEF BadModels
<1>3. Bad(design, s)
  BY <1>1, <1>2 DEF Bad
<1> QED BY <1>3, BadReachesBad

LEMMA LiftedPredecessorReachesBad ==
  ASSUME design \in Design, design.constraint = State \X Inputs,
         NEW level, NEW ob \in Obligation, CubeReachesBad(ob),
         NEW c \in LiftedPredecessors(level, ob.cube), NEW s \in State, Sat(s, c)
  PROVE  ReachesBad(s, ob.depth + 1)
<1>1. PICK m \in Predecessors(level, ob.cube) :
        \A t \in State :
          Sat(t, c) /\ <<t, m[2]>> \in design.constraint => Sat(design.next[<<t, m[2]>>], ob.cube)
  BY DEF LiftedPredecessors, Lift
<1>2. m[2] \in Inputs
  BY DEF Predecessors
<1> DEFINE t == design.next[<<s, m[2]>>]
<1>3. t \in State
  BY <1>2 DEF Design
<1>4. Step(design, s, t)
  BY <1>2 DEF Step
<1>5. Sat(t, ob.cube)
  BY <1>1, <1>2
<1>6. ReachesBad(t, ob.depth)
  BY <1>3, <1>5 DEF CubeReachesBad
<1>7. ob.depth \in Nat
  BY DEF Obligation
<1> HIDE DEF t
<1> QED BY <1>3, <1>4, <1>6, <1>7, PredecessorReachesBad

LEMMA InitRefuteInv == Init => RefuteInv
BY InitTypeInv DEF Init, RefuteInv, ObligationsReachBad, RefutedIsGenuine, Running

LEMMA NextRefuteInv ==
  ASSUME Unconstrained PROVE RefuteInv /\ [Next]_vars => RefuteInv'
<1> SUFFICES ASSUME RefuteInv, [Next]_vars PROVE RefuteInv'
  OBVIOUS
<1>a. /\ TypeInv /\ design \in Design /\ design.constraint = State \X Inputs
      /\ k \in Nat /\ mic \in Mic
  BY DesignType DEF RefuteInv, TypeInv, TypeOK, Unconstrained
<1>b. TypeInv'
  BY <1>a, NextTypeInv
<1>c. design' = design
  BY DEF Next, vars, InitiallyBad, InitiallyGood, BadCube, FrontierSafe, QueueEmpty, DropBlocked,
    Refute, Predecessor, StartGeneralize, DropLiteral, BlockCube, DownHitsInit, DownSucceeds,
    DownBlocksCTG, DownJoins, PropagateClause, NextLevel, Converged, NotConverged, Terminated
<1>d. \A s, n : ReachesBad(s, n)' = ReachesBad(s, n)
  BY <1>c DEF ReachesBad
<1>e. \A ob : CubeReachesBad(ob)' = CubeReachesBad(ob)
  BY <1>d DEF CubeReachesBad
<1>f. \A ob \in obligations : CubeReachesBad(ob) /\ ob \in Obligation
  BY <1>a DEF RefuteInv, ObligationsReachBad, CubeReachesBad, TypeInv, TypeOK
<1> DEFINE Goal == /\ \A ob \in obligations' : CubeReachesBad(ob)
                   /\ pc' \in {"generalize", "down"} => CubeReachesBad(mic'.ob)
                   /\ result'.outcome = "REFUTED" => Counterexample(design, result'.length)
<1>0. SUFFICES Goal
  <2>1. ASSUME Goal PROVE ObligationsReachBad'
    BY <1>d, <2>1 DEF ObligationsReachBad, CubeReachesBad
  <2>2. ASSUME Goal PROVE (pc \in {"generalize", "down"} => CubeReachesBad(mic.ob))'
    BY <1>d, <2>2 DEF CubeReachesBad
  <2>3. ASSUME Goal PROVE RefutedIsGenuine'
    BY <1>c, <2>3 DEF RefutedIsGenuine
  <2> QED BY <1>b, <2>1, <2>2, <2>3 DEF RefuteInv
<1>g. result.outcome = "REFUTED" => Counterexample(design, result.length)
  BY DEF RefuteInv, RefutedIsGenuine
<1>1. CASE InitiallyBad
  <2>1. PICK s \in LiveInit(design) : Bad(design, s)
    BY <1>1 DEF InitiallyBad
  <2>2. s \in State
    BY <1>a DEF LiveInit, Design
  <2>3. Counterexample(design, 0 + 1)
    BY <2>1, <2>2, BadReachesBad, ReachesBadIsCounterexample
  <2>4. result'.length = 0 + 1
    BY <1>1 DEF InitiallyBad, Finish, Refuted
  <2>5. pc' = "done" /\ obligations' = obligations
    BY <1>1 DEF InitiallyBad, Finish
  <2> QED BY <1>f, <2>3, <2>4, <2>5
<1>2. CASE BadCube
  <2>1. PICK c \in LiftedBad(k) : obligations' = {[cube |-> c, level |-> k, depth |-> 0]}
    BY <1>2 DEF BadCube
  <2>2. CubeReachesBad([cube |-> c, level |-> k, depth |-> 0])
    BY <1>a, LiftedBadReachesBad DEF CubeReachesBad
  <2> QED BY <1>2, <1>g, <2>1, <2>2 DEF BadCube
<1>3. CASE Refute
  <2>1. PICK ob \in obligations : InitIntersects(ob.cube) /\ result' = Refuted(ob.depth + 1)
    BY <1>3 DEF Refute, Finish
  <2>2. ob.cube \in Cube /\ ob.depth \in Nat
    BY <1>f DEF Obligation
  <2>3. PICK s \in LiveInit(design) : Sat(s, ob.cube)
    BY <1>a, <2>1, <2>2, InitIntersectsExact
  <2>4. s \in State
    BY <1>a DEF LiveInit, Design
  <2>5. Counterexample(design, ob.depth + 1)
    BY <1>f, <2>2, <2>3, <2>4, ReachesBadIsCounterexample DEF CubeReachesBad
  <2>6. result'.length = ob.depth + 1 /\ pc' = "done" /\ obligations' \subseteq obligations
    BY <1>3, <2>1 DEF Refute, Finish, Refuted
  <2> QED BY <1>f, <2>5, <2>6
<1>4. CASE Predecessor
  <2>1. PICK ob \in obligations : IF ob.level = 0 THEN BlockAtZero(ob) ELSE PushPredecessor(ob)
    BY <1>4 DEF Predecessor
  <2>2. \A o \in obligations' : CubeReachesBad(o)
    <3>1. CASE ob.level = 0
      BY <1>f, <2>1, <3>1 DEF BlockAtZero
    <3>2. CASE ob.level # 0
      <4>1. PICK p \in LiftedPredecessors(ob.level - 1, ob.cube) :
              obligations' = obligations \cup
                {[cube |-> p, level |-> ob.level - 1, depth |-> ob.depth + 1]}
        BY <2>1, <3>2 DEF PushPredecessor
      <4>2. CubeReachesBad([cube |-> p, level |-> ob.level - 1, depth |-> ob.depth + 1])
        BY <1>a, <1>f, LiftedPredecessorReachesBad DEF CubeReachesBad
      <4> QED BY <1>f, <4>1, <4>2
    <3> QED BY <3>1, <3>2
  <2>3. pc' = "block" /\ result' = result
    BY <1>4 DEF Predecessor
  <2> QED BY <1>g, <2>2, <2>3
<1>5. CASE StartGeneralize
  <2>1. PICK ob \in obligations :
          /\ \E core \in Cores(ob.level - 1, ob.cube) : \E before \in Orders(core) :
               mic' = [NoMic EXCEPT !.ob = ob, !.cube = core, !.before = before, !.budget = CtgMax]
          /\ obligations' = obligations \ {ob}
    BY <1>5 DEF StartGeneralize
  <2>2. mic'.ob = ob
    BY <2>1 DEF NoMic
  <2>3. result' = result
    BY <1>5 DEF StartGeneralize
  <2> QED BY <1>f, <1>g, <2>1, <2>2, <2>3
<1>6. CASE BlockCube
  <2>1. CubeReachesBad(mic.ob) /\ mic.ob \in Obligation
    BY <1>6, <1>a DEF BlockCube, RefuteInv, Mic
  <2>2. CubeReachesBad([mic.ob EXCEPT !.level = @ + 1])
    <3>1. /\ [mic.ob EXCEPT !.level = @ + 1].cube = mic.ob.cube
          /\ [mic.ob EXCEPT !.level = @ + 1].depth = mic.ob.depth
      BY <2>1 DEF Obligation
    <3> QED BY <2>1, <3>1 DEF CubeReachesBad
  <2>3. obligations' \subseteq obligations \cup {[mic.ob EXCEPT !.level = @ + 1]}
    BY <1>6 DEF BlockCube
  <2>4. pc' = "block" /\ result' = result
    BY <1>6 DEF BlockCube
  <2> QED BY <1>f, <1>g, <2>2, <2>3, <2>4
<1>7. CASE /\ obligations' \subseteq obligations
           /\ result' = result \/ result' = Proved
           /\ pc' \in {"generalize", "down"} => pc \in {"generalize", "down"} /\ mic'.ob = mic.ob
  BY <1>7, <1>f, <1>g DEF RefuteInv, Proved
<1>8. \/ InitiallyBad \/ BadCube \/ Refute \/ Predecessor \/ StartGeneralize \/ BlockCube
      \/ /\ obligations' \subseteq obligations
         /\ result' = result \/ result' = Proved
         /\ pc' \in {"generalize", "down"} => pc \in {"generalize", "down"} /\ mic'.ob = mic.ob
  <2>1. DownFails.ob = mic.ob
    BY <1>a DEF DownFails, Mic
  <2>2. CASE DropLiteral
    BY <1>a, <2>2 DEF DropLiteral, Mic
  <2>3. CASE DownHitsInit
    BY <2>1, <2>3 DEF DownHitsInit
  <2>4. CASE DownSucceeds
    BY <1>a, <2>4 DEF DownSucceeds, Mic
  <2>5. CASE DownBlocksCTG
    BY <1>a, <2>5 DEF DownBlocksCTG, Mic
  <2>6. CASE DownJoins
    <3>1. PICK m \in Predecessors(DownLevel, mic.cand) :
            \/ mic' = DownFails
            \/ mic' = [mic EXCEPT !.cand = mic.cand \cap FullCube(m[1]), !.joins = @ + 1]
      BY <2>6 DEF DownJoins
    <3>2. mic'.ob = mic.ob
      BY <1>a, <2>1, <3>1 DEF Mic
    <3> QED BY <2>6, <3>2 DEF DownJoins
  <2>7. CASE UNCHANGED vars
    BY <2>7 DEF vars
  <2> QED
    BY <2>2, <2>3, <2>4, <2>5, <2>6, <2>7 DEF Next, InitiallyGood, FrontierSafe,
      QueueEmpty, DropBlocked, PropagateClause, NextLevel, Converged, NotConverged,
      NewFrame, Terminated, Finish
<1> QED BY <1>1, <1>2, <1>3, <1>4, <1>5, <1>6, <1>7, <1>8

\* The trace is genuine, for designs without constraints: REFUTED(n) is returned
\* only if a trace of n states leads from an initial state to a violation.
THEOREM RefutedGenuine == ASSUME Unconstrained PROVE Spec => []RefutedIsGenuine
<1>1. RefuteInv => RefutedIsGenuine
  BY DEF RefuteInv
<1>2. RefuteInv /\ [Next]_vars => RefuteInv'
  BY NextRefuteInv
<1> QED BY <1>1, <1>2, InitRefuteInv, PTL DEF Spec

\* The depth an obligation carries is the distance of its cube from a violation.
THEOREM ObligationDepths == ASSUME Unconstrained PROVE Spec => []ObligationsReachBad
<1>1. RefuteInv => ObligationsReachBad
  BY DEF RefuteInv
<1>2. RefuteInv /\ [Next]_vars => RefuteInv'
  BY NextRefuteInv
<1> QED BY <1>1, <1>2, InitRefuteInv, PTL DEF Spec

-----------------------------------------------------------------------------
\* An obligation at level 0 refutes.

LevelZeroInv == TypeInv /\ LevelZeroRefutes

LEMMA NextLevelZero == LevelZeroInv /\ [Next]_vars => LevelZeroInv'
<1> SUFFICES ASSUME LevelZeroInv, [Next]_vars PROVE LevelZeroRefutes'
  BY NextTypeInv DEF LevelZeroInv
<1>a. TypeInv /\ k \in Nat /\ design \in Design
  BY DesignType DEF LevelZeroInv, TypeInv, TypeOK
<1>b. design' = design
  BY DEF Next, vars, InitiallyBad, InitiallyGood, BadCube, FrontierSafe, QueueEmpty, DropBlocked,
    Refute, Predecessor, StartGeneralize, DropLiteral, BlockCube, DownHitsInit, DownSucceeds,
    DownBlocksCTG, DownJoins, PropagateClause, NextLevel, Converged, NotConverged, Terminated
<1>c. \A c : InitIntersects(c)' = InitIntersects(c)
  BY <1>b DEF InitIntersects, Contradicted, InitIsUniqueState, InitValueForced
<1>d. SUFFICES \A ob \in obligations' : ob.level = 0 => InitIntersects(ob.cube)
  BY <1>c DEF LevelZeroRefutes
<1>e. \A ob \in obligations : ob.level = 0 => InitIntersects(ob.cube)
  BY DEF LevelZeroInv, LevelZeroRefutes
<1>1. CASE BadCube
  <2>1. k # 0
    BY <1>a, <1>1 DEF BadCube, TypeInv, Bounds
  <2> QED BY <1>1, <2>1 DEF BadCube
<1>2. CASE Predecessor
  <2>1. PICK ob \in obligations : IF ob.level = 0 THEN BlockAtZero(ob) ELSE PushPredecessor(ob)
    BY <1>2 DEF Predecessor
  <2>2. CASE ob.level = 0
    BY <1>e, <2>1, <2>2 DEF BlockAtZero
  <2>3. CASE ob.level # 0
    <3>1. PICK p \in LiftedPredecessors(ob.level - 1, ob.cube) :
            obligations' = obligations \cup
              {[cube |-> p, level |-> ob.level - 1, depth |-> ob.depth + 1]}
      BY <2>1, <2>3 DEF PushPredecessor
    <3>2. ASSUME ob.level - 1 = 0 PROVE InitIntersects(p)
      <4>1. PICK m \in Predecessors(0, ob.cube) : p \in SUBSET FullCube(m[1])
        BY <3>2 DEF LiftedPredecessors, Lift
      <4>2. m \in State \X Inputs /\ m[1] \in design.init /\ m \in design.constraint
        BY DEF Predecessors, S
      <4>3. m[1] \in LiveInit(design)
        BY <4>2 DEF LiveInit
      <4>4. Sat(m[1], p)
        BY <4>1, <4>2 DEF Sat, FullCube
      <4>5. p \in Cube
        BY LiftedPredecessorsType
      <4> QED BY <1>a, <4>3, <4>4, <4>5, InitIntersectsExact
    <3> DEFINE new == [cube |-> p, level |-> ob.level - 1, depth |-> ob.depth + 1]
    <3>3. new.level = ob.level - 1 /\ new.cube = p
      OBVIOUS
    <3>4. new.level = 0 => InitIntersects(new.cube)
      BY <3>2, <3>3
    <3>5. \A o \in obligations' : o \in obligations \/ o = new
      BY <3>1
    <3> HIDE DEF new
    <3> QED BY <1>e, <3>4, <3>5
  <2> QED BY <2>2, <2>3
<1>3. CASE BlockCube
  <2>1. mic.ob \in Obligation /\ mic.ob.level + 1 # 0
    BY <1>a DEF TypeInv, TypeOK, Mic, Obligation
  <2>2. [mic.ob EXCEPT !.level = @ + 1].level # 0
    BY <2>1 DEF Obligation
  <2> QED BY <1>e, <1>3, <2>2 DEF BlockCube
<1>4. CASE obligations' \subseteq obligations
  BY <1>e, <1>4
<1>5. BadCube \/ Predecessor \/ BlockCube \/ obligations' \subseteq obligations
  BY DEF Next, vars, InitiallyBad, InitiallyGood, FrontierSafe, QueueEmpty, DropBlocked,
    Refute, StartGeneralize, DropLiteral, DownHitsInit, DownSucceeds,
    DownBlocksCTG, DownJoins, PropagateClause, NextLevel, Converged, NotConverged, Terminated
<1> QED BY <1>1, <1>2, <1>3, <1>4, <1>5

\* The level-0 branch of solve() is dead code, for every design and every answer
\* of the SAT solver.
THEOREM LevelZeroAlwaysRefutes == Spec => []LevelZeroRefutes
<1>1. Init => LevelZeroInv
  BY InitTypeInv DEF LevelZeroInv, LevelZeroRefutes, Init
<1>2. LevelZeroInv => LevelZeroRefutes
  BY DEF LevelZeroInv
<1> QED BY <1>1, <1>2, NextLevelZero, PTL DEF Spec

-----------------------------------------------------------------------------
\* Progress of the blocking loop, and the refinement.

\* When generalize() returns, its obligation is blocked at its level, so that the
\* loop cannot meet the same obligation at the same level for ever.
THEOREM BlockingAlwaysBlocks == Spec => BlockingBlocks
<1>1. FrameInv /\ [Next]_vars =>
        [pc = "generalize" /\ pc' = "block" =>
           \E j \in mic.ob.level .. k : \E e \in frames'[j] : e \subseteq mic.ob.cube]_vars
  <2> SUFFICES ASSUME FrameInv, Next, pc = "generalize", pc' = "block"
               PROVE  \E j \in mic.ob.level .. k : \E e \in frames'[j] : e \subseteq mic.ob.cube
    OBVIOUS
  <2>1. BlockCube
    BY DEF Next, InitiallyBad, InitiallyGood, BadCube, FrontierSafe, QueueEmpty, DropBlocked,
      Refute, Predecessor, StartGeneralize, DropLiteral, DownHitsInit, DownSucceeds,
      DownBlocksCTG, DownJoins, PropagateClause, NextLevel, Converged, NotConverged, Terminated
  <2>2. mic.ob.level \in 1 .. k /\ k \in Nat /\ mic.cube \subseteq mic.ob.cube
    BY DEF FrameInv, TypeInv, TypeOK, Bounds, GeneralizedCubeIsInductive
  <2>3. frames' = AddToFrames(frames, mic.ob.level, mic.cube)
    BY <2>1 DEF BlockCube
  <2>4. CASE Redundant(frames, mic.ob.level, mic.cube)
    BY <2>2, <2>3, <2>4 DEF AddToFrames, Redundant
  <2>5. CASE ~Redundant(frames, mic.ob.level, mic.cube)
    <3>1. mic.ob.level \in 0 .. k /\ ~(mic.ob.level > mic.ob.level) /\ mic.ob.level \in mic.ob.level .. k
      BY <2>2
    <3>2. mic.cube \in frames'[mic.ob.level]
      BY <2>3, <2>5, <3>1 DEF AddToFrames
    <3> QED BY <2>2, <3>1, <3>2
  <2> QED BY <2>4, <2>5
<1> QED BY <1>1, InitFrameInv, NextFrameInv, PTL DEF Spec, BlockingBlocks

\* The abstract checker reads the design as the solver does.
LEMMA SameVocabulary ==
  /\ Verdict!Running = Running
  /\ Verdict!Proved = Proved
  /\ \A n : Verdict!Refuted(n) = Refuted(n)
  /\ \A d : Verdict!Holds(d) = Holds(d)
  /\ \A d, n : Verdict!Counterexample(d, n) = Counterexample(d, n)
<1>1. Verdict!State = State
  BY DEF Verdict!State, State
<1>2. \A d, s, t : Verdict!Step(d, s, t) = Step(d, s, t)
  BY DEF Verdict!Step, Step
<1>3. \A d : Verdict!LiveInit(d) = LiveInit(d)
  BY DEF Verdict!LiveInit, LiveInit
<1>4. \A d, s : Verdict!Bad(d, s) = Bad(d, s)
  BY DEF Verdict!Bad, Bad
<1>5. \A d : Verdict!Holds(d) = Holds(d)
  BY DEF Verdict!Holds, Holds, Verdict!Reachable, Reachable, Verdict!Closed, Closed,
    Verdict!State, State, Verdict!Step, Step, Verdict!LiveInit, LiveInit, Verdict!Bad, Bad
<1>6. \A d, n : Verdict!Counterexample(d, n) = Counterexample(d, n)
  BY DEF Verdict!Counterexample, Counterexample, Verdict!IsPath, IsPath,
    Verdict!State, State, Verdict!Step, Step, Verdict!LiveInit, LiveInit, Verdict!Bad, Bad
<1> QED BY <1>5, <1>6 DEF Verdict!Running, Running, Verdict!Proved, Proved,
    Verdict!Refuted, Refuted

AnswerInv == FrameInv /\ RefuteInv /\ (pc # "done" => result = Running)

LEMMA NextAnswerInv == ASSUME Unconstrained PROVE AnswerInv /\ [Next]_vars => AnswerInv'
<1>1. (pc # "done" => result = Running) /\ [Next]_vars => (pc' # "done" => result' = Running)
  BY DEF Next, vars, InitiallyBad, InitiallyGood, BadCube, FrontierSafe, QueueEmpty, DropBlocked,
    Refute, Predecessor, StartGeneralize, DropLiteral, BlockCube, DownHitsInit, DownSucceeds,
    DownBlocksCTG, DownJoins, PropagateClause, NextLevel, Converged, NotConverged, Terminated,
    Finish, NewFrame
<1> QED BY <1>1, NextFrameInv, NextRefuteInv DEF AnswerInv

\* Every step of IC3 is a stutter of the abstract checker or gives its answer.
LEMMA NextRefines ==
  ASSUME Unconstrained
  PROVE  AnswerInv /\ AnswerInv' /\ [Next]_vars => [Verdict!Next]_<<design, result>>
<1> SUFFICES ASSUME AnswerInv, AnswerInv', [Next]_vars PROVE [Verdict!Next]_<<design, result>>
  OBVIOUS
<1>a. design' = design
  BY FrameStep DEF AnswerInv
<1>1. CASE InitiallyBad
  <2>1. result = Running /\ result' = Refuted(1)
    BY <1>1 DEF InitiallyBad, Finish, AnswerInv
  <2>2. result'.length = 1 /\ result'.outcome = "REFUTED"
    BY <2>1 DEF Refuted
  <2>3. Counterexample(design, result'.length)
    BY <1>a, <2>2 DEF AnswerInv, RefuteInv, RefutedIsGenuine
  <2> QED BY <1>a, <2>1, <2>2, <2>3, SameVocabulary DEF Verdict!Next, Verdict!Refute
<1>2. CASE Refute
  <2>1. PICK ob \in obligations : result' = Refuted(ob.depth + 1)
    BY <1>2 DEF Refute, Finish
  <2>2. result = Running
    BY <1>2 DEF Refute, AnswerInv
  <2>3. result'.length = ob.depth + 1 /\ result'.outcome = "REFUTED"
    BY <2>1 DEF Refuted
  <2>4. ob.depth + 1 \in Nat \ {0}
    BY DEF AnswerInv, FrameInv, TypeInv, TypeOK, Obligation
  <2>5. Counterexample(design, result'.length)
    BY <1>a, <2>3 DEF AnswerInv, RefuteInv, RefutedIsGenuine
  <2> QED BY <1>a, <2>1, <2>2, <2>3, <2>4, <2>5, SameVocabulary DEF Verdict!Next, Verdict!Refute
<1>3. CASE Converged
  <2>1. result = Running /\ result' = Proved
    BY <1>3 DEF Converged, Finish, AnswerInv
  <2>2. Holds(design)
    BY <1>a, <2>1 DEF AnswerInv, FrameInv, ProvedIsSound, Proved
  <2> QED BY <1>a, <2>1, <2>2, SameVocabulary DEF Verdict!Next, Verdict!Prove
<1>4. CASE result' = result
  BY <1>a, <1>4
<1>5. InitiallyBad \/ Refute \/ Converged \/ result' = result
  BY DEF Next, vars, InitiallyGood, BadCube, FrontierSafe, QueueEmpty, DropBlocked,
    Predecessor, StartGeneralize, DropLiteral, BlockCube, DownHitsInit, DownSucceeds,
    DownBlocksCTG, DownJoins, PropagateClause, NextLevel, NotConverged, Terminated
<1> QED BY <1>1, <1>2, <1>3, <1>4, <1>5

\* IC3 implements the abstract checker of safety properties, for every set of
\* designs without constraints.
THEOREM IC3ImplementsVerdict == ASSUME Unconstrained PROVE Spec => ImplementsSafetyVerdict
<1>1. Init => Verdict!Init
  BY SameVocabulary DEF Init, Verdict!Init
<1>2. Init => AnswerInv
  BY InitFrameInv, InitRefuteInv DEF AnswerInv, Init
<1>3. AnswerInv /\ [Next]_vars => AnswerInv'
  BY NextAnswerInv
<1>4. AnswerInv /\ AnswerInv' /\ [Next]_vars => [Verdict!Next]_<<design, result>>
  BY NextRefines
<1> QED BY <1>1, <1>2, <1>3, <1>4, PTL DEF Spec, ImplementsSafetyVerdict, Verdict!Spec

=============================================================================
