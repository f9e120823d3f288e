-------------------------- MODULE BddReachability_proofs --------------------------
(***************************************************************************)
(* The backward search of the BDD engine is right, for every set of        *)
(* netlists: with constraints and dead ends, with any number of latches    *)
(* and inputs.                                                             *)
(*                                                                         *)
(* A turn of the search needs little of the netlist: that the constraints  *)
(* are about its nodes (IsNetlist).  So the invariant also holds when the  *)
(* engine runs the search on an instrumented design.                       *)
(***************************************************************************)
EXTENDS BddReachability, NumberInduction

IsNetlist(d) == d.constraint \subseteq Nodes(d)

\* A design, whatever its property is.
IsSystem(d) ==
  d.init \subseteq State /\ d.next \in [State \X Inputs -> State] /\ d.constraint \subseteq State \X Inputs

\* The states of a set of nodes.
StatesOf(f) == {n[1] : n \in f}

\* No initial state is n steps away from a violation.
Misses(d, n) == ViolationIn(d)[n] \cap d.init = {}

SearchTyped ==
  /\ IsNetlist(design)
  /\ states \subseteq Nodes(design)
  /\ iteration \in Nat
  /\ result \in {Running, Proved} \cup {Refuted(n) : n \in Nat \ {0}}

\* Every set of the search has an allowed node of each of its states, so that a
\* further pre-image goes through it.
LiveIn(d, f) == \A n \in f : \E m \in f : m[1] = n[1] /\ m \in d.constraint

Live == LiveIn(design, states)

\* No initial state is closer to a violation than the search has looked.
NotCloser == result = Running => \A n \in Nat : n < iteration => Misses(design, n)

Answered ==
  /\ result.outcome = "PROVED" => \A n \in Nat : Misses(design, n)
  /\ result.outcome = "REFUTED" =>
       /\ ~Misses(design, result.length - 1)
       /\ \A n \in Nat : n < result.length - 1 => Misses(design, n)

SearchInv == SearchTyped /\ Live /\ SearchByDistance /\ NotCloser /\ Answered

-----------------------------------------------------------------------------
\* Distances.

\* The distances up to n, as a function.
Distances(d, n, f) ==
  f = [m \in 0 .. n |-> IF m = 0 THEN Failing(d) ELSE Before(d, f[m - 1])]

LEMMA DistancesExist == ASSUME NEW d, NEW b \in Nat PROVE \E f : Distances(d, b, f)
<1> DEFINE Set == {n \in Nat : \E f : Distances(d, n, f)}
<1>1. Distances(d, 0, [m \in 0 .. 0 |-> Failing(d)])
  BY DEF Distances
<1>2. ASSUME NEW n \in Nat, NEW f, Distances(d, n, f) PROVE \E g : Distances(d, n + 1, g)
  <2> DEFINE g == [m \in 0 .. n + 1 |-> IF m = n + 1 THEN Before(d, f[n]) ELSE f[m]]
  <2>1. ASSUME NEW m \in 0 .. n + 1
        PROVE  g[m] = IF m = 0 THEN Failing(d) ELSE Before(d, g[m - 1])
    <3>1. CASE m = n + 1
      <4>1. m # 0 /\ n \in 0 .. n + 1 /\ n # n + 1 /\ m - 1 = n
        BY <3>1
      <4> QED BY <3>1, <4>1
    <3>2. CASE m # n + 1
      <4>1. m \in 0 .. n /\ g[m] = f[m]
        BY <3>2
      <4>2. m # 0 => m - 1 \in 0 .. n + 1 /\ m - 1 # n + 1
        BY <4>1
      <4>3. f[m] = IF m = 0 THEN Failing(d) ELSE Before(d, f[m - 1])
        BY <1>2, <4>1 DEF Distances
      <4> QED BY <4>1, <4>2, <4>3
    <3> QED BY <3>1, <3>2
  <2>2. Distances(d, n + 1, g)
    BY <2>1 DEF Distances
  <2> HIDE DEF g
  <2> QED BY <2>2
<1>3. 0 \in Set /\ \A n \in 0 .. b - 1 : n \in Set => n + 1 \in Set
  BY <1>1, <1>2
<1> HIDE DEF Set
<1>4. 0 .. b \subseteq Set
  BY <1>3, TimeframeInduction
<1> QED BY <1>4 DEF Set

LEMMA DistancesAgree ==
  ASSUME NEW d, NEW m \in Nat, NEW n \in Nat, NEW f, NEW g, Distances(d, m, f), Distances(d, n, g),
         NEW b \in Nat, b <= m, b <= n
  PROVE  f[b] = g[b]
<1> DEFINE Same == {x \in 0 .. b : f[x] = g[x]}
<1>1. 0 \in Same
  BY DEF Distances
<1>2. ASSUME NEW x \in 0 .. b - 1, x \in Same PROVE x + 1 \in Same
  <2>1. x + 1 \in 0 .. m /\ x + 1 \in 0 .. n /\ x + 1 \in 0 .. b /\ x + 1 # 0 /\ (x + 1) - 1 = x
    OBVIOUS
  <2>2. f[x + 1] = Before(d, f[x]) /\ g[x + 1] = Before(d, g[x])
    BY <2>1 DEF Distances
  <2> QED BY <1>2, <2>1, <2>2
<1> HIDE DEF Same
<1>3. 0 .. b \subseteq Same
  BY <1>1, <1>2, TimeframeInduction
<1> QED BY <1>3 DEF Same

\* The recursive definition of ViolationIn has the function that it describes.
LEMMA DistanceUnfolds ==
  ASSUME NEW d
  PROVE  /\ ViolationIn(d)[0] = Failing(d)
         /\ \A n \in Nat : ViolationIn(d)[n + 1] = Before(d, ViolationIn(d)[n])
<1> DEFINE upto(n) == CHOOSE f : Distances(d, n, f)
           h == [n \in Nat |-> upto(n)[n]]
           IsIt(f) == f = [n \in Nat |-> IF n = 0 THEN Failing(d) ELSE Before(d, f[n - 1])]
<1>1. \A n \in Nat : Distances(d, n, upto(n))
  BY DistancesExist
<1> HIDE DEF upto
<1>2. ASSUME NEW n \in Nat PROVE h[n] = IF n = 0 THEN Failing(d) ELSE Before(d, h[n - 1])
  <2>1. CASE n = 0
    <3>1. upto(0)[0] = Failing(d)
      BY <1>1 DEF Distances
    <3> QED BY <2>1, <3>1
  <2>2. CASE n # 0
    <3>1. n - 1 \in Nat /\ n \in 0 .. n /\ n - 1 <= n
      BY <2>2
    <3>2. Distances(d, n, upto(n)) /\ Distances(d, n - 1, upto(n - 1))
      BY <1>1, <3>1
    <3>3. upto(n)[n] = Before(d, upto(n)[n - 1])
      BY <2>2, <3>1, <3>2 DEF Distances
    <3>4. upto(n)[n - 1] = upto(n - 1)[n - 1]
      BY <3>1, <3>2, DistancesAgree
    <3> QED BY <2>2, <3>1, <3>3, <3>4
  <2> QED BY <2>1, <2>2
<1>3. IsIt(h)
  BY <1>2
<1>4. ViolationIn(d) = CHOOSE f : IsIt(f)
  BY DEF ViolationIn
<1> HIDE DEF h
<1>5. IsIt(ViolationIn(d))
  BY <1>3, <1>4
<1>6. ASSUME NEW n \in Nat PROVE ViolationIn(d)[n + 1] = Before(d, ViolationIn(d)[n])
  <2>1. n + 1 \in Nat /\ n + 1 # 0 /\ (n + 1) - 1 = n
    OBVIOUS
  <2> QED BY <1>5, <2>1
<1> QED BY <1>5, <1>6

\* A path of allowed nodes to a violation, which may be in a dead end.
NodePath(d, path, n) ==
  /\ path \in [0 .. n -> d.constraint]
  /\ \A j \in 0 .. n - 1 : path[j] \in Moves(d) /\ path[j + 1][1] = d.next[path[j]]
  /\ path[n] \notin d.property

\* A state that is n steps away from a violation begins such a path.
LEMMA DistanceHasPath ==
  ASSUME NEW d, NEW b \in Nat, NEW s \in ViolationIn(d)[b]
  PROVE  \E path : NodePath(d, path, b) /\ path[0][1] = s
<1> DEFINE From(t, n) == \E path : NodePath(d, path, n) /\ path[0][1] = t
           Set == {n \in Nat : \A t \in ViolationIn(d)[n] : From(t, n)}
<1>1. 0 \in Set
  <2>1. SUFFICES ASSUME NEW t \in Failing(d) PROVE From(t, 0)
    BY DistanceUnfolds
  <2>2. PICK q \in d.constraint \ d.property : t = q[1]
    BY <2>1 DEF Failing
  <2>3. NodePath(d, [j \in 0 .. 0 |-> q], 0)
    BY <2>2 DEF NodePath
  <2> QED BY <2>2, <2>3
<1>2. ASSUME NEW n \in Nat, n \in Set PROVE n + 1 \in Set
  <2>1. SUFFICES ASSUME NEW t \in ViolationIn(d)[n + 1] PROVE From(t, n + 1)
    OBVIOUS
  <2>2. t \in Before(d, ViolationIn(d)[n])
    BY <2>1, DistanceUnfolds
  <2>3. PICK q \in Moves(d) : t = q[1] /\ d.next[q] \in ViolationIn(d)[n] /\ q \in d.constraint
    BY <2>2 DEF Before, Moves
  <2>4. PICK path : NodePath(d, path, n) /\ path[0][1] = d.next[q]
    BY <1>2, <2>3
  <2> DEFINE longer == [j \in 0 .. n + 1 |-> IF j = 0 THEN q ELSE path[j - 1]]
  <2>5. \A j \in 0 .. n + 1 : j # 0 => j - 1 \in 0 .. n /\ longer[j] = path[j - 1]
    OBVIOUS
  <2>6. longer \in [0 .. n + 1 -> d.constraint]
    BY <2>3, <2>4, <2>5 DEF NodePath
  <2>7. ASSUME NEW j \in 0 .. (n + 1) - 1
        PROVE  longer[j] \in Moves(d) /\ longer[j + 1][1] = d.next[longer[j]]
    <3>1. j + 1 \in 0 .. n + 1 /\ j + 1 # 0 /\ (j + 1) - 1 = j /\ j \in 0 .. n + 1
      OBVIOUS
    <3>2. longer[j + 1] = path[j]
      BY <2>5, <3>1
    <3>3. CASE j = 0
      BY <2>3, <2>4, <3>2, <3>3
    <3>4. CASE j # 0
      <4>1. j - 1 \in 0 .. n - 1 /\ (j - 1) + 1 = j /\ longer[j] = path[j - 1]
        BY <2>5, <3>1, <3>4
      <4>2. path[j - 1] \in Moves(d) /\ path[(j - 1) + 1][1] = d.next[path[j - 1]]
        BY <2>4, <4>1 DEF NodePath
      <4> QED BY <3>2, <4>1, <4>2
    <3> QED BY <3>3, <3>4
  <2>8. longer[n + 1] = path[n] /\ longer[0] = q
    <3>1. n + 1 \in 0 .. n + 1 /\ n + 1 # 0 /\ (n + 1) - 1 = n
      OBVIOUS
    <3> QED BY <2>5, <3>1
  <2> HIDE DEF longer
  <2>9. NodePath(d, longer, n + 1)
    BY <2>4, <2>6, <2>7, <2>8 DEF NodePath
  <2> QED BY <2>3, <2>8, <2>9
<1> HIDE DEF Set
<1>3. 0 .. b \subseteq Set
  BY <1>1, <1>2, TimeframeInduction
<1>4. b \in Set
  BY <1>3
<1> QED BY <1>4 DEF Set

\* And the other way round.
LEMMA PathHasDistance ==
  ASSUME NEW d, NEW b \in Nat, NEW path, NodePath(d, path, b)
  PROVE  path[0][1] \in ViolationIn(d)[b]
<1> DEFINE Set == {n \in Nat : n <= b => path[b - n][1] \in ViolationIn(d)[n]}
<1>1. \A j \in 0 .. b : path[j] \in d.constraint
  BY DEF NodePath
<1>2. 0 \in Set
  <2>1. path[b] \in d.constraint \ d.property /\ b - 0 = b
    BY <1>1 DEF NodePath
  <2> QED BY <2>1, DistanceUnfolds DEF Failing
<1>3. ASSUME NEW n \in Nat, n \in Set PROVE n + 1 \in Set
  <2>1. SUFFICES ASSUME n + 1 <= b PROVE path[b - (n + 1)][1] \in ViolationIn(d)[n + 1]
    OBVIOUS
  <2> DEFINE j == b - (n + 1)
  <2>2. j \in 0 .. b - 1 /\ j \in 0 .. b /\ j + 1 = b - n
    BY <2>1
  <2>3. path[j] \in Moves(d) /\ d.next[path[j]] = path[b - n][1]
    BY <2>2 DEF NodePath
  <2>4. d.next[path[j]] \in ViolationIn(d)[n]
    BY <1>3, <2>1, <2>3
  <2>5. path[j][1] \in Before(d, ViolationIn(d)[n])
    BY <2>3, <2>4 DEF Before
  <2> QED BY <2>5, DistanceUnfolds
<1> HIDE DEF Set
<1>4. 0 .. b \subseteq Set
  BY <1>2, <1>3, TimeframeInduction
<1>5. b \in Set /\ b - b = 0
  BY <1>4
<1> QED BY <1>5 DEF Set

\* If bad states move on, the path may as well end with a move.
LEMMA PathOfMoves ==
  ASSUME NEW d, BadStatesMoveOn(d), NEW b \in Nat, NEW path, NodePath(d, path, b)
  PROVE  \E moving : /\ NodePath(d, moving, b) /\ moving[0][1] = path[0][1]
                     /\ \A j \in 0 .. b : moving[j] \in Moves(d)
<1>1. path[b] \in d.constraint \ d.property /\ b \in 0 .. b /\ 0 \in 0 .. b
  BY DEF NodePath
<1>2. PICK m \in Moves(d) \ d.property : m[1] = path[b][1]
  BY <1>1 DEF BadStatesMoveOn
<1> DEFINE moving == [j \in 0 .. b |-> IF j = b THEN m ELSE path[j]]
<1>3. \A j \in 0 .. b : moving[j][1] = path[j][1]
  BY <1>2
<1>4. \A j \in 0 .. b - 1 : j \in 0 .. b /\ j + 1 \in 0 .. b /\ j # b /\ moving[j] = path[j]
  OBVIOUS
<1>5. moving[b] = m /\ m \in d.constraint
  BY <1>1 DEF Moves
<1>6. moving \in [0 .. b -> d.constraint]
  BY <1>5 DEF NodePath
<1> HIDE DEF moving
<1>7. \A j \in 0 .. b - 1 : moving[j] \in Moves(d) /\ moving[j + 1][1] = d.next[moving[j]]
  BY <1>3, <1>4 DEF NodePath
<1>8. \A j \in 0 .. b : j = b \/ j \in 0 .. b - 1
  OBVIOUS
<1> QED BY <1>1, <1>2, <1>3, <1>5, <1>6, <1>7, <1>8 DEF NodePath

-----------------------------------------------------------------------------
\* The pre-image.

LEMMA PreImageNodes ==
  ASSUME NEW d, NEW f, NEW n
  PROVE  n \in EX(d, f) <=>
           n \in Nodes(d) /\ \E m \in Moves(d) : m[1] = n[1] /\ \E q \in f \cap d.constraint : q[1] = d.next[m]
<1> DEFINE after == {q[1] : q \in f \cap d.constraint}
           before == {m[1] : m \in {m \in Moves(d) : d.next[m] \in after}}
<1>1. EX(d, f) = {k \in Nodes(d) : k[1] \in before}
  BY DEF EX, PreImageBy
<1>2. n \in EX(d, f) <=> n \in Nodes(d) /\ n[1] \in before
  BY <1>1
<1>3. n[1] \in before <=> \E m \in Moves(d) : m[1] = n[1] /\ \E q \in f \cap d.constraint : q[1] = d.next[m]
  <2>1. n[1] \in before <=> \E m \in Moves(d) : d.next[m] \in after /\ n[1] = m[1]
    OBVIOUS
  <2>2. \A m : d.next[m] \in after <=> \E q \in f \cap d.constraint : d.next[m] = q[1]
    OBVIOUS
  <2> HIDE DEF after, before
  <2> QED BY <2>1, <2>2
<1> QED BY <1>2, <1>3

\* The states of EX(states) are those with a step into a state of states.
LEMMA PreImageIsBefore ==
  ASSUME NEW d, NEW f, IsNetlist(d), LiveIn(d, f)
  PROVE  StatesOf(EX(d, f)) = Before(d, StatesOf(f))
<1>1. ASSUME NEW n \in EX(d, f) PROVE n[1] \in Before(d, StatesOf(f))
  <2>1. PICK m \in Moves(d) : m[1] = n[1] /\ \E q \in f \cap d.constraint : q[1] = d.next[m]
    BY PreImageNodes
  <2> QED BY <2>1 DEF Before, StatesOf
<1>2. ASSUME NEW m \in Moves(d), d.next[m] \in StatesOf(f) PROVE m[1] \in StatesOf(EX(d, f))
  <2>1. PICK n \in f : n[1] = d.next[m]
    BY <1>2 DEF StatesOf
  <2>2. PICK q \in f : q[1] = d.next[m] /\ q \in d.constraint
    BY <2>1 DEF LiveIn
  <2>3. m \in EX(d, f)
    BY <2>2, PreImageNodes DEF IsNetlist, Moves
  <2> QED BY <2>3 DEF StatesOf
<1>3. StatesOf(EX(d, f)) \subseteq Before(d, StatesOf(f))
  BY <1>1 DEF StatesOf
<1>4. Before(d, StatesOf(f)) \subseteq StatesOf(EX(d, f))
  <2>1. \A s \in Before(d, StatesOf(f)) : \E m \in Moves(d) : d.next[m] \in StatesOf(f) /\ s = m[1]
    BY DEF Before
  <2> QED BY <1>2, <2>1
<1> QED BY <1>3, <1>4

\* Every state of EX(f) has an allowed node in it.
LEMMA PreImageLive ==
  ASSUME NEW d, IsNetlist(d), NEW f, NEW n \in EX(d, f)
  PROVE  /\ n \in Nodes(d)
         /\ \E m \in EX(d, f) : m[1] = n[1] /\ m \in d.constraint
<1>1. PICK m \in Moves(d) : m[1] = n[1] /\ \E q \in f \cap d.constraint : q[1] = d.next[m]
  BY PreImageNodes
<1>2. m \in d.constraint /\ m \in EX(d, f)
  BY <1>1, PreImageNodes DEF IsNetlist, Moves
<1> QED BY <1>1, <1>2, PreImageNodes

\* An initial state is met when one of the states is initial.
LEMMA MeetingStates == ASSUME NEW d, NEW f PROVE MeetsInit(d, f) <=> StatesOf(f) \cap d.init # {}
BY DEF MeetsInit, StatesOf

-----------------------------------------------------------------------------
\* The search begins.
LEMMA StartInv ==
  ASSUME IsNetlist(design), states = Violating(design), iteration = 0, result = Running
  PROVE  SearchInv
<1>1. states \subseteq design.constraint /\ states \subseteq Nodes(design)
  BY DEF Violating, IsNetlist
<1>2. SearchTyped
  BY <1>1 DEF SearchTyped
<1>3. Live
  BY <1>1 DEF Live, LiveIn
<1>4. SearchByDistance
  <2>1. {n[1] : n \in states} = Failing(design) /\ 0 .. iteration = {0}
    BY DEF Violating, Failing
  <2> QED BY <2>1, DistanceUnfolds DEF SearchByDistance
<1>5. NotCloser /\ Answered
  BY DEF NotCloser, Answered, Running
<1> QED BY <1>2, <1>3, <1>4, <1>5 DEF SearchInv

\* The states so far, while the search runs.
LEMMA StatesByDistance ==
  ASSUME SearchInv, result = Running
  PROVE  \A s : s \in StatesOf(states) <=> \E n \in 0 .. iteration : s \in ViolationIn(design)[n]
BY DEF SearchInv, SearchByDistance, StatesOf

\* The pre-image in a turn of the search.
LEMMA PreImageOfStates ==
  ASSUME SearchInv PROVE StatesOf(EX(design, states)) = Before(design, StatesOf(states))
<1>1. IsNetlist(design) /\ LiveIn(design, states)
  BY DEF SearchInv, SearchTyped, Live
<1> QED BY <1>1, PreImageIsBefore

\* A turn that neither meets an initial state nor saturates.
Continue ==
  /\ result = Running
  /\ iteration' = iteration + 1
  /\ ~MeetsInit(design, states)
  /\ states' = states \cup EX(design, states)
  /\ UNCHANGED <<design, result>>

LEMMA ContinueByDistance == ASSUME SearchInv, Continue PROVE SearchByDistance'
<1>1. IsNetlist(design) /\ iteration \in Nat
  BY DEF SearchInv, SearchTyped
<1>2. StatesOf(EX(design, states)) = Before(design, StatesOf(states))
  BY <1>1, PreImageOfStates
<1> DEFINE V(n) == ViolationIn(design)[n]
           S == StatesOf(states)
<1>3. \A s : s \in S <=> \E n \in 0 .. iteration : s \in V(n)
  BY StatesByDistance DEF Continue
<1>4. \A n \in Nat : V(n + 1) = Before(design, V(n))
  BY DistanceUnfolds
<1>5. {n[1] : n \in states'} = S \cup Before(design, S)
  BY <1>2 DEF Continue, StatesOf
<1> HIDE DEF S
<1>6. \A s : s \in Before(design, S) <=> \E n \in 0 .. iteration : s \in Before(design, V(n))
  BY <1>3 DEF Before
<1> HIDE DEF V
<1>7. ASSUME NEW s, s \in S \cup Before(design, S) PROVE \E n \in 0 .. iteration + 1 : s \in V(n)
  <2>1. CASE s \in S
    <3>1. 0 .. iteration \subseteq 0 .. iteration + 1
      BY <1>1
    <3> QED BY <1>3, <2>1, <3>1
  <2>2. CASE s \in Before(design, S)
    <3>1. PICK n \in 0 .. iteration : s \in Before(design, V(n))
      BY <1>6, <2>2
    <3>2. n \in Nat /\ n + 1 \in 0 .. iteration + 1
      BY <1>1
    <3> QED BY <1>4, <3>1, <3>2
  <2> QED BY <1>7, <2>1, <2>2
<1>8. ASSUME NEW s, NEW n \in 0 .. iteration + 1, s \in V(n) PROVE s \in S \cup Before(design, S)
  <2>1. CASE n \in 0 .. iteration
    BY <1>3, <1>8, <2>1
  <2>2. CASE n = iteration + 1
    <3>1. s \in Before(design, V(iteration)) /\ iteration \in 0 .. iteration
      BY <1>1, <1>4, <1>8, <2>2
    <3> QED BY <1>6, <3>1
  <2> QED BY <1>1, <1>8, <2>1, <2>2
<1>9. {n[1] : n \in states'} = UNION {V(n) : n \in 0 .. iteration + 1}
  BY <1>5, <1>7, <1>8
<1> QED BY <1>9 DEF SearchByDistance, V, Continue

LEMMA ContinueNotCloser == ASSUME SearchInv, Continue PROVE NotCloser'
<1>1. iteration \in Nat
  BY DEF SearchInv, SearchTyped
<1>2. SUFFICES ASSUME NEW n \in Nat, n < iteration + 1 PROVE Misses(design, n)
  BY DEF NotCloser, Continue
<1>3. n \in 0 .. iteration
  BY <1>1, <1>2
<1>4. StatesOf(states) \cap design.init = {}
  BY MeetingStates DEF Continue
<1>5. ViolationIn(design)[n] \subseteq StatesOf(states)
  BY <1>3, StatesByDistance DEF Continue
<1> QED BY <1>4, <1>5 DEF Misses

\* The first set that meets an initial state gives the length of a shortest trace.
LEMMA MeetingRefutes ==
  ASSUME SearchInv, result = Running, MeetsInit(design, states)
  PROVE  ~Misses(design, iteration) /\ \A n \in Nat : n < iteration => Misses(design, n)
<1>1. iteration \in Nat
  BY DEF SearchInv, SearchTyped
<1>2. PICK s \in design.init : s \in StatesOf(states)
  BY MeetingStates
<1>3. PICK n \in 0 .. iteration : s \in ViolationIn(design)[n]
  BY <1>2, StatesByDistance
<1>4. ~Misses(design, n) /\ n \in Nat
  BY <1>1, <1>2, <1>3 DEF Misses
<1>5. \A m \in Nat : m < iteration => Misses(design, m)
  BY DEF SearchInv, NotCloser
<1>6. ~(n < iteration)
  BY <1>4, <1>5
<1>7. n = iteration
  BY <1>1, <1>3, <1>6
<1> QED BY <1>4, <1>5, <1>7

\* A saturated set that misses the initial states has every distance in it.
LEMMA SaturationProves ==
  ASSUME SearchInv, result = Running, ~MeetsInit(design, states),
         EX(design, states) \subseteq states, NEW b \in Nat
  PROVE  Misses(design, b)
<1> DEFINE S == StatesOf(states)
           Set == {n \in Nat : ViolationIn(design)[n] \subseteq S}
<1>1. IsNetlist(design) /\ iteration \in Nat
  BY DEF SearchInv, SearchTyped
<1>2. Before(design, S) \subseteq S
  <2>1. StatesOf(EX(design, states)) = Before(design, S)
    BY <1>1, PreImageOfStates
  <2> QED BY <2>1 DEF StatesOf
<1>3. 0 \in Set
  <2>1. 0 \in 0 .. iteration
    BY <1>1
  <2> QED BY <2>1, StatesByDistance
<1>4. S \cap design.init = {}
  BY MeetingStates
<1> HIDE DEF S
<1>5. ASSUME NEW n \in Nat, n \in Set PROVE n + 1 \in Set
  <2>1. Before(design, ViolationIn(design)[n]) \subseteq Before(design, S)
    BY <1>5 DEF Before
  <2> QED BY <1>2, <2>1, DistanceUnfolds
<1> HIDE DEF Set
<1>6. 0 .. b \subseteq Set
  BY <1>3, <1>5, TimeframeInduction
<1>7. ViolationIn(design)[b] \subseteq S
  BY <1>6 DEF Set
<1> QED BY <1>4, <1>7 DEF Misses

\* A turn of the search, whoever runs it.
LEMMA IterateInv == ASSUME SearchInv, Iterate PROVE SearchInv'
<1>a. SearchTyped /\ IsNetlist(design) /\ iteration \in Nat
  BY DEF SearchInv, SearchTyped
<1>b. design' = design /\ result = Running /\ iteration' = iteration + 1
  BY DEF Iterate
<1>1. CASE MeetsInit(design, states)
  <2>1. result' = Refuted(iteration + 1) /\ states' = states
    BY <1>1, <1>b DEF Iterate
  <2>2. result'.outcome = "REFUTED" /\ result'.length - 1 = iteration /\ result' # Running
    BY <1>a, <2>1 DEF Refuted, Running
  <2>3. SearchTyped'
    BY <1>a, <1>b, <2>1 DEF SearchTyped, IsNetlist
  <2>4. Answered'
    BY <1>1, <1>b, <2>2, MeetingRefutes DEF Answered
  <2> QED BY <1>b, <2>1, <2>2, <2>3, <2>4 DEF SearchInv, Live, LiveIn, SearchByDistance, NotCloser
<1>2. CASE ~MeetsInit(design, states) /\ states \cup EX(design, states) = states
  <2>1. result' = Proved /\ states' = states
    BY <1>2 DEF Iterate
  <2>2. result'.outcome = "PROVED" /\ result' # Running
    BY <2>1 DEF Proved, Running
  <2>3. SearchTyped'
    BY <1>a, <1>b, <2>1 DEF SearchTyped, IsNetlist
  <2>4. Answered'
    <3>1. \A n \in Nat : Misses(design, n)
      BY <1>2, <1>b, SaturationProves
    <3> QED BY <1>b, <2>2, <3>1 DEF Answered
  <2> QED BY <1>b, <2>1, <2>2, <2>3, <2>4 DEF SearchInv, Live, LiveIn, SearchByDistance, NotCloser
<1>3. CASE ~MeetsInit(design, states) /\ states \cup EX(design, states) # states
  <2>1. Continue
    BY <1>3 DEF Iterate, Continue
  <2>2. SearchTyped'
    BY <1>a, <2>1, PreImageLive DEF SearchTyped, IsNetlist, Continue
  <2>3. Live'
    BY <1>a, <2>1, PreImageLive DEF SearchInv, Live, LiveIn, Continue
  <2>4. Answered'
    BY <2>1 DEF SearchInv, Answered, Continue, Running
  <2> QED BY <2>1, <2>2, <2>3, <2>4, ContinueByDistance, ContinueNotCloser DEF SearchInv
<1> QED BY <1>1, <1>2, <1>3

\* The invariant is about the variables of the search only.
LEMMA SearchInvKept == ASSUME SearchInv, UNCHANGED vars PROVE SearchInv'
BY DEF vars, SearchInv, SearchTyped, IsNetlist, Live, LiveIn, SearchByDistance, NotCloser, Answered

-----------------------------------------------------------------------------
\* The search on its own.

FullInv == SearchInv /\ design \in Designs /\ design \in Netlists

LEMMA InitFullInv == Init => FullInv
<1> SUFFICES ASSUME Init PROVE FullInv
  OBVIOUS
<1>1. design \in Designs /\ design \in Netlists
  BY DesignsAssumption DEF Init
<1>2. IsNetlist(design)
  BY <1>1 DEF IsNetlist, Netlists, Nodes
<1> QED BY <1>1, <1>2, StartInv DEF Init, FullInv

LEMMA NextFullInv == FullInv /\ [Next]_vars => FullInv'
<1> SUFFICES ASSUME FullInv, [Next]_vars PROVE FullInv'
  OBVIOUS
<1>1. design' = design
  BY DEF Next, Iterate, Terminated, vars
<1>2. SearchInv'
  BY IterateInv, SearchInvKept DEF FullInv, Next, Terminated
<1> QED BY <1>1, <1>2 DEF FullInv

\* The types, in every reachable state of the search.
THEOREM TypeCorrect == Spec => []TypeOK
<1>1. FullInv => TypeOK
  BY DEF FullInv, SearchInv, SearchTyped, TypeOK
<1> QED BY <1>1, InitFullInv, NextFullInv, PTL DEF Spec

\* The backward search goes by distance: after n turns the set holds exactly the
\* states from which a violation is at most n steps away, so the number of
\* timeframes for the counterexample is the smallest one.
THEOREM SearchGoesByDistance == Spec => []SearchByDistance
<1>1. FullInv => SearchByDistance
  BY DEF FullInv, SearchInv
<1> QED BY <1>1, InitFullInv, NextFullInv, PTL DEF Spec

\* What is reached.
LEMMA ReachedFromInit == ASSUME NEW d, IsSystem(d) PROVE d.init \subseteq Reached(d)
BY DEF Reached, IsSystem

LEMMA ReachedByMoves ==
  ASSUME NEW d, IsSystem(d), NEW n \in Moves(d), n[1] \in Reached(d)
  PROVE  d.next[n] \in Reached(d) /\ d.next[n] \in State
<1>1. d.next[n] \in State
  BY DEF IsSystem, Moves
<1>2. ASSUME NEW P \in SUBSET State, d.init \subseteq P, MoveClosed(d, P) PROVE d.next[n] \in P
  BY <1>2 DEF Reached, MoveClosed
<1> QED BY <1>1, <1>2 DEF Reached

\* No initial state at any distance: the property holds.
LEMMA MissesHolds ==
  ASSUME NEW d, IsSystem(d), \A n \in Nat : Misses(d, n) PROVE ~Violated(d)
<1> DEFINE P == {s \in State : \A n \in Nat : s \notin ViolationIn(d)[n]}
<1>1. d.init \subseteq P
  BY DEF IsSystem, Misses
<1>2. ASSUME NEW m \in Moves(d), m[1] \in P, d.next[m] \notin P PROVE FALSE
  <2>1. d.next[m] \in State
    BY DEF IsSystem, Moves
  <2>2. PICK n \in Nat : d.next[m] \in ViolationIn(d)[n]
    BY <1>2, <2>1
  <2>3. m[1] \in Before(d, ViolationIn(d)[n])
    BY <2>2 DEF Before
  <2> QED BY <1>2, <2>3, DistanceUnfolds
<1>3. P \cap Failing(d) = {}
  BY DistanceUnfolds
<1>4. MoveClosed(d, P)
  BY <1>2 DEF MoveClosed
<1>5. P \in SUBSET State
  OBVIOUS
<1> HIDE DEF P
<1>6. Reached(d) \subseteq P
  BY <1>1, <1>4, <1>5 DEF Reached
<1> QED BY <1>3, <1>6 DEF Violated

\* An initial state at some distance: the property does not hold.
LEMMA DistanceViolates ==
  ASSUME NEW d, IsSystem(d), NEW b \in Nat, ~Misses(d, b) PROVE Violated(d)
<1> SUFFICES ASSUME ~Violated(d) PROVE FALSE
  OBVIOUS
<1> DEFINE Set == {n \in Nat : ViolationIn(d)[n] \cap Reached(d) = {}}
<1>1. 0 \in Set
  BY DistanceUnfolds DEF Violated
<1>2. ASSUME NEW n \in Nat, n \in Set PROVE n + 1 \in Set
  <2>1. ASSUME NEW s \in Reached(d), s \in ViolationIn(d)[n + 1] PROVE FALSE
    <3>1. PICK m \in Moves(d) : m[1] = s /\ d.next[m] \in ViolationIn(d)[n]
      BY <2>1, DistanceUnfolds DEF Before
    <3>2. d.next[m] \in Reached(d)
      BY <2>1, <3>1, ReachedByMoves
    <3> QED BY <1>2, <3>1, <3>2
  <2> QED BY <2>1
<1> HIDE DEF Set
<1>3. b \in Set
  <2>1. 0 .. b \subseteq Set
    BY <1>1, <1>2, TimeframeInduction
  <2> QED BY <2>1
<1>4. PICK s \in d.init : s \in ViolationIn(d)[b]
  BY DEF Misses
<1>5. s \in Reached(d)
  BY <1>4, ReachedFromInit
<1> QED BY <1>3, <1>4, <1>5 DEF Set

LEMMA NetlistIsSystem == ASSUME NEW d \in Netlists PROVE IsSystem(d)
BY DEF Netlists, IsSystem

\* Every answer is right, dead ends or not: the search proves a property that holds in
\* all states that the netlist reaches, and refutes one that fails in some of them.
THEOREM BddAnswersAreRight ==
  Spec => [](/\ result.outcome = "PROVED" => ~Violated(design)
             /\ result.outcome = "REFUTED" => Violated(design))
<1>1. FullInv => /\ result.outcome = "PROVED" => ~Violated(design)
                 /\ result.outcome = "REFUTED" => Violated(design)
  <2> SUFFICES ASSUME FullInv PROVE /\ result.outcome = "PROVED" => ~Violated(design)
                                    /\ result.outcome = "REFUTED" => Violated(design)
    OBVIOUS
  <2>1. IsSystem(design) /\ SearchTyped /\ Answered
    BY NetlistIsSystem DEF FullInv, SearchInv
  <2>2. ASSUME result.outcome = "REFUTED" PROVE Violated(design)
    <3>1. result.length - 1 \in Nat
      BY <2>1, <2>2 DEF SearchTyped, Running, Proved, Refuted
    <3> QED BY <2>1, <2>2, <3>1, DistanceViolates DEF Answered
  <2> QED BY <2>1, <2>2, MissesHolds DEF Answered
<1> QED BY <1>1, InitFullInv, NextFullInv, PTL DEF Spec

-----------------------------------------------------------------------------
\* The design that unwind() sees.

LEMMA MergedFields ==
  ASSUME NEW d \in Netlists
  PROVE  /\ Merged(d).init = d.init /\ Merged(d).next = d.next
         /\ Merged(d).constraint = Moves(d) /\ Merged(d).property = d.property
BY DEF Merged, Netlists

LEMMA MergedHolds == ASSUME NEW d \in Netlists, ~Violated(d) PROVE Holds(Merged(d))
<1> DEFINE m == Merged(d)
<1>1. IsSystem(d) /\ m.init = d.init /\ m.next = d.next /\ m.constraint = Moves(d) /\ m.property = d.property
  BY MergedFields, NetlistIsSystem
<1> HIDE DEF m
<1>2. LiveInit(m) \subseteq Reached(d)
  BY <1>1, ReachedFromInit DEF LiveInit
<1>3. Closed(m, Reached(d))
  <2>1. ASSUME NEW s \in Reached(d), NEW t \in State, Step(m, s, t) PROVE t \in Reached(d)
    <3>1. PICK i \in Inputs : <<s, i>> \in Moves(d) /\ t = d.next[<<s, i>>]
      BY <1>1, <2>1 DEF Step
    <3>2. <<s, i>>[1] \in Reached(d)
      BY <2>1
    <3> QED BY <1>1, <3>1, <3>2, ReachedByMoves
  <2> QED BY <2>1 DEF Closed
<1>4. Reached(d) \in SUBSET State
  BY DEF Reached
<1>5. Reachable(m) \subseteq Reached(d)
  BY <1>2, <1>3, <1>4 DEF Reachable
<1>6. ASSUME NEW s \in Reached(d), Bad(m, s) PROVE FALSE
  <2>1. PICK i \in Inputs : <<s, i>> \in Moves(d) /\ <<s, i>> \notin d.property
    BY <1>1, <1>6 DEF Bad
  <2>2. s \in Failing(d)
    BY <2>1 DEF Failing, Moves
  <2> QED BY <1>6, <2>2 DEF Violated
<1>7. Holds(m)
  BY <1>5, <1>6 DEF Holds
<1> QED BY <1>7 DEF m

\* An initial state at distance n: a counterexample with n + 1 states.
LEMMA DistanceRefutes ==
  ASSUME NEW d \in Netlists, BadStatesMoveOn(d), NEW n \in Nat, ~Misses(d, n)
  PROVE  Counterexample(Merged(d), n + 1)
<1> DEFINE m == Merged(d)
<1>a. m.init = d.init /\ m.next = d.next /\ m.constraint = Moves(d) /\ m.property = d.property
  BY MergedFields
<1> HIDE DEF m
<1>1. PICK s \in d.init : s \in ViolationIn(d)[n]
  BY DEF Misses
<1>2. PICK path : NodePath(d, path, n) /\ path[0][1] = s /\ \A j \in 0 .. n : path[j] \in Moves(d)
  <2>1. PICK p : NodePath(d, p, n) /\ p[0][1] = s
    BY <1>1, DistanceHasPath
  <2> QED BY <2>1, PathOfMoves
<1> DEFINE st == [j \in 0 .. n |-> path[j][1]]
<1>3. \A j \in 0 .. n : /\ path[j] \in Moves(d)
                        /\ path[j] = <<st[j], path[j][2]>> /\ path[j][2] \in Inputs /\ st[j] \in State
  BY <1>2 DEF Moves, Netlists
<1>4. 0 \in 0 .. n /\ n \in 0 .. n /\ (n + 1) - 1 = n
  OBVIOUS
<1>5. st \in [0 .. n -> State] /\ st[0] = s
  BY <1>2, <1>3, <1>4
<1>6. ASSUME NEW j \in 0 .. n, j < n PROVE Step(m, st[j], st[j + 1])
  <2>1. j + 1 \in 0 .. n /\ j \in 0 .. n - 1
    BY <1>6
  <2>2. st[j + 1] = d.next[path[j]]
    BY <1>2, <2>1 DEF NodePath
  <2> QED BY <1>a, <1>3, <2>2 DEF Step
<1>7. path[n] \notin d.property
  BY <1>2 DEF NodePath
<1> HIDE DEF st
<1>8. IsPath(m, st, n) /\ Bad(m, st[n]) /\ st[0] \in LiveInit(m)
  BY <1>a, <1>1, <1>3, <1>4, <1>5, <1>6, <1>7 DEF IsPath, Bad, LiveInit
<1>9. Counterexample(m, n + 1)
  BY <1>4, <1>5, <1>8 DEF Counterexample
<1> QED BY <1>9 DEF m

\* The abstract checker reads the design as the search does.
LEMMA SameVocabulary ==
  /\ Verdict!Running = Running
  /\ Verdict!Proved = Proved
  /\ \A n : Verdict!Refuted(n) = Refuted(n)
  /\ \A d : Verdict!Holds(d) = Holds(d)
  /\ \A d, n : Verdict!Counterexample(d, n) = Counterexample(d, n)
<1>1. \A d : Verdict!Holds(d) = Holds(d)
  BY DEF Verdict!Holds, Holds, Verdict!Reachable, Reachable, Verdict!Closed, Closed,
    Verdict!State, State, Verdict!Step, Step, Verdict!LiveInit, LiveInit, Verdict!Bad, Bad
<1>2. \A d, n : Verdict!Counterexample(d, n) = Counterexample(d, n)
  BY DEF Verdict!Counterexample, Counterexample, Verdict!IsPath, IsPath,
    Verdict!State, State, Verdict!Step, Step, Verdict!LiveInit, LiveInit, Verdict!Bad, Bad
<1> QED BY <1>1, <1>2 DEF Verdict!Running, Running, Verdict!Proved, Proved,
    Verdict!Refuted, Refuted

\* Where no bad state is a dead end, the backward search implements the abstract checker
\* for the design that unwind() sees: each REFUTED has the length of a trace that the
\* recomputation of the counterexample finds.
THEOREM BddImplementsVerdict ==
  ASSUME \A d \in Designs : BadStatesMoveOn(d)
  PROVE  Spec => ImplementsSafetyVerdict
<1> DEFINE seen == Merged(design)
<1>1. Init => Verdict!Init
  BY SameVocabulary DEF Init, Verdict!Init
<1>2. FullInv /\ FullInv' /\ [Next]_vars => [Verdict!Next]_<<seen, result>>
  <2> SUFFICES ASSUME FullInv, FullInv', [Next]_vars
               PROVE  [Verdict!Next]_<<seen, result>>
    OBVIOUS
  <2>1. design' = design /\ seen' = seen /\ design \in Netlists /\ BadStatesMoveOn(design)
    <3>1. design' = design
      BY DEF Next, Iterate, Terminated, vars
    <3> QED BY <3>1 DEF FullInv, Merged, Moves
  <2>2. CASE result = Running /\ result' = Refuted(iteration + 1)
    <3>1. iteration \in Nat /\ iteration + 1 \in Nat \ {0}
      BY DEF FullInv, SearchInv, SearchTyped
    <3>2. result'.length = iteration + 1 /\ result'.outcome = "REFUTED"
      BY <2>2 DEF Refuted
    <3>3. Counterexample(seen, result'.length)
      <4>1. ~Misses(design, iteration)
        BY <2>1, <3>1, <3>2 DEF FullInv, SearchInv, Answered
      <4> QED BY <2>1, <3>1, <3>2, <4>1, DistanceRefutes
    <3> QED BY <2>1, <2>2, <3>1, <3>2, <3>3, SameVocabulary DEF Verdict!Next, Verdict!Refute
  <2>3. CASE result = Running /\ result' = Proved
    <3>1. Holds(seen)
      <4>1. \A n \in Nat : Misses(design, n)
        BY <2>1, <2>3 DEF FullInv, SearchInv, Answered, Proved
      <4> QED BY <2>1, <4>1, MissesHolds, MergedHolds, NetlistIsSystem
    <3> QED BY <2>1, <2>3, <3>1, SameVocabulary DEF Verdict!Next, Verdict!Prove
  <2>4. CASE result' = result
    BY <2>1, <2>4
  <2> QED BY <2>2, <2>3, <2>4 DEF Next, Iterate, Terminated, vars
<1> QED BY <1>1, <1>2, InitFullInv, NextFullInv, PTL
      DEF Spec, ImplementsSafetyVerdict, Verdict!Spec

=============================================================================
