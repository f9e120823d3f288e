------------------------------ MODULE WordLevel_proofs ------------------------------
(***************************************************************************)
(* Facts about unwindings, lassos and words that hold for every design.    *)
(* They are facts about recursive definitions, so they need induction,     *)
(* that of NumberInduction.                                                *)
(***************************************************************************)
EXTENDS WordLevel, NumberInduction

-----------------------------------------------------------------------------
\* Unwindings.

\* st is the sequence of states from s under the inputs u, over timeframes 0 .. b.
StatesFrom(d, s, u, b, st) ==
  st = [t \in 0 .. b |-> IF t = 0 THEN s ELSE d.next[<<st[t - 1], u[t - 1]>>]]

\* The states of an unwinding exist: the recursive function of Unwind is one.
LEMMA StatesExist ==
  ASSUME NEW d, NEW s, NEW u, NEW b \in Nat
  PROVE  \E st : StatesFrom(d, s, u, b, st)
<1> DEFINE Good(st, n) == StatesFrom(d, s, u, n, st)
           Set == {n \in Nat : \E st : Good(st, n)}
<1>1. Good([t \in 0 .. 0 |-> s], 0)
  BY DEF StatesFrom
<1>2. ASSUME NEW n \in Nat, NEW st, Good(st, n)
      PROVE  \E st1 : Good(st1, n + 1)
  <2> DEFINE st1 == [t \in 0 .. n + 1 |-> IF t = n + 1 THEN d.next[<<st[n], u[n]>>] ELSE st[t]]
  <2>1. ASSUME NEW t \in 0 .. n + 1
        PROVE  st1[t] = IF t = 0 THEN s ELSE d.next[<<st1[t - 1], u[t - 1]>>]
    <3>1. CASE t = n + 1
      <4>1. t # 0 /\ n \in 0 .. n + 1 /\ n # n + 1 /\ t - 1 = n
        BY <3>1
      <4>2. st1[n] = st[n]
        BY <4>1
      <4> QED BY <3>1, <4>1, <4>2
    <3>2. CASE t # n + 1
      <4>1. t \in 0 .. n /\ st1[t] = st[t]
        BY <3>2
      <4>2. t # 0 => t - 1 \in 0 .. n + 1 /\ t - 1 # n + 1
        BY <4>1
      <4>3. st[t] = IF t = 0 THEN s ELSE d.next[<<st[t - 1], u[t - 1]>>]
        BY <1>2, <4>1 DEF StatesFrom
      <4> QED BY <4>1, <4>2, <4>3
    <3> QED BY <3>1, <3>2
  <2>2. Good(st1, n + 1)
    BY <2>1 DEF StatesFrom
  <2> HIDE DEF st1
  <2> QED BY <2>2
<1> HIDE DEF Good
<1>3. 0 \in Set /\ \A n \in 0 .. b - 1 : n \in Set => n + 1 \in Set
  BY <1>1, <1>2
<1> HIDE DEF Set
<1>4. 0 .. b \subseteq Set
  BY <1>3, TimeframeInduction
<1> QED BY <1>4 DEF Set, Good

\* The timeframes of an unwinding.
LEMMA UnwindUnfolds ==
  ASSUME NEW d, NEW s, NEW u, NEW b \in Nat, NEW path, path = Unwind(d, s, u, b)
  PROVE  /\ path = [t \in 0 .. b |-> <<path[t][1], u[t]>>]
         /\ path[0][1] = s
         /\ \A t \in 0 .. b - 1 : path[t + 1][1] = d.next[path[t]]
<1> DEFINE st == CHOOSE f : StatesFrom(d, s, u, b, f)
<1>1. StatesFrom(d, s, u, b, st)
  BY StatesExist
<1>2. path = [t \in 0 .. b |-> <<st[t], u[t]>>]
  BY DEF Unwind, StatesFrom
<1> HIDE DEF st
<1>3. st[0] = s
  BY <1>1 DEF StatesFrom
<1>4. ASSUME NEW t \in 0 .. b - 1 PROVE st[t + 1] = d.next[<<st[t], u[t]>>]
  <2>1. t + 1 \in 0 .. b /\ t + 1 # 0 /\ (t + 1) - 1 = t
    OBVIOUS
  <2>2. st[t + 1] = IF t + 1 = 0 THEN s ELSE d.next[<<st[(t + 1) - 1], u[(t + 1) - 1]>>]
    BY <1>1, <2>1 DEF StatesFrom
  <2> QED BY <2>1, <2>2
<1>5. \A t \in 0 .. b : path[t] = <<st[t], u[t]>> /\ path[t][1] = st[t]
  BY <1>2
<1>6. ASSUME NEW t \in 0 .. b - 1 PROVE path[t + 1][1] = d.next[path[t]]
  BY <1>4, <1>5
<1>7. path = [t \in 0 .. b |-> <<path[t][1], u[t]>>]
  BY <1>2, <1>5
<1>8. path[0][1] = s
  BY <1>3, <1>5
<1> QED BY <1>6, <1>7, <1>8

\* What the design has to be for its unwindings to be sequences of nodes.
IsDesign(d) == d.init \subseteq State /\ d.next \in [Node -> State]

\* Timeframes 0 .. b that follow the transition relation.
IsRun(d, path, b) ==
  /\ path \in [0 .. b -> Node]
  /\ \A t \in 0 .. b - 1 : path[t + 1][1] = d.next[path[t]]

\* Unwindings are the runs, the state of timeframe 0 being given.
LEMMA UnwindIsRun ==
  ASSUME NEW d, IsDesign(d), NEW b \in Nat, NEW s \in State, NEW u \in [0 .. b -> Inputs]
  PROVE  IsRun(d, Unwind(d, s, u, b), b) /\ Unwind(d, s, u, b)[0][1] = s
<1> DEFINE path == Unwind(d, s, u, b)
           S == {t \in 0 .. b : path[t] \in Node}
<1>1. /\ path = [t \in 0 .. b |-> <<path[t][1], u[t]>>]
      /\ path[0][1] = s
      /\ \A t \in 0 .. b - 1 : path[t + 1][1] = d.next[path[t]]
  BY UnwindUnfolds
<1> HIDE DEF path
<1>2. \A t \in 0 .. b : path[t] = <<path[t][1], u[t]>> /\ u[t] \in Inputs
  BY <1>1
<1>3. 0 \in S
  BY <1>1, <1>2 DEF Node
<1>4. ASSUME NEW t \in 0 .. b - 1, t \in S PROVE t + 1 \in S
  <2>1. path[t] \in Node
    BY <1>4
  <2>2. t + 1 \in 0 .. b
    OBVIOUS
  <2>3. path[t + 1][1] = d.next[path[t]]
    BY <1>1
  <2>4. path[t + 1][1] \in State
    BY <2>1, <2>3 DEF IsDesign
  <2>5. path[t + 1] = <<path[t + 1][1], u[t + 1]>> /\ u[t + 1] \in Inputs
    BY <1>2, <2>2
  <2>6. \A x \in State, y \in Inputs : <<x, y>> \in Node
    BY DEF Node
  <2>7. path[t + 1] \in Node
    BY <2>4, <2>5, <2>6
  <2> QED BY <2>2, <2>7
<1> HIDE DEF S
<1>5. 0 .. b \subseteq S
  BY <1>3, <1>4, TimeframeInduction
<1>6. path \in [0 .. b -> Node]
  <2>1. \A t \in 0 .. b : path[t] \in Node
    BY <1>5 DEF S
  <2>2. DOMAIN path = 0 .. b /\ path = [t \in 0 .. b |-> path[t]]
    BY <1>1
  <2> QED BY <2>1, <2>2
<1> QED BY <1>1, <1>6 DEF IsRun, path

\* The other way round: a run is the unwinding from its first state.
LEMMA RunIsUnwind ==
  ASSUME NEW d, IsDesign(d), NEW b \in Nat, NEW path, IsRun(d, path, b)
  PROVE  \E s \in State, u \in [0 .. b -> Inputs] : s = path[0][1] /\ path = Unwind(d, s, u, b)
<1> DEFINE s == path[0][1]
           u == [t \in 0 .. b |-> path[t][2]]
           path2 == Unwind(d, s, u, b)
           S == {t \in 0 .. b : path2[t] = path[t]}
<1>1. /\ path \in [0 .. b -> Node]
      /\ \A t \in 0 .. b - 1 : path[t + 1][1] = d.next[path[t]]
  BY DEF IsRun
<1>2. \A t \in 0 .. b : /\ path[t] = <<path[t][1], path[t][2]>>
                        /\ path[t][1] \in State /\ path[t][2] \in Inputs
  BY <1>1 DEF Node
<1>3. s \in State /\ u \in [0 .. b -> Inputs]
  BY <1>2
<1>4. /\ path2 = [t \in 0 .. b |-> <<path2[t][1], u[t]>>]
      /\ path2[0][1] = s
      /\ \A t \in 0 .. b - 1 : path2[t + 1][1] = d.next[path2[t]]
  <2> HIDE DEF s, u
  <2> QED BY UnwindUnfolds
<1> HIDE DEF path2
<1>5. \A t \in 0 .. b : path2[t] = <<path2[t][1], path[t][2]>>
  BY <1>4
<1>6. 0 \in S
  BY <1>2, <1>4, <1>5
<1>7. ASSUME NEW t \in 0 .. b - 1, t \in S PROVE t + 1 \in S
  <2>1. path2[t] = path[t] /\ t + 1 \in 0 .. b
    BY <1>7
  <2>2. path2[t + 1][1] = d.next[path2[t]] /\ path[t + 1][1] = d.next[path[t]]
    BY <1>1, <1>4
  <2>3. path2[t + 1] = path[t + 1]
    BY <1>2, <1>5, <2>1, <2>2
  <2> QED BY <2>1, <2>3
<1> HIDE DEF S
<1>8. 0 .. b \subseteq S
  BY <1>6, <1>7, TimeframeInduction
<1>9. path2 = path
  <2>1. \A t \in 0 .. b : path2[t] = path[t]
    BY <1>8 DEF S
  <2>2. path2 = [t \in 0 .. b |-> path2[t]] /\ path = [t \in 0 .. b |-> path[t]]
    BY <1>1, <1>4
  <2> QED BY <2>1, <2>2
<1> HIDE DEF s, u
<1> QED BY <1>3, <1>9 DEF path2, s

\* The unwindings from the initial states are the runs that start in one.
LEMMA PathsAreRuns ==
  ASSUME NEW d, IsDesign(d), NEW b \in Nat, NEW path
  PROVE  path \in Paths(d, b) <=> IsRun(d, path, b) /\ path[0][1] \in d.init
<1>1. ASSUME path \in Paths(d, b) PROVE IsRun(d, path, b) /\ path[0][1] \in d.init
  <2>1. PICK s \in d.init, u \in [0 .. b -> Inputs] : path = Unwind(d, s, u, b)
    BY <1>1 DEF Paths
  <2>2. s \in State
    BY DEF IsDesign
  <2> QED BY <2>1, <2>2, UnwindIsRun
<1>2. ASSUME IsRun(d, path, b), path[0][1] \in d.init PROVE path \in Paths(d, b)
  <2>1. PICK s \in State, u \in [0 .. b -> Inputs] : s = path[0][1] /\ path = Unwind(d, s, u, b)
    BY <1>2, RunIsUnwind
  <2> QED BY <1>2, <2>1 DEF Paths
<1> QED BY <1>1, <1>2
-----------------------------------------------------------------------------
\* Words, unrolled.

\* The positions that timeframes 0 .. b go through in a word that ends at n and
\* repeats from k.
GoesThrough(pos, k, n, b) ==
  /\ pos \in [0 .. b -> 0 .. n - 1]
  /\ pos[0] = 0
  /\ \A t \in 0 .. b - 1 : pos[t + 1] = IF pos[t] + 1 = n THEN k ELSE pos[t] + 1

\* Where an unrolled word is: the timeframe of the word at each timeframe of the path.
LEMMA PositionsExist ==
  ASSUME NEW n \in Nat \ {0}, NEW k \in 0 .. n - 1, NEW b \in Nat
  PROVE  \E pos : GoesThrough(pos, k, n, b)
<1> DEFINE Set == {m \in Nat : \E pos : GoesThrough(pos, k, n, m)}
<1>1. 0 \in Set
  <2> DEFINE pos == [t \in 0 .. 0 |-> 0]
  <2>1. GoesThrough(pos, k, n, 0)
    BY DEF GoesThrough
  <2> QED BY <2>1
<1>2. ASSUME NEW m \in 0 .. b - 1, m \in Set PROVE m + 1 \in Set
  <2>1. PICK pos : GoesThrough(pos, k, n, m)
    BY <1>2
  <2> DEFINE new  == IF pos[m] + 1 = n THEN k ELSE pos[m] + 1
             pos2 == [t \in 0 .. m + 1 |-> IF t = m + 1 THEN new ELSE pos[t]]
  <2>2. pos[m] \in 0 .. n - 1 /\ new \in 0 .. n - 1
    BY <2>1 DEF GoesThrough
  <2>3. pos2[m + 1] = new /\ \A t \in 0 .. m : pos2[t] = pos[t]
    OBVIOUS
  <2>4. pos2 \in [0 .. m + 1 -> 0 .. n - 1]
    <3>1. \A t \in 0 .. m + 1 : t = m + 1 \/ t \in 0 .. m
      OBVIOUS
    <3>2. \A t \in 0 .. m + 1 : pos2[t] \in 0 .. n - 1
      BY <2>1, <2>2, <2>3, <3>1 DEF GoesThrough
    <3> HIDE DEF new
    <3> QED BY <3>2
  <2>5. ASSUME NEW t \in 0 .. (m + 1) - 1
        PROVE  pos2[t + 1] = IF pos2[t] + 1 = n THEN k ELSE pos2[t] + 1
    <3>1. CASE t = m
      BY <2>3, <3>1
    <3>2. CASE t # m
      <4>1. t \in 0 .. m - 1 /\ t \in 0 .. m /\ t + 1 \in 0 .. m
        BY <3>2
      <4>2. pos2[t] = pos[t] /\ pos2[t + 1] = pos[t + 1]
        BY <2>3, <4>1
      <4> QED BY <2>1, <4>1, <4>2 DEF GoesThrough
    <3> QED BY <3>1, <3>2
  <2>6. pos2[0] = 0
    BY <2>1, <2>3 DEF GoesThrough
  <2> HIDE DEF pos2
  <2>7. GoesThrough(pos2, k, n, m + 1)
    BY <2>4, <2>5, <2>6 DEF GoesThrough
  <2> QED BY <2>7
<1> HIDE DEF Set
<1>3. 0 .. b \subseteq Set
  BY <1>1, <1>2, TimeframeInduction
<1> QED BY <1>3 DEF Set

\* Up to the end of the word they are the same.
LEMMA PositionsAtFirst ==
  ASSUME NEW n \in Nat \ {0}, NEW k \in 0 .. n - 1, NEW b \in Nat, NEW pos, GoesThrough(pos, k, n, b)
  PROVE  /\ \A t \in 0 .. b : t < n => pos[t] = t
         /\ n \in 0 .. b => pos[n] = k
<1> DEFINE S == {t \in 0 .. b : t < n => pos[t] = t}
<1>1. 0 \in S
  BY DEF GoesThrough
<1>2. ASSUME NEW t \in 0 .. b - 1, t \in S PROVE t + 1 \in S
  <2>1. pos[t + 1] = IF pos[t] + 1 = n THEN k ELSE pos[t] + 1
    BY DEF GoesThrough
  <2>2. t + 1 < n => pos[t] = t
    BY <1>2
  <2>3. t + 1 < n => pos[t + 1] = t + 1
    BY <2>1, <2>2
  <2> QED BY <2>3
<1> HIDE DEF S
<1>3. 0 .. b \subseteq S
  BY <1>1, <1>2, TimeframeInduction
<1>4. \A t \in 0 .. b : t < n => pos[t] = t
  BY <1>3 DEF S
<1>5. ASSUME n \in 0 .. b PROVE pos[n] = k
  <2>1. n - 1 \in 0 .. b - 1 /\ n - 1 \in 0 .. b /\ n - 1 < n /\ (n - 1) + 1 = n
    BY <1>5
  <2>2. pos[n - 1] = n - 1
    BY <1>4, <2>1
  <2> QED BY <2>1, <2>2 DEF GoesThrough
<1> QED BY <1>4, <1>5

\* The path is the word up to its end and stays on it.
FollowsWord(path, b, w) ==
  /\ \A t \in 0 .. b : t <= w.last => path[t] = w.path[t]
  /\ \A t \in 0 .. b : \E k \in 0 .. w.last - 1 : path[t] = w.path[k]
  /\ \A t \in 0 .. b - 1 : \E k \in 0 .. w.last - 1 : path[t] = w.path[k] /\ path[t + 1] = w.path[k + 1]

\* What a word is.
LEMMA WordType ==
  ASSUME NEW d, IsDesign(d), NEW h \in Nat, NEW w \in Words(d, h)
  PROVE  /\ w.last \in 1 .. h
         /\ w.loop \in 0 .. w.last - 1
         /\ w.path[w.loop] = w.path[w.last]
         /\ IsRun(d, w.path, w.last)
         /\ w.path[0][1] \in d.init
         /\ w.path \in [0 .. w.last -> Node]
<1>1. PICK n \in 1 .. h : w \in WordsOfLength(d, n)
  BY DEF Words
<1>2. /\ w.path \in Paths(d, n) /\ w.loop \in 0 .. n - 1 /\ w.last = n
      /\ w.path[w.loop] = w.path[n]
  BY <1>1 DEF WordsOfLength
<1>3. IsRun(d, w.path, n) /\ w.path[0][1] \in d.init
  BY <1>2, PathsAreRuns
<1>4. w.path \in [0 .. n -> Node]
  BY <1>3 DEF IsRun
<1> QED BY <1>2, <1>3, <1>4

\* The infinite run of a word has prefixes of every length.
LEMMA WordUnrolls ==
  ASSUME NEW d, IsDesign(d), NEW h \in Nat, NEW w \in Words(d, h), NEW b \in Nat
  PROVE  \E path \in Paths(d, b) : FollowsWord(path, b, w)
<1> DEFINE n == w.last
           k == w.loop
<1>1. /\ n \in Nat \ {0} /\ k \in 0 .. n - 1
      /\ w.path[k] = w.path[n]
      /\ w.path \in [0 .. n -> Node]
      /\ w.path[0][1] \in d.init
      /\ \A t \in 0 .. n - 1 : w.path[t + 1][1] = d.next[w.path[t]]
  <2>1. n \in 1 .. h /\ k \in 0 .. n - 1 /\ w.path[k] = w.path[n] /\ w.path[0][1] \in d.init
    BY WordType
  <2>2. IsRun(d, w.path, n)
    BY WordType
  <2> HIDE DEF n, k
  <2> QED BY <2>1, <2>2 DEF IsRun
<1> HIDE DEF n, k
<1>2. PICK pos : GoesThrough(pos, k, n, b)
  BY <1>1, PositionsExist
<1>3. pos \in [0 .. b -> 0 .. n - 1] /\ pos[0] = 0
  BY <1>2 DEF GoesThrough
<1>4. /\ \A t \in 0 .. b : t < n => pos[t] = t
      /\ n \in 0 .. b => pos[n] = k
  BY <1>1, <1>2, PositionsAtFirst
<1> DEFINE path == [t \in 0 .. b |-> w.path[pos[t]]]
<1>5. \A t \in 0 .. b : path[t] = w.path[pos[t]] /\ path[t] \in Node
  BY <1>1, <1>3
<1>6. path \in [0 .. b -> Node]
  BY <1>5
<1> HIDE DEF path
<1>7. ASSUME NEW t \in 0 .. b - 1
      PROVE  path[t] = w.path[pos[t]] /\ path[t + 1] = w.path[pos[t] + 1]
  <2>1. t \in 0 .. b /\ t + 1 \in 0 .. b
    OBVIOUS
  <2>2. pos[t + 1] = IF pos[t] + 1 = n THEN k ELSE pos[t] + 1
    BY <1>2 DEF GoesThrough
  <2> QED BY <1>1, <1>5, <2>1, <2>2
<1>8. ASSUME NEW t \in 0 .. b - 1 PROVE path[t + 1][1] = d.next[path[t]]
  <2>1. pos[t] \in 0 .. n - 1
    BY <1>3
  <2>2. w.path[pos[t] + 1][1] = d.next[w.path[pos[t]]]
    BY <1>1, <2>1
  <2> QED BY <1>7, <2>2
<1>9. path[0][1] \in d.init
  <2>1. path[0] = w.path[0]
    BY <1>3, <1>5
  <2> QED BY <1>1, <2>1
<1>10. path \in Paths(d, b)
  BY <1>6, <1>8, <1>9, PathsAreRuns DEF IsRun
<1>11. ASSUME NEW t \in 0 .. b, t <= n PROVE path[t] = w.path[t]
  <2>1. CASE t < n
    BY <1>4, <1>5, <2>1
  <2>2. CASE t = n
    BY <1>1, <1>4, <1>5, <2>2
  <2> QED BY <1>1, <1>11, <2>1, <2>2
<1>12. \A t \in 0 .. b : \E x \in 0 .. n - 1 : path[t] = w.path[x]
  BY <1>3, <1>5
<1>13. ASSUME NEW t \in 0 .. b - 1
       PROVE  \E x \in 0 .. n - 1 : path[t] = w.path[x] /\ path[t + 1] = w.path[x + 1]
  <2>1. pos[t] \in 0 .. n - 1
    BY <1>3
  <2> QED BY <1>7, <2>1
<1>14. FollowsWord(path, b, w)
  BY <1>11, <1>12, <1>13 DEF FollowsWord, n
<1> QED BY <1>10, <1>14
-----------------------------------------------------------------------------
\* What an unwinding shows of a word.

\* The shapes whose violation a prefix of a run shows.
SafetyForms == {"now", "next", "G", "GX"}

\* A prefix of a word that keeps an assumption keeps it.
LEMMA PrefixKeeps ==
  ASSUME NEW d, IsDesign(d), NEW h \in Nat, NEW w \in Words(d, h), NEW b \in Nat, NEW path,
         FollowsWord(path, b, w), NEW p, p.form \in SafetyForms, ViolatedBy(p, w) = {}
  PROVE  ~Falsified(p, path, b)
<1>1. w.last \in Nat \ {0}
  BY WordType
<1>2. /\ \A t \in 0 .. b : t <= w.last => path[t] = w.path[t]
      /\ \A t \in 0 .. b : \E k \in 0 .. w.last - 1 : path[t] = w.path[k]
      /\ \A t \in 0 .. b - 1 : \E k \in 0 .. w.last - 1 : path[t] = w.path[k] /\ path[t + 1] = w.path[k + 1]
  BY DEF FollowsWord
<1>3. CASE p.form = "now"
  <2>1. w.path[0] \in p.pred
    BY <1>3 DEF ViolatedBy
  <2>2. path[0] = w.path[0]
    BY <1>1, <1>2
  <2> QED BY <1>3, <2>1, <2>2 DEF Falsified
<1>4. CASE p.form = "next"
  <2>1. w.path[1] \in p.pred
    BY <1>4 DEF ViolatedBy
  <2>2. b >= 1 => path[1] = w.path[1]
    BY <1>1, <1>2
  <2> QED BY <1>4, <2>1, <2>2 DEF Falsified
<1>5. CASE p.form = "G"
  <2>1. \A t \in 0 .. w.last : w.path[t] \in p.pred
    BY <1>5 DEF ViolatedBy
  <2>2. \A t \in 0 .. b : path[t] \in p.pred
    BY <1>1, <1>2, <2>1
  <2> QED BY <1>5, <2>2 DEF Falsified
<1>6. CASE p.form = "GX"
  <2>1. \A t \in 1 .. w.last : <<w.path[t - 1], w.path[t]>> \in p.step
    BY <1>6 DEF ViolatedBy
  <2>2. ASSUME NEW t \in 1 .. b PROVE <<path[t - 1], path[t]>> \in p.step
    <3>1. t - 1 \in 0 .. b - 1 /\ (t - 1) + 1 = t
      OBVIOUS
    <3>2. PICK k \in 0 .. w.last - 1 : path[t - 1] = w.path[k] /\ path[t] = w.path[k + 1]
      BY <1>2, <3>1
    <3>3. k + 1 \in 1 .. w.last /\ (k + 1) - 1 = k
      BY <1>1
    <3>4. <<w.path[k], w.path[k + 1]>> \in p.step
      BY <2>1, <3>3
    <3> QED BY <3>2, <3>4
  <2> QED BY <1>6, <2>2 DEF Falsified
<1> QED BY <1>3, <1>4, <1>5, <1>6 DEF SafetyForms

\* A prefix of a word that reaches the violation shows it.
LEMMA PrefixShows ==
  ASSUME NEW d, IsDesign(d), NEW h \in Nat, NEW w \in Words(d, h), NEW b \in Nat, NEW path,
         FollowsWord(path, b, w), NEW p, p.form \in Forms, NEW t \in ViolatedBy(p, w), t <= b
  PROVE  Falsified(p, path, b)
<1>1. w.last \in Nat \ {0} /\ w.loop \in 0 .. w.last - 1 /\ w.path[w.loop] = w.path[w.last]
  BY WordType
<1>2. \A x \in 0 .. b : x <= w.last => path[x] = w.path[x]
  BY DEF FollowsWord
<1>3. CASE p.form = "now"
  <2>1. w.path[0] \notin p.pred
    BY <1>3 DEF ViolatedBy
  <2>2. path[0] = w.path[0]
    BY <1>1, <1>2
  <2> QED BY <1>3, <2>1, <2>2 DEF Falsified
<1>4. CASE p.form = "next"
  <2>1. w.path[1] \notin p.pred /\ b >= 1
    BY <1>4 DEF ViolatedBy
  <2>2. path[1] = w.path[1]
    BY <1>1, <1>2, <2>1
  <2> QED BY <1>4, <2>1, <2>2 DEF Falsified
<1>5. CASE p.form = "G"
  <2>1. t \in 0 .. w.last /\ w.path[t] \notin p.pred
    BY <1>5 DEF ViolatedBy
  <2>2. t \in 0 .. b /\ path[t] \notin p.pred
    BY <1>1, <1>2, <2>1
  <2> QED BY <1>5, <2>2 DEF Falsified
<1>6. CASE p.form = "GX"
  <2>1. t \in 1 .. w.last /\ <<w.path[t - 1], w.path[t]>> \notin p.step
    BY <1>6 DEF ViolatedBy
  <2>2. t \in 1 .. b /\ path[t] = w.path[t] /\ path[t - 1] = w.path[t - 1]
    BY <1>1, <1>2, <2>1
  <2> QED BY <1>6, <2>1, <2>2 DEF Falsified
<1>7. CASE p.form \in {"F", "GF"}
  <2>1. t = w.last
    BY <1>7 DEF ViolatedBy
  <2>2. /\ w.loop \in 0 .. b /\ t \in 0 .. b /\ w.loop < t
        /\ path[w.loop] = path[t]
    BY <1>1, <1>2, <2>1
  <2>3. Lasso(path, w.loop, t)
    BY <2>2 DEF Lasso
  <2>4. CASE p.form = "F"
    <3>1. \A x \in 0 .. t : w.path[x] \notin p.pred
      BY <2>1, <2>4 DEF ViolatedBy
    <3>2. \A x \in 0 .. t : path[x] \notin p.pred
      BY <1>1, <1>2, <2>1, <2>2, <3>1
    <3> QED BY <2>2, <2>3, <2>4, <3>2 DEF Falsified
  <2>5. CASE p.form = "GF"
    <3>1. \A x \in w.loop .. t : w.path[x] \notin p.pred
      BY <2>1, <2>5 DEF ViolatedBy
    <3>2. \A x \in w.loop .. t : path[x] \notin p.pred
      BY <1>1, <1>2, <2>1, <2>2, <3>1
    <3> QED BY <2>2, <2>3, <2>5, <3>2 DEF Falsified
  <2> QED BY <1>7, <2>4, <2>5
<1>8. p.form # "EX"
  BY DEF ViolatedBy
<1> QED BY <1>3, <1>4, <1>5, <1>6, <1>7, <1>8 DEF Forms

\* The other way round: a word that begins with a path shows what the path falsifies.
LEMMA WordShows ==
  ASSUME NEW d, NEW b \in Nat, NEW path, NEW w, w.last \in Nat, w.last >= b,
         \A t \in 0 .. b : w.path[t] = path[t],
         NEW p, p.form \in SafetyForms, Falsified(p, path, b)
  PROVE  \E t \in ViolatedBy(p, w) : t <= w.last
<1>1. CASE p.form = "now"
  <2>1. w.path[0] \notin p.pred
    BY <1>1 DEF Falsified
  <2> QED BY <1>1, <2>1 DEF ViolatedBy
<1>2. CASE p.form = "next"
  <2>1. b >= 1 /\ w.path[1] \notin p.pred
    BY <1>2 DEF Falsified
  <2> QED BY <1>2, <2>1 DEF ViolatedBy
<1>3. CASE p.form = "G"
  <2>1. \E t \in 0 .. w.last : w.path[t] \notin p.pred
    BY <1>3 DEF Falsified
  <2> QED BY <1>3, <2>1 DEF ViolatedBy
<1>4. CASE p.form = "GX"
  <2>1. PICK t \in 1 .. b : <<path[t - 1], path[t]>> \notin p.step
    BY <1>4 DEF Falsified
  <2>2. <<w.path[t - 1], w.path[t]>> \notin p.step /\ t \in 1 .. w.last
    BY <2>1
  <2> QED BY <1>4, <2>2 DEF ViolatedBy
<1> QED BY <1>1, <1>2, <1>3, <1>4 DEF SafetyForms

\* What the path keeps, the word keeps too.
KeepsWhatPathKeeps(w, path, b) ==
  \A q : q.form \in SafetyForms /\ ~Falsified(q, path, b) => ViolatedBy(q, w) = {}

\* A lasso on a path is a word that keeps what the path keeps.
LEMMA LassoIsWord ==
  ASSUME NEW d, IsDesign(d), NEW h \in Nat, NEW b \in Nat, NEW path \in Paths(d, b),
         NEW k \in 0 .. b, NEW i \in 0 .. b, k < i, i <= h, path[k] = path[i]
  PROVE  \E w \in Words(d, h) :
           /\ w.loop = k /\ w.last = i /\ \A t \in 0 .. i : w.path[t] = path[t]
           /\ KeepsWhatPathKeeps(w, path, b)
<1> DEFINE stem == [t \in 0 .. i |-> path[t]]
           w == [path |-> stem, loop |-> k, last |-> i]
<1>1. IsRun(d, path, b) /\ path[0][1] \in d.init
  BY PathsAreRuns
<1>2. \A t \in 0 .. i : stem[t] = path[t] /\ t \in 0 .. b
  OBVIOUS
<1>3. stem \in Paths(d, i)
  <2>1. stem \in [0 .. i -> Node]
    BY <1>1, <1>2 DEF IsRun
  <2>2. ASSUME NEW t \in 0 .. i - 1 PROVE stem[t + 1][1] = d.next[stem[t]]
    <3>1. t \in 0 .. i /\ t + 1 \in 0 .. i /\ t \in 0 .. b - 1
      OBVIOUS
    <3>2. path[t + 1][1] = d.next[path[t]]
      BY <1>1, <3>1 DEF IsRun
    <3> QED BY <1>2, <3>1, <3>2
  <2>3. stem[0][1] \in d.init
    BY <1>1, <1>2
  <2> HIDE DEF stem
  <2>4. IsRun(d, stem, i)
    BY <2>1, <2>2 DEF IsRun
  <2> QED BY <2>3, <2>4, PathsAreRuns
<1>4. /\ w.path = stem /\ w.loop = k /\ w.last = i
      /\ w \in [path : Paths(d, i), loop : 0 .. i - 1, last : {i}]
  BY <1>3
<1> HIDE DEF w
<1>5. w \in Words(d, h)
  <2>1. w \in WordsOfLength(d, i)
    BY <1>2, <1>4 DEF WordsOfLength
  <2>2. i \in 1 .. h
    OBVIOUS
  <2> QED BY <2>1, <2>2 DEF Words
<1>6. ASSUME NEW q, q.form \in SafetyForms, ~Falsified(q, path, b)
      PROVE  ViolatedBy(q, w) = {}
  <2>1. CASE q.form = "now"
    BY <1>2, <1>4, <1>6, <2>1 DEF ViolatedBy, Falsified
  <2>2. CASE q.form = "next"
    <3>1. b >= 1 /\ 1 \in 0 .. i
      OBVIOUS
    <3>2. w.path[1] \in q.pred
      BY <1>2, <1>4, <1>6, <2>2, <3>1 DEF Falsified
    <3> QED BY <2>2, <3>2 DEF ViolatedBy
  <2>3. CASE q.form = "G"
    BY <1>2, <1>4, <1>6, <2>3 DEF ViolatedBy, Falsified
  <2>4. CASE q.form = "GX"
    <3>1. ASSUME NEW t \in 1 .. i PROVE <<w.path[t - 1], w.path[t]>> \in q.step
      <4>1. t \in 1 .. b /\ t - 1 \in 0 .. i /\ t \in 0 .. i
        OBVIOUS
      <4>2. <<path[t - 1], path[t]>> \in q.step
        BY <1>6, <2>4, <4>1 DEF Falsified
      <4> QED BY <1>2, <1>4, <4>1, <4>2
    <3> QED BY <1>4, <2>4, <3>1 DEF ViolatedBy
  <2> QED BY <1>6, <2>1, <2>2, <2>3, <2>4 DEF SafetyForms
<1>7. KeepsWhatPathKeeps(w, path, b)
  BY <1>6 DEF KeepsWhatPathKeeps
<1> QED BY <1>2, <1>4, <1>5, <1>7

\* It shows a liveness property false that the path falsifies.
LEMMA LassoShows ==
  ASSUME NEW d, IsDesign(d), NEW h \in Nat, NEW b \in Nat, b <= h, NEW path \in Paths(d, b),
         NEW p, p.form \in {"F", "GF"}, Falsified(p, path, b)
  PROVE  \E w \in Words(d, h) :
           /\ \E t \in ViolatedBy(p, w) : t <= w.last
           /\ KeepsWhatPathKeeps(w, path, b)
<1>1. PICK k \in 0 .. b, i \in 0 .. b :
        /\ k < i /\ path[k] = path[i]
        /\ p.form = "F" => \A t \in 0 .. i : path[t] \notin p.pred
        /\ p.form = "GF" => \A t \in k .. i : path[t] \notin p.pred
  BY DEF Falsified, Lasso
<1>2. i <= h
  OBVIOUS
<1>3. PICK w \in Words(d, h) :
        /\ w.loop = k /\ w.last = i /\ \A t \in 0 .. i : w.path[t] = path[t]
        /\ KeepsWhatPathKeeps(w, path, b)
  <2>1. k < i /\ path[k] = path[i]
    BY <1>1
  <2> QED BY <1>2, <2>1, LassoIsWord
<1>4. i \in ViolatedBy(p, w)
  <2>1. CASE p.form = "F"
    <3>1. \A t \in 0 .. i : w.path[t] \notin p.pred
      BY <1>1, <1>3, <2>1
    <3> QED BY <1>3, <2>1, <3>1 DEF ViolatedBy
  <2>2. CASE p.form = "GF"
    <3>1. \A t \in k .. i : w.path[t] \notin p.pred
      BY <1>1, <1>3, <2>2
    <3> QED BY <1>3, <2>2, <3>1 DEF ViolatedBy
  <2> QED BY <2>1, <2>2
<1> QED BY <1>3, <1>4

-----------------------------------------------------------------------------
\* Runs put together and shortened.

\* As many states as there are valuations of the state bits.
LEMMA StateCount ==
  ASSUME IsFiniteSet(Latches)
  PROVE  /\ IsFiniteSet(State)
         /\ Cardinality(State) = 2 ^ Cardinality(Latches)
         /\ 2 ^ Cardinality(Latches) \in Nat \ {0}
<1> DEFINE f == [X \in SUBSET Latches |-> [l \in Latches |-> l \in X]]
<1>1. \A X \in SUBSET Latches : f[X] \in State
  BY DEF State
<1>2. ASSUME NEW X \in SUBSET Latches, NEW Y \in SUBSET Latches, f[X] = f[Y] PROVE X = Y
  <2>1. \A l \in Latches : f[X][l] = (l \in X) /\ f[Y][l] = (l \in Y)
    OBVIOUS
  <2>2. \A l \in Latches : l \in X <=> l \in Y
    BY <1>2, <2>1, Zenon
  <2> QED BY <2>2
<1>3. ASSUME NEW s \in State PROVE \E X \in SUBSET Latches : f[X] = s
  <2> DEFINE X == {l \in Latches : s[l]}
  <2>1. s = [l \in Latches |-> s[l]] /\ \A l \in Latches : s[l] \in BOOLEAN
    BY DEF State
  <2>2. \A l \in Latches : (l \in X) = s[l]
    BY <2>1
  <2>3. [l \in Latches |-> l \in X] = [l \in Latches |-> s[l]]
    BY <2>2, Zenon
  <2> QED BY <2>1, <2>3
<1>4. f \in Bijection(SUBSET Latches, State)
  <2>1. f \in [SUBSET Latches -> State]
    BY <1>1
  <2> HIDE DEF f
  <2> QED BY <1>2, <1>3, <2>1 DEF Bijection, Injection, Surjection, IsInjective
<1>5. IsFiniteSet(SUBSET Latches) /\ Cardinality(SUBSET Latches) = 2 ^ Cardinality(Latches)
  BY FS_SUBSET
<1>6. IsFiniteSet(State) /\ Cardinality(State) = Cardinality(SUBSET Latches)
  BY <1>4, <1>5, FS_Bijection DEF ExistsBijection
<1>7. Cardinality(State) \in Nat /\ Cardinality(State) # 0
  <2>1. [l \in Latches |-> FALSE] \in State
    BY DEF State
  <2> QED BY <1>6, <2>1, FS_CardinalityType, FS_EmptySet
<1> QED BY <1>5, <1>6, <1>7

\* A run that begins with path1 and goes on as path2 does from timeframe t, where it
\* has the timeframe with which path1 ends.
LEMMA Glue ==
  ASSUME NEW d, IsDesign(d), NEW m \in Nat, NEW path1 \in Paths(d, m),
         NEW c \in Nat, NEW path2, IsRun(d, path2, c), NEW t \in 0 .. c, path1[m] = path2[t],
         NEW b \in Nat, m <= b, b <= m + (c - t)
  PROVE  \E path \in Paths(d, b) :
           /\ \A x \in 0 .. m : path[x] = path1[x]
           /\ \A x \in m .. b : path[x] = path2[t + (x - m)]
<1> DEFINE path == [x \in 0 .. b |-> IF x <= m THEN path1[x] ELSE path2[t + (x - m)]]
<1>1. IsRun(d, path1, m) /\ path1[0][1] \in d.init
  BY PathsAreRuns
<1>2. /\ path1 \in [0 .. m -> Node] /\ path2 \in [0 .. c -> Node]
      /\ \A x \in 0 .. m - 1 : path1[x + 1][1] = d.next[path1[x]]
      /\ \A x \in 0 .. c - 1 : path2[x + 1][1] = d.next[path2[x]]
  BY <1>1 DEF IsRun
<1>3. \A x \in 0 .. m : path[x] = path1[x]
  OBVIOUS
<1>4. \A x \in m .. b : t + (x - m) \in 0 .. c
  OBVIOUS
<1>5. ASSUME NEW x \in m .. b PROVE path[x] = path2[t + (x - m)]
  <2>1. CASE x = m
    <3>1. path[x] = path1[m] /\ t + (x - m) = t
      BY <1>3, <2>1
    <3> QED BY <3>1
  <2>2. CASE x # m
    BY <2>2
  <2> QED BY <2>1, <2>2
<1>6. ASSUME NEW x \in 0 .. b PROVE path[x] \in Node
  <2>1. CASE x <= m
    BY <1>2, <1>3, <2>1
  <2>2. CASE ~(x <= m)
    BY <1>2, <1>4, <1>5, <2>2
  <2> QED BY <2>1, <2>2
<1>7. path \in [0 .. b -> Node]
  BY <1>6
<1> HIDE DEF path
<1>8. ASSUME NEW x \in 0 .. b - 1 PROVE path[x + 1][1] = d.next[path[x]]
  <2>1. CASE x < m
    <3>1. x \in 0 .. m - 1 /\ x \in 0 .. m /\ x + 1 \in 0 .. m
      BY <2>1
    <3> QED BY <1>2, <1>3, <3>1
  <2>2. CASE ~(x < m)
    <3>1. x \in m .. b /\ x + 1 \in m .. b /\ t + ((x + 1) - m) = (t + (x - m)) + 1
      BY <2>2
    <3>2. t + (x - m) \in 0 .. c - 1
      BY <2>2
    <3>3. path2[(t + (x - m)) + 1][1] = d.next[path2[t + (x - m)]]
      BY <1>2, <3>2
    <3> QED BY <1>5, <3>1, <3>3
  <2> QED BY <2>1, <2>2
<1>9. path[0][1] \in d.init
  BY <1>1, <1>3
<1>10. path \in Paths(d, b)
  BY <1>7, <1>8, <1>9, PathsAreRuns DEF IsRun
<1> QED BY <1>3, <1>5, <1>10

\* Any timeframe that some path within A reaches is reached by one that passes no
\* state twice: the diameter of the design bounds its length.
LEMMA ShortPath ==
  ASSUME IsFiniteSet(Latches), NEW d, IsDesign(d), NEW A,
         NEW b \in Nat, NEW path \in Paths(d, b), \A x \in 0 .. b : path[x] \in A
  PROVE  \E m \in 0 .. 2 ^ Cardinality(Latches) - 1 : \E path2 \in Paths(d, m) :
            path2[m] = path[b] /\ \A x \in 0 .. m : path2[x] \in A
<1> DEFINE Reaches(p, m) == p \in Paths(d, m) /\ p[m] = path[b] /\ \A x \in 0 .. m : p[x] \in A
           Lengths == {m \in Nat : \E p : Reaches(p, m)}
           N == 2 ^ Cardinality(Latches)
<1>1. N \in Nat \ {0} /\ IsFiniteSet(State) /\ Cardinality(State) = N
  BY StateCount
<1> HIDE DEF N
<1>2. b \in Lengths
  OBVIOUS
<1>3. PICK m \in Lengths : \A n \in Lengths : m <= n
  <2>1. Lengths \subseteq Nat /\ Lengths # {}
    BY <1>2
  <2> HIDE DEF Lengths
  <2> QED BY <2>1, LeastNumber
<1>4. PICK p : Reaches(p, m)
  BY <1>3
<1>5. IsRun(d, p, m) /\ p[0][1] \in d.init /\ m \in Nat
  BY <1>3, <1>4, PathsAreRuns
<1>6. /\ p \in [0 .. m -> Node]
      /\ \A x \in 0 .. m - 1 : p[x + 1][1] = d.next[p[x]]
  BY <1>5 DEF IsRun
<1>7. ASSUME m >= N PROVE FALSE
  <2> DEFINE st == [x \in 0 .. m |-> p[x][1]]
  <2>1. st \in [0 .. m -> State]
    BY <1>6 DEF Node
  <2>2. IsFiniteSet(0 .. m) /\ Cardinality(0 .. m) = m + 1
    BY <1>5, FS_Interval
  <2>3. \E x, y \in 0 .. m : x # y /\ st[x] = st[y]
    <3> HIDE DEF st
    <3> QED BY <1>1, <1>5, <1>7, <2>1, <2>2, FS_PigeonHole
  <2>4. PICK x \in 0 .. m, y \in 0 .. m : x < y /\ p[x][1] = p[y][1]
    <3>1. PICK x \in 0 .. m, y \in 0 .. m : x # y /\ st[x] = st[y]
      BY <2>3
    <3>2. x < y \/ y < x
      BY <1>5, <3>1
    <3> QED BY <3>1, <3>2
  <2> DEFINE g == y - x
             short == [z \in 0 .. m - g |-> IF z < x THEN p[z] ELSE p[z + g]]
  <2>5. g \in 1 .. m /\ m - g \in 0 .. m - 1 /\ x <= m - g
    BY <1>5, <2>4
  <2>6. \A z \in 0 .. m - g : (z < x => z \in 0 .. m) /\ z + g \in 0 .. m
    BY <1>5, <2>5
  <2>7. \A z \in 0 .. m - g : short[z] = IF z < x THEN p[z] ELSE p[z + g]
    OBVIOUS
  <2>8. \A z \in 0 .. m - g : short[z] \in Node /\ short[z] \in A
    BY <1>4, <1>6, <2>6, <2>7
  <2>9. short \in [0 .. m - g -> Node]
    BY <2>8
  <2> HIDE DEF short
  <2>10. ASSUME NEW z \in 0 .. (m - g) - 1 PROVE short[z + 1][1] = d.next[short[z]]
    <3>1. z \in 0 .. m - g /\ z + 1 \in 0 .. m - g /\ z \in 0 .. m - 1 /\ z + g \in 0 .. m - 1
      BY <1>5, <2>5
    <3>2. p[z + 1][1] = d.next[p[z]] /\ p[(z + g) + 1][1] = d.next[p[z + g]]
      BY <1>6, <3>1
    <3>3. (z + 1) + g = (z + g) + 1
      BY <1>5, <2>5
    <3>4. CASE z + 1 < x
      BY <2>7, <3>1, <3>2, <3>4
    <3>5. CASE z + 1 = x
      <4>1. p[(z + 1) + g] = p[y]
        BY <2>5, <3>5
      <4>2. short[z + 1] = p[y] /\ short[z] = p[z]
        BY <2>7, <3>1, <3>5, <4>1
      <4> QED BY <2>4, <3>2, <3>5, <4>2
    <3>6. CASE z + 1 > x
      <4>1. short[z + 1] = p[(z + g) + 1] /\ short[z] = p[z + g]
        BY <2>7, <3>1, <3>3, <3>6
      <4> QED BY <3>2, <4>1
    <3> QED BY <2>4, <3>1, <3>4, <3>5, <3>6
  <2>11. short[0][1] \in d.init
    <3>1. 0 \in 0 .. m - g
      BY <2>5
    <3>2. CASE x = 0
      <4>1. short[0] = p[y]
        BY <2>7, <3>1, <3>2
      <4> QED BY <1>5, <2>4, <3>2, <4>1
    <3>3. CASE x # 0
      <4>1. short[0] = p[0]
        BY <2>7, <3>1, <3>3
      <4> QED BY <1>5, <4>1
    <3> QED BY <3>2, <3>3
  <2>12. short[m - g] = path[b]
    <3>1. m - g \in 0 .. m - g /\ ~(m - g < x) /\ (m - g) + g = m
      BY <1>5, <2>5
    <3>2. short[m - g] = p[m]
      BY <2>7, <3>1
    <3> QED BY <1>4, <3>2
  <2>13. short \in Paths(d, m - g) /\ m - g \in Nat
    <3>1. m - g \in Nat
      BY <2>5
    <3>2. IsRun(d, short, m - g)
      BY <2>9, <2>10 DEF IsRun
    <3> QED BY <2>11, <3>1, <3>2, PathsAreRuns
  <2>14. m - g \in Lengths
    BY <2>8, <2>12, <2>13
  <2> QED BY <1>3, <1>5, <2>5, <2>14
<1>8. m \in 0 .. N - 1
  BY <1>1, <1>5, <1>7
<1> QED BY <1>4, <1>8 DEF N
-----------------------------------------------------------------------------
\* The arguments by which an engine concludes from finitely many timeframes that a
\* predicate Q holds in every timeframe of a word whose timeframes are all in A.

\* A window of a run is a run.
LEMMA Window ==
  ASSUME NEW d, NEW c \in Nat, NEW path, IsRun(d, path, c), NEW t \in Nat, NEW b \in Nat, t + b <= c
  PROVE  IsRun(d, [x \in 0 .. b |-> path[t + x]], b)
<1> DEFINE win == [x \in 0 .. b |-> path[t + x]]
<1>1. /\ path \in [0 .. c -> Node]
      /\ \A x \in 0 .. c - 1 : path[x + 1][1] = d.next[path[x]]
  BY DEF IsRun
<1>2. \A x \in 0 .. b : win[x] = path[t + x] /\ t + x \in 0 .. c
  OBVIOUS
<1>3. win \in [0 .. b -> Node]
  BY <1>1, <1>2
<1> HIDE DEF win
<1>4. ASSUME NEW x \in 0 .. b - 1 PROVE win[x + 1][1] = d.next[win[x]]
  <2>1. x \in 0 .. b /\ x + 1 \in 0 .. b /\ t + x \in 0 .. c - 1 /\ t + (x + 1) = (t + x) + 1
    OBVIOUS
  <2>2. path[(t + x) + 1][1] = d.next[path[t + x]]
    BY <1>1, <2>1
  <2> QED BY <1>2, <2>1, <2>2
<1> QED BY <1>3, <1>4 DEF IsRun, win

\* The completeness threshold: all paths within A of as many timeframes as there are
\* states.
THEOREM ThresholdIsComplete ==
  ASSUME IsFiniteSet(Latches), NEW d, IsDesign(d), NEW h \in Nat, NEW w \in Words(d, h), NEW A, NEW Q,
         NEW b, b = 2 ^ Cardinality(Latches) - 1,
         \A path \in Paths(d, b) : (\A x \in 0 .. b : path[x] \in A) => (\A x \in 0 .. b : path[x] \in Q),
         \A x \in 0 .. w.last : w.path[x] \in A,
         NEW t \in 0 .. w.last
  PROVE  w.path[t] \in Q
<1>1. b \in Nat /\ w.last \in Nat
  BY StateCount, WordType
<1>2. t + b \in Nat
  BY <1>1
<1>3. PICK run \in Paths(d, t + b) : FollowsWord(run, t + b, w)
  BY <1>2, WordUnrolls
<1>4. /\ IsRun(d, run, t + b) /\ run[0][1] \in d.init
      /\ run[t] = w.path[t]
      /\ \A x \in 0 .. t + b : run[x] \in A
  <2>1. \A x \in 0 .. t + b : \E k \in 0 .. w.last - 1 : run[x] = w.path[k]
    BY <1>3 DEF FollowsWord
  <2>2. \A k \in 0 .. w.last - 1 : w.path[k] \in A
    BY <1>1
  <2>3. run[t] = w.path[t]
    BY <1>1, <1>3 DEF FollowsWord
  <2>4. IsRun(d, run, t + b) /\ run[0][1] \in d.init
    BY <1>2, <1>3, PathsAreRuns
  <2> QED BY <2>1, <2>2, <2>3, <2>4
<1> DEFINE stem == [x \in 0 .. t |-> run[0 + x]]
<1>5. /\ IsRun(d, stem, t)
      /\ \A x \in 0 .. t : stem[x] = run[x] /\ x \in 0 .. t + b
  <2>1. 0 \in Nat /\ 0 + t <= t + b /\ t \in Nat
    BY <1>1
  <2>2. IsRun(d, stem, t)
    BY <1>2, <1>4, <2>1, Window
  <2>3. \A x \in 0 .. t : stem[x] = run[x] /\ x \in 0 .. t + b
    BY <1>1
  <2> QED BY <2>2, <2>3
<1> HIDE DEF stem
<1>6. stem \in Paths(d, t) /\ stem[t] = run[t] /\ \A x \in 0 .. t : stem[x] \in A
  <2>1. stem[0][1] \in d.init
    BY <1>4, <1>5
  <2>2. stem \in Paths(d, t)
    BY <1>5, <2>1, PathsAreRuns
  <2> QED BY <1>4, <1>5, <2>2
<1>6a. PICK m \in 0 .. b : \E short \in Paths(d, m) : short[m] = stem[t] /\ \A x \in 0 .. m : short[x] \in A
  BY <1>6, ShortPath
<1>7. PICK short \in Paths(d, m) : short[m] = stem[t] /\ \A x \in 0 .. m : short[x] \in A
  BY <1>6a
<1>8. short[m] = run[t] /\ m <= b /\ b <= m + ((t + b) - t) /\ t \in 0 .. t + b /\ m \in Nat
  BY <1>1, <1>6, <1>7
<1>9. PICK path \in Paths(d, b) :
        /\ \A x \in 0 .. m : path[x] = short[x]
        /\ \A x \in m .. b : path[x] = run[t + (x - m)]
  <2> DEFINE c == t + b
  <2>1. c \in Nat /\ IsRun(d, run, c) /\ t \in 0 .. c /\ b <= m + (c - t) /\ b \in Nat /\ m \in Nat /\ m <= b
    BY <1>1, <1>2, <1>4, <1>8
  <2>2. short[m] = run[t]
    BY <1>8
  <2> HIDE DEF c
  <2>3. short \in Paths(d, m)
    BY <1>7
  <2> QED BY ONLY IsDesign(d), <2>1, <2>2, <2>3, Glue
<1>10. ASSUME NEW x \in 0 .. b PROVE path[x] \in A
  <2>1. CASE x <= m
    BY <1>7, <1>9, <2>1
  <2>2. CASE ~(x <= m)
    <3>1. x \in m .. b /\ t + (x - m) \in 0 .. t + b
      BY <1>1, <2>2
    <3> QED BY <1>4, <1>9, <3>1
  <2> QED BY <2>1, <2>2
<1>11. path[m] \in Q
  BY <1>9, <1>10
<1>12. path[m] = w.path[t]
  BY <1>4, <1>8, <1>9
<1> QED BY <1>11, <1>12

\* k-induction: the base case looks at timeframes 0 .. c of the word, with c >= k - 1.
THEOREM InductionIsComplete ==
  ASSUME NEW d, IsDesign(d), NEW h \in Nat, NEW w \in Words(d, h), NEW A, NEW Q,
         NEW k \in Nat, NEW c \in Nat, c >= k - 1,
         \A path \in Paths(d, c) : FollowsWord(path, c, w) => (\A x \in 0 .. c : path[x] \in Q),
         \A path : IsRun(d, path, k) /\ (\A x \in 0 .. k : path[x] \in A)
                     /\ (\A x \in 0 .. k - 1 : path[x] \in Q) => path[k] \in Q,
         \A x \in 0 .. w.last : w.path[x] \in A,
         NEW t \in 0 .. w.last
  PROVE  w.path[t] \in Q
<1> DEFINE Bad == {x \in 0 .. w.last : w.path[x] \notin Q}
<1>1. w.last \in Nat /\ IsRun(d, w.path, w.last)
  BY WordType
<1>2. SUFFICES ASSUME Bad # {} PROVE FALSE
  OBVIOUS
<1>3. PICK e \in Bad : \A x \in Bad : e <= x
  <2>1. Bad \subseteq Nat
    BY <1>1
  <2> HIDE DEF Bad
  <2> QED BY <1>2, <2>1, LeastNumber
<1>4. e \in 0 .. w.last /\ w.path[e] \notin Q /\ \A x \in 0 .. e - 1 : w.path[x] \in Q
  BY <1>1, <1>3
<1>5. CASE e <= c
  <2>1. PICK path \in Paths(d, c) : FollowsWord(path, c, w)
    BY WordUnrolls
  <2>2. e \in 0 .. c /\ path[e] = w.path[e]
    BY <1>1, <1>4, <1>5, <2>1 DEF FollowsWord
  <2> QED BY <1>4, <2>1, <2>2
<1>6. CASE ~(e <= c)
  <2>1. e - k \in Nat /\ (e - k) + k <= w.last /\ e \in Nat
    BY <1>1, <1>4, <1>6
  <2> DEFINE win == [x \in 0 .. k |-> w.path[(e - k) + x]]
  <2>2. IsRun(d, win, k)
    <3> DEFINE s == e - k
    <3>1. s \in Nat /\ s + k <= w.last
      BY <2>1
    <3> HIDE DEF s
    <3>2. IsRun(d, [x \in 0 .. k |-> w.path[s + x]], k)
      BY <1>1, <3>1, Window
    <3> QED BY <3>2 DEF s
  <2>3. \A x \in 0 .. k : win[x] = w.path[(e - k) + x] /\ (e - k) + x \in 0 .. w.last
    BY <1>1, <2>1
  <2> HIDE DEF win
  <2>4. \A x \in 0 .. k : win[x] \in A
    BY <2>3
  <2>5. ASSUME NEW x \in 0 .. k - 1 PROVE win[x] \in Q
    <3>1. (e - k) + x \in 0 .. e - 1 /\ x \in 0 .. k
      BY <2>1
    <3> QED BY <1>4, <2>3, <3>1
  <2>6. win[k] = w.path[e]
    <3>1. (e - k) + k = e
      BY <2>1
    <3> QED BY <2>3, <3>1
  <2> QED BY <1>4, <2>2, <2>4, <2>5, <2>6
<1> QED BY <1>5, <1>6

\* Every timeframe of a word is the source of an edge, every two in a row are one.
LEMMA WordFollowsEdges ==
  ASSUME NEW d, IsDesign(d), NEW h \in Nat, NEW w \in Words(d, h)
  PROVE  /\ \A t \in 0 .. w.last : \E e \in Edges(d) : e[1] = w.path[t]
         /\ \A t \in 1 .. w.last : <<w.path[t - 1], w.path[t]>> \in Edges(d)
<1>1. /\ w.last \in Nat \ {0} /\ w.loop \in 0 .. w.last - 1 /\ w.path[w.loop] = w.path[w.last]
      /\ IsRun(d, w.path, w.last)
  BY WordType
<1>2. ASSUME NEW t \in 0 .. w.last - 1 PROVE <<w.path[t], w.path[t + 1]>> \in Edges(d)
  <2>1. t \in 0 .. w.last /\ t + 1 \in 0 .. w.last
    BY <1>1
  <2>2. w.path[t] \in Node /\ w.path[t + 1] \in Node /\ w.path[t + 1][1] = d.next[w.path[t]]
    BY <1>1, <2>1 DEF IsRun
  <2> QED BY <2>2 DEF Edges
<1>3. ASSUME NEW t \in 1 .. w.last PROVE <<w.path[t - 1], w.path[t]>> \in Edges(d)
  <2>1. t - 1 \in 0 .. w.last - 1 /\ (t - 1) + 1 = t
    BY <1>1
  <2>2. <<w.path[t - 1], w.path[(t - 1) + 1]>> \in Edges(d)
    BY <1>2, <2>1
  <2> QED BY <2>1, <2>2
<1>4. ASSUME NEW t \in 0 .. w.last PROVE \E e \in Edges(d) : e[1] = w.path[t]
  <2>1. CASE t < w.last
    <3>1. <<w.path[t], w.path[t + 1]>> \in Edges(d)
      BY <1>1, <1>2, <2>1
    <3> QED BY <3>1
  <2>2. CASE t = w.last
    <3>1. <<w.path[w.loop], w.path[w.loop + 1]>> \in Edges(d)
      BY <1>1, <1>2
    <3> QED BY <1>1, <2>2, <3>1
  <2> QED BY <1>1, <2>1, <2>2
<1> QED BY <1>3, <1>4

\* A ranking function that decreases as long as `live` does not hold brings `live`
\* about in every turn of a loop.
THEOREM RankingBringsLive ==
  ASSUME NEW d, IsDesign(d), NEW h \in Nat, NEW w \in Words(d, h), NEW live,
         NEW rank \in [Node -> Nat],
         \A t \in 1 .. w.last : w.path[t - 1] \in live \/ rank[w.path[t]] < rank[w.path[t - 1]]
  PROVE  \E t \in w.loop .. w.last : w.path[t] \in live
<1> DEFINE n == w.last
           k == w.loop
<1>1. /\ n \in Nat \ {0} /\ k \in 0 .. n - 1 /\ w.path[k] = w.path[n]
      /\ w.path \in [0 .. n -> Node]
  BY WordType
<1> HIDE DEF n, k
<1>2. SUFFICES ASSUME \A t \in k .. n : w.path[t] \notin live PROVE FALSE
  BY DEF n, k
<1>3. \A t \in 0 .. n : rank[w.path[t]] \in Nat
  BY <1>1
<1> DEFINE r == [t \in 0 .. n |-> rank[w.path[t]]]
<1>4. /\ \A t \in 0 .. n : r[t] \in Nat
      /\ \A t \in k + 1 .. n : r[t] < r[t - 1]
      /\ r[k] = r[n]
  <2>1. ASSUME NEW t \in k + 1 .. n PROVE r[t] < r[t - 1]
    <3>1. t \in 1 .. n /\ t - 1 \in k .. n /\ t \in 0 .. n /\ t - 1 \in 0 .. n
      BY <1>1
    <3>2. rank[w.path[t]] < rank[w.path[t - 1]]
      BY <1>2, <3>1 DEF n
    <3> QED BY <3>1, <3>2
  <2>2. r[k] = r[n]
    BY <1>1
  <2> QED BY <1>3, <2>1, <2>2
<1> HIDE DEF r
<1> DEFINE S == {x \in 0 .. n - k : r[k + x] <= r[k] - x}
<1>5. 0 \in S
  BY <1>1, <1>4
<1>6. ASSUME NEW x \in 0 .. (n - k) - 1, x \in S PROVE x + 1 \in S
  <2>1. k + (x + 1) \in k + 1 .. n /\ (k + (x + 1)) - 1 = k + x /\ x + 1 \in 0 .. n - k
        /\ k + x \in 0 .. n /\ k + (x + 1) \in 0 .. n /\ k \in 0 .. n
    BY <1>1
  <2>2. r[k + (x + 1)] < r[k + x]
    BY <1>4, <2>1
  <2>3. r[k + x] <= r[k] - x
    BY <1>6
  <2>4. r[k + (x + 1)] \in Nat /\ r[k + x] \in Nat /\ r[k] \in Nat
    BY <1>4, <2>1
  <2>5. r[k + (x + 1)] <= r[k] - (x + 1)
    BY <2>2, <2>3, <2>4
  <2> QED BY <2>1, <2>5
<1> HIDE DEF S
<1>7. n - k \in S
  <2>1. n - k \in Nat
    BY <1>1
  <2>2. 0 .. n - k \subseteq S
    BY <1>5, <1>6, <2>1, TimeframeInduction
  <2> QED BY <2>1, <2>2
<1>8. r[k + (n - k)] <= r[k] - (n - k) /\ k + (n - k) = n
  BY <1>1, <1>7 DEF S
<1> QED BY <1>1, <1>4, <1>8

-----------------------------------------------------------------------------
\* From a path to a word.

KeepsAll(As, path, b) == \A q \in As : ~Falsified(q, path, b)

\* No path that keeps the assumptions As ends where they cannot be kept any longer.
NoDeadEnd(d, As) ==
  \A b \in Nat : \A path \in Paths(d, b) : KeepsAll(As, path, b) =>
    \E path2 \in Paths(d, b + 1) :
      KeepsAll(As, path2, b + 1) /\ \A x \in 0 .. b : path2[x] = path[x]

\* Without assumptions there is no dead end: every input has a next state.
LEMMA NoAssumptionNoDeadEnd ==
  ASSUME NEW d, IsDesign(d)
  PROVE  NoDeadEnd(d, {})
<1>1. SUFFICES ASSUME NEW b \in Nat, NEW path \in Paths(d, b)
               PROVE  \E path2 \in Paths(d, b + 1) : \A x \in 0 .. b : path2[x] = path[x]
  BY DEF NoDeadEnd, KeepsAll
<1>2. IsRun(d, path, b) /\ path[0][1] \in d.init
  BY PathsAreRuns
<1>3. /\ path \in [0 .. b -> Node]
      /\ \A x \in 0 .. b - 1 : path[x + 1][1] = d.next[path[x]]
  BY <1>2 DEF IsRun
<1> DEFINE node  == <<d.next[path[b]], path[b][2]>>
           path2 == [x \in 0 .. b + 1 |-> IF x = b + 1 THEN node ELSE path[x]]
<1>4. node \in Node /\ node[1] = d.next[path[b]]
  <2>1. path[b] \in Node
    BY <1>3
  <2>2. d.next[path[b]] \in State /\ path[b][2] \in Inputs
    BY <2>1 DEF IsDesign, Node
  <2> QED BY <2>2 DEF Node
<1> HIDE DEF node
<1>5. path2[b + 1] = node /\ \A x \in 0 .. b : path2[x] = path[x]
  OBVIOUS
<1>6. path2 \in [0 .. b + 1 -> Node]
  <2>1. \A x \in 0 .. b + 1 : x = b + 1 \/ x \in 0 .. b
    OBVIOUS
  <2>2. \A x \in 0 .. b + 1 : path2[x] \in Node
    BY <1>3, <1>4, <1>5, <2>1
  <2> QED BY <2>2
<1> HIDE DEF path2
<1>7. ASSUME NEW x \in 0 .. (b + 1) - 1 PROVE path2[x + 1][1] = d.next[path2[x]]
  <2>1. CASE x = b
    <3>1. path2[x] = path[b] /\ path2[x + 1] = node
      BY <1>5, <2>1
    <3> QED BY <1>4, <3>1
  <2>2. CASE x # b
    <3>1. x \in 0 .. b - 1 /\ x \in 0 .. b /\ x + 1 \in 0 .. b
      BY <2>2
    <3> QED BY <1>3, <1>5, <3>1
  <2> QED BY <2>1, <2>2
<1>8. path2[0][1] \in d.init
  BY <1>2, <1>5
<1>9. IsRun(d, path2, b + 1)
  BY <1>6, <1>7 DEF IsRun
<1>10. path2 \in Paths(d, b + 1)
  BY <1>8, <1>9, PathsAreRuns
<1> QED BY <1>5, <1>10

\* Every path of b transitions that keeps the assumptions is completed to a word up to h.
Completes(d, As, b, h) ==
  \A path \in Paths(d, b) : KeepsAll(As, path, b) =>
    \E w \in Words(d, h) :
      /\ w.last >= b /\ \A x \in 0 .. b : w.path[x] = path[x]
      /\ \A q \in As : ViolatedBy(q, w) = {}

\* Without dead ends, a path that keeps the assumptions is the beginning of a word
\* that does: one of |Node| + 1 further timeframes comes back.
LEMMA PathsAreCompleted ==
  ASSUME IsFiniteSet(Latches), IsFiniteSet(Inputs), NEW d, IsDesign(d), NEW As,
         \A q \in As : q.form \in SafetyForms, NoDeadEnd(d, As),
         NEW b \in Nat, NEW h \in Nat, h >= b + Cardinality(Node)
  PROVE  Completes(d, As, b, h)
<1> SUFFICES ASSUME NEW path \in Paths(d, b), KeepsAll(As, path, b)
             PROVE  \E w \in Words(d, h) :
                      /\ w.last >= b /\ \A x \in 0 .. b : w.path[x] = path[x]
                      /\ \A q \in As : ViolatedBy(q, w) = {}
  BY DEF Completes
<1> DEFINE N == Cardinality(Node)
<1>1. IsFiniteSet(Node) /\ N \in Nat
  BY StateCount, FS_Product, FS_CardinalityType DEF Node
<1> HIDE DEF N
<1> DEFINE Ext(p, x) == /\ p \in Paths(d, b + x) /\ KeepsAll(As, p, b + x)
                        /\ \A y \in 0 .. b : p[y] = path[y]
           S == {x \in Nat : \E p : Ext(p, x)}
<1>2. 0 \in S
  <2>1. b + 0 = b
    OBVIOUS
  <2>2. Ext(path, 0)
    BY <2>1
  <2> QED BY <2>2
<1>3. ASSUME NEW x \in 0 .. N - 1, x \in S PROVE x + 1 \in S
  <2>1. PICK p : Ext(p, x)
    BY <1>3
  <2>2. b + x \in Nat /\ (b + x) + 1 = b + (x + 1) /\ x + 1 \in Nat
    BY <1>1
  <2>3. PICK p2 \in Paths(d, (b + x) + 1) :
          KeepsAll(As, p2, (b + x) + 1) /\ \A y \in 0 .. b + x : p2[y] = p[y]
    BY <2>1, <2>2 DEF NoDeadEnd
  <2>4. \A y \in 0 .. b : p2[y] = path[y]
    BY <1>1, <2>1, <2>3
  <2>5. Ext(p2, x + 1)
    BY <2>2, <2>3, <2>4
  <2> HIDE DEF Ext
  <2> QED BY <2>2, <2>5
<1> HIDE DEF S
<1>4. N \in S
  BY <1>1, <1>2, <1>3, TimeframeInduction
<1>5. PICK p : Ext(p, N)
  BY <1>4 DEF S
<1>6. b + N \in Nat /\ p \in [0 .. b + N -> Node]
  <2>1. b + N \in Nat
    BY <1>1
  <2>2. IsRun(d, p, b + N)
    BY <1>5, <2>1, PathsAreRuns
  <2> QED BY <2>1, <2>2 DEF IsRun
<1> DEFINE tail == [x \in b .. b + N |-> p[x]]
<1>7. \E x, y \in b .. b + N : x # y /\ tail[x] = tail[y]
  <2>1. tail \in [b .. b + N -> Node]
    BY <1>1, <1>6
  <2>2. IsFiniteSet(b .. b + N) /\ Cardinality(b .. b + N) = N + 1
    BY <1>1, FS_Interval
  <2> HIDE DEF tail
  <2>3. Cardinality(Node) < Cardinality(b .. b + N)
    BY <1>1, <2>2 DEF N
  <2> QED BY <1>1, <2>1, <2>2, <2>3, FS_PigeonHole
<1>8. PICK k \in b .. b + N, i \in b .. b + N : k < i /\ p[k] = p[i]
  <2>1. PICK x \in b .. b + N, y \in b .. b + N : x # y /\ p[x] = p[y]
    BY <1>7
  <2>2. x < y \/ y < x
    BY <1>1, <2>1
  <2> QED BY <2>1, <2>2
<1>9. k \in 0 .. b + N /\ i \in 0 .. b + N /\ k < i /\ i <= h /\ p[k] = p[i] /\ p \in Paths(d, b + N)
  BY <1>1, <1>5, <1>8 DEF N
<1>10. PICK w \in Words(d, h) :
         /\ w.loop = k /\ w.last = i /\ \A t \in 0 .. i : w.path[t] = p[t]
         /\ KeepsWhatPathKeeps(w, p, b + N)
  <2> DEFINE c == b + N
  <2>1. c \in Nat /\ k \in 0 .. c /\ i \in 0 .. c /\ p \in Paths(d, c)
    BY <1>6, <1>9
  <2> HIDE DEF c
  <2>2. \E w \in Words(d, h) : /\ w.loop = k /\ w.last = i /\ \A t \in 0 .. i : w.path[t] = p[t]
                             /\ KeepsWhatPathKeeps(w, p, c)
    BY <1>9, <2>1, LassoIsWord
  <2> QED BY <2>2 DEF c
<1>11. \A x \in 0 .. b : w.path[x] = path[x]
  BY <1>1, <1>5, <1>8, <1>10
<1>12. \A q \in As : ViolatedBy(q, w) = {}
  BY <1>5, <1>10 DEF KeepsAll, KeepsWhatPathKeeps
<1>13. w.last >= b
  BY <1>1, <1>8, <1>10
<1> QED BY <1>11, <1>12, <1>13
=============================================================================
