----------------------------- MODULE BddEngine_proofs -----------------------------
(***************************************************************************)
(* The BDD engine: what its search says is right for every set of          *)
(* problems, whatever is done to the formulas.                             *)
(*                                                                         *)
(* First, the liveness-to-safety translation is exact: a violation of      *)
(* G (looped -> live) is some steps away from an initial state iff the     *)
(* design has a reachable cycle without p, which meets the assumption of   *)
(* liveness, if there is one.  Then the loop over the properties: it hands *)
(* each search the right netlist, takes its answer for the right property, *)
(* and recomputes a counterexample, which is the shortest, or finds none   *)
(* because of a dead end.  Last, what is proved of LTL and SVA properties  *)
(* holds on every infinite run.                                            *)
(***************************************************************************)
EXTENDS BddEngine, CtlFixpoints_proofs

-----------------------------------------------------------------------------
\* Facts about the design before the translation.

LEMMA MovesAreMoves ==
  ASSUME NEW d, IsSystem(d), NEW n \in Moves(d)
  PROVE  /\ n \in d.constraint /\ n \in d.transition
         /\ n[1] \in State /\ n[2] \in Inputs /\ n = <<n[1], n[2]>> /\ d.next[n] \in State
BY DEF IsSystem, Moves

LEMMA AvoidIsMove == ASSUME NEW d, NEW n \in AvoidMoves(d) PROVE n \in Moves(d) /\ n \notin d.property
BY DEF AvoidMoves

LEMMA AvoidIsState == ASSUME NEW d, NEW s \in State PROVE AvoidFrom(d, s) \subseteq State
BY DEF AvoidFrom, AvoidReach

LEMMA AvoidStep ==
  ASSUME NEW d, IsSystem(d), NEW s, NEW n \in AvoidMoves(d), n[1] \in AvoidFrom(d, s)
  PROVE  d.next[n] \in AvoidReach(d, s) /\ d.next[n] \in AvoidFrom(d, s)
<1>1. d.next[n] \in State
  BY AvoidIsMove, MovesAreMoves
<1>2. ASSUME NEW R \in SUBSET State, AvoidClosed(d, s, R) PROVE d.next[n] \in R
  <2>1. n[1] \in {s} \cup R
    BY <1>2 DEF AvoidFrom, AvoidReach
  <2> QED BY <1>2, <2>1 DEF AvoidClosed
<1> QED BY <1>1, <1>2 DEF AvoidFrom, AvoidReach

\* Whatever holds in s and is kept by moves without p holds in all of AvoidFrom(s).
LEMMA AvoidInduction ==
  ASSUME NEW d, NEW s, NEW R \in SUBSET State, s \in R,
         \A n \in AvoidMoves(d) : n[1] \in R => d.next[n] \in R
  PROVE  AvoidFrom(d, s) \subseteq R
<1>1. AvoidClosed(d, s, R)
  BY DEF AvoidClosed
<1> QED BY <1>1 DEF AvoidFrom, AvoidReach

LEMMA AvoidOn ==
  ASSUME NEW d, IsSystem(d), NEW s \in State, NEW t \in AvoidFrom(d, s)
  PROVE  AvoidFrom(d, t) \subseteq AvoidFrom(d, s)
<1> DEFINE R == AvoidFrom(d, s)
<1>1. R \in SUBSET State
  BY AvoidIsState
<1>2. \A n \in AvoidMoves(d) : n[1] \in R => d.next[n] \in R
  BY AvoidStep
<1> HIDE DEF R
<1>3. AvoidFrom(d, t) \subseteq R
  BY <1>1, <1>2, AvoidInduction DEF R
<1> QED BY <1>3 DEF R

\* A path without p begins with a move.
LEMMA AvoidBegins ==
  ASSUME NEW d, IsSystem(d), NEW s \in State, NEW t \in AvoidReach(d, s)
  PROVE  \E n \in AvoidMoves(d) : n[1] = s /\ t \in AvoidFrom(d, d.next[n])
<1> DEFINE First == {n \in AvoidMoves(d) : n[1] = s}
           R == {u \in State : \E n \in First : u \in AvoidFrom(d, d.next[n])}
<1>1. ASSUME NEW n \in AvoidMoves(d), n[1] \in {s} \cup R PROVE d.next[n] \in R
  <2>1. d.next[n] \in State
    BY AvoidIsMove, MovesAreMoves
  <2>2. CASE n[1] = s
    <3>1. n \in First /\ d.next[n] \in AvoidFrom(d, d.next[n])
      BY <2>2 DEF AvoidFrom
    <3> QED BY <2>1, <3>1
  <2>3. CASE n[1] \in R
    <3>1. PICK f \in First : n[1] \in AvoidFrom(d, d.next[f])
      BY <2>3
    <3>2. d.next[n] \in AvoidFrom(d, d.next[f])
      BY <3>1, AvoidStep
    <3> QED BY <2>1, <3>1, <3>2
  <2> QED BY <1>1, <2>2, <2>3
<1>2. AvoidClosed(d, s, R) /\ R \in SUBSET State
  BY <1>1 DEF AvoidClosed
<1>3. t \in R
  <2> HIDE DEF R
  <2> QED BY <1>2 DEF AvoidReach
<1> QED BY <1>3

LEMMA AvoidIsReached ==
  ASSUME NEW d, IsSystem(d), NEW s \in Reached(d) PROVE AvoidFrom(d, s) \subseteq Reached(d)
<1> DEFINE R == Reached(d)
<1>1. R \in SUBSET State
  BY DEF Reached
<1>2. \A n \in AvoidMoves(d) : n[1] \in R => d.next[n] \in R
  BY AvoidIsMove, ReachedByMoves
<1> HIDE DEF R
<1>3. s \in R
  BY DEF R
<1>4. AvoidFrom(d, s) \subseteq R
  BY <1>1, <1>2, <1>3, AvoidInduction
<1> QED BY <1>4 DEF R

-----------------------------------------------------------------------------
\* The states of the translated design.

\* The design is in a state that it reaches; and while p was not seen since the copy
\* was made, it went here from the copy without p, past all that it has seen.
Follows(d, m) ==
  /\ m \in Monitor(d)
  /\ m.state \in Reached(d)
  /\ m.saved /\ ~m.live =>
       /\ m.state \in AvoidReach(d, m.loop)
       /\ \A k \in DOMAIN d.recurring : m.seen[k] => AvoidVia(d, m.loop, d.recurring[k], m.state)

\* The translated design with the translated assumptions.
Searching(d) == Assuming(Monitored(d))

LEMMA SearchingFields ==
  ASSUME NEW d
  PROVE  /\ Searching(d).init = Monitored(d).init /\ Searching(d).next = Monitored(d).next
         /\ Searching(d).transition = Monitored(d).transition /\ Searching(d).property = Monitored(d).property
         /\ Searching(d).constraint =
              {q \in Monitored(d).constraint : Looped(q[1]) => \A k \in DOMAIN q[1].seen : q[1].seen[k]}
BY DEF Searching, Assuming, Monitored

LEMMA MonitorFields ==
  ASSUME NEW d, NEW m \in Monitor(d)
  PROVE  /\ m.state \in State /\ m.loop \in State /\ m.saved \in BOOLEAN /\ m.live \in BOOLEAN
         /\ m.seen \in [DOMAIN d.recurring -> BOOLEAN]
BY DEF Monitor

\* A step of the translated design.
LEMMA MonitorStep ==
  ASSUME NEW d, NEW q \in Moves(Searching(d))
  PROVE  \E m \in Monitor(d), i \in Inputs, save \in BOOLEAN :
           /\ q = <<m, <<i, save>>>>
           /\ <<m.state, i>> \in Moves(d) /\ (save => ~m.saved)
           /\ Searching(d).next[q] = NextMonitor(d, m, i, save)
<1>1. q \in Monitored(d).constraint /\ q \in Monitored(d).transition
  BY SearchingFields DEF Moves
<1>2. /\ q \in Monitor(d) \X MonitorInputs /\ (q[2][2] => ~q[1].saved)
      /\ <<q[1].state, q[2][1]>> \in d.constraint /\ <<q[1].state, q[2][1]>> \in d.transition
  BY <1>1 DEF Monitored
<1>3. PICK m \in Monitor(d), i \in Inputs, save \in BOOLEAN : q = <<m, <<i, save>>>>
  BY <1>2 DEF MonitorInputs
<1>4. Monitored(d).next[q] = NextMonitor(d, m, i, save)
  BY <1>2, <1>3 DEF Monitored
<1> QED BY <1>2, <1>3, <1>4, SearchingFields DEF Moves

\* The nodes of the translated design, and those from which it moves on.
LEMMA MonitorNode ==
  ASSUME NEW d, NEW m \in Monitor(d), NEW i \in Inputs, NEW save \in BOOLEAN,
         <<m.state, i>> \in d.constraint, save => ~m.saved,
         Looped(m) => \A k \in DOMAIN d.recurring : m.seen[k]
  PROVE  LET q == <<m, <<i, save>>>>
         IN  /\ q \in Searching(d).constraint
             /\ <<m.state, i>> \in d.transition =>
                  q \in Moves(Searching(d)) /\ Searching(d).next[q] = NextMonitor(d, m, i, save)
<1> DEFINE q == <<m, <<i, save>>>>
<1>1. q \in Monitor(d) \X MonitorInputs
  BY DEF MonitorInputs
<1>2. q \in Monitored(d).constraint
  BY <1>1 DEF Monitored
<1>3. DOMAIN m.seen = DOMAIN d.recurring
  BY MonitorFields
<1>4. q[1] = m
  OBVIOUS
<1>5. Monitored(d).next[q] = NextMonitor(d, m, i, save)
  BY <1>1 DEF Monitored
<1>6. <<m.state, i>> \in d.transition => q \in Monitored(d).transition
  BY <1>1 DEF Monitored
<1> HIDE DEF q
<1>7. q \in Searching(d).constraint
  BY <1>2, <1>3, <1>4, SearchingFields
<1>8. <<m.state, i>> \in d.transition =>
        q \in Moves(Searching(d)) /\ Searching(d).next[q] = NextMonitor(d, m, i, save)
  BY <1>5, <1>6, <1>7, SearchingFields DEF Moves
<1> QED BY <1>7, <1>8 DEF q

LEMMA NextIsMonitor ==
  ASSUME NEW d, IsSystem(d), NEW m \in Monitor(d), NEW i \in Inputs, NEW save \in BOOLEAN
  PROVE  /\ NextMonitor(d, m, i, save) \in Monitor(d)
         /\ NextMonitor(d, m, i, save).state = d.next[<<m.state, i>>]
         /\ NextMonitor(d, m, i, save).loop = IF save /\ ~m.saved THEN m.state ELSE m.loop
         /\ NextMonitor(d, m, i, save).saved = (m.saved \/ save)
         /\ NextMonitor(d, m, i, save).live = ((m.live /\ ~save) \/ <<m.state, i>> \in d.property)
         /\ \A k \in DOMAIN d.recurring :
              NextMonitor(d, m, i, save).seen[k] = ((m.seen[k] /\ ~save) \/ <<m.state, i>> \in d.recurring[k])
<1>1. m.state \in State /\ m.loop \in State /\ m.saved \in BOOLEAN /\ m.live \in BOOLEAN
  BY MonitorFields
<1>2. d.next[<<m.state, i>>] \in State
  BY <1>1 DEF IsSystem
<1> DEFINE seen == [k \in DOMAIN d.recurring |-> (m.seen[k] /\ ~save) \/ <<m.state, i>> \in d.recurring[k]]
<1>3. seen \in [DOMAIN d.recurring -> BOOLEAN]
  OBVIOUS
<1>4. NextMonitor(d, m, i, save) =
        [state |-> d.next[<<m.state, i>>],
         loop  |-> IF save /\ ~m.saved THEN m.state ELSE m.loop,
         saved |-> m.saved \/ save,
         live  |-> (m.live /\ ~save) \/ <<m.state, i>> \in d.property,
         seen  |-> seen]
  BY DEF NextMonitor, NextLive
<1>5. \A k \in DOMAIN d.recurring : seen[k] = ((m.seen[k] /\ ~save) \/ <<m.state, i>> \in d.recurring[k])
  OBVIOUS
<1> HIDE DEF seen
<1>6. NextMonitor(d, m, i, save) \in Monitor(d)
  BY <1>1, <1>2, <1>3, <1>4 DEF Monitor
<1> QED BY <1>4, <1>5, <1>6

LEMMA NextOfNode ==
  ASSUME NEW d, IsSystem(d), NEW m \in Monitor(d), NEW n, n[2] \in Inputs, <<m.state, n[2]>> = n, NEW save \in BOOLEAN
  PROVE  LET x == NextMonitor(d, m, n[2], save)
         IN  /\ x \in Monitor(d) /\ x.state = d.next[n] /\ x.loop = IF save /\ ~m.saved THEN m.state ELSE m.loop
             /\ x.saved = (m.saved \/ save) /\ x.live = ((m.live /\ ~save) \/ n \in d.property)
             /\ \A k \in DOMAIN d.recurring : x.seen[k] = ((m.seen[k] /\ ~save) \/ n \in d.recurring[k])
BY NextIsMonitor

LEMMA FollowsStep ==
  ASSUME NEW d, IsSystem(d), NEW m \in Monitor(d), Follows(d, m), NEW i \in Inputs, NEW save \in BOOLEAN,
         <<m.state, i>> \in Moves(d), save => ~m.saved
  PROVE  Follows(d, NextMonitor(d, m, i, save))
<1> DEFINE n == NextMonitor(d, m, i, save)
           move == <<m.state, i>>
           p == move \in d.property
<1>1. m.state \in State /\ m.loop \in State /\ m.saved \in BOOLEAN /\ m.live \in BOOLEAN
  BY MonitorFields
<1>2. /\ n \in Monitor(d)
      /\ n.state = d.next[move]
      /\ n.loop = IF save /\ ~m.saved THEN m.state ELSE m.loop
      /\ n.saved = (m.saved \/ save)
      /\ n.live = ((m.live /\ ~save) \/ p)
      /\ \A k \in DOMAIN d.recurring : n.seen[k] = ((m.seen[k] /\ ~save) \/ move \in d.recurring[k])
  BY NextIsMonitor
<1>3. move[1] = m.state
  OBVIOUS
<1> HIDE DEF n, move
<1>4. n.state \in Reached(d)
  BY <1>2, <1>3, ReachedByMoves DEF Follows, move
<1>5. ASSUME n.saved, ~n.live
      PROVE  /\ n.state \in AvoidReach(d, n.loop)
             /\ \A k \in DOMAIN d.recurring : n.seen[k] => AvoidVia(d, n.loop, d.recurring[k], n.state)
  <2>1. move \in AvoidMoves(d)
    BY <1>2, <1>5 DEF AvoidMoves, move
  <2>2. m.state \in AvoidFrom(d, n.loop)
    <3>1. CASE save
      BY <1>2, <3>1 DEF AvoidFrom
    <3>2. CASE ~save
      BY <1>1, <1>2, <1>5, <3>2 DEF Follows, AvoidFrom
    <3> QED BY <3>1, <3>2
  <2>3. n.state \in AvoidReach(d, n.loop)
    BY <1>2, <1>3, <2>1, <2>2, AvoidStep
  <2>4. ASSUME NEW k \in DOMAIN d.recurring, n.seen[k] PROVE AvoidVia(d, n.loop, d.recurring[k], n.state)
    <3>1. CASE move \in d.recurring[k]
      <4>1. n.state \in AvoidFrom(d, d.next[move])
        BY <1>2 DEF AvoidFrom
      <4> QED BY <1>3, <2>1, <2>2, <3>1, <4>1 DEF AvoidVia
    <3>2. CASE move \notin d.recurring[k]
      <4>1. m.seen[k] /\ ~save
        BY <1>2, <2>4, <3>2
      <4>2. m.saved /\ ~m.live /\ n.loop = m.loop
        BY <1>1, <1>2, <1>5, <4>1
      <4>3. AvoidVia(d, m.loop, d.recurring[k], m.state)
        BY <4>1, <4>2 DEF Follows
      <4>4. PICK v \in AvoidMoves(d) \cap d.recurring[k] :
              v[1] \in AvoidFrom(d, m.loop) /\ m.state \in AvoidFrom(d, d.next[v])
        BY <4>3 DEF AvoidVia
      <4>5. n.state \in AvoidFrom(d, d.next[v])
        BY <1>2, <1>3, <2>1, <4>4, AvoidStep
      <4> QED BY <4>2, <4>4, <4>5 DEF AvoidVia
    <3> QED BY <3>1, <3>2
  <2> QED BY <2>3, <2>4
<1>6. Follows(d, n)
  BY <1>2, <1>4, <1>5 DEF Follows
<1> QED BY <1>6 DEF n

\* Sound: a violation of G (looped -> live) within the assumptions is a cycle without p
\* on which the design sees whatever is assumed to recur.
LEMMA TranslationIsSound ==
  ASSUME NEW d, IsSystem(d), NEW b \in Nat, ~Misses(Searching(d), b)
  PROVE  \E s \in State : AvoidsForEver(d, s)
<1> DEFINE M == Searching(d)
           Cycle == \E s \in State : AvoidsForEver(d, s)
           Set == {n \in Nat : \A m \in ViolationIn(M)[n] : Follows(d, m) => Cycle}
<1> HIDE DEF M
<1>1. 0 \in Set
  <2>1. SUFFICES ASSUME NEW m \in Failing(M), Follows(d, m) PROVE Cycle
    BY DistanceUnfolds
  <2>2. PICK q \in M.constraint \ M.property : m = q[1]
    BY <2>1 DEF Failing
  <2>3. q \in Monitored(d).constraint /\ q \notin Monitored(d).property
        /\ (Looped(m) => \A k \in DOMAIN m.seen : m.seen[k])
    BY <2>2, SearchingFields DEF M
  <2>4. q \in Monitor(d) \X MonitorInputs /\ ~(Looped(q[1]) => q[1].live)
    BY <2>3 DEF Monitored
  <2>5. m.saved /\ m.state = m.loop /\ ~m.live /\ \A k \in DOMAIN m.seen : m.seen[k]
    BY <2>2, <2>3, <2>4 DEF Looped
  <2>6. m.state \in State /\ DOMAIN m.seen = DOMAIN d.recurring
    BY <2>1, MonitorFields DEF Follows
  <2>7. AvoidsForEver(d, m.state)
    BY <2>1, <2>5, <2>6 DEF Follows, AvoidsForEver
  <2> QED BY <2>6, <2>7
<1>2. ASSUME NEW n \in Nat, n \in Set PROVE n + 1 \in Set
  <2>1. SUFFICES ASSUME NEW m \in ViolationIn(M)[n + 1], Follows(d, m) PROVE Cycle
    OBVIOUS
  <2>2. m \in Before(M, ViolationIn(M)[n])
    BY <2>1, DistanceUnfolds
  <2>3. PICK q \in Moves(M) : m = q[1] /\ M.next[q] \in ViolationIn(M)[n]
    BY <2>2 DEF Before
  <2>4. PICK m1 \in Monitor(d), i \in Inputs, save \in BOOLEAN :
          /\ q = <<m1, <<i, save>>>>
          /\ <<m1.state, i>> \in Moves(d) /\ (save => ~m1.saved)
          /\ M.next[q] = NextMonitor(d, m1, i, save)
    BY MonitorStep DEF M
  <2>5. m1 = m
    BY <2>3, <2>4
  <2>6. Follows(d, M.next[q])
    BY <2>1, <2>4, <2>5, FollowsStep
  <2> QED BY <1>2, <2>3, <2>6
<1> HIDE DEF Set
<1>3. b \in Set
  <2>1. 0 .. b \subseteq Set
    BY <1>1, <1>2, TimeframeInduction
  <2> QED BY <2>1
<1>4. PICK m \in M.init : m \in ViolationIn(M)[b]
  BY DEF Misses, M
<1>5. m \in Monitored(d).init
  BY <1>4, SearchingFields DEF M
<1>6. m \in Monitor(d) /\ m.state \in d.init /\ ~m.saved
  BY <1>5 DEF Monitored
<1>7. Follows(d, m)
  BY <1>6, ReachedFromInit DEF Follows
<1> QED BY <1>3, <1>4, <1>7 DEF Set

\* A cycle without p that sees at most one recurring predicate has a move that sees it.
LEMMA CycleHasMove ==
  ASSUME NEW d, IsSystem(d), \A j, k \in DOMAIN d.recurring : j = k, NEW s \in State, AvoidsForEver(d, s)
  PROVE  \E n \in AvoidMoves(d) : /\ n[1] \in Reached(d) /\ n[1] \in AvoidFrom(d, d.next[n])
                                  /\ \A k \in DOMAIN d.recurring : n \in d.recurring[k]
<1>1. s \in Reached(d) /\ s \in AvoidReach(d, s)
  BY DEF AvoidsForEver
<1>2. CASE DOMAIN d.recurring = {}
  <2>1. PICK n \in AvoidMoves(d) : n[1] = s /\ s \in AvoidFrom(d, d.next[n])
    BY <1>1, AvoidBegins
  <2> QED BY <1>1, <1>2, <2>1
<1>3. CASE DOMAIN d.recurring # {}
  <2>1. PICK k \in DOMAIN d.recurring : TRUE
    BY <1>3
  <2>2. PICK n \in AvoidMoves(d) \cap d.recurring[k] : n[1] \in AvoidFrom(d, s) /\ s \in AvoidFrom(d, d.next[n])
    BY DEF AvoidsForEver, AvoidVia
  <2>3. d.next[n] \in State
    BY AvoidIsMove, MovesAreMoves
  <2>4. n[1] \in AvoidFrom(d, d.next[n])
    BY <2>2, <2>3, AvoidOn
  <2>5. n[1] \in Reached(d)
    BY <1>1, <2>2, AvoidIsReached
  <2> QED BY <2>2, <2>4, <2>5
<1> QED BY <1>2, <1>3

\* Complete: when no violation of G (looped -> live) can be reached, no cycle avoids p.
\* The states from which none can be reached are closed under the moves of the
\* translated design.  With the flag `saved` clear they cover what the design can
\* reach; when the copy is made in the move that sees what is assumed to recur, and p is
\* not seen, they cover what it can reach from there without p.
LEMMA TranslationIsComplete ==
  ASSUME NEW d, IsSystem(d), \A j, k \in DOMAIN d.recurring : j = k,
         \A n \in Nat : Misses(Searching(d), n), NEW s \in State, AvoidsForEver(d, s)
  PROVE  FALSE
<1> DEFINE M == Searching(d)
           Safe(m) == m \in Monitor(d) /\ \A n \in Nat : m \notin ViolationIn(M)[n]
           All == [k \in DOMAIN d.recurring |-> TRUE]
<1>0. PICK n0 \in AvoidMoves(d) : /\ n0[1] \in Reached(d) /\ n0[1] \in AvoidFrom(d, d.next[n0])
                                  /\ \A k \in DOMAIN d.recurring : n0 \in d.recurring[k]
  BY CycleHasMove
<1> DEFINE r == n0[1]
           Apart == {t \in State : \E m \in Monitor(d) : Safe(m) /\ m.state = t /\ ~m.saved}
           Since == {t \in State : \E m \in Monitor(d) : /\ Safe(m) /\ m.state = t /\ m.loop = r
                                                         /\ m.saved /\ ~m.live
                                                         /\ \A k \in DOMAIN d.recurring : m.seen[k]}
<1>1. ASSUME NEW m, Safe(m), NEW i \in Inputs, NEW save \in BOOLEAN,
             <<m.state, i>> \in Moves(d), save => ~m.saved,
             Looped(m) => \A k \in DOMAIN d.recurring : m.seen[k]
      PROVE  Safe(NextMonitor(d, m, i, save))
  <2> DEFINE q == <<m, <<i, save>>>>
  <2>1. q \in Moves(M) /\ M.next[q] = NextMonitor(d, m, i, save)
    BY <1>1, MonitorNode DEF Moves
  <2>2. ASSUME NEW n \in Nat, M.next[q] \in ViolationIn(M)[n] PROVE FALSE
    <3>1. q[1] \in Before(M, ViolationIn(M)[n])
      BY <2>1, <2>2 DEF Before
    <3>2. m \in ViolationIn(M)[n + 1] /\ n + 1 \in Nat
      BY <3>1, DistanceUnfolds
    <3> QED BY <1>1, <3>2
  <2>3. NextMonitor(d, m, i, save) \in Monitor(d)
    BY <1>1, NextIsMonitor
  <2> QED BY <2>1, <2>2, <2>3
<1>2. d.init \subseteq Apart
  <2>1. SUFFICES ASSUME NEW t \in d.init PROVE t \in Apart
    OBVIOUS
  <2> DEFINE m == [state |-> t, loop |-> t, saved |-> FALSE, live |-> FALSE,
                   seen |-> [k \in DOMAIN d.recurring |-> FALSE]]
  <2>2. t \in State
    BY DEF IsSystem
  <2>3. m \in Monitor(d) /\ m \in Monitored(d).init
    BY <2>2 DEF Monitor, Monitored
  <2>4. m.state = t /\ m.saved = FALSE
    OBVIOUS
  <2> HIDE DEF m
  <2>5. m \in M.init
    BY <2>3, SearchingFields
  <2> HIDE DEF M
  <2>6. Safe(m)
    BY <2>3, <2>5 DEF Misses, M
  <2> HIDE DEF Safe
  <2> QED BY <2>2, <2>3, <2>4, <2>6
<1> HIDE DEF M
<1>3. MoveClosed(d, Apart)
  <2>1. SUFFICES ASSUME NEW n \in Moves(d), n[1] \in Apart PROVE d.next[n] \in Apart
    BY DEF MoveClosed
  <2>2. n[2] \in Inputs /\ n = <<n[1], n[2]>> /\ d.next[n] \in State
    BY MovesAreMoves
  <2>3. PICK m \in Monitor(d) : Safe(m) /\ m.state = n[1] /\ ~m.saved
    BY <2>1
  <2> DEFINE save == FALSE
             x == NextMonitor(d, m, n[2], save)
  <2>a. save \in BOOLEAN /\ ~save
    OBVIOUS
  <2> HIDE DEF save
  <2>4. ~Looped(m)
    BY <2>3 DEF Looped
  <2>5. Safe(x)
    BY <1>1, <2>a, <2>2, <2>3, <2>4
  <2>6. x \in Monitor(d) /\ x.state = d.next[<<m.state, n[2]>>] /\ x.saved = (m.saved \/ save)
    BY NextIsMonitor, <2>a, <2>2
  <2> HIDE DEF x, Safe
  <2>7. x.state = d.next[n] /\ ~x.saved
    BY <2>a, <2>2, <2>3, <2>6
  <2> QED BY <2>2, <2>5, <2>6, <2>7
<1>4. r \in Apart
  <2>1. Apart \in SUBSET State
    OBVIOUS
  <2> HIDE DEF Apart
  <2> QED BY <1>0, <1>2, <1>3, <2>1 DEF Reached
<1>5. /\ n0 \in Moves(d) /\ n0 \notin d.property /\ n0[2] \in Inputs /\ n0 = <<r, n0[2]>>
      /\ d.next[n0] \in State /\ n0 \in d.constraint /\ r \in State
  BY AvoidIsMove, MovesAreMoves
<1>6. d.next[n0] \in Since
  <2>1. PICK m \in Monitor(d) : Safe(m) /\ m.state = r /\ ~m.saved
    BY <1>4
  <2> DEFINE save == TRUE
             x == NextMonitor(d, m, n0[2], save)
  <2>a. save \in BOOLEAN /\ save
    OBVIOUS
  <2> HIDE DEF save
  <2>2. ~Looped(m)
    BY <2>1 DEF Looped
  <2>3. <<m.state, n0[2]>> = n0
    BY <1>5, <2>1
  <2>4. Safe(x)
    BY <1>1, <1>5, <2>a, <2>1, <2>2, <2>3
  <2>5. /\ x \in Monitor(d) /\ x.state = d.next[n0] /\ x.loop = (IF save /\ ~m.saved THEN m.state ELSE m.loop)
        /\ x.saved = (m.saved \/ save) /\ x.live = ((m.live /\ ~save) \/ n0 \in d.property)
        /\ \A k \in DOMAIN d.recurring : x.seen[k] = ((m.seen[k] /\ ~save) \/ n0 \in d.recurring[k])
    <3>1. n0[2] \in Inputs
      BY <1>5
    <3>2. save \in BOOLEAN
      BY <2>a
    <3> QED BY <2>3, <3>1, <3>2, NextOfNode
  <2> HIDE DEF x, Safe
  <2>6. x.loop = r /\ x.saved /\ ~x.live
    BY <1>5, <2>a, <2>1, <2>5
  <2>7. \A k \in DOMAIN d.recurring : x.seen[k]
    BY <1>0, <2>5
  <2> QED BY <1>5, <2>4, <2>5, <2>6, <2>7
<1>7. ASSUME NEW n \in AvoidMoves(d), n[1] \in Since PROVE d.next[n] \in Since
  <2>1. /\ n \in Moves(d) /\ n \notin d.property
        /\ n[2] \in Inputs /\ n = <<n[1], n[2]>> /\ d.next[n] \in State
    BY AvoidIsMove, MovesAreMoves
  <2>2. PICK m \in Monitor(d) : /\ Safe(m) /\ m.state = n[1] /\ m.loop = r /\ m.saved /\ ~m.live
                                /\ \A k \in DOMAIN d.recurring : m.seen[k]
    BY <1>7
  <2> DEFINE save == FALSE
             x == NextMonitor(d, m, n[2], save)
  <2>a. save \in BOOLEAN /\ ~save
    OBVIOUS
  <2> HIDE DEF save
  <2>3. <<m.state, n[2]>> = n
    BY <2>1, <2>2
  <2>4. Safe(x)
    BY <1>1, <2>a, <2>1, <2>2, <2>3
  <2>5. /\ x \in Monitor(d) /\ x.state = d.next[n] /\ x.loop = (IF save /\ ~m.saved THEN m.state ELSE m.loop)
        /\ x.saved = (m.saved \/ save) /\ x.live = ((m.live /\ ~save) \/ n \in d.property)
        /\ \A k \in DOMAIN d.recurring : x.seen[k] = ((m.seen[k] /\ ~save) \/ n \in d.recurring[k])
    BY <2>a, <2>1, <2>3, NextIsMonitor
  <2> HIDE DEF x, Safe
  <2>6. x.loop = r /\ x.saved /\ ~x.live
    BY <2>a, <2>1, <2>2, <2>5
  <2>7. \A k \in DOMAIN d.recurring : x.seen[k]
    BY <2>a, <2>2, <2>5
  <2> QED BY <2>1, <2>4, <2>5, <2>6, <2>7
<1>8. r \in Since
  <2>1. Since \in SUBSET State
    OBVIOUS
  <2> HIDE DEF Since
  <2>2. AvoidFrom(d, d.next[n0]) \subseteq Since
    BY <1>6, <1>7, <2>1, AvoidInduction
  <2> QED BY <1>0, <2>2
<1>9. PICK m \in Monitor(d) : /\ Safe(m) /\ m.state = r /\ m.loop = r /\ m.saved /\ ~m.live
                              /\ \A k \in DOMAIN d.recurring : m.seen[k]
  BY <1>8
<1> DEFINE save == FALSE
           q == <<m, <<n0[2], save>>>>
<1>10. q \in M.constraint
  <2>1. save \in BOOLEAN /\ ~save
    OBVIOUS
  <2> HIDE DEF save
  <2>2. <<m.state, n0[2]>> \in d.constraint
    BY <1>5, <1>9
  <2> QED BY <1>5, <1>9, <2>1, <2>2, MonitorNode DEF M
<1>11. q \notin M.property
  <2>1. q[1] = m /\ Looped(m) /\ ~m.live
    BY <1>9 DEF Looped
  <2> HIDE DEF q
  <2>2. q \notin Monitored(d).property
    BY <2>1 DEF Monitored
  <2> QED BY <2>2, SearchingFields DEF M
<1>12. m \in Failing(M)
  <2>1. q[1] = m
    OBVIOUS
  <2> HIDE DEF q
  <2> QED BY <1>10, <1>11, <2>1 DEF Failing
<1> QED BY <1>9, <1>12, DistanceUnfolds

\* The translation: a violation of G (looped -> live) that the search finds, at any
\* distance and within the translated assumptions, is a cycle without p that the design
\* reaches and on which it sees whatever is assumed to recur; and with at most one such
\* assumption every such cycle is found, whatever the constraints are.
THEOREM TranslationIsExact ==
  ASSUME NEW d, IsSystem(d)
  PROVE  /\ (\E n \in Nat : ~Misses(Assuming(Monitored(d)), n)) => \E s \in State : AvoidsForEver(d, s)
         /\ (\A j, k \in DOMAIN d.recurring : j = k) =>
              ((\E s \in State : AvoidsForEver(d, s)) => \E n \in Nat : ~Misses(Assuming(Monitored(d)), n))
<1>1. Assuming(Monitored(d)) = Searching(d)
  BY DEF Searching
<1>2. ASSUME NEW n \in Nat, ~Misses(Searching(d), n) PROVE \E s \in State : AvoidsForEver(d, s)
  BY <1>2, TranslationIsSound
<1>3. ASSUME \A j, k \in DOMAIN d.recurring : j = k, NEW s \in State, AvoidsForEver(d, s),
             \A n \in Nat : Misses(Searching(d), n)
      PROVE  FALSE
  BY <1>3, TranslationIsComplete
<1> QED BY <1>1, <1>2, <1>3

-----------------------------------------------------------------------------
\* compute_counterexample(): the unwinding of a netlist.

\* The states of the timeframes 0 .. b, as a function.
Unwound(d, s, u, b, st) ==
  st = [t \in 0 .. b |-> IF t = 0 THEN s ELSE d.next[<<st[t - 1], u[t - 1]>>]]

LEMMA UnwoundExists == ASSUME NEW d, NEW s, NEW u, NEW b \in Nat PROVE \E st : Unwound(d, s, u, b, st)
<1> DEFINE Set == {n \in Nat : \E st : Unwound(d, s, u, n, st)}
<1>1. Unwound(d, s, u, 0, [t \in 0 .. 0 |-> s])
  BY DEF Unwound
<1>2. ASSUME NEW n \in Nat, NEW f, Unwound(d, s, u, n, f) PROVE \E g : Unwound(d, s, u, n + 1, g)
  <2> DEFINE g == [t \in 0 .. n + 1 |-> IF t = n + 1 THEN d.next[<<f[n], u[n]>>] ELSE f[t]]
  <2>1. ASSUME NEW t \in 0 .. n + 1
        PROVE  g[t] = IF t = 0 THEN s ELSE d.next[<<g[t - 1], u[t - 1]>>]
    <3>1. CASE t = n + 1
      <4>1. t # 0 /\ n \in 0 .. n + 1 /\ n # n + 1 /\ t - 1 = n
        BY <3>1
      <4> QED BY <3>1, <4>1
    <3>2. CASE t # n + 1
      <4>1. t \in 0 .. n /\ g[t] = f[t]
        BY <3>2
      <4>2. t # 0 => t - 1 \in 0 .. n + 1 /\ t - 1 # n + 1
        BY <4>1
      <4>3. f[t] = IF t = 0 THEN s ELSE d.next[<<f[t - 1], u[t - 1]>>]
        BY <1>2, <4>1 DEF Unwound
      <4> QED BY <4>1, <4>2, <4>3
    <3> QED BY <3>1, <3>2
  <2>2. Unwound(d, s, u, n + 1, g)
    BY <2>1 DEF Unwound
  <2> HIDE DEF g
  <2> QED BY <2>2
<1>3. 0 \in Set /\ \A n \in 0 .. b - 1 : n \in Set => n + 1 \in Set
  BY <1>1, <1>2
<1> HIDE DEF Set
<1>4. 0 .. b \subseteq Set
  BY <1>3, TimeframeInduction
<1> QED BY <1>4 DEF Set

\* w holds the nodes of the timeframes 0 .. b.
Unrolls(d, s, u, b, w) ==
  /\ w = [t \in 0 .. b |-> w[t]]
  /\ w[0] = <<s, u[0]>>
  /\ \A t \in 0 .. b - 1 : w[t + 1] = <<d.next[w[t]], u[t + 1]>>

\* The unwinding over b + 1 timeframes has the nodes that it describes.
LEMMA UnwindUnfolds ==
  ASSUME NEW d, NEW s, NEW u, NEW b \in Nat PROVE Unrolls(d, s, u, b, Unwind(d, s, u, b + 1))
<1> DEFINE w == Unwind(d, s, u, b + 1)
           chosen == CHOOSE st : Unwound(d, s, u, b, st)
<1>1. Unwound(d, s, u, b, chosen)
  BY UnwoundExists
<1>2. (b + 1) - 1 = b
  OBVIOUS
<1>3. w = [t \in 0 .. b |-> <<chosen[t], u[t]>>]
  BY <1>2 DEF Unwind, Unwound
<1> HIDE DEF w, chosen
<1>4. chosen[0] = s /\ 0 \in 0 .. b
  BY <1>1 DEF Unwound
<1>5. ASSUME NEW t \in 0 .. b - 1 PROVE w[t + 1] = <<d.next[w[t]], u[t + 1]>>
  <2>1. t \in 0 .. b /\ t + 1 \in 0 .. b /\ t + 1 # 0 /\ (t + 1) - 1 = t
    OBVIOUS
  <2>2. chosen[t + 1] = d.next[<<chosen[t], u[t]>>]
    BY <1>1, <2>1 DEF Unwound
  <2> QED BY <1>3, <2>1, <2>2
<1>6. w = [t \in 0 .. b |-> w[t]] /\ w[0] = <<s, u[0]>>
  BY <1>3, <1>4
<1>7. Unrolls(d, s, u, b, w)
  BY <1>5, <1>6 DEF Unrolls
<1> QED BY <1>7 DEF w

\* Nodes are pairs of a state and an input.
Paired(d) == \A n \in Nodes(d) : n = <<n[1], n[2]>>

\* A path of allowed nodes is the unwinding from its first state under its inputs.
LEMMA PathIsUnwinding ==
  ASSUME NEW d, IsNetlist(d), Paired(d), NEW b \in Nat, NEW path, NodePath(d, path, b)
  PROVE  path = Unwind(d, path[0][1], [t \in 0 .. b |-> path[t][2]], b + 1)
<1> DEFINE u == [t \in 0 .. b |-> path[t][2]]
           w == Unwind(d, path[0][1], u, b + 1)
           Set == {t \in 0 .. b : w[t] = path[t]}
<1>1. \A t \in 0 .. b : path[t] = <<path[t][1], path[t][2]>>
  BY DEF NodePath, IsNetlist, Paired
<1>2. Unrolls(d, path[0][1], u, b, w)
  BY UnwindUnfolds
<1> HIDE DEF w
<1>3. 0 \in Set
  BY <1>1, <1>2 DEF Unrolls
<1>4. ASSUME NEW t \in 0 .. b - 1, t \in Set PROVE t + 1 \in Set
  <2>1. t + 1 \in 0 .. b
    OBVIOUS
  <2>2. path[t + 1][1] = d.next[path[t]]
    BY DEF NodePath
  <2>3. w[t] = path[t] /\ u[t + 1] = path[t + 1][2]
    BY <1>4, <2>1
  <2>4. w[t + 1] = <<d.next[w[t]], u[t + 1]>>
    BY <1>2 DEF Unrolls
  <2>5. w[t + 1] = path[t + 1]
    BY <1>1, <2>1, <2>2, <2>3, <2>4
  <2> QED BY <2>1, <2>5
<1> HIDE DEF Set
<1>5. 0 .. b \subseteq Set
  BY <1>3, <1>4, TimeframeInduction
<1>6. path = [t \in 0 .. b |-> path[t]]
  BY DEF NodePath
<1>7. \A t \in 0 .. b : w[t] = path[t]
  BY <1>5 DEF Set
<1>8. path = w
  BY <1>2, <1>6, <1>7 DEF Unrolls
<1> QED BY <1>8 DEF w

\* An unwinding of moves is a path up to every timeframe that falsifies the property.
LEMMA UnwindingIsPath ==
  ASSUME NEW d, NEW s, NEW u, NEW b \in Nat, NEW x \in 0 .. b,
         \A t \in 0 .. b : Unwind(d, s, u, b + 1)[t] \in Moves(d),
         Unwind(d, s, u, b + 1)[x] \notin d.property
  PROVE  s \in ViolationIn(d)[x]
<1> DEFINE w == Unwind(d, s, u, b + 1)
           path == [t \in 0 .. x |-> w[t]]
<1>1. Unrolls(d, s, u, b, w)
  BY UnwindUnfolds
<1>2. (\A t \in 0 .. b : w[t] \in Moves(d) /\ w[t] \in d.constraint) /\ w[x] \notin d.property
  BY DEF Moves
<1> HIDE DEF w
<1>3. 0 \in 0 .. x /\ x \in 0 .. x /\ x \in Nat
  OBVIOUS
<1>4. path \in [0 .. x -> d.constraint]
  BY <1>2
<1>5. \A t \in 0 .. x - 1 : path[t] \in Moves(d) /\ path[t + 1][1] = d.next[path[t]]
  <2> SUFFICES ASSUME NEW t \in 0 .. x - 1 PROVE path[t] \in Moves(d) /\ path[t + 1][1] = d.next[path[t]]
    OBVIOUS
  <2>1. t \in 0 .. b - 1 /\ t \in 0 .. x /\ t + 1 \in 0 .. x
    OBVIOUS
  <2>2. path[t + 1] = w[t + 1] /\ path[t] = w[t] /\ w[t] \in Moves(d)
    BY <1>2, <2>1
  <2>3. w[t + 1] = <<d.next[w[t]], u[t + 1]>>
    BY <1>1, <2>1 DEF Unrolls
  <2> HIDE DEF path
  <2> QED BY <2>2, <2>3
<1>6. path[x] \notin d.property /\ path[0][1] = s
  BY <1>1, <1>2, <1>3 DEF Unrolls
<1> HIDE DEF path
<1>7. NodePath(d, path, x)
  BY <1>4, <1>5, <1>6 DEF NodePath
<1> QED BY <1>3, <1>6, <1>7, PathHasDistance

-----------------------------------------------------------------------------
\* The netlists of a problem.

LEMMA ProblemFacts ==
  ASSUME problem \in Problems
  PROVE  /\ problem.init \subseteq State
         /\ problem.next \in [State \X Inputs -> State]
         /\ problem.constraint \subseteq State \X Inputs
         /\ \E n \in Nat \ {0} : Ids = 1 .. n
BY ProblemsAssumption DEF Ids

LEMMA AboutFields ==
  ASSUME NEW f
  PROVE  /\ About(Net, f).init = problem.init /\ About(BddNet, f).init = problem.init
         /\ About(Net, f).next = problem.next /\ About(BddNet, f).next = problem.next
         /\ About(Net, f).constraint = problem.constraint /\ About(BddNet, f).constraint = Assumed
         /\ About(Net, f).transition = problem.transition /\ About(BddNet, f).transition = problem.transition
         /\ About(BddNet, f).property = About(Net, f).property
BY DEF About, BddNet, Net

LEMMA AboutIsSystem ==
  ASSUME problem \in Problems, NEW f
  PROVE  IsSystem(About(Net, f)) /\ IsSystem(About(BddNet, f))
<1>1. Assumed \subseteq problem.constraint
  BY DEF Assumed
<1> QED BY <1>1, ProblemFacts, AboutFields DEF IsSystem

LEMMA RecurrenceFields ==
  ASSUME NEW i
  PROVE  /\ Recurrence(i).init = problem.init /\ Recurrence(i).next = problem.next
         /\ Recurrence(i).constraint = problem.constraint /\ Recurrence(i).transition = problem.transition
         /\ Recurrence(i).property = CTL(Net, problem.label, Given(i)[2][2])
         /\ DOMAIN Recurrence(i).recurring = {k \in Ids : IsAssumption(k)}
         /\ \A k \in Ids : IsAssumption(k) =>
              Recurrence(i).recurring[k] = CTL(Net, problem.label, Given(k)[2][2])
BY DEF Recurrence

LEMMA RecurrenceIsSystem == ASSUME problem \in Problems, NEW i PROVE IsSystem(Recurrence(i))
BY ProblemFacts, RecurrenceFields DEF IsSystem

\* What the translation needs: a netlist with nodes that are pairs.
LEMMA SystemIsNetlist == ASSUME NEW d, IsSystem(d) PROVE IsNetlist(d) /\ Paired(d)
BY DEF IsSystem, IsNetlist, Paired, Nodes

LEMMA MonitoredIsNetlist == ASSUME NEW d PROVE IsNetlist(Monitored(d)) /\ Paired(Monitored(d))
<1>1. Nodes(Monitored(d)) = Monitor(d) \X MonitorInputs
  BY DEF Nodes, Monitored
<1>2. Monitored(d).constraint \subseteq Monitor(d) \X MonitorInputs
  BY DEF Monitored
<1> QED BY <1>1, <1>2 DEF IsNetlist, Paired

\* e is d with more constraints.
Constrains(d, e) ==
  /\ e.init = d.init /\ e.next = d.next /\ e.property = d.property /\ e.transition = d.transition
  /\ e.constraint \subseteq d.constraint

\* The recomputed counterexample is about the netlist of the search without the
\* assumptions; when there are none, about the same netlist.
LEMMA SearchConstrains == ASSUME NEW i PROVE Constrains(Unassumed(i), SearchOn(i))
<1>1. CASE Translates
  <2>1. Unassumed(i) = Monitored(Recurrence(i)) /\ SearchOn(i) = Searching(Recurrence(i))
    BY <1>1 DEF Unassumed, SearchOn, Searching
  <2> QED BY <2>1, SearchingFields DEF Constrains
<1>2. CASE ~Translates
  <2>1. Unassumed(i) = About(Net, Formula(i)[2]) /\ SearchOn(i) = About(BddNet, Formula(i)[2])
    BY <1>2 DEF Unassumed, SearchOn
  <2>2. Assumed \subseteq problem.constraint
    BY DEF Assumed
  <2> QED BY <2>1, <2>2, AboutFields DEF Constrains
<1> QED BY <1>1, <1>2

LEMMA SearchOnNetlists ==
  ASSUME problem \in Problems, NEW i
  PROVE  /\ IsNetlist(Unassumed(i)) /\ Paired(Unassumed(i))
         /\ IsNetlist(SearchOn(i))
<1>1. IsNetlist(Unassumed(i)) /\ Paired(Unassumed(i))
  BY AboutIsSystem, SystemIsNetlist, MonitoredIsNetlist DEF Unassumed
<1> QED BY <1>1, SearchConstrains DEF Constrains, IsNetlist, Nodes

\* Without assumptions both have the same constraint.
LEMMA SearchUnassumed ==
  ASSUME \A i \in Ids : ~IsAssumption(i), NEW j
  PROVE  SearchOn(j).constraint = Unassumed(j).constraint
<1>1. CASE Translates
  <2> DEFINE d == Recurrence(j)
  <2>1. DOMAIN d.recurring = {}
    BY RecurrenceFields
  <2>2. Unassumed(j) = Monitored(d) /\ SearchOn(j) = Searching(d)
    BY <1>1 DEF Unassumed, SearchOn, Searching
  <2> HIDE DEF d
  <2>3. ASSUME NEW q \in Monitored(d).constraint PROVE q[1].seen = [k \in {} |-> q[1].seen[k]]
    <3>1. q[1] \in Monitor(d)
      BY DEF Monitored
    <3> QED BY <2>1, <3>1, MonitorFields
  <2>4. \A q \in Monitored(d).constraint : DOMAIN q[1].seen = {}
    BY <2>3
  <2>5. Searching(d).constraint = Monitored(d).constraint
    <3>1. \A q \in Monitored(d).constraint : Looped(q[1]) => \A k \in DOMAIN q[1].seen : q[1].seen[k]
      BY <2>4
    <3> QED BY <3>1, SearchingFields
  <2> QED BY <2>2, <2>5
<1>2. CASE ~Translates
  <2>1. Assumed = problem.constraint
    BY DEF Assumed
  <2>2. Unassumed(j) = About(Net, Formula(j)[2]) /\ SearchOn(j) = About(BddNet, Formula(j)[2])
    BY <1>2 DEF Unassumed, SearchOn
  <2> QED BY <2>1, <2>2, AboutFields
<1> QED BY <1>1, <1>2

\* What constrains a design keeps its paths.
LEMMA ConstrainedPath ==
  ASSUME NEW d, NEW e, Constrains(d, e), NEW b \in Nat, NEW path, NodePath(e, path, b)
  PROVE  NodePath(d, path, b)
BY DEF NodePath, Constrains, Moves

LEMMA SamePath ==
  ASSUME NEW d, NEW e, Constrains(d, e), e.constraint = d.constraint, NEW b \in Nat, NEW path, NodePath(d, path, b)
  PROVE  NodePath(e, path, b)
BY DEF NodePath, Constrains, Moves

-----------------------------------------------------------------------------
\* compute_counterexample() after a search.

\* The SAT solver finds what the search has found.
LEMMA FalsifyingTraceExists ==
  ASSUME problem \in Problems, NEW b \in Nat, ~Misses(SearchOn(index), b), BadStatesMoveOn(SearchOn(index))
  PROVE  \E t \in Traces(b + 1) : t.fails # {}
<1> DEFINE d == Unassumed(index)
           e == SearchOn(index)
<1>1. Constrains(d, e) /\ IsNetlist(d) /\ Paired(d)
  BY SearchConstrains, SearchOnNetlists
<1>2. PICK s \in e.init : s \in ViolationIn(e)[b]
  BY DEF Misses
<1>3. PICK any : NodePath(e, any, b) /\ any[0][1] = s
  BY <1>2, DistanceHasPath
<1>a. PICK path : NodePath(e, path, b) /\ path[0][1] = s /\ \A t \in 0 .. b : path[t] \in Moves(e)
  BY <1>3, PathOfMoves
<1>4. NodePath(d, path, b) /\ s \in d.init /\ \A t \in 0 .. b : path[t] \in Moves(d)
  BY <1>1, <1>2, <1>a, ConstrainedPath DEF Constrains, Moves
<1> DEFINE u == [t \in 0 .. b |-> path[t][2]]
           N == (b + 1) - 1
           trace == [length |-> b + 1, fails |-> {t \in 0 .. N : path[t] \notin d.property}]
<1>5. N = b
  OBVIOUS
<1>6. path = Unwind(d, s, u, b + 1)
  BY <1>1, <1>a, <1>4, PathIsUnwinding
<1>7. u \in [0 .. N -> {q[2] : q \in Nodes(d)}]
  <2>1. \A t \in 0 .. b : path[t] \in Nodes(d)
    BY <1>1, <1>4 DEF NodePath, IsNetlist
  <2> QED BY <1>5, <2>1
<1>8. \A t \in 0 .. N : path[t] \in Moves(d)
  BY <1>4, <1>5
<1>9. b \in trace.fails
  BY <1>4, <1>5 DEF NodePath
<1>10. trace \in Traces(b + 1)
  <2> DEFINE paths == {Unwind(d, s0, u0, b + 1) : s0 \in d.init, u0 \in [0 .. N -> {q[2] : q \in Nodes(d)}]}
             Entry(p) == [length |-> b + 1, fails |-> {t \in 0 .. N : p[t] \notin d.property}]
  <2>1. path \in paths
    <3> HIDE DEF u, d, N
    <3> QED BY <1>4, <1>6, <1>7
  <2>2. Traces(b + 1) = {Entry(p) : p \in {q \in paths : \A t \in 0 .. N : q[t] \in Moves(d)}}
    BY DEF Traces
  <2>3. trace = Entry(path)
    OBVIOUS
  <2> HIDE DEF paths, Entry, trace, d, N
  <2> QED BY <1>8, <2>1, <2>2, <2>3
<1> QED BY <1>9, <1>10

\* Without assumptions, it finds nothing that falsifies the property earlier.
LEMMA FalsifyingTraceIsShortest ==
  ASSUME \A i \in Ids : ~IsAssumption(i), NEW b \in Nat,
         \A n \in Nat : n < b => Misses(SearchOn(index), n),
         NEW trace \in Traces(b + 1), trace.fails # {}
  PROVE  trace.length = b + 1 /\ trace.fails = {b}
<1> DEFINE d == Unassumed(index)
           e == SearchOn(index)
<1>1. Constrains(d, e) /\ e.constraint = d.constraint
  BY SearchUnassumed, SearchConstrains
<1>2. (b + 1) - 1 = b
  OBVIOUS
<1>3. PICK s \in d.init, u \in [0 .. b -> {q[2] : q \in Nodes(d)}] :
        /\ \A t \in 0 .. b : Unwind(d, s, u, b + 1)[t] \in Moves(d)
        /\ trace.length = b + 1
        /\ trace.fails = {t \in 0 .. b : Unwind(d, s, u, b + 1)[t] \notin d.property}
  <2> DEFINE N == (b + 1) - 1
             paths == {Unwind(d, s0, u0, b + 1) : s0 \in d.init, u0 \in [0 .. N -> {q[2] : q \in Nodes(d)}]}
             Entry(p) == [length |-> b + 1, fails |-> {t \in 0 .. N : p[t] \notin d.property}]
  <2>1. Traces(b + 1) = {Entry(p) : p \in {q \in paths : \A t \in 0 .. N : q[t] \in Moves(d)}}
    BY DEF Traces
  <2>2. PICK path \in paths : trace = Entry(path) /\ \A t \in 0 .. N : path[t] \in Moves(d)
    <3> HIDE DEF paths, Entry, N, d
    <3> QED BY <2>1
  <2>3. trace.length = b + 1 /\ trace.fails = {t \in 0 .. N : path[t] \notin d.property}
    BY <2>2
  <2>4. PICK s \in d.init, u \in [0 .. N -> {q[2] : q \in Nodes(d)}] : path = Unwind(d, s, u, b + 1)
    <3> HIDE DEF N, d
    <3> QED OBVIOUS
  <2>5. N = b
    BY <1>2
  <2> HIDE DEF paths, Entry, N, d
  <2> QED BY <2>2, <2>3, <2>4, <2>5
<1> HIDE DEF d, e
<1>4. ASSUME NEW x \in trace.fails PROVE x = b
  <2>1. x \in 0 .. b /\ x \in Nat
    BY <1>3
  <2>2. s \in ViolationIn(d)[x]
    BY <1>3, <2>1, UnwindingIsPath
  <2>3. PICK path : NodePath(d, path, x) /\ path[0][1] = s
    BY <2>1, <2>2, DistanceHasPath
  <2>4. NodePath(e, path, x)
    BY <1>1, <2>1, <2>3, SamePath
  <2>5. s \in ViolationIn(e)[x] /\ s \in e.init
    BY <1>1, <1>3, <2>1, <2>3, <2>4, PathHasDistance DEF Constrains
  <2>6. ~(x < b)
    BY <2>1, <2>5 DEF Misses, e
  <2> QED BY <2>1, <2>6
<1> QED BY <1>3, <1>4

-----------------------------------------------------------------------------
\* The inductive invariant.

\* A property has its three fields, and the loop is at one of the properties.
EngineTyped ==
  /\ problem \in Problems
  /\ index \in Nat
  /\ pc \in {"start", "check", "search"} => index \in Ids
  /\ props = [i \in Ids |-> [normalized_expr |-> Formula(i), status |-> props[i].status,
                            trace |-> props[i].trace]]

\* Nothing is decided before the loop.
Undecided == pc = "start" => \A i \in Ids : props[i].status \in {"ASSUMED", "UNKNOWN"}

\* The search in progress is that of the property in work.
OnIndex == pc = "search" => design = SearchOn(index) /\ Searched(index)

EngineInv ==
  /\ EngineTyped /\ Undecided /\ OnIndex /\ SearchInv
  /\ SearchVerdictsAreRight /\ TraceIsShortest /\ CounterexampleExists

\* Neither the problem nor a formula changes: what the properties are about stays.
Same == problem' = problem /\ \A i \in Ids : Formula(i)' = Formula(i)

LEMMA SameMeaning ==
  ASSUME problem' = problem
  PROVE  /\ Ids' = Ids /\ Net' = Net /\ BddNet' = BddNet /\ (Translates' <=> Translates)
         /\ (AtMostOneRecurs' <=> AtMostOneRecurs)
         /\ \A i : P(i)' = P(i) /\ Given(i)' = Given(i) /\ (IsAssumption(i)' <=> IsAssumption(i))
                 /\ Recurrence(i)' = Recurrence(i)
                 /\ HoldsVerdict(i)' = HoldsVerdict(i) /\ ViolatedVerdict(i)' = ViolatedVerdict(i)
         /\ \A net, f : About(net, f)' = About(net, f)
<1>1. Ids' = Ids /\ Net' = Net /\ \A i : P(i)' = P(i) /\ Given(i)' = Given(i)
  BY DEF Ids, Net, P, Given, NormalizedExpr
<1>2. \A i : (IsAssumption(i)' <=> IsAssumption(i)) /\ (IsExistsPath(i)' <=> IsExistsPath(i))
              /\ (Usable(i)' <=> Usable(i)) /\ (Translatable(i)' <=> Translatable(i))
  BY <1>1 DEF IsAssumption, IsExistsPath, Usable, Translatable
<1>3. \A i : AssumptionHolds(i)' = AssumptionHolds(i)
  BY <1>1 DEF AssumptionHolds
<1>4. Assumed' = Assumed
  BY <1>1, <1>2, <1>3 DEF Assumed
<1>5. BddNet' = BddNet
  BY <1>1, <1>4 DEF BddNet
<1>6. (Translates' <=> Translates) /\ (AtMostOneRecurs' <=> AtMostOneRecurs)
  BY <1>1, <1>2 DEF Translates, AtMostOneRecurs
<1>7. \A net, f : About(net, f)' = About(net, f)
  BY <1>1 DEF About
<1>8. \A i : HoldsVerdict(i)' = HoldsVerdict(i) /\ ViolatedVerdict(i)' = ViolatedVerdict(i)
  BY <1>2 DEF HoldsVerdict, ViolatedVerdict
<1>9. \A i : Recurrence(i)' = Recurrence(i)
  <2>1. {k \in Ids : IsAssumption(k)}' = {k \in Ids : IsAssumption(k)}
    BY <1>1, <1>2
  <2> QED BY <1>1, <2>1 DEF Recurrence
<1> QED BY <1>1, <1>2, <1>5, <1>6, <1>7, <1>8, <1>9

LEMMA SameSearch ==
  ASSUME Same, NEW i \in Ids
  PROVE  /\ SearchOn(i)' = SearchOn(i)
         /\ Searched(i)' <=> Searched(i)
         /\ Exists(i)' <=> Exists(i)
<1>1. /\ BddNet' = BddNet /\ (Translates' <=> Translates) /\ Recurrence(i)' = Recurrence(i)
      /\ \A net, f : About(net, f)' = About(net, f)
  BY SameMeaning DEF Same
<1>2. Formula(i)' = Formula(i)
  BY DEF Same
<1>3. About(BddNet, Formula(i)[2])' = About(BddNet, Formula(i)[2])
  BY <1>1, <1>2 DEF Same, About, BddNet, Net, Assumed, AssumptionHolds, Usable, IsAssumption, Ids, P
<1>4. Monitored(Recurrence(i))' = Monitored(Recurrence(i))
  BY <1>1
<1>5. SearchOn(i)' = SearchOn(i)
  <2>1. CASE Translates
    <3>1. SearchOn(i) = Assuming(Monitored(Recurrence(i)))
      BY <2>1 DEF SearchOn, Unassumed
    <3>2. SearchOn(i)' = Assuming(Monitored(Recurrence(i))')
      BY <1>1, <2>1 DEF SearchOn, Unassumed
    <3> QED BY <1>4, <3>1, <3>2
  <2>2. CASE ~Translates
    <3>1. SearchOn(i) = About(BddNet, Formula(i)[2])
      BY <2>2 DEF SearchOn
    <3>2. SearchOn(i)' = About(BddNet, Formula(i)[2])'
      BY <1>1, <2>2 DEF SearchOn
    <3> QED BY <1>3, <3>1, <3>2
  <2> QED BY <2>1, <2>2
<1>6. Searched(i)' <=> Searched(i)
  BY <1>1, <1>2 DEF Searched, IsAGp
<1>7. Exists(i)' <=> Exists(i)
  <2>1. (\E t \in State : AvoidsForEver(Recurrence(i), t))' <=> \E t \in State : AvoidsForEver(Recurrence(i), t)
    BY <1>1
  <2>2. Violated(About(BddNet, Formula(i)[2]))' <=> Violated(About(BddNet, Formula(i)[2]))
    BY <1>3
  <2> QED BY <1>1, <2>1, <2>2 DEF Exists
<1> QED BY <1>5, <1>6, <1>7

-----------------------------------------------------------------------------
\* Steps that leave the properties as they are.

LEMMA KeptProperties ==
  ASSUME EngineInv, problem' = problem, props' = props
  PROVE  /\ Same /\ SearchVerdictsAreRight' /\ TraceIsShortest'
         /\ props' = [i \in Ids' |-> [normalized_expr |-> Formula(i)', status |-> props'[i].status,
                                      trace |-> props'[i].trace]]
<1>1. Same
  BY DEF Same, Formula
<1>2. Ids' = Ids /\ \A i : HoldsVerdict(i)' = HoldsVerdict(i) /\ ViolatedVerdict(i)' = ViolatedVerdict(i)
                            /\ (IsAssumption(i)' <=> IsAssumption(i))
      /\ (Translates' <=> Translates) /\ (AtMostOneRecurs' <=> AtMostOneRecurs)
  BY SameMeaning
<1>3. SearchVerdictsAreRight'
  BY <1>1, <1>2, SameSearch DEF EngineInv, SearchVerdictsAreRight
<1>4. TraceIsShortest'
  BY <1>2 DEF EngineInv, TraceIsShortest
<1>5. props' = [i \in Ids' |-> [normalized_expr |-> Formula(i)', status |-> props'[i].status,
                               trace |-> props'[i].trace]]
  BY <1>2 DEF EngineInv, EngineTyped, Formula
<1> QED BY <1>1, <1>3, <1>4, <1>5

\* A search may start on any netlist.
Starts == IsNetlist(design) /\ states = Violating(design) /\ iteration = 0 /\ result = Running

LEMMA StartsInv == Starts => SearchInv
BY StartInv DEF Starts

LEMMA StartsNext == Starts' => SearchInv'
BY StartsInv, PTL

-----------------------------------------------------------------------------
\* The invariant holds at first, and every action keeps it.

LEMMA InitEngineInv == EngineInit => EngineInv
<1> SUFFICES ASSUME EngineInit PROVE EngineInv
  OBVIOUS
<1>1. problem \in Problems /\ pc = "start" /\ index = 1
  BY DEF EngineInit
<1>2. problem.constraint \subseteq DOMAIN problem.next /\ problem.constraint \subseteq State \X Inputs /\ 1 \in Ids
      /\ problem.next \in [State \X Inputs -> State]
  BY <1>1, ProblemFacts
<1>3. ASSUME NEW i \in Ids
      PROVE  /\ props[i] = [normalized_expr |-> Formula(i), status |-> props[i].status,
                            trace |-> props[i].trace]
             /\ props[i].status \in {"ASSUMED", "UNKNOWN"} /\ props[i].trace = NoTrace
  BY DEF EngineInit, PropertyOf, Formula
<1>4. props = [i \in Ids |-> props[i]]
  BY DEF EngineInit
<1>5. EngineTyped
  BY <1>1, <1>2, <1>3, <1>4 DEF EngineTyped
<1>6. Starts
  <2>1. IsNetlist(Net) /\ Violating(Net) = {}
    BY <1>2 DEF IsNetlist, Violating, Nodes, Net
  <2> QED BY <2>1 DEF EngineInit, Starts
<1>7. SearchVerdictsAreRight
  BY <1>3 DEF SearchVerdictsAreRight, HoldsVerdict, ViolatedVerdict
<1>8. TraceIsShortest
  <2>1. NoTrace.length = 0
    BY DEF NoTrace
  <2>2. \A i \in Ids : props[i].trace.length = 0
    BY <1>3, <2>1
  <2> QED BY <2>2 DEF TraceIsShortest
<1> QED BY <1>1, <1>3, <1>5, <1>6, <1>7, <1>8, StartsInv
      DEF EngineInv, Undecided, OnIndex, CounterexampleExists

\* The verdicts of the loop's first step are none.
LEMMA PrepareInv == ASSUME EngineInv, Prepare PROVE EngineInv'
<1>1. problem' = problem /\ index' = index /\ UNCHANGED vars /\ pc = "start" /\ pc' \in {"check", "rejected"}
  BY DEF Prepare
<1>2. index \in Ids /\ index \in Nat /\ problem \in Problems
  BY <1>1 DEF EngineInv, EngineTyped
<1>3. /\ Ids' = Ids
      /\ \A i : HoldsVerdict(i)' = HoldsVerdict(i) /\ ViolatedVerdict(i)' = ViolatedVerdict(i)
                /\ (IsAssumption(i)' <=> IsAssumption(i))
  BY <1>1, SameMeaning
<1>4. props = [i \in Ids |-> props[i]]
  BY DEF EngineInv, EngineTyped
<1>5. props' = [i \in Ids |-> props'[i]]
  BY <1>4 DEF Prepare
<1>6. ASSUME NEW i \in Ids
      PROVE  /\ props'[i] = [normalized_expr |-> Formula(i)', status |-> props'[i].status,
                             trace |-> props'[i].trace]
             /\ props'[i].status \in {"ASSUMED", "UNKNOWN", "FAILURE"} /\ props'[i].trace = props[i].trace
  <2>1. props[i] = [normalized_expr |-> Formula(i), status |-> props[i].status, trace |-> props[i].trace]
    BY DEF EngineInv, EngineTyped
  <2>2. props[i].status \in {"ASSUMED", "UNKNOWN"}
    BY <1>1 DEF EngineInv, Undecided
  <2>3. \/ props'[i] = props[i]
        \/ props'[i] = [props[i] EXCEPT !.status = "FAILURE"]
        \/ \E f : props'[i] = [props[i] EXCEPT !.normalized_expr = f]
    BY DEF Prepare
  <2> QED BY <2>1, <2>2, <2>3 DEF Formula
<1>7. EngineTyped'
  BY <1>1, <1>2, <1>3, <1>5, <1>6 DEF EngineTyped
<1>8. SearchVerdictsAreRight'
  BY <1>3, <1>6 DEF SearchVerdictsAreRight, HoldsVerdict, ViolatedVerdict
<1>9. TraceIsShortest'
  BY <1>3, <1>6 DEF EngineInv, TraceIsShortest
<1>10. SearchInv'
  BY <1>1, SearchInvKept DEF EngineInv
<1> QED BY <1>1, <1>7, <1>8, <1>9, <1>10 DEF EngineInv, Undecided, OnIndex, CounterexampleExists

\* Where the loop goes.
LEMMA AdvanceTyped ==
  ASSUME EngineInv, index \in Ids, Advance, Ids' = Ids
  PROVE  /\ index' \in Nat /\ pc' \in {"check", "done"}
         /\ pc' \in {"start", "check", "search"} => index' \in Ids'
BY DEF EngineInv, EngineTyped, Advance

\* It goes on with the next property, or stops when the SAT solver contradicts the search.
Stop == pc' = "unsat" /\ index' = index /\ ~BadStatesMoveOn(design)

LEMMA LeaveTyped ==
  ASSUME EngineInv, index \in Ids, Advance \/ Stop, Ids' = Ids
  PROVE  /\ index' \in Nat /\ pc' \in {"check", "done", "unsat"}
         /\ pc' \in {"start", "check", "search"} => index' \in Ids'
BY AdvanceTyped DEF EngineInv, EngineTyped, Stop

LEMMA SkipPropertyInv == ASSUME EngineInv, SkipProperty PROVE EngineInv'
<1>1. problem' = problem /\ props' = props /\ UNCHANGED vars /\ Advance /\ pc = "check"
  BY DEF SkipProperty
<1>2. Ids' = Ids /\ index \in Ids /\ problem \in Problems
  BY <1>1, SameMeaning DEF EngineInv, EngineTyped
<1>3. EngineTyped'
  BY <1>1, <1>2, AdvanceTyped, KeptProperties DEF EngineTyped
<1>4. SearchInv'
  BY <1>1, SearchInvKept DEF EngineInv
<1> QED BY <1>1, <1>2, <1>3, <1>4, AdvanceTyped, KeptProperties
      DEF EngineInv, Undecided, OnIndex, CounterexampleExists

LEMMA StartSearchInv == ASSUME EngineInv, StartSearch PROVE EngineInv'
<1>1. /\ problem' = problem /\ props' = props /\ index' = index /\ pc = "check" /\ pc' = "search"
      /\ design' = SearchOn(index) /\ states' = Violating(SearchOn(index))
      /\ iteration' = 0 /\ result' = Running /\ Searched(index)
  BY DEF StartSearch, Searched
<1>2. Ids' = Ids /\ index \in Ids /\ problem \in Problems /\ index \in Nat
  BY <1>1, SameMeaning DEF EngineInv, EngineTyped
<1>3. Same /\ SearchVerdictsAreRight' /\ TraceIsShortest'
  BY <1>1, KeptProperties
<1>4. EngineTyped'
  BY <1>1, <1>2, KeptProperties DEF EngineTyped
<1>5. SearchOn(index)' = SearchOn(index) /\ (Searched(index)' <=> Searched(index))
  <2>1. \A i \in Ids : SearchOn(i)' = SearchOn(i) /\ (Searched(i)' <=> Searched(i))
    BY <1>3, SameSearch
  <2> QED BY <1>1, <1>2, <2>1
<1>6. OnIndex'
  BY <1>1, <1>5 DEF OnIndex
<1>7. SearchInv'
  <2>1. IsNetlist(SearchOn(index))
    BY <1>2, SearchOnNetlists
  <2>2. Starts'
    BY <1>1, <2>1 DEF Starts
  <2> QED BY <2>2, StartsNext
<1> QED BY <1>1, <1>3, <1>4, <1>6, <1>7 DEF EngineInv, Undecided, CounterexampleExists

LEMMA SearchStepInv == ASSUME EngineInv, Search PROVE EngineInv'
<1>1. /\ problem' = problem /\ props' = props /\ index' = index /\ pc' = pc /\ pc = "search"
      /\ Iterate /\ design' = design
  BY DEF Search, Iterate
<1>2. Ids' = Ids /\ index \in Ids /\ problem \in Problems /\ index \in Nat
  BY <1>1, SameMeaning DEF EngineInv, EngineTyped
<1>3. Same /\ SearchVerdictsAreRight' /\ TraceIsShortest'
  BY <1>1, KeptProperties
<1>4. EngineTyped'
  BY <1>1, <1>2, KeptProperties DEF EngineTyped
<1>5. SearchOn(index)' = SearchOn(index) /\ (Searched(index)' <=> Searched(index))
  <2>1. \A i \in Ids : SearchOn(i)' = SearchOn(i) /\ (Searched(i)' <=> Searched(i))
    BY <1>3, SameSearch
  <2> QED BY <1>1, <1>2, <2>1
<1>6. OnIndex'
  BY <1>1, <1>5 DEF EngineInv, OnIndex
<1>7. SearchInv'
  BY <1>1, IterateInv DEF EngineInv
<1> QED BY <1>1, <1>3, <1>4, <1>6, <1>7 DEF EngineInv, Undecided, CounterexampleExists

-----------------------------------------------------------------------------
\* Steps that decide the property in work.

\* It gets the status s and the trace t, and no other property changes.
Decide(s, t) ==
  /\ problem' = problem
  /\ props' = [i \in Ids |-> IF i = index
                              THEN [normalized_expr |-> Formula(i), status |-> s, trace |-> t]
                              ELSE props[i]]

LEMMA DecideTyped ==
  ASSUME EngineInv, index \in Ids, NEW s, NEW t, Decide(s, t)
  PROVE  /\ Same /\ Ids' = Ids
         /\ props' = [i \in Ids' |-> [normalized_expr |-> Formula(i)', status |-> props'[i].status,
                                      trace |-> props'[i].trace]]
         /\ props'[index].status = s /\ props'[index].trace = t
         /\ \A i \in Ids : i # index => props'[i] = props[i]
<1>1. Ids' = Ids
  BY SameMeaning DEF Decide
<1>2. \A i \in Ids : Formula(i)' = Formula(i)
  BY DEF Decide, Formula
<1>3. ASSUME NEW i \in Ids
      PROVE  props'[i] = [normalized_expr |-> Formula(i)', status |-> props'[i].status,
                          trace |-> props'[i].trace]
  <2>1. props[i] = [normalized_expr |-> Formula(i), status |-> props[i].status, trace |-> props[i].trace]
    BY DEF EngineInv, EngineTyped
  <2> QED BY <1>2, <2>1 DEF Decide
<1>4. props' = [i \in Ids |-> props'[i]]
  BY DEF Decide
<1> QED BY <1>1, <1>2, <1>3, <1>4 DEF Decide, Same

\* A decision keeps the invariant when its verdict is right and its trace shortest.
LEMMA DecideInv ==
  ASSUME EngineInv, index \in Ids, NEW s, NEW t, Decide(s, t), Advance \/ Stop, UNCHANGED vars,
         Searched(index) => /\ s = HoldsVerdict(index) /\ (Translates => AtMostOneRecurs) => ~Exists(index)
                            /\ s = ViolatedVerdict(index) => Exists(index),
         (\A i \in Ids : ~IsAssumption(i)) => (t.length > 0 => t.fails = {t.length - 1})
  PROVE  EngineInv'
<1>1. problem' = problem /\ problem \in Problems
  BY DEF Decide, EngineInv, EngineTyped
<1>2. /\ Same /\ Ids' = Ids
      /\ props'[index].status = s /\ props'[index].trace = t
      /\ \A i \in Ids : i # index => props'[i] = props[i]
  BY DecideTyped
<1>3. \A i : HoldsVerdict(i)' = HoldsVerdict(i) /\ ViolatedVerdict(i)' = ViolatedVerdict(i)
            /\ (IsAssumption(i)' <=> IsAssumption(i))
      /\ (Translates' <=> Translates) /\ (AtMostOneRecurs' <=> AtMostOneRecurs)
  BY <1>1, SameMeaning
<1>4. index' \in Nat /\ pc' \in {"check", "done", "unsat"} /\ (pc' \in {"start", "check", "search"} => index' \in Ids')
  BY <1>2, LeaveTyped
<1>5. EngineTyped'
  <2>1. props' = [i \in Ids' |-> [normalized_expr |-> Formula(i)', status |-> props'[i].status,
                                 trace |-> props'[i].trace]]
    BY DecideTyped
  <2> QED BY <1>1, <1>4, <2>1 DEF EngineTyped
<1>6. SearchVerdictsAreRight'
  <2>1. SUFFICES ASSUME NEW i \in Ids, Searched(i)
                 PROVE  /\ props'[i].status = HoldsVerdict(i) /\ (Translates => AtMostOneRecurs) => ~Exists(i)
                        /\ props'[i].status = ViolatedVerdict(i) => Exists(i)
    BY <1>2, <1>3, SameSearch DEF SearchVerdictsAreRight
  <2>2. CASE i = index
    BY <1>2, <2>1, <2>2
  <2>3. CASE i # index
    BY <1>2, <2>1, <2>3 DEF EngineInv, SearchVerdictsAreRight
  <2> QED BY <2>2, <2>3
<1>7. TraceIsShortest'
  <2>1. SUFFICES ASSUME \A i \in Ids : ~IsAssumption(i), NEW i \in Ids, props'[i].trace.length > 0
                 PROVE  props'[i].trace.fails = {props'[i].trace.length - 1}
    BY <1>2, <1>3 DEF TraceIsShortest
  <2>2. CASE i = index
    BY <1>2, <2>1, <2>2
  <2>3. CASE i # index
    BY <1>2, <2>1, <2>3 DEF EngineInv, TraceIsShortest
  <2> QED BY <2>2, <2>3
<1>8. SearchInv'
  BY SearchInvKept DEF EngineInv
<1>9. CounterexampleExists'
  <2>1. SUFFICES ASSUME pc' = "unsat" PROVE ~BadStatesMoveOn(design')
    BY DEF CounterexampleExists
  <2>2. Stop /\ design' = design
    BY <2>1 DEF Advance, vars
  <2> QED BY <2>2 DEF Stop
<1> QED BY <1>4, <1>5, <1>6, <1>7, <1>8, <1>9 DEF EngineInv, Undecided, OnIndex

\* The distances of the search say whether what it looks for exists.
LEMMA SearchDecides ==
  ASSUME problem \in Problems, NEW i
  PROVE  /\ (\E n \in Nat : ~Misses(SearchOn(i), n)) => Exists(i)
         /\ (\A n \in Nat : Misses(SearchOn(i), n)) /\ (Translates => AtMostOneRecurs) => ~Exists(i)
<1>1. CASE Translates
  <2> DEFINE d == Recurrence(i)
  <2>1. IsSystem(d)
    BY RecurrenceIsSystem
  <2>2. AtMostOneRecurs => \A j, k \in DOMAIN d.recurring : j = k
    BY RecurrenceFields DEF AtMostOneRecurs
  <2>3. SearchOn(i) = Assuming(Monitored(d)) /\ (Exists(i) <=> \E s \in State : AvoidsForEver(d, s))
    BY <1>1 DEF SearchOn, Unassumed, Exists
  <2> HIDE DEF d
  <2>4. /\ (\E n \in Nat : ~Misses(Assuming(Monitored(d)), n)) => \E s \in State : AvoidsForEver(d, s)
        /\ (\A j, k \in DOMAIN d.recurring : j = k) =>
             ((\E s \in State : AvoidsForEver(d, s)) => \E n \in Nat : ~Misses(Assuming(Monitored(d)), n))
    BY <2>1, TranslationIsExact
  <2>5. AtMostOneRecurs => (Exists(i) => \E n \in Nat : ~Misses(SearchOn(i), n))
    BY <2>2, <2>3, <2>4
  <2>6. (\E n \in Nat : ~Misses(SearchOn(i), n)) => Exists(i)
    BY <2>3, <2>4
  <2> QED BY <1>1, <2>5, <2>6
<1>2. CASE ~Translates
  <2> DEFINE d == About(BddNet, Formula(i)[2])
  <2>1. IsSystem(d)
    BY AboutIsSystem
  <2>2. SearchOn(i) = d /\ (Exists(i) <=> Violated(d))
    BY <1>2 DEF SearchOn, Exists
  <2> HIDE DEF d
  <2>3. (\A n \in Nat : Misses(d, n)) => ~Violated(d)
    BY <2>1, MissesHolds
  <2>4. (\E n \in Nat : ~Misses(d, n)) => Violated(d)
    BY <2>1, DistanceViolates
  <2> QED BY <2>2, <2>3, <2>4
<1> QED BY <1>1, <1>2

\* An update of fields of a property is a decision.
LEMMA UpdateDecides ==
  ASSUME EngineInv, index \in Ids, problem' = problem, NEW s,
         props' = [props EXCEPT ![index].status = s]
  PROVE  Decide(s, props[index].trace)
<1>1. props = [i \in Ids |-> props[i]]
  BY DEF EngineInv, EngineTyped
<1>2. props[index] = [normalized_expr |-> Formula(index), status |-> props[index].status,
                      trace |-> props[index].trace]
  BY DEF EngineInv, EngineTyped
<1> QED BY <1>1, <1>2 DEF Decide

\* The number of timeframes that a refutation asks for.
LEMMA RefutedLength ==
  ASSUME EngineInv, result.outcome = "REFUTED"
  PROVE  \E b \in Nat : /\ result.length = b + 1
                        /\ ~Misses(design, b) /\ \A n \in Nat : n < b => Misses(design, n)
<1>1. PICK l \in Nat \ {0} : result = Refuted(l)
  BY DEF EngineInv, SearchInv, SearchTyped, Running, Proved
<1>2. result.length = l /\ l - 1 \in Nat /\ (l - 1) + 1 = l
  BY <1>1 DEF Refuted
<1> QED BY <1>2 DEF EngineInv, SearchInv, Answered

\* A refutation: what the search looked for exists.  There is a trace that violates the
\* property, and it is as short as the search says, unless a bad state is a dead end.
LEMMA RefutedDecides ==
  ASSUME EngineInv, EndRefuted
  PROVE  \E trace : /\ index \in Ids /\ (Advance \/ Stop)
                    /\ Decide(ViolatedVerdict(index), trace) /\ Exists(index)
                    /\ (\A i \in Ids : ~IsAssumption(i)) => (trace.length > 0 => trace.fails = {trace.length - 1})
<1>1. problem' = problem /\ UNCHANGED vars /\ pc = "search" /\ result.outcome = "REFUTED"
  BY DEF EndRefuted
<1>2. problem \in Problems /\ index \in Ids /\ design = SearchOn(index)
  BY <1>1 DEF EngineInv, EngineTyped, OnIndex
<1>3. PICK b \in Nat : /\ result.length = b + 1
                       /\ ~Misses(design, b) /\ \A n \in Nat : n < b => Misses(design, n)
  BY <1>1, RefutedLength
<1>4. BadStatesMoveOn(design) => \E t \in Traces(b + 1) : t.fails # {}
  BY <1>2, <1>3, FalsifyingTraceExists
<1>5. Exists(index)
  BY <1>2, <1>3, SearchDecides
<1>6. \/ /\ Stop
         /\ props' = [props EXCEPT ![index].status = ViolatedVerdict(index)]
      \/ \E t \in Traces(b + 1) :
           /\ t.fails # {} /\ Advance
           /\ props' = [props EXCEPT ![index].status = ViolatedVerdict(index), ![index].trace = t]
  BY <1>3, <1>4 DEF EndRefuted, Timeframes, ViolatedVerdict, Stop
<1>7. CASE /\ Stop
           /\ props' = [props EXCEPT ![index].status = ViolatedVerdict(index)]
  <2>1. Decide(ViolatedVerdict(index), props[index].trace)
    BY <1>1, <1>2, <1>7, UpdateDecides
  <2>2. (\A i \in Ids : ~IsAssumption(i)) =>
          (props[index].trace.length > 0 => props[index].trace.fails = {props[index].trace.length - 1})
    BY <1>2 DEF EngineInv, TraceIsShortest
  <2> QED BY <1>2, <1>5, <1>7, <2>1, <2>2
<1>8. ASSUME NEW trace \in Traces(b + 1), trace.fails # {}, Advance,
             props' = [props EXCEPT ![index].status = ViolatedVerdict(index), ![index].trace = trace]
      PROVE  /\ Decide(ViolatedVerdict(index), trace)
             /\ (\A i \in Ids : ~IsAssumption(i)) => (trace.length > 0 => trace.fails = {trace.length - 1})
  <2>1. props = [i \in Ids |-> props[i]]
    BY DEF EngineInv, EngineTyped
  <2>2. props[index] = [normalized_expr |-> Formula(index), status |-> props[index].status,
                        trace |-> props[index].trace]
    BY <1>2 DEF EngineInv, EngineTyped
  <2> DEFINE v == ViolatedVerdict(index)
             half == [props EXCEPT ![index].status = v]
  <2> HIDE DEF v
  <2>3. half[index] = [normalized_expr |-> Formula(index), status |-> v, trace |-> props[index].trace]
    BY <1>2, <2>1, <2>2
  <2>4. half = [i \in Ids |-> half[i]] /\ \A i \in Ids : i # index => half[i] = props[i]
    BY <2>1
  <2>5. props' = [half EXCEPT ![index].trace = trace]
    BY <1>8 DEF v
  <2> HIDE DEF half
  <2>6. props' = [i \in Ids |-> IF i = index
                              THEN [normalized_expr |-> Formula(i), status |-> v, trace |-> trace]
                              ELSE props[i]]
    BY <1>2, <2>3, <2>4, <2>5
  <2>7. Decide(v, trace)
    BY <1>1, <2>6 DEF Decide
  <2>8. ASSUME \A i \in Ids : ~IsAssumption(i) PROVE trace.fails = {trace.length - 1}
    <3>1. trace.length = b + 1 /\ trace.fails = {b}
      BY <1>2, <1>3, <1>8, <2>8, FalsifyingTraceIsShortest
    <3> QED BY <3>1
  <2> QED BY <2>7, <2>8 DEF v
<1> QED BY <1>2, <1>5, <1>6, <1>7, <1>8

LEMMA EndRefutedInv == ASSUME EngineInv, EndRefuted PROVE EngineInv'
<1>1. PICK trace : /\ index \in Ids /\ (Advance \/ Stop)
                   /\ Decide(ViolatedVerdict(index), trace) /\ Exists(index)
                   /\ (\A i \in Ids : ~IsAssumption(i)) => (trace.length > 0 => trace.fails = {trace.length - 1})
  BY RefutedDecides
<1>2. UNCHANGED vars /\ ViolatedVerdict(index) # HoldsVerdict(index)
  BY DEF EndRefuted, ViolatedVerdict, HoldsVerdict
<1> QED BY <1>1, <1>2, DecideInv

LEMMA ProvedDecides ==
  ASSUME EngineInv, EndProved
  PROVE  \E trace : /\ index \in Ids /\ Advance
                    /\ Decide(HoldsVerdict(index), trace) /\ trace = props[index].trace
                    /\ (Translates => AtMostOneRecurs) => ~Exists(index)
<1>1. /\ problem' = problem /\ pc = "search" /\ result = Proved /\ Advance
      /\ props' = [props EXCEPT ![index].status = HoldsVerdict(index)]
  BY DEF EndProved, HoldsVerdict
<1>2. problem \in Problems /\ index \in Ids /\ design = SearchOn(index)
  BY <1>1 DEF EngineInv, EngineTyped, OnIndex
<1>3. Decide(HoldsVerdict(index), props[index].trace)
  BY <1>1, <1>2, UpdateDecides
<1>4. \A n \in Nat : Misses(design, n)
  BY <1>1 DEF EngineInv, SearchInv, Answered, Proved
<1>5. (Translates => AtMostOneRecurs) => ~Exists(index)
  BY <1>2, <1>4, SearchDecides
<1> QED BY <1>1, <1>2, <1>3, <1>5

LEMMA EndProvedInv == ASSUME EngineInv, EndProved PROVE EngineInv'
<1>1. PICK trace : /\ index \in Ids /\ Advance
                   /\ Decide(HoldsVerdict(index), trace) /\ trace = props[index].trace
                   /\ (Translates => AtMostOneRecurs) => ~Exists(index)
  BY ProvedDecides
<1>2. UNCHANGED vars /\ ViolatedVerdict(index) # HoldsVerdict(index)
  BY DEF EndProved, ViolatedVerdict, HoldsVerdict
<1>3. (\A i \in Ids : ~IsAssumption(i)) => (trace.length > 0 => trace.fails = {trace.length - 1})
  BY <1>1 DEF EngineInv, TraceIsShortest
<1> QED BY <1>1, <1>2, <1>3, DecideInv

LEMMA CheckCTLInv == ASSUME EngineInv, CheckCTL PROVE EngineInv'
<1>1. /\ problem' = problem /\ UNCHANGED vars /\ pc = "check" /\ Advance /\ ~Searched(index)
      /\ \E s : props' = [props EXCEPT ![index].status = s]
  BY DEF CheckCTL, Searched
<1>2. index \in Ids
  BY <1>1 DEF EngineInv, EngineTyped
<1>3. PICK s : props' = [props EXCEPT ![index].status = s]
  BY <1>1
<1>4. Decide(s, props[index].trace)
  BY <1>1, <1>2, <1>3, UpdateDecides
<1>5. (\A i \in Ids : ~IsAssumption(i)) =>
        (props[index].trace.length > 0 => props[index].trace.fails = {props[index].trace.length - 1})
  BY <1>2 DEF EngineInv, TraceIsShortest
<1> QED BY <1>1, <1>2, <1>4, <1>5, DecideInv

LEMMA StutterInv == ASSUME EngineInv, UNCHANGED allVars PROVE EngineInv'
<1>1. problem' = problem /\ props' = props /\ index' = index /\ pc' = pc /\ UNCHANGED vars
  BY DEF allVars
<1>2. design' = design
  BY <1>1 DEF vars
<1>3. Same /\ SearchVerdictsAreRight' /\ TraceIsShortest' /\ Ids' = Ids
  BY <1>1, KeptProperties, SameMeaning
<1>4. EngineTyped'
  BY <1>1, <1>3, KeptProperties DEF EngineInv, EngineTyped
<1>5. OnIndex'
  <2>1. SUFFICES ASSUME pc = "search"
                 PROVE  design = SearchOn(index)' /\ Searched(index)'
    BY <1>1, <1>2 DEF OnIndex
  <2>2. index \in Ids /\ design = SearchOn(index) /\ Searched(index)
    BY <2>1 DEF EngineInv, EngineTyped, OnIndex
  <2>3. \A i \in Ids : SearchOn(i)' = SearchOn(i) /\ (Searched(i)' <=> Searched(i))
    BY <1>3, SameSearch
  <2> QED BY <1>1, <2>2, <2>3
<1>6. SearchInv'
  BY <1>1, SearchInvKept DEF EngineInv
<1>7. CounterexampleExists'
  BY <1>1, <1>2 DEF EngineInv, CounterexampleExists
<1> QED BY <1>1, <1>3, <1>4, <1>5, <1>6, <1>7 DEF EngineInv, Undecided

LEMMA NextEngineInv == EngineInv /\ [EngineNext]_allVars => EngineInv'
BY PrepareInv, SkipPropertyInv, StartSearchInv, SearchStepInv, EndRefutedInv, EndProvedInv, CheckCTLInv,
   StutterInv DEF EngineNext, EngineTerminated

LEMMA EngineInvariant == EngineSpec => []EngineInv
BY InitEngineInv, NextEngineInv, PTL DEF EngineSpec

-----------------------------------------------------------------------------
\* The verdicts and the formulas.

LEMMA StateIsFinite == IsFiniteSet(State)
<1> DEFINE value == [T \in SUBSET Latches |-> [l \in Latches |-> l \in T]]
<1>1. value \in [SUBSET Latches -> State]
  BY DEF State
<1>2. ASSUME NEW s \in State PROVE \E T \in SUBSET Latches : value[T] = s
  <2> DEFINE T == {l \in Latches : s[l]}
  <2>1. T \in SUBSET Latches /\ value[T] = [l \in Latches |-> l \in T]
    OBVIOUS
  <2>2. s \in [Latches -> BOOLEAN]
    BY DEF State
  <2>3. [l \in Latches |-> l \in T] = s
    BY <2>2
  <2> QED BY <2>1, <2>3
<1>3. value \in Surjection(SUBSET Latches, State)
  BY <1>1, <1>2 DEF Surjection
<1>4. IsFiniteSet(SUBSET Latches)
  BY FinitenessAssumption, FS_SUBSET
<1> HIDE DEF value
<1> QED BY <1>3, <1>4, FS_Surjection

\* The netlists of a problem are such that the fixpoints are right on them.
LEMMA NetlistFacts ==
  ASSUME problem \in Problems
  PROVE  /\ FiniteNetlist(Net) /\ IsLabel(Net, problem.label)
         /\ FiniteNetlist(BddNet) /\ IsLabel(BddNet, problem.label)
         /\ Nodes(BddNet) = Nodes(Net) /\ Nodes(Net) = State \X Inputs
         /\ BddNet.init \subseteq State /\ BddNet.next \in [State \X Inputs -> State]
         /\ BddNet.constraint \subseteq State \X Inputs
<1>1. problem.label \in [Atoms -> SUBSET (State \X Inputs)]
  BY ProblemsAssumption
<1>2. Net.next = problem.next /\ BddNet.next = problem.next /\ BddNet.init = problem.init /\ BddNet.constraint = Assumed
  BY DEF Net, BddNet
<1>3. Nodes(Net) = State \X Inputs /\ Nodes(BddNet) = State \X Inputs
  BY <1>2, ProblemFacts DEF Nodes
<1>4. IsFiniteSet(State \X Inputs)
  BY StateIsFinite, FinitenessAssumption, FS_Product
<1>5. Assumed \subseteq problem.constraint /\ Net.constraint = problem.constraint
  BY DEF Assumed, Net
<1> QED BY <1>1, <1>2, <1>3, <1>4, <1>5, ProblemFacts DEF FiniteNetlist, IsNetlist, IsLabel

\* Formulas without temporal operators do not read the constraints.
LEMMA StateFormulas ==
  ASSUME NEW d, FiniteNetlist(d), NEW e, FiniteNetlist(e), Nodes(e) = Nodes(d),
         NEW label, IsLabel(d, label), IsLabel(e, label)
  PROVE  \A f \in Formulas : ~IsTemporal(f) => CTL(d, label, f) = CTL(e, label, f)
<1> DEFINE s == Computed(d, label)
           t == Computed(e, label)
           S == {f \in Formulas : ~IsTemporal(f) => s[f] = t[f]}
<1>1. \A f \in Formulas : CTL(d, label, f) = Evaluate(d, label, s, f) /\ CTL(e, label, f) = Evaluate(e, label, t, f)
  BY CTLUnfolds
<1>2. \A f \in Formulas : s[f] = CTL(d, label, f) /\ t[f] = CTL(e, label, f)
  BY DEF Computed
<1> HIDE DEF s, t
<1>3. ASSUME NEW f \in Formulas, \A g \in Operands(f) : g \in S, ~IsTemporal(f)
      PROVE  Evaluate(d, label, s, f) = Evaluate(e, label, t, f)
  <2>1. f[1] \in Connectives /\ \A g \in Operands(f) : s[g] = t[g]
    BY <1>3, TemporalAssumption
  <2>2. Evaluate(d, label, s, f) = Evaluate(d, label, t, f)
    BY <2>1, EvaluateLocal
  <2>3. Evaluate(d, label, t, f) = Evaluate(e, label, t, f)
    BY <2>1 DEF Evaluate, Connectives
  <2> QED BY <2>2, <2>3
<1>4. \A f \in Formulas : (\A g \in Operands(f) : g \in S) => f \in S
  BY <1>1, <1>2, <1>3
<1> HIDE DEF S
<1>5. Formulas \subseteq S
  BY <1>4, FormulaInduction
<1> QED BY <1>2, <1>5 DEF S

\* An initial state from which some path leads to H is a reachable state in H.
LEMMA ReachedOrNot ==
  ASSUME NEW d, IsSystem(d), NEW H \in SUBSET Alive(d)
  PROVE  Reached(d) \cap H = {} <=> LiveInit(d) \cap Some(d, Alive(d), H) = {}
<1> DEFINE E == Some(d, Alive(d), H)
<1>1. IsNetlist(d)
  BY SystemIsNetlist
<1>2. /\ H \subseteq E /\ Alive(d) \cap Before(d, E) \subseteq E
      /\ \A Q \in SUBSET Alive(d) : H \subseteq Q /\ Alive(d) \cap Before(d, Q) \subseteq Q => E \subseteq Q
      /\ E \subseteq Alive(d)
  BY <1>1, SomeUnfolds, MeaningIsSet
<1> HIDE DEF E
<1>3. Alive(d) \subseteq State /\ LiveInit(d) \subseteq d.init /\ d.init \subseteq State
  BY DEF IsSystem, Alive, LiveInit
<1>4. ASSUME Reached(d) \cap H = {} PROVE LiveInit(d) \cap E = {}
  <2> DEFINE Q == Alive(d) \ Reached(d)
  <2>1. ASSUME NEW s \in Before(d, Q) PROVE s \notin Reached(d)
    <3>1. PICK n \in Moves(d) : n[1] = s /\ d.next[n] \in Q
      BY DEF Before
    <3> QED BY <3>1, ReachedByMoves
  <2>2. H \subseteq Q /\ Alive(d) \cap Before(d, Q) \subseteq Q
    BY <1>4, <2>1
  <2>3. E \subseteq Q
    BY <1>2, <2>2
  <2>4. LiveInit(d) \subseteq Reached(d)
    BY <1>3, ReachedFromInit
  <2> QED BY <2>3, <2>4
<1>5. ASSUME LiveInit(d) \cap E = {} PROVE Reached(d) \cap H = {}
  <2> DEFINE Q == State \ E
  <2>1. d.init \subseteq Q
    <3>1. SUFFICES ASSUME NEW s \in d.init, s \in E PROVE FALSE
      BY <1>3
    <3>2. PICK n \in d.constraint : n[1] = s
      BY <1>2, <3>1 DEF Alive
    <3>3. n = <<s, n[2]>> /\ n[2] \in Inputs
      BY <3>2 DEF IsSystem
    <3>4. s \in LiveInit(d)
      BY <3>3 DEF LiveInit
    <3> QED BY <1>5, <3>1, <3>4
  <2>2. ASSUME NEW n \in Moves(d), n[1] \in Q PROVE d.next[n] \in Q
    <3>1. d.next[n] \in State /\ n[1] \in Alive(d)
      BY MovesAreMoves DEF Alive
    <3>2. d.next[n] \in E => n[1] \in Before(d, E)
      BY DEF Before
    <3> QED BY <1>2, <2>2, <3>1, <3>2
  <2>3. MoveClosed(d, Q)
    BY <2>2 DEF MoveClosed
  <2> HIDE DEF Q
  <2>4. Reached(d) \subseteq Q
    <3>1. Q \in SUBSET State
      BY DEF Q
    <3> QED BY <2>1, <2>3, <3>1 DEF Reached
  <2> QED BY <1>2, <2>4 DEF Q
<1> QED BY <1>4, <1>5 DEF E

\* About the property that the search looks at: f holds in all reachable states iff
\* AG f holds in all initial states.
LEMMA AboutMeansAG ==
  ASSUME problem \in Problems, NEW f \in Formulas, f[1] = "AG", ~IsTemporal(f[2]),
         InputFree(BddNet, problem.label, f)
  PROVE  ~Violated(About(BddNet, f[2])) <=> LiveInit(BddNet) \subseteq Meaning(BddNet, problem.label, f)
<1> DEFINE g == f[2]
           d == About(BddNet, g)
           M == Meaning(BddNet, problem.label, g)
           H == Alive(BddNet) \ M
<1>1. /\ FiniteNetlist(Net) /\ IsLabel(Net, problem.label) /\ FiniteNetlist(BddNet) /\ IsLabel(BddNet, problem.label)
      /\ Nodes(BddNet) = Nodes(Net) /\ Nodes(Net) = State \X Inputs /\ IsNetlist(BddNet)
  BY NetlistFacts DEF FiniteNetlist
<1>2. g \in Formulas /\ g \in Operands(f) /\ ~IsTemporal(g)
  BY FormulaFacts DEF Unary
<1>3. Represents(BddNet, CTL(BddNet, problem.label, g), M)
  BY <1>1, <1>2, InputFreeUnfolds, FixpointsAreRight
<1>4. CTL(Net, problem.label, g) = CTL(BddNet, problem.label, g)
  BY <1>1, <1>2, StateFormulas
<1>5. /\ d.init = BddNet.init /\ d.next = BddNet.next /\ d.constraint = BddNet.constraint
      /\ d.transition = BddNet.transition /\ d.property = CTL(BddNet, problem.label, g)
  BY <1>4 DEF About, BddNet, Net
<1>6. IsSystem(d)
  BY AboutIsSystem
<1>7. Meaning(BddNet, problem.label, f) = Alive(BddNet) \ Some(BddNet, Alive(BddNet), H)
  <2>1. Meaning(BddNet, problem.label, f) = Interpret(BddNet, problem.label, Meant(BddNet, problem.label), f)
    BY <1>1, MeaningUnfolds
  <2>2. Meant(BddNet, problem.label)[g] = M
    BY <1>2 DEF Meant
  <2> QED BY <2>1, <2>2 DEF Interpret
<1> HIDE DEF g, M
<1>8. Alive(d) = Alive(BddNet) /\ LiveInit(d) = LiveInit(BddNet)
  BY <1>5 DEF Alive, LiveInit
<1>9. \A S : Before(d, S) = Before(BddNet, S)
  BY <1>5 DEF Before, Moves
<1>10. Some(d, Alive(d), H) = Some(BddNet, Alive(BddNet), H)
  BY <1>8, <1>9 DEF Some
<1>11. Failing(d) = H
  <2>1. ASSUME NEW n \in BddNet.constraint PROVE n[1] \in Alive(BddNet) /\ (n \in d.property <=> n[1] \in M)
    <3>1. n \in Nodes(BddNet) /\ n[1] \in Alive(BddNet)
      BY <1>1 DEF IsNetlist, Alive
    <3> QED BY <1>3, <1>5, <3>1 DEF Represents
  <2>2. Failing(d) = {n[1] : n \in BddNet.constraint \ d.property}
    BY <1>5 DEF Failing
  <2>3. \A s \in Alive(BddNet) : \E n \in BddNet.constraint : n[1] = s
    BY DEF Alive
  <2> HIDE DEF d
  <2> QED BY <2>1, <2>2, <2>3
<1>13. H \in SUBSET Alive(d)
  BY <1>8
<1> HIDE DEF d, H
<1>14. ~Violated(d) <=> Reached(d) \cap H = {}
  BY <1>11 DEF Violated
<1>15. ~Violated(d) <=> LiveInit(d) \cap Some(d, Alive(d), H) = {}
  BY <1>6, <1>13, <1>14, ReachedOrNot
<1>16. LiveInit(d) \subseteq Alive(d)
  <2>1. \A s, i : <<s, i>>[1] = s
    OBVIOUS
  <2> QED BY <2>1 DEF LiveInit, Alive
<1> QED BY <1>7, <1>8, <1>10, <1>15, <1>16 DEF d, g, H

\* check_CTL asks the same question of the initial states.
LEMMA CheckMeansFormula ==
  ASSUME problem \in Problems, NEW f \in Formulas, InputFree(BddNet, problem.label, f)
  PROVE  MeetsInit(BddNet, (Nodes(BddNet) \ CTL(BddNet, problem.label, f)) \cap BddNet.constraint)
           <=> ~(LiveInit(BddNet) \subseteq Meaning(BddNet, problem.label, f))
<1> DEFINE Q == CTL(BddNet, problem.label, f)
           M == Meaning(BddNet, problem.label, f)
           bad == (Nodes(BddNet) \ Q) \cap BddNet.constraint
<1>1. BddNet.constraint \subseteq Nodes(BddNet) /\ Nodes(BddNet) = State \X Inputs
  BY NetlistFacts DEF FiniteNetlist, IsNetlist
<1>2. Represents(BddNet, Q, M)
  BY NetlistFacts, FixpointsAreRight
<1> HIDE DEF Q, M
<1>3. \A n \in BddNet.constraint : n \in Q <=> n[1] \in M
  BY <1>1, <1>2 DEF Represents, Alive
<1>4. ASSUME MeetsInit(BddNet, bad) PROVE ~(LiveInit(BddNet) \subseteq M)
  <2>1. PICK n \in bad : n[1] \in BddNet.init
    BY <1>4 DEF MeetsInit
  <2>2. n[1] \notin M
    BY <1>3
  <2>3. n = <<n[1], n[2]>> /\ n[2] \in Inputs
    BY <1>1
  <2>4. n[1] \in LiveInit(BddNet)
    BY <2>1, <2>3 DEF LiveInit
  <2> QED BY <2>2, <2>4
<1>5. ASSUME NEW s \in LiveInit(BddNet), s \notin M PROVE MeetsInit(BddNet, bad)
  <2>1. PICK i \in Inputs : <<s, i>> \in BddNet.constraint /\ s \in BddNet.init
    BY DEF LiveInit
  <2>2. <<s, i>>[1] = s
    OBVIOUS
  <2>3. <<s, i>> \in bad
    BY <1>1, <1>3, <1>5, <2>1, <2>2
  <2> QED BY <2>1, <2>2, <2>3 DEF MeetsInit
<1> QED BY <1>4, <1>5 DEF Q, M

\* From the loop on, the formulas of the properties that are checked are known, and are
\* what the properties become in CTL; before, they are what the conversion starts from.
Known(i) ==
  /\ ~IsAssumption(i)
  /\ Formula(i) \in Formulas /\ Formula(i) = Converted(P(i).lang, Given(i))

FormulasKnown ==
  /\ pc = "start" => \A i \in Ids : /\ Formula(i) = Given(i)
                                    /\ IsAssumption(i) => props[i].status = "ASSUMED"
  /\ pc # "start" /\ ~Translates =>
       \A i \in Ids : props[i].status \notin {"ASSUMED", "FAILURE"} => Known(i)

VerdictMatches(i, status) ==
  /\ status \in {"PROVED", "REFUTED"}
  /\ IsExistsPath(i) => Searched(i)
  /\ InputFree(BddNet, problem.label, Formula(i))
  => (status = HoldsVerdict(i) <=> LiveInit(BddNet) \subseteq Meaning(BddNet, problem.label, Formula(i)))

\* The property in work is one that is checked.
InWork == pc = "search" => ~Skipped(index)

MeaningInv == EngineInv /\ FormulasKnown /\ InWork /\ VerdictsMatchFormulas

LEMMA VerdictsByProperty == VerdictsMatchFormulas <=> (~Translates => \A i \in Ids : VerdictMatches(i, props[i].status))
BY DEF VerdictsMatchFormulas, VerdictMatches

LEMMA SameVerdict ==
  ASSUME Same, NEW i \in Ids, props'[i].status = props[i].status, VerdictMatches(i, props[i].status)
  PROVE  VerdictMatches(i, props[i].status)'
<1>1. /\ BddNet' = BddNet /\ HoldsVerdict(i)' = HoldsVerdict(i) /\ P(i)' = P(i)
      /\ Formula(i)' = Formula(i) /\ (Searched(i)' <=> Searched(i))
  BY SameMeaning, SameSearch DEF Same
<1>2. IsExistsPath(i)' <=> IsExistsPath(i)
  BY <1>1 DEF IsExistsPath
<1>3. /\ LiveInit(BddNet)' = LiveInit(BddNet)
      /\ InputFree(BddNet, problem.label, Formula(i))' = InputFree(BddNet, problem.label, Formula(i))
      /\ Meaning(BddNet, problem.label, Formula(i))' = Meaning(BddNet, problem.label, Formula(i))
  BY <1>1 DEF Same
<1> QED BY <1>1, <1>2, <1>3 DEF VerdictMatches

\* Steps that leave the properties as they are.
LEMMA KeptMeaning ==
  ASSUME MeaningInv, problem' = problem, props' = props, pc' = "start" <=> pc = "start"
  PROVE  FormulasKnown' /\ VerdictsMatchFormulas'
<1>1. /\ Same /\ Ids' = Ids /\ (Translates' <=> Translates)
      /\ \A i : P(i)' = P(i) /\ (IsAssumption(i)' <=> IsAssumption(i))
  BY KeptProperties, SameMeaning DEF MeaningInv
<1>2. \A i : Given(i)' = Given(i)
  BY SameMeaning
<1>3. FormulasKnown'
  BY <1>1, <1>2 DEF MeaningInv, FormulasKnown, Same, Known
<1>4. VerdictsMatchFormulas'
  <2>1. SUFFICES ASSUME ~Translates, NEW i \in Ids PROVE VerdictMatches(i, props[i].status)'
    BY <1>1 DEF VerdictsMatchFormulas, VerdictMatches
  <2> QED BY <1>1, <2>1, SameVerdict, VerdictsByProperty DEF MeaningInv
<1> QED BY <1>3, <1>4

LEMMA InitMeaning == EngineInit => MeaningInv
<1> SUFFICES ASSUME EngineInit PROVE MeaningInv
  OBVIOUS
<1>1. pc = "start"
  BY DEF EngineInit
<1>2. ASSUME NEW i \in Ids
      PROVE  /\ Formula(i) = Given(i) /\ props[i].status \in {"ASSUMED", "UNKNOWN"}
             /\ IsAssumption(i) => props[i].status = "ASSUMED"
  BY DEF EngineInit, PropertyOf, Formula
<1>3. FormulasKnown /\ InWork
  BY <1>1, <1>2 DEF FormulasKnown, InWork
<1>4. VerdictsMatchFormulas
  BY <1>2 DEF VerdictsMatchFormulas
<1> QED BY <1>3, <1>4, InitEngineInv DEF MeaningInv

LEMMA PrepareMeaning == ASSUME MeaningInv, Prepare PROVE MeaningInv'
<1>1. /\ problem' = problem /\ pc = "start" /\ pc' \in {"check", "rejected"}
      /\ EngineInv /\ problem \in Problems
  BY DEF Prepare, MeaningInv, EngineInv, EngineTyped
<1>2. /\ Ids' = Ids /\ (Translates' <=> Translates)
      /\ \A i : P(i)' = P(i) /\ Given(i)' = Given(i) /\ (IsAssumption(i)' <=> IsAssumption(i))
  BY <1>1, SameMeaning
<1>3. ASSUME ~Translates, NEW i \in Ids
      PROVE  /\ props'[i].status \in {"ASSUMED", "UNKNOWN", "FAILURE"}
             /\ props'[i].status \notin {"ASSUMED", "FAILURE"} => Known(i)'
  <2>1. /\ props[i] = [normalized_expr |-> Formula(i), status |-> props[i].status, trace |-> props[i].trace]
        /\ props[i].status \in {"ASSUMED", "UNKNOWN"}
    BY <1>1 DEF EngineInv, EngineTyped, Undecided
  <2>2. Formula(i) = Given(i) /\ (IsAssumption(i) => props[i].status = "ASSUMED")
    BY <1>1 DEF MeaningInv, FormulasKnown
  <2> DEFINE f == Converted(P(i).lang, Formula(i))
  <2>3. props'[i] = IF IsAssumption(i) THEN props[i]
                    ELSE IF f = Unsupported THEN [props[i] EXCEPT !.status = "FAILURE"]
                    ELSE [props[i] EXCEPT !.normalized_expr = f]
    BY <1>3 DEF Prepare
  <2>4. ~IsAssumption(i) => f \in Formulas \cup {Unsupported}
    BY <1>1, <2>2, PropertiesAssumption, TranslationAssumption DEF IsAssumption, P, Ids, Given, Converted
  <2> HIDE DEF f
  <2>5. CASE IsAssumption(i)
    BY <2>1, <2>2, <2>3, <2>5
  <2>6. CASE ~IsAssumption(i) /\ f = Unsupported
    <3>1. props'[i].status = "FAILURE"
      BY <2>1, <2>3, <2>6
    <3> QED BY <3>1
  <2>7. CASE ~IsAssumption(i) /\ f # Unsupported
    <3>1. props'[i].status = props[i].status /\ props'[i].normalized_expr = f
      BY <2>1, <2>3, <2>7
    <3>2. Formula(i)' = Converted(P(i).lang, Given(i))
      BY <2>2, <3>1 DEF Formula, f
    <3>3. Converted(P(i).lang, Given(i))' = Converted(P(i).lang, Given(i))
      BY <1>2 DEF Converted, InLtl
    <3>4. Formula(i)' \in Formulas
      BY <2>4, <2>7, <3>1 DEF Formula
    <3>5. Known(i)'
      BY <1>2, <2>7, <3>2, <3>3, <3>4 DEF Known
    <3> QED BY <2>1, <3>1, <3>5
  <2> QED BY <2>5, <2>6, <2>7
<1>4. FormulasKnown' /\ InWork'
  BY <1>1, <1>2, <1>3 DEF FormulasKnown, InWork
<1>5. VerdictsMatchFormulas'
  BY <1>2, <1>3 DEF VerdictsMatchFormulas
<1> QED BY <1>1, <1>4, <1>5, PrepareInv DEF MeaningInv

LEMMA SkipPropertyMeaning == ASSUME MeaningInv, SkipProperty PROVE MeaningInv'
<1>1. problem' = problem /\ props' = props /\ pc = "check" /\ pc' \in {"check", "done"}
  BY DEF SkipProperty, Advance
<1>2. InWork'
  BY <1>1 DEF InWork
<1> QED BY <1>1, <1>2, KeptMeaning, SkipPropertyInv DEF MeaningInv

LEMMA StartSearchMeaning == ASSUME MeaningInv, StartSearch PROVE MeaningInv'
<1>1. problem' = problem /\ props' = props /\ index' = index /\ pc = "check" /\ pc' = "search" /\ ~Skipped(index)
  BY DEF StartSearch
<1>2. InWork'
  BY <1>1 DEF InWork, Skipped
<1> QED BY <1>1, <1>2, KeptMeaning, StartSearchInv DEF MeaningInv

LEMMA SearchMeaning == ASSUME MeaningInv, Search PROVE MeaningInv'
<1>1. problem' = problem /\ props' = props /\ index' = index /\ pc' = pc
  BY DEF Search
<1>2. InWork'
  BY <1>1 DEF MeaningInv, InWork, Skipped
<1> QED BY <1>1, <1>2, KeptMeaning, SearchStepInv DEF MeaningInv

LEMMA StutterMeaning == ASSUME MeaningInv, UNCHANGED allVars PROVE MeaningInv'
<1>1. problem' = problem /\ props' = props /\ index' = index /\ pc' = pc
  BY DEF allVars
<1>2. InWork'
  BY <1>1 DEF MeaningInv, InWork, Skipped
<1> QED BY <1>1, <1>2, KeptMeaning, StutterInv DEF MeaningInv

\* Steps that decide the property in work, by its formula.
LEMMA DecideMeaning ==
  ASSUME MeaningInv, index \in Ids, pc # "start", ~Skipped(index), Advance \/ Stop, NEW s, NEW t, Decide(s, t),
         ~Translates => VerdictMatches(index, s)
  PROVE  FormulasKnown' /\ InWork' /\ VerdictsMatchFormulas'
<1>1. /\ Same /\ Ids' = Ids /\ props'[index].status = s /\ EngineInv
      /\ \A i \in Ids : i # index => props'[i] = props[i]
  BY DecideTyped DEF MeaningInv
<1>2. pc' \in {"check", "done", "unsat"}
  BY DEF Advance, Stop
<1>3. Translates' <=> Translates
  BY <1>1, SameMeaning DEF Same
<1>4. InWork'
  BY <1>2 DEF InWork
<1>5. ASSUME ~Translates, NEW i \in Ids, props'[i].status \notin {"ASSUMED", "FAILURE"}
      PROVE  Known(i)'
  <2>1. props[i].status \notin {"ASSUMED", "FAILURE"}
    BY <1>1, <1>5 DEF Skipped
  <2>2. P(i)' = P(i) /\ Given(i)' = Given(i) /\ (IsAssumption(i)' <=> IsAssumption(i))
    BY <1>1, SameMeaning DEF Same
  <2> QED BY <1>1, <1>5, <2>1, <2>2 DEF MeaningInv, FormulasKnown, Same, Known
<1>6. FormulasKnown'
  BY <1>1, <1>2, <1>3, <1>5 DEF FormulasKnown
<1>7. ASSUME ~Translates, NEW i \in Ids PROVE VerdictMatches(i, props[i].status)'
  <2>1. CASE i # index
    BY <1>1, <1>7, <2>1, SameVerdict, VerdictsByProperty DEF MeaningInv
  <2>2. CASE i = index
    <3>1. VerdictMatches(index, s)
      BY <1>7
    <3>2. /\ BddNet' = BddNet /\ \A j : HoldsVerdict(j)' = HoldsVerdict(j) /\ P(j)' = P(j)
          /\ Formula(i)' = Formula(i) /\ (Searched(i)' <=> Searched(i))
      BY <1>1, SameMeaning, SameSearch DEF Same
    <3>3. IsExistsPath(i)' <=> IsExistsPath(i)
      BY <3>2 DEF IsExistsPath
    <3>4. /\ LiveInit(BddNet)' = LiveInit(BddNet)
          /\ InputFree(BddNet, problem.label, Formula(i))' = InputFree(BddNet, problem.label, Formula(i))
          /\ Meaning(BddNet, problem.label, Formula(i))' = Meaning(BddNet, problem.label, Formula(i))
      BY <1>1, <3>2 DEF Same
    <3> QED BY <1>1, <2>2, <3>1, <3>2, <3>3, <3>4 DEF VerdictMatches
  <2> QED BY <2>1, <2>2
<1>8. VerdictsMatchFormulas'
  BY <1>1, <1>3, <1>7 DEF VerdictsMatchFormulas, VerdictMatches
<1> QED BY <1>4, <1>6, <1>8

\* A search decides by whether AG p holds.
LEMMA SearchMatches ==
  ASSUME MeaningInv, index \in Ids, pc = "search", ~Translates, NEW s,
         \/ s = HoldsVerdict(index) /\ ((Translates => AtMostOneRecurs) => ~Exists(index))
         \/ s = ViolatedVerdict(index) /\ Exists(index)
  PROVE  VerdictMatches(index, s)
<1> DEFINE f == Formula(index)
<1>1. problem \in Problems /\ Searched(index)
  BY DEF MeaningInv, EngineInv, EngineTyped, OnIndex
<1>2. f \in Formulas
  BY DEF MeaningInv, FormulasKnown, InWork, Skipped, Known
<1>3. f[1] = "AG" /\ ~IsTemporal(f[2])
  BY <1>1 DEF Searched, IsAGp
<1>4. Exists(index) <=> Violated(About(BddNet, f[2]))
  BY DEF Exists
<1> HIDE DEF f
<1>5. InputFree(BddNet, problem.label, f) =>
        (~Violated(About(BddNet, f[2])) <=> LiveInit(BddNet) \subseteq Meaning(BddNet, problem.label, f))
  BY <1>1, <1>2, <1>3, AboutMeansAG
<1>6. HoldsVerdict(index) # ViolatedVerdict(index)
  BY DEF HoldsVerdict, ViolatedVerdict
<1> QED BY <1>4, <1>5, <1>6 DEF VerdictMatches, f

LEMMA EndRefutedMeaning == ASSUME MeaningInv, EndRefuted PROVE MeaningInv'
<1>1. EngineInv /\ pc = "search" /\ ~Skipped(index)
  BY DEF MeaningInv, EndRefuted, InWork
<1>2. PICK trace : Decide(ViolatedVerdict(index), trace) /\ Exists(index) /\ (Advance \/ Stop) /\ index \in Ids
  BY <1>1, RefutedDecides
<1>3. ~Translates => VerdictMatches(index, ViolatedVerdict(index))
  BY <1>1, <1>2, SearchMatches
<1>4. FormulasKnown' /\ InWork' /\ VerdictsMatchFormulas'
  BY <1>1, <1>2, <1>3, DecideMeaning
<1> QED BY <1>1, <1>4, EndRefutedInv DEF MeaningInv

LEMMA EndProvedMeaning == ASSUME MeaningInv, EndProved PROVE MeaningInv'
<1>1. EngineInv /\ pc = "search" /\ ~Skipped(index)
  BY DEF MeaningInv, EndProved, InWork
<1>2. PICK trace : /\ Decide(HoldsVerdict(index), trace) /\ Advance /\ index \in Ids
                   /\ (Translates => AtMostOneRecurs) => ~Exists(index)
  BY <1>1, ProvedDecides
<1>3. ~Translates => VerdictMatches(index, HoldsVerdict(index))
  BY <1>1, <1>2, SearchMatches
<1>4. FormulasKnown' /\ InWork' /\ VerdictsMatchFormulas'
  BY <1>1, <1>2, <1>3, DecideMeaning
<1> QED BY <1>1, <1>4, EndProvedInv DEF MeaningInv

LEMMA CheckCTLMeaning == ASSUME MeaningInv, CheckCTL PROVE MeaningInv'
<1> DEFINE f == Formula(index)
           bad == MeetsInit(BddNet, (Nodes(BddNet) \ CTL(BddNet, problem.label, f)) \cap BddNet.constraint)
           s == IF bad THEN "REFUTED" ELSE "PROVED"
<1>1. /\ problem' = problem /\ pc = "check" /\ Advance /\ ~Searched(index) /\ ~Skipped(index) /\ EngineInv
      /\ props' = [props EXCEPT ![index].status = s]
  BY DEF CheckCTL, Searched, MeaningInv
<1>2. index \in Ids /\ problem \in Problems
  BY <1>1 DEF EngineInv, EngineTyped
<1>3. Decide(s, props[index].trace)
  <2> HIDE DEF s
  <2> QED BY <1>1, <1>2, UpdateDecides
<1>4. ASSUME ~Translates PROVE VerdictMatches(index, s)
  <2>1. f \in Formulas
    BY <1>1, <1>2, <1>4 DEF MeaningInv, FormulasKnown, Skipped, Known
  <2>2. InputFree(BddNet, problem.label, f) => (bad <=> ~(LiveInit(BddNet) \subseteq Meaning(BddNet, problem.label, f)))
    BY <1>2, <2>1, CheckMeansFormula
  <2> HIDE DEF bad
  <2>3. ~IsExistsPath(index) => HoldsVerdict(index) = "PROVED"
    BY DEF HoldsVerdict
  <2>4. s = "PROVED" <=> ~bad
    OBVIOUS
  <2> HIDE DEF s
  <2> QED BY <1>1, <2>2, <2>3, <2>4 DEF VerdictMatches
<1> HIDE DEF s
<1>5. FormulasKnown' /\ InWork' /\ VerdictsMatchFormulas'
  BY <1>1, <1>2, <1>3, <1>4, DecideMeaning
<1> QED BY <1>1, <1>5, CheckCTLInv DEF MeaningInv

LEMMA NextMeaning == MeaningInv /\ [EngineNext]_allVars => MeaningInv'
BY PrepareMeaning, SkipPropertyMeaning, StartSearchMeaning, SearchMeaning, EndRefutedMeaning, EndProvedMeaning,
   CheckCTLMeaning, StutterMeaning DEF EngineNext, EngineTerminated

LEMMA MeaningInvariant == EngineSpec => []MeaningInv
BY InitMeaning, NextMeaning, PTL DEF EngineSpec

-----------------------------------------------------------------------------
\* What the verdicts say of the infinite runs.

\* A property that is proved by its CTL formula holds on every infinite run, from an
\* initial state, that keeps the constraints and the assumptions.
ProvedHoldsOnRuns ==
  ~Translates =>
    \A i \in Ids :
      /\ P(i).lang # "CTL" /\ props[i].status = HoldsVerdict(i)
      /\ IsExistsPath(i) => Searched(i)
      /\ InputFree(BddNet, problem.label, Formula(i))
      => \A w \in Runs(BddNet) : 0 \in HoldsAt(problem.label, w, InLtl(P(i).lang, Given(i)))

\* The times at which the predicate of the liveness property i holds on the run w, and
\* whether it holds again and again.
SeenAt(w, i) == {n \in Nat : w[n] \in CTL(Net, problem.label, Given(i)[2][2])}

SeenForEver(w, i) == \A t \in Nat : Until(Nat, SeenAt(w, i), t)

\* An always s_eventually p that is proved by the translation holds on every infinite
\* run on which the assumption of another one does, if there is one.
ProvedIsSeenForEver ==
  Translates /\ AtMostOneRecurs =>
    \A i \in Ids : props[i].status = HoldsVerdict(i) =>
      \A w \in Runs(Net) : (\A k \in Ids : IsAssumption(k) => SeenForEver(w, k)) => SeenForEver(w, i)

LEMMA ProvedHolds == MeaningInv => ProvedHoldsOnRuns
<1> SUFFICES ASSUME MeaningInv, ~Translates, NEW i \in Ids, P(i).lang # "CTL", props[i].status = HoldsVerdict(i),
                    IsExistsPath(i) => Searched(i), InputFree(BddNet, problem.label, Formula(i)), NEW w \in Runs(BddNet)
             PROVE  0 \in HoldsAt(problem.label, w, InLtl(P(i).lang, Given(i)))
  BY DEF ProvedHoldsOnRuns
<1> DEFINE g == InLtl(P(i).lang, Given(i))
<1>1. /\ problem \in Problems /\ props[i].status \in {"PROVED", "REFUTED"}
      /\ VerdictMatches(i, props[i].status)
  BY VerdictsByProperty DEF MeaningInv, EngineInv, EngineTyped, HoldsVerdict
<1>2. Known(i)
  <2>1. pc # "start"
    BY <1>1 DEF MeaningInv, EngineInv, Undecided
  <2> QED BY <1>1, <2>1 DEF MeaningInv, FormulasKnown
<1>3. LiveInit(BddNet) \subseteq Meaning(BddNet, problem.label, Formula(i))
  BY <1>1 DEF VerdictMatches
<1>4. FiniteNetlist(BddNet) /\ IsLabel(BddNet, problem.label) /\ IsNetlist(BddNet) /\ BddNet.init \subseteq State
  BY <1>1, NetlistFacts DEF FiniteNetlist
<1>5. g \in LtlFormulas /\ Formula(i) = LtlToCtl(g) /\ LtlToCtl(g) # Unsupported
  <2>1. Unsupported \notin Formulas
    BY FormulasAssumption DEF Unsupported, Unary, Binary
  <2>2. g \in LtlFormulas \cup {Unsupported}
    BY <1>1, <1>2, PropertiesAssumption DEF Known, IsAssumption, P, Ids, Given
  <2> HIDE DEF g
  <2>3. Formula(i) = IF g = Unsupported THEN g ELSE LtlToCtl(g)
    BY <1>2 DEF Known, Converted, g
  <2> QED BY <1>2, <2>1, <2>2, <2>3 DEF Known
<1> HIDE DEF g
<1>6. w \in InfinitePaths(BddNet) /\ w[0][1] \in LiveInit(BddNet)
  <2>1. w \in InfinitePaths(BddNet) /\ w[0][1] \in BddNet.init
    BY DEF Runs
  <2>2. w[0] \in BddNet.constraint
    BY <1>4, <2>1, PathFacts
  <2>3. w[0] \in State \X Inputs
    BY <1>1, <2>2, NetlistFacts
  <2> QED BY <2>1, <2>2, <2>3 DEF LiveInit
<1>7. 0 \in HoldsAt(problem.label, w, g)
  BY <1>3, <1>4, <1>5, <1>6, LtlMappingIsSound
<1> QED BY <1>7 DEF g

\* A finite set of numbers has a bound.
LEMMA FiniteIsBounded ==
  ASSUME NEW T \in SUBSET Nat, IsFiniteSet(T) PROVE \E b \in Nat : \A n \in T : n <= b
<1>1. PICK c \in Nat : ExistsSurjection(1 .. c, T)
  BY FS_NatSurjection
<1>2. PICK f \in [1 .. c -> T] : \A n \in T : \E j \in 1 .. c : f[j] = n
  BY <1>1 DEF ExistsSurjection, Surjection
<1> DEFINE Set == {j \in 0 .. c : \E b \in Nat : \A i \in 1 .. j : f[i] <= b}
<1>3. 0 \in Set
  <2>1. \A i \in 1 .. 0 : f[i] <= 0
    OBVIOUS
  <2> QED BY <2>1
<1>4. ASSUME NEW j \in 0 .. c - 1, j \in Set PROVE j + 1 \in Set
  <2>1. PICK b \in Nat : \A i \in 1 .. j : f[i] <= b
    BY <1>4
  <2>2. j \in Nat /\ j + 1 \in 1 .. c /\ 1 .. j \subseteq 1 .. c
    BY <1>4
  <2>3. \A i \in 1 .. c : f[i] \in Nat
    BY <1>2
  <2>4. \A i \in 1 .. j + 1 : f[i] <= b + f[j + 1]
    <3>1. SUFFICES ASSUME NEW i \in 1 .. j + 1 PROVE f[i] <= b + f[j + 1]
      OBVIOUS
    <3>2. CASE i = j + 1
      BY <2>2, <2>3, <3>2
    <3>3. CASE i \in 1 .. j
      <4>1. f[i] <= b /\ f[i] \in Nat /\ f[j + 1] \in Nat
        BY <2>1, <2>2, <2>3, <3>3
      <4> QED BY <4>1
    <3> QED BY <2>2, <3>2, <3>3
  <2>5. b + f[j + 1] \in Nat
    BY <2>2, <2>3
  <2> QED BY <2>2, <2>4, <2>5
<1> HIDE DEF Set
<1>5. 0 .. c \subseteq Set
  BY <1>3, <1>4, TimeframeInduction
<1>6. c \in 0 .. c
  OBVIOUS
<1>7. PICK b \in Nat : \A i \in 1 .. c : f[i] <= b
  BY <1>5, <1>6 DEF Set
<1> QED BY <1>2, <1>7

\* Among finitely many states, a run comes back to one, also when it is looked at only at
\* some of the times, as long as there are later ones.
LEMMA RunRepeats ==
  ASSUME NEW d, IsSystem(d), NEW w \in InfinitePaths(d), NEW T \in SUBSET Nat, \A n \in Nat : \E k \in T : k > n
  PROVE  \E k \in T, l \in T : k < l /\ w[k][1] = w[l][1]
<1>1. SUFFICES ASSUME \A k, l \in T : w[k][1] = w[l][1] => k = l PROVE FALSE
  OBVIOUS
<1> DEFINE f == [n \in T |-> w[n][1]]
<1>2. \A n \in T : w[n][1] \in State
  BY MovesAreMoves DEF InfinitePaths
<1>3. f \in Injection(T, State)
  <2>1. f \in [T -> State]
    BY <1>2
  <2>2. \A k, l \in DOMAIN f : f[k] = f[l] => k = l
    BY <1>1
  <2> HIDE DEF f
  <2> QED BY <2>1, <2>2 DEF Injection, IsInjective
<1> HIDE DEF f
<1>4. IsFiniteSet(T)
  BY <1>3, StateIsFinite, FS_Injection
<1>5. PICK b \in Nat : \A n \in T : n <= b
  BY <1>4, FiniteIsBounded
<1>6. PICK k \in T : k > b
  BY <1>5
<1> QED BY <1>5, <1>6

\* The states of a run are reached.
LEMMA RunIsReached ==
  ASSUME NEW d, IsSystem(d), NEW w \in Runs(d), NEW t \in Nat
  PROVE  w[t][1] \in Reached(d)
<1>1. \A n \in Nat : w[n] \in Moves(d) /\ w[n + 1][1] = d.next[w[n]]
  BY DEF Runs, InfinitePaths
<1> DEFINE T == {n \in Nat : w[n][1] \in Reached(d)}
<1>2. 0 \in T
  BY ReachedFromInit DEF Runs
<1>3. \A n \in 0 .. t - 1 : n \in T => n + 1 \in T
  BY <1>1, ReachedByMoves
<1> HIDE DEF T
<1>4. 0 .. t \subseteq T
  BY <1>2, <1>3, TimeframeInduction
<1> QED BY <1>4 DEF T

\* A run goes on from each of its states, without p once it sees no p.
LEMMA RunAvoids ==
  ASSUME NEW d, IsSystem(d), NEW w \in InfinitePaths(d), NEW k \in Nat, NEW l \in Nat, k < l,
         \A j \in Nat : j >= k => w[j] \notin d.property
  PROVE  w[l][1] \in AvoidFrom(d, d.next[w[k]]) /\ w[l][1] \in AvoidReach(d, w[k][1])
<1>1. ASSUME NEW n \in Nat, n >= k PROVE w[n] \in AvoidMoves(d) /\ w[n + 1][1] = d.next[w[n]]
  BY <1>1 DEF InfinitePaths, AvoidMoves
<1> DEFINE m == l - (k + 1)
           R == {n \in Nat : /\ w[(k + 1) + n][1] \in AvoidFrom(d, d.next[w[k]])
                             /\ w[(k + 1) + n][1] \in AvoidReach(d, w[k][1])}
<1>2. m \in Nat /\ (k + 1) + m = l /\ (k + 1) + 0 = k + 1
  OBVIOUS
<1>3. w[k][1] \in AvoidFrom(d, w[k][1]) /\ d.next[w[k]] \in AvoidFrom(d, d.next[w[k]])
  BY DEF AvoidFrom
<1>4. 0 \in R
  BY <1>1, <1>2, <1>3, AvoidStep
<1>5. ASSUME NEW n \in 0 .. m - 1, n \in R PROVE n + 1 \in R
  <2> DEFINE j == (k + 1) + n
  <2>1. j \in Nat /\ j >= k /\ (k + 1) + (n + 1) = j + 1 /\ n + 1 \in Nat
    BY <1>2
  <2>2. w[j] \in AvoidMoves(d) /\ w[j + 1][1] = d.next[w[j]]
    BY <1>1, <2>1
  <2>3. w[j][1] \in AvoidFrom(d, d.next[w[k]]) /\ w[j][1] \in AvoidReach(d, w[k][1])
    BY <1>5
  <2>4. w[j][1] \in AvoidFrom(d, w[k][1])
    BY <2>3 DEF AvoidFrom
  <2> HIDE DEF j
  <2>5. w[j + 1][1] \in AvoidFrom(d, d.next[w[k]]) /\ w[j + 1][1] \in AvoidReach(d, w[k][1])
    BY <2>2, <2>3, <2>4, AvoidStep
  <2> QED BY <2>1, <2>5
<1> HIDE DEF R, m
<1>6. 0 .. m \subseteq R
  BY <1>2, <1>4, <1>5, TimeframeInduction
<1>7. m \in R
  BY <1>2, <1>6
<1> QED BY <1>2, <1>7 DEF R

\* A run that sees p finitely often, and again and again what is assumed to recur, has a
\* reachable cycle without p on which it sees that.
LEMMA AvoidingRunHasCycle ==
  ASSUME NEW d, IsSystem(d), \A j, k \in DOMAIN d.recurring : j = k,
         NEW w \in Runs(d), NEW t \in Nat, \A j \in Nat : j >= t => w[j] \notin d.property,
         \A k \in DOMAIN d.recurring : \A n \in Nat : \E j \in Nat : j > n /\ w[j] \in d.recurring[k]
  PROVE  \E s \in State : AvoidsForEver(d, s)
<1> DEFINE T == {j \in Nat : j >= t /\ \A k \in DOMAIN d.recurring : w[j] \in d.recurring[k]}
<1>1. w \in InfinitePaths(d)
  BY DEF Runs
<1>2. \A n \in Nat : \E j \in T : j > n
  <2>1. SUFFICES ASSUME NEW n \in Nat PROVE \E j \in T : j > n
    OBVIOUS
  <2>2. CASE DOMAIN d.recurring = {}
    <3>1. n + t + 1 \in T /\ n + t + 1 > n
      BY <2>2
    <3> QED BY <3>1
  <2>3. CASE DOMAIN d.recurring # {}
    <3>1. PICK k \in DOMAIN d.recurring : TRUE
      BY <2>3
    <3> DEFINE after == n + t
    <3>2. after \in Nat
      OBVIOUS
    <3> HIDE DEF after
    <3>3. PICK j \in Nat : j > after /\ w[j] \in d.recurring[k]
      BY <3>2
    <3>4. j > n /\ j >= t
      BY <3>3 DEF after
    <3>5. \A x \in DOMAIN d.recurring : w[j] \in d.recurring[x]
      BY <3>1, <3>3
    <3> QED BY <3>4, <3>5
  <2> QED BY <2>2, <2>3
<1>3. T \in SUBSET Nat
  OBVIOUS
<1> HIDE DEF T
<1>4. PICK k \in T, l \in T : k < l /\ w[k][1] = w[l][1]
  BY <1>1, <1>2, <1>3, RunRepeats
<1>5. k \in Nat /\ l \in Nat /\ k >= t /\ \A x \in DOMAIN d.recurring : w[k] \in d.recurring[x]
  BY DEF T
<1> DEFINE s == w[k][1]
<1>6. \A j \in Nat : j >= k => w[j] \notin d.property
  BY <1>5
<1>7. s \in AvoidFrom(d, d.next[w[k]]) /\ s \in AvoidReach(d, s)
  BY <1>1, <1>4, <1>5, <1>6, RunAvoids
<1>8. s \in Reached(d) /\ s \in State
  BY <1>5, RunIsReached DEF Reached
<1>9. w[k] \in AvoidMoves(d)
  BY <1>1, <1>5, <1>6 DEF InfinitePaths, AvoidMoves
<1>10. s \in AvoidFrom(d, s)
  BY DEF AvoidFrom
<1>11. \A x \in DOMAIN d.recurring : AvoidVia(d, s, d.recurring[x], s)
  BY <1>5, <1>7, <1>9, <1>10 DEF AvoidVia
<1> QED BY <1>7, <1>8, <1>11 DEF AvoidsForEver

LEMMA ProvedSeen == EngineInv => ProvedIsSeenForEver
<1> SUFFICES ASSUME EngineInv, Translates, AtMostOneRecurs, NEW i \in Ids, props[i].status = HoldsVerdict(i),
                    NEW w \in Runs(Net), \A k \in Ids : IsAssumption(k) => SeenForEver(w, k), NEW t \in Nat
             PROVE  Until(Nat, SeenAt(w, i), t)
  BY DEF ProvedIsSeenForEver, SeenForEver
<1> DEFINE d == Recurrence(i)
<1>1. IsSystem(d)
  BY RecurrenceIsSystem DEF EngineInv, EngineTyped
<1>2. w \in Runs(d)
  BY RecurrenceFields DEF Net, Runs, InfinitePaths, Moves
<1>3. ~\E s \in State : AvoidsForEver(d, s)
  BY DEF EngineInv, SearchVerdictsAreRight, Searched, Exists
<1>4. \A j, k \in DOMAIN d.recurring : j = k
  BY RecurrenceFields DEF AtMostOneRecurs
<1>5. ASSUME NEW k \in DOMAIN d.recurring, NEW n \in Nat PROVE \E j \in Nat : j > n /\ w[j] \in d.recurring[k]
  <2>1. k \in Ids /\ IsAssumption(k) /\ d.recurring[k] = CTL(Net, problem.label, Given(k)[2][2])
    BY RecurrenceFields
  <2> HIDE DEF d
  <2>2. Until(Nat, SeenAt(w, k), n + 1)
    BY <2>1 DEF SeenForEver
  <2>3. PICK j \in Nat : j >= n + 1 /\ j \in SeenAt(w, k)
    BY <2>2 DEF Until
  <2>4. w[j] \in d.recurring[k] /\ j > n
    BY <2>1, <2>3 DEF SeenAt
  <2> QED BY <2>4
<1>6. d.property = CTL(Net, problem.label, Given(i)[2][2])
  BY RecurrenceFields
<1> HIDE DEF d
<1>7. PICK j \in Nat : j >= t /\ w[j] \in d.property
  BY <1>1, <1>2, <1>3, <1>4, <1>5, AvoidingRunHasCycle
<1>8. j \in SeenAt(w, i)
  BY <1>6, <1>7 DEF SeenAt
<1> QED BY <1>7, <1>8 DEF Until

-----------------------------------------------------------------------------
\* The results.

\* In every search of the engine, also on a translated design, the set of states after
\* n turns is that of the states from which a violation is at most n steps away.
THEOREM EngineSearchesByDistance == EngineSpec => []SearchByDistance
<1>1. EngineInv => SearchByDistance
  BY DEF EngineInv, SearchInv
<1> QED BY <1>1, EngineInvariant, PTL

\* What the search proves or refutes is so, of runs of any length, with their dead ends:
\* of the netlist with its assumptions, for AG p and, through the translation, for
\* always s_eventually p; for covers reversed.  A translated property with several
\* assumptions of liveness is the exception: that it is proved says nothing.
THEOREM SearchVerdicts == EngineSpec => []SearchVerdictsAreRight
<1>1. EngineInv => SearchVerdictsAreRight
  BY DEF EngineInv
<1> QED BY <1>1, EngineInvariant, PTL

\* compute_counterexample() comes back empty-handed only where a state that violates the
\* property is a dead end: otherwise the SAT query, over the number of timeframes that
\* the search gave, has a model, with assumptions or without, translated or not.
THEOREM CounterexampleIsFound == EngineSpec => []CounterexampleExists
<1>1. EngineInv => CounterexampleExists
  BY DEF EngineInv
<1> QED BY <1>1, EngineInvariant, PTL

\* Without assumptions, whichever model the SAT solver picks, the trace violates the
\* property in its last timeframe and in no other: no shorter trace exists.
THEOREM TraceShortest == EngineSpec => []TraceIsShortest
<1>1. EngineInv => TraceIsShortest
  BY DEF EngineInv
<1> QED BY <1>1, EngineInvariant, PTL

\* The verdicts are those of the CTL formulas, whichever way a property takes: what the
\* engine reports for a property is whether its formula holds in all initial states of
\* the netlist with the assumptions, for fixpoints and search alike, for every netlist,
\* every list of properties and every translation into CTL.  The states are those of
\* the graph of moves with its dead ends: AF p is refuted by a path that ends before p.
THEOREM VerdictsMatch == EngineSpec => []VerdictsMatchFormulas
<1>1. MeaningInv => VerdictsMatchFormulas
  BY DEF MeaningInv
<1> QED BY <1>1, MeaningInvariant, PTL

\* A property that is proved holds on every infinite run: what the engine reports as
\* proved of an LTL or SVA property, by search or by fixpoints, is so of the LTL formula
\* that the property stands for, whatever the design, its constraints of both kinds and
\* the other properties are.
THEOREM ProvedOnRuns == EngineSpec => []ProvedHoldsOnRuns
BY ProvedHolds, MeaningInvariant, PTL

\* On a translated design too: an always s_eventually p that is proved by the search for
\* a violation of G (looped -> live), within the translated assumption if there is one,
\* sees p again and again on every infinite run on which the assumption holds.
THEOREM ProvedSeenForEver == EngineSpec => []ProvedIsSeenForEver
BY ProvedSeen, EngineInvariant, PTL

=============================================================================
