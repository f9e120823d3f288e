------------------------------ MODULE NumberInduction ------------------------------
(***************************************************************************)
(* Induction over numbers, and over data that have a height, such as       *)
(* formulas; and that a function which is defined by recursion over such   *)
(* data exists.  The provers cannot instantiate a theorem about an         *)
(* operator, so the induction is about a set.                              *)
(***************************************************************************)
EXTENDS Naturals, FiniteSetTheorems, TLAPS

\* The natural numbers are well-ordered: from the order of their initial segments.
LEMMA LeastNumber ==
  ASSUME NEW S, S \subseteq Nat, S # {}
  PROVE  \E n \in S : \A m \in S : n <= m
<1> DEFINE R == StrictSubsetOrdering(Nat)
           T == {0 .. n : n \in S}
<1>1. T \subseteq FiniteSubsetsOf(Nat)
  <2>1. \A n \in S : IsFiniteSet(0 .. n) /\ 0 .. n \in SUBSET Nat
    BY FS_Interval
  <2> QED BY <2>1 DEF FiniteSubsetsOf
<1>2. IsWellFoundedOn(R, FiniteSubsetsOf(Nat))
  BY FS_StrictSubsetOrderingWellFounded
<1>3. T # {}
  OBVIOUS
<1>4. \A m, n \in Nat : m < n => <<0 .. m, 0 .. n>> \in R
  <2>1. ASSUME NEW m \in Nat, NEW n \in Nat, m < n
        PROVE  0 .. m \in SUBSET Nat /\ 0 .. n \in SUBSET Nat /\ 0 .. m \subseteq 0 .. n /\ 0 .. m # 0 .. n
    <3>1. n \in 0 .. n /\ n \notin 0 .. m
      BY <2>1
    <3> QED BY <2>1, <3>1
  <2> QED BY <2>1 DEF StrictSubsetOrdering
<1> HIDE DEF R, T
<1>5. PICK x \in T : \A y \in T : ~(<<y, x>> \in R)
  BY <1>1, <1>2, <1>3, WFMin
<1>6. PICK n \in S : x = 0 .. n
  BY <1>5 DEF T
<1>7. \A m \in S : 0 .. m \in T
  BY DEF T
<1>8. \A m \in S : ~(m < n)
  BY <1>4, <1>5, <1>6, <1>7
<1> QED BY <1>8

\* Induction over the timeframes 0 .. b, for a set of timeframes.
LEMMA TimeframeInduction ==
  ASSUME NEW b \in Nat, NEW S, 0 \in S, \A t \in 0 .. b - 1 : t \in S => t + 1 \in S
  PROVE  0 .. b \subseteq S
<1> DEFINE Bad == {t \in 0 .. b : t \notin S}
<1>1. SUFFICES ASSUME Bad # {} PROVE FALSE
  OBVIOUS
<1>2. PICK t \in Bad : \A m \in Bad : t <= m
  <2>1. Bad \subseteq Nat
    OBVIOUS
  <2> HIDE DEF Bad
  <2> QED BY <1>1, <2>1, LeastNumber
<1>3. t # 0 /\ t - 1 \in 0 .. b - 1
  OBVIOUS
<1>4. t - 1 \in S
  BY <1>2, <1>3
<1> QED BY <1>3, <1>4

-----------------------------------------------------------------------------
\* Recursion over data, such as formulas: F is a set of data, Parts[f] has what f is made
\* of, which is lower than f.
IsHeight(F, H, Parts) ==
  /\ H \in [F -> Nat]
  /\ \A f \in F : \A g \in Parts[f] : g \in F /\ H[g] < H[f]

\* What holds of a datum when it holds of its parts, holds of all.
LEMMA HeightInduction ==
  ASSUME NEW F, NEW H, NEW Parts, IsHeight(F, H, Parts),
         NEW S, \A f \in F : (\A g \in Parts[f] : g \in S) => f \in S
  PROVE  F \subseteq S
<1> SUFFICES ASSUME NEW f0 \in F, f0 \notin S PROVE FALSE
  OBVIOUS
<1> DEFINE Heights == {H[f] : f \in {f \in F : f \notin S}}
<1>1. Heights \subseteq Nat /\ Heights # {}
  BY DEF IsHeight
<1>2. PICK n \in Heights : \A m \in Heights : n <= m
  <2> HIDE DEF Heights
  <2> QED BY <1>1, LeastNumber
<1>3. PICK f \in F : f \notin S /\ H[f] = n
  BY <1>2
<1>4. ASSUME NEW g \in Parts[f] PROVE g \in S
  <2>1. g \in F /\ H[g] < n /\ n \in Nat /\ H[g] \in Nat
    BY <1>3, <1>4 DEF IsHeight
  <2>2. ASSUME g \notin S PROVE FALSE
    <3>1. H[g] \in Heights
      BY <2>1, <2>2
    <3>2. n <= H[g]
      BY <1>2, <3>1
    <3> QED BY <2>1, <3>2
  <2> QED BY <2>2
<1> QED BY <1>3, <1>4

\* A function G that gives the value of a datum from those of its parts: two
\* functions that agree on the parts give it the same value.
Local(F, Parts, V, G) ==
  /\ G \in [F \X [F -> V] -> V]
  /\ \A f \in F : \A s, t \in [F -> V] :
       (\A g \in Parts[f] : s[g] = t[g]) => G[<<f, s>>] = G[<<f, t>>]

\* The functions that are right below a height.
ValuesTo(F, H, V, G, n) ==
  {s \in [F -> V] : \A f \in F : H[f] < n => s[f] = G[<<f, s>>]}

LEMMA ValuesExist ==
  ASSUME NEW F, NEW H, NEW Parts, IsHeight(F, H, Parts),
         NEW V, NEW v \in V, NEW G, Local(F, Parts, V, G), NEW b \in Nat
  PROVE  ValuesTo(F, H, V, G, b) # {}
<1> DEFINE S == {n \in Nat : ValuesTo(F, H, V, G, n) # {}}
<1>1. 0 \in S
  <2>1. [f \in F |-> v] \in ValuesTo(F, H, V, G, 0)
    <3>1. \A f \in F : ~(H[f] < 0)
      BY DEF IsHeight
    <3> QED BY <3>1 DEF ValuesTo
  <2> QED BY <2>1
<1>2. ASSUME NEW n \in Nat, n \in S PROVE n + 1 \in S
  <2>1. PICK s \in ValuesTo(F, H, V, G, n) : TRUE
    BY <1>2
  <2>2. s \in [F -> V] /\ \A f \in F : H[f] < n => s[f] = G[<<f, s>>]
    BY <2>1 DEF ValuesTo
  <2> DEFINE t == [f \in F |-> G[<<f, s>>]]
  <2>3. t \in [F -> V]
    BY <2>2 DEF Local
  <2>4. ASSUME NEW f \in F, H[f] < n + 1 PROVE t[f] = G[<<f, t>>]
    <3>1. ASSUME NEW g \in Parts[f] PROVE s[g] = t[g]
      <4>1. g \in F /\ H[g] < H[f] /\ H[g] \in Nat /\ H[f] \in Nat
        BY DEF IsHeight
      <4>2. H[g] < n
        BY <2>4, <4>1
      <4> QED BY <2>2, <4>1, <4>2
    <3>2. G[<<f, s>>] = G[<<f, t>>]
      <4> HIDE DEF t
      <4> QED BY <2>2, <2>3, <3>1 DEF Local
    <3> QED BY <3>2
  <2> HIDE DEF t
  <2>5. t \in ValuesTo(F, H, V, G, n + 1)
    BY <2>3, <2>4 DEF ValuesTo
  <2> QED BY <2>5
<1> HIDE DEF S
<1>3. 0 .. b \subseteq S
  BY <1>1, <1>2, TimeframeInduction
<1> QED BY <1>3 DEF S

LEMMA ValuesAgree ==
  ASSUME NEW F, NEW H, NEW Parts, IsHeight(F, H, Parts),
         NEW V, NEW G, Local(F, Parts, V, G), NEW m \in Nat, NEW n \in Nat,
         NEW s \in ValuesTo(F, H, V, G, m), NEW t \in ValuesTo(F, H, V, G, n),
         NEW f \in F, H[f] < m, H[f] < n
  PROVE  s[f] = t[f]
<1> DEFINE S == {g \in F : H[g] < m /\ H[g] < n => s[g] = t[g]}
<1>1. ASSUME NEW g \in F, \A h \in Parts[g] : h \in S PROVE g \in S
  <2>1. SUFFICES ASSUME H[g] < m, H[g] < n PROVE s[g] = t[g]
    OBVIOUS
  <2>2. ASSUME NEW h \in Parts[g] PROVE s[h] = t[h]
    <3>1. H[h] < H[g] /\ H[h] \in Nat /\ H[g] \in Nat
      BY DEF IsHeight
    <3> QED BY <1>1, <2>1, <3>1
  <2>3. s \in [F -> V] /\ t \in [F -> V] /\ s[g] = G[<<g, s>>] /\ t[g] = G[<<g, t>>]
    BY <2>1 DEF ValuesTo
  <2> QED BY <2>2, <2>3 DEF Local
<1> HIDE DEF S
<1>2. F \subseteq S
  BY <1>1, HeightInduction
<1> QED BY <1>2 DEF S

\* Such a G is the body of a recursive function.
AreValues(F, V, G, s) == s \in [F -> V] /\ \A f \in F : s[f] = G[<<f, s>>]

LEMMA RecursiveFunction ==
  ASSUME NEW F, NEW H, NEW Parts, IsHeight(F, H, Parts),
         NEW V, NEW v \in V, NEW G, Local(F, Parts, V, G)
  PROVE  \E s : AreValues(F, V, G, s)
<1> DEFINE upto(n) == CHOOSE s \in ValuesTo(F, H, V, G, n) : TRUE
           s == [f \in F |-> upto(H[f] + 1)[f]]
<1>1. \A n \in Nat : upto(n) \in ValuesTo(F, H, V, G, n)
  BY ValuesExist
<1> HIDE DEF upto
<1>2. \A f \in F : H[f] \in Nat /\ H[f] + 1 \in Nat /\ H[f] < H[f] + 1
  BY DEF IsHeight
<1>3. s \in [F -> V]
  BY <1>1, <1>2 DEF ValuesTo
<1>4. ASSUME NEW f \in F PROVE s[f] = G[<<f, s>>]
  <2> DEFINE u == upto(H[f] + 1)
  <2>1. u \in ValuesTo(F, H, V, G, H[f] + 1)
    BY <1>1, <1>2
  <2>2. u \in [F -> V] /\ u[f] = G[<<f, u>>]
    BY <1>2, <2>1 DEF ValuesTo
  <2>3. ASSUME NEW g \in Parts[f] PROVE u[g] = s[g]
    <3>1. g \in F /\ H[g] < H[f]
      BY DEF IsHeight
    <3>2. upto(H[g] + 1) \in ValuesTo(F, H, V, G, H[g] + 1)
      BY <1>1, <1>2, <3>1
    <3>3. H[g] < H[f] + 1
      BY <1>2, <3>1
    <3>4. u[g] = upto(H[g] + 1)[g]
      <4> HIDE DEF u
      <4> QED BY <1>2, <2>1, <3>1, <3>2, <3>3, ValuesAgree
    <3> QED BY <3>1, <3>4
  <2>4. s[f] = u[f]
    OBVIOUS
  <2> HIDE DEF s, u
  <2>5. G[<<f, u>>] = G[<<f, s>>]
    BY <1>3, <2>2, <2>3 DEF Local
  <2> QED BY <2>2, <2>4, <2>5
<1> HIDE DEF s
<1>5. AreValues(F, V, G, s)
  BY <1>3, <1>4 DEF AreValues
<1> QED BY <1>5

=============================================================================
