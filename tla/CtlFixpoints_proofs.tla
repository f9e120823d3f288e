---------------------------- MODULE CtlFixpoints_proofs ----------------------------
(***************************************************************************)
(* The CTL fixpoints of the BDD engine are right, for every netlist with   *)
(* finitely many nodes and every CTL formula whose predicates do not read  *)
(* inputs; and so is, on infinite runs, the CTL formula that stands for an *)
(* LTL formula.                                                            *)
(*                                                                         *)
(* First, the recursive definitions have the functions that they describe: *)
(* the turns of a loop by induction over their number, the evaluation of   *)
(* formulas by induction over their height.  Then a loop ends with a       *)
(* fixpoint of its operator.  A set of nodes represents a set of states    *)
(* when it has all allowed nodes of those states and no allowed node of    *)
(* another one, and what the engine computes for a formula represents what *)
(* the formula means.  Last, what the CTL operators say of the states says *)
(* it of every infinite path from there, and induction over the height of  *)
(* an LTL formula carries this to the CTL formula it is mapped to.         *)
(***************************************************************************)
EXTENDS LtlTranslation, BddReachability_proofs

-----------------------------------------------------------------------------
\* Recursion over the natural numbers: the functions that are right up to n.
TurnsTo(W, tau, x, n) ==
  {t \in [Nat -> W] : t[0] = x /\ \A k \in Nat : k < n => t[k + 1] = tau[t[k]]}

LEMMA TurnsExist ==
  ASSUME NEW W, NEW tau \in [W -> W], NEW x \in W, NEW b \in Nat
  PROVE  TurnsTo(W, tau, x, b) # {}
<1> DEFINE S == {n \in Nat : TurnsTo(W, tau, x, n) # {}}
<1>1. 0 \in S
  <2>1. [k \in Nat |-> x] \in TurnsTo(W, tau, x, 0)
    BY DEF TurnsTo
  <2> QED BY <2>1
<1>2. ASSUME NEW n \in Nat, n \in S PROVE n + 1 \in S
  <2>1. PICK t \in TurnsTo(W, tau, x, n) : TRUE
    BY <1>2
  <2>2. t \in [Nat -> W] /\ t[0] = x /\ \A k \in Nat : k < n => t[k + 1] = tau[t[k]]
    BY <2>1 DEF TurnsTo
  <2> DEFINE u == [k \in Nat |-> IF k = n + 1 THEN tau[t[n]] ELSE t[k]]
  <2>3. u \in [Nat -> W] /\ u[0] = x
    BY <2>2
  <2>4. ASSUME NEW k \in Nat, k < n + 1 PROVE u[k + 1] = tau[u[k]]
    <3>1. u[k] = t[k] /\ k + 1 \in Nat
      BY <2>4
    <3>2. CASE k = n
      BY <3>1, <3>2
    <3>3. CASE k # n
      <4>1. k < n /\ k + 1 # n + 1
        BY <2>4, <3>3
      <4> QED BY <2>2, <3>1, <4>1
    <3> QED BY <3>2, <3>3
  <2> HIDE DEF u
  <2>5. u \in TurnsTo(W, tau, x, n + 1)
    BY <2>3, <2>4 DEF TurnsTo
  <2> QED BY <2>5
<1> HIDE DEF S
<1>3. 0 .. b \subseteq S
  BY <1>1, <1>2, TimeframeInduction
<1> QED BY <1>3 DEF S

LEMMA TurnsAgree ==
  ASSUME NEW W, NEW tau, NEW x, NEW m \in Nat, NEW n \in Nat,
         NEW t \in TurnsTo(W, tau, x, m), NEW u \in TurnsTo(W, tau, x, n),
         NEW b \in Nat, b <= m, b <= n
  PROVE  t[b] = u[b]
<1> DEFINE S == {k \in 0 .. b : t[k] = u[k]}
<1>1. 0 \in S
  BY DEF TurnsTo
<1>2. ASSUME NEW k \in 0 .. b - 1, k \in S PROVE k + 1 \in S
  <2>1. k \in Nat /\ k < m /\ k < n /\ k + 1 \in 0 .. b
    OBVIOUS
  <2> QED BY <1>2, <2>1 DEF TurnsTo
<1> HIDE DEF S
<1>3. 0 .. b \subseteq S
  BY <1>1, <1>2, TimeframeInduction
<1> QED BY <1>3 DEF S

\* x, tau[x], tau[tau[x]] and so on are the values of a function.
AreTurns(W, tau, x, t) == t \in [Nat -> W] /\ t[0] = x /\ \A n \in Nat : t[n + 1] = tau[t[n]]

LEMMA TurnsFunction ==
  ASSUME NEW W, NEW tau \in [W -> W], NEW x \in W
  PROVE  \E t : AreTurns(W, tau, x, t)
<1> DEFINE upto(n) == CHOOSE t \in TurnsTo(W, tau, x, n) : TRUE
           t == [n \in Nat |-> upto(n)[n]]
<1>1. \A n \in Nat : upto(n) \in TurnsTo(W, tau, x, n)
  BY TurnsExist
<1> HIDE DEF upto
<1>2. t \in [Nat -> W]
  BY <1>1 DEF TurnsTo
<1>3. t[0] = x
  BY <1>1 DEF TurnsTo
<1>4. ASSUME NEW n \in Nat PROVE t[n + 1] = tau[t[n]]
  <2>1. upto(n + 1)[n + 1] = tau[upto(n + 1)[n]]
    <3>1. n < n + 1 /\ n + 1 \in Nat
      OBVIOUS
    <3> QED BY <1>1, <3>1 DEF TurnsTo
  <2>2. upto(n + 1)[n] = upto(n)[n]
    <3>1. n + 1 \in Nat /\ n <= n + 1 /\ n <= n
      OBVIOUS
    <3>2. upto(n) \in TurnsTo(W, tau, x, n) /\ upto(n + 1) \in TurnsTo(W, tau, x, n + 1)
      BY <1>1, <3>1
    <3> QED BY <3>1, <3>2, TurnsAgree
  <2> QED BY <2>1, <2>2
<1> HIDE DEF t
<1>5. AreTurns(W, tau, x, t)
  BY <1>2, <1>3, <1>4 DEF AreTurns
<1> QED BY <1>5

-----------------------------------------------------------------------------
\* Recursion over formulas.
OperandsOf == [f \in Formulas |-> Operands(f)]

LEMMA FormulaHeight == IsHeight(Formulas, Height, OperandsOf)
BY FormulasAssumption DEF IsHeight, OperandsOf

\* What holds for a formula when it holds for its operands, holds for all.
LEMMA FormulaInduction ==
  ASSUME NEW S, \A f \in Formulas : (\A g \in Operands(f) : g \in S) => f \in S
  PROVE  Formulas \subseteq S
<1>1. \A f \in Formulas : (\A g \in OperandsOf[f] : g \in S) => f \in S
  BY DEF OperandsOf
<1> QED BY <1>1, FormulaHeight, HeightInduction

\* A G that gives the value of a formula from those of its operands is the body of
\* a recursive function.
OnOperands(V, G) ==
  /\ G \in [Formulas \X [Formulas -> V] -> V]
  /\ \A f \in Formulas : \A s, t \in [Formulas -> V] :
       (\A g \in Operands(f) : s[g] = t[g]) => G[<<f, s>>] = G[<<f, t>>]

Solves(V, G, s) == s \in [Formulas -> V] /\ \A f \in Formulas : s[f] = G[<<f, s>>]

LEMMA FormulaFunction ==
  ASSUME NEW V, NEW v \in V, NEW G, OnOperands(V, G)
  PROVE  \E s : Solves(V, G, s)
<1>1. Local(Formulas, OperandsOf, V, G)
  BY DEF Local, OperandsOf, OnOperands
<1>2. PICK s : AreValues(Formulas, V, G, s)
  BY <1>1, FormulaHeight, RecursiveFunction
<1> QED BY <1>2 DEF AreValues, Solves

-----------------------------------------------------------------------------
\* The loops.

\* A chain of sets cannot grow more often than there are elements.
LEMMA ChainEnds ==
  ASSUME NEW N, IsFiniteSet(N), NEW u \in [Nat -> SUBSET N],
         \A n \in 0 .. Cardinality(N) : u[n] \subseteq u[n + 1] /\ u[n] # u[n + 1]
  PROVE  FALSE
<1> DEFINE C == Cardinality(N)
           S == {n \in 0 .. C + 1 : n <= Cardinality(u[n])}
<1>1. C \in Nat
  BY FS_CardinalityType
<1>2. \A n \in Nat : IsFiniteSet(u[n]) /\ Cardinality(u[n]) \in Nat /\ Cardinality(u[n]) <= C
  <2>1. \A n \in Nat : u[n] \in SUBSET N
    OBVIOUS
  <2> QED BY <2>1, FS_Subset, FS_CardinalityType
<1>3. 0 \in S
  BY <1>1, <1>2
<1>4. ASSUME NEW n \in 0 .. (C + 1) - 1, n \in S PROVE n + 1 \in S
  <2>1. n \in 0 .. C /\ n \in Nat /\ n + 1 \in Nat /\ n + 1 \in 0 .. C + 1
    BY <1>1
  <2>2. u[n] \in SUBSET u[n + 1] /\ u[n] # u[n + 1]
    BY <2>1
  <2>3. Cardinality(u[n]) <= Cardinality(u[n + 1]) /\ Cardinality(u[n]) # Cardinality(u[n + 1])
    BY <1>2, <2>1, <2>2, FS_Subset
  <2>4. n <= Cardinality(u[n])
    BY <1>4
  <2>5. n + 1 <= Cardinality(u[n + 1])
    BY <1>2, <2>1, <2>3, <2>4
  <2> QED BY <2>1, <2>5
<1> HIDE DEF S
<1>5. 0 .. C + 1 \subseteq S
  BY <1>1, <1>3, <1>4, TimeframeInduction
<1>6. C + 1 <= Cardinality(u[C + 1]) /\ C + 1 \in Nat
  BY <1>1, <1>5 DEF S
<1> QED BY <1>1, <1>2, <1>6

\* The loop ends, with a fixpoint of tau that has every property that x has and that
\* tau keeps.
LEMMA FixpointReached ==
  ASSUME NEW d, IsFiniteSet(Nodes(d)),
         NEW tau \in [SUBSET Nodes(d) -> SUBSET Nodes(d)], NEW x \in SUBSET Nodes(d),
         (\A y \in SUBSET Nodes(d) : y \subseteq tau[y]) \/ (\A y \in SUBSET Nodes(d) : tau[y] \subseteq y)
  PROVE  /\ fixedpoint(d, tau, x) \in SUBSET Nodes(d)
         /\ tau[fixedpoint(d, tau, x)] = fixedpoint(d, tau, x)
         /\ \A W : x \in W /\ (\A y \in W \cap SUBSET Nodes(d) : tau[y] \in W) => fixedpoint(d, tau, x) \in W
<1> DEFINE N == Nodes(d)
           C == Cardinality(N)
           Is(t) == t = [n \in Nat |-> IF n = 0 THEN x ELSE tau[t[n - 1]]]
           turn == CHOOSE t : Is(t)
           stop == CHOOSE n \in 0 .. C : turn[n + 1] = turn[n]
<1>1. fixedpoint(d, tau, x) = turn[stop]
  BY DEF fixedpoint
<1>2. \E t : Is(t)
  <2>1. PICK t : AreTurns(SUBSET N, tau, x, t)
    BY TurnsFunction
  <2>2. ASSUME NEW n \in Nat PROVE t[n] = IF n = 0 THEN x ELSE tau[t[n - 1]]
    <3>1. CASE n # 0
      <4>1. n - 1 \in Nat /\ (n - 1) + 1 = n
        BY <3>1
      <4> QED BY <2>1, <3>1, <4>1 DEF AreTurns
    <3> QED BY <2>1, <3>1 DEF AreTurns
  <2>3. Is(t)
    BY <2>1, <2>2 DEF AreTurns
  <2> QED BY <2>3
<1>3. Is(turn)
  BY <1>2
<1> HIDE DEF turn
<1>4. turn[0] = x /\ \A n \in Nat : turn[n + 1] = tau[turn[n]]
  <2>1. \A n \in Nat : n + 1 \in Nat /\ n + 1 # 0 /\ (n + 1) - 1 = n
    OBVIOUS
  <2> QED BY <1>3, <2>1
<1>5. ASSUME NEW W, x \in W, \A y \in W \cap SUBSET N : tau[y] \in W, NEW b \in Nat
      PROVE  turn[b] \in W /\ turn[b] \in SUBSET N
  <2> DEFINE S == {n \in Nat : turn[n] \in W /\ turn[n] \in SUBSET N}
  <2>1. 0 \in S /\ \A n \in 0 .. b - 1 : n \in S => n + 1 \in S
    BY <1>4, <1>5
  <2> HIDE DEF S
  <2>2. 0 .. b \subseteq S
    BY <2>1, TimeframeInduction
  <2> QED BY <2>2 DEF S
<1>6. \A n \in Nat : turn[n] \in SUBSET N
  <2>1. x \in SUBSET N /\ \A y \in SUBSET N \cap SUBSET N : tau[y] \in SUBSET N
    OBVIOUS
  <2> QED BY <1>5, <2>1
<1>7. C \in Nat
  BY FS_CardinalityType
<1>8. \E n \in 0 .. C : turn[n + 1] = turn[n]
  <2> SUFFICES ASSUME \A n \in 0 .. C : turn[n + 1] # turn[n] PROVE FALSE
    OBVIOUS
  <2>1. \A n \in 0 .. C : n \in Nat /\ n + 1 \in Nat
    BY <1>7
  <2>2. CASE \A y \in SUBSET N : y \subseteq tau[y]
    <3> DEFINE u == [n \in Nat |-> turn[n]]
    <3>1. u \in [Nat -> SUBSET N] /\ \A n \in 0 .. C : u[n] \subseteq u[n + 1] /\ u[n] # u[n + 1]
      BY <1>4, <1>6, <2>1, <2>2
    <3> HIDE DEF u
    <3> QED BY <3>1, ChainEnds
  <2>3. CASE \A y \in SUBSET N : tau[y] \subseteq y
    <3> DEFINE u == [n \in Nat |-> N \ turn[n]]
    <3>1. ASSUME NEW n \in 0 .. C PROVE u[n] \subseteq u[n + 1] /\ u[n] # u[n + 1]
      <4>1. turn[n] \in SUBSET N /\ turn[n + 1] \in SUBSET N /\ turn[n + 1] \subseteq turn[n] /\ turn[n + 1] # turn[n]
        BY <1>4, <1>6, <2>1, <2>3
      <4>2. u[n] = N \ turn[n] /\ u[n + 1] = N \ turn[n + 1]
        BY <2>1
      <4> QED BY <4>1, <4>2
    <3>2. u \in [Nat -> SUBSET N]
      OBVIOUS
    <3> HIDE DEF u
    <3> QED BY <3>1, <3>2, ChainEnds
  <2> QED BY <2>2, <2>3
<1>9. stop \in 0 .. C /\ turn[stop + 1] = turn[stop]
  BY <1>8
<1> HIDE DEF stop
<1>10. stop \in Nat
  BY <1>7, <1>9
<1>11. tau[turn[stop]] = turn[stop]
  BY <1>4, <1>9, <1>10
<1> QED BY <1>1, <1>5, <1>6, <1>10, <1>11

\* What is asked of a netlist.
FiniteNetlist(d) == IsNetlist(d) /\ IsFiniteSet(Nodes(d))

LEMMA AXIsSet == ASSUME NEW d, NEW f PROVE EX(d, f) \in SUBSET Nodes(d) /\ AX(d, f) \in SUBSET Nodes(d)
<1>1. \A n \in EX(d, f) : n \in Nodes(d)
  BY PreImageNodes
<1> QED BY <1>1 DEF AX

LEMMA EXMonotone == ASSUME NEW d, NEW f, NEW g, f \subseteq g PROVE EX(d, f) \subseteq EX(d, g)
<1>1. ASSUME NEW n \in EX(d, f) PROVE n \in EX(d, g)
  <2>1. n \in Nodes(d)
    BY PreImageNodes
  <2>2. PICK m \in Moves(d) : m[1] = n[1] /\ \E q \in f \cap d.constraint : q[1] = d.next[m]
    BY PreImageNodes
  <2>3. \E q \in g \cap d.constraint : q[1] = d.next[m]
    BY <2>2
  <2> QED BY <2>1, <2>2, <2>3, PreImageNodes
<1> QED BY <1>1

\* Each loop ends with a fixpoint of its operator.
LEMMA EFLoop ==
  ASSUME NEW d, FiniteNetlist(d), NEW f \in SUBSET Nodes(d)
  PROVE  LET L == EF(d, f)
         IN  /\ L \in SUBSET Nodes(d) /\ L = L \cup EX(d, L)
             /\ \A W : f \in W /\ (\A y \in W \cap SUBSET Nodes(d) : y \cup EX(d, y) \in W) => L \in W
<1> DEFINE tau == [x \in SUBSET Nodes(d) |-> x \cup EX(d, x)]
<1>1. tau \in [SUBSET Nodes(d) -> SUBSET Nodes(d)] /\ \A y \in SUBSET Nodes(d) : tau[y] = y \cup EX(d, y)
  BY AXIsSet DEF EX
<1>2. EF(d, f) = fixedpoint(d, tau, f)
  BY DEF EF
<1> HIDE DEF tau
<1>3. (\A y \in SUBSET Nodes(d) : y \subseteq tau[y]) \/ (\A y \in SUBSET Nodes(d) : tau[y] \subseteq y)
  BY <1>1
<1>4. /\ fixedpoint(d, tau, f) \in SUBSET Nodes(d)
      /\ tau[fixedpoint(d, tau, f)] = fixedpoint(d, tau, f)
      /\ \A W : f \in W /\ (\A y \in W \cap SUBSET Nodes(d) : tau[y] \in W) => fixedpoint(d, tau, f) \in W
  BY <1>1, <1>3, FixpointReached DEF FiniteNetlist
<1> HIDE DEF fixedpoint
<1> QED BY <1>1, <1>2, <1>4

LEMMA EGLoop ==
  ASSUME NEW d, FiniteNetlist(d), NEW f \in SUBSET Nodes(d)
  PROVE  LET L == EG(d, f)
         IN  /\ L \in SUBSET Nodes(d) /\ L = L \cap EX(d, L)
             /\ \A W : f \in W /\ (\A y \in W \cap SUBSET Nodes(d) : y \cap EX(d, y) \in W) => L \in W
<1> DEFINE tau == [x \in SUBSET Nodes(d) |-> x \cap EX(d, x)]
<1>1. tau \in [SUBSET Nodes(d) -> SUBSET Nodes(d)] /\ \A y \in SUBSET Nodes(d) : tau[y] = y \cap EX(d, y)
  BY AXIsSet DEF EX
<1>2. EG(d, f) = fixedpoint(d, tau, f)
  BY DEF EG
<1> HIDE DEF tau
<1>3. (\A y \in SUBSET Nodes(d) : y \subseteq tau[y]) \/ (\A y \in SUBSET Nodes(d) : tau[y] \subseteq y)
  BY <1>1
<1>4. /\ fixedpoint(d, tau, f) \in SUBSET Nodes(d)
      /\ tau[fixedpoint(d, tau, f)] = fixedpoint(d, tau, f)
      /\ \A W : f \in W /\ (\A y \in W \cap SUBSET Nodes(d) : tau[y] \in W) => fixedpoint(d, tau, f) \in W
  BY <1>1, <1>3, FixpointReached DEF FiniteNetlist
<1> HIDE DEF fixedpoint
<1> QED BY <1>1, <1>2, <1>4

LEMMA EULoop ==
  ASSUME NEW d, FiniteNetlist(d), NEW f \in SUBSET Nodes(d), NEW g \in SUBSET Nodes(d)
  PROVE  LET L == EU(d, f, g)
         IN  /\ L \in SUBSET Nodes(d) /\ L = L \cup g \cup (f \cap EX(d, L))
             /\ \A W : g \in W /\ (\A y \in W \cap SUBSET Nodes(d) : y \cup g \cup (f \cap EX(d, y)) \in W) => L \in W
<1> DEFINE tau == [x \in SUBSET Nodes(d) |-> x \cup g \cup (f \cap EX(d, x))]
<1>1. tau \in [SUBSET Nodes(d) -> SUBSET Nodes(d)] /\ \A y \in SUBSET Nodes(d) : tau[y] = y \cup g \cup (f \cap EX(d, y))
  BY AXIsSet DEF EX
<1>2. EU(d, f, g) = fixedpoint(d, tau, g)
  BY DEF EU
<1> HIDE DEF tau
<1>3. (\A y \in SUBSET Nodes(d) : y \subseteq tau[y]) \/ (\A y \in SUBSET Nodes(d) : tau[y] \subseteq y)
  BY <1>1
<1>4. /\ fixedpoint(d, tau, g) \in SUBSET Nodes(d)
      /\ tau[fixedpoint(d, tau, g)] = fixedpoint(d, tau, g)
      /\ \A W : g \in W /\ (\A y \in W \cap SUBSET Nodes(d) : tau[y] \in W) => fixedpoint(d, tau, g) \in W
  BY <1>1, <1>3, FixpointReached DEF FiniteNetlist
<1> HIDE DEF fixedpoint
<1> QED BY <1>1, <1>2, <1>4

LEMMA AULoop ==
  ASSUME NEW d, FiniteNetlist(d), NEW f \in SUBSET Nodes(d), NEW g \in SUBSET Nodes(d)
  PROVE  LET L == AU(d, f, g)
         IN  /\ L \in SUBSET Nodes(d) /\ L = L \cup g \cup (f \cap AX(d, L))
             /\ \A W : g \in W /\ (\A y \in W \cap SUBSET Nodes(d) : y \cup g \cup (f \cap AX(d, y)) \in W) => L \in W
<1> DEFINE tau == [x \in SUBSET Nodes(d) |-> x \cup g \cup (f \cap AX(d, x))]
<1>1. tau \in [SUBSET Nodes(d) -> SUBSET Nodes(d)] /\ \A y \in SUBSET Nodes(d) : tau[y] = y \cup g \cup (f \cap AX(d, y))
  BY AXIsSet DEF EX
<1>2. AU(d, f, g) = fixedpoint(d, tau, g)
  BY DEF AU
<1> HIDE DEF tau
<1>3. (\A y \in SUBSET Nodes(d) : y \subseteq tau[y]) \/ (\A y \in SUBSET Nodes(d) : tau[y] \subseteq y)
  BY <1>1
<1>4. /\ fixedpoint(d, tau, g) \in SUBSET Nodes(d)
      /\ tau[fixedpoint(d, tau, g)] = fixedpoint(d, tau, g)
      /\ \A W : g \in W /\ (\A y \in W \cap SUBSET Nodes(d) : tau[y] \in W) => fixedpoint(d, tau, g) \in W
  BY <1>1, <1>3, FixpointReached DEF FiniteNetlist
<1> HIDE DEF fixedpoint
<1> QED BY <1>1, <1>2, <1>4

-----------------------------------------------------------------------------
\* The evaluation of formulas.

\* A labelling of the nodes with the predicates of the formulas.
IsLabel(d, label) == label \in [Atoms -> SUBSET Nodes(d)]

LEMMA FormulaFacts ==
  ASSUME NEW f \in Formulas
  PROVE  /\ f[1] \in {"true", "false", "atom"} \cup Unary \cup Binary
         /\ f[1] = "atom" => f[2] \in Atoms
         /\ f[1] \in Unary \cup Binary => f[2] \in Formulas /\ f[2] \in Operands(f)
         /\ f[1] \in Binary => f[3] \in Formulas /\ f[3] \in Operands(f)
<1>1. Unary \cap Binary = {}
  BY DEF Unary, Binary
<1>2. f[1] \in Unary => Operands(f) = {f[2]}
  BY <1>1 DEF Operands
<1>3. f[1] \in Binary => Operands(f) = {f[2], f[3]}
  BY <1>1 DEF Operands
<1> QED BY <1>2, <1>3, FormulasAssumption

LEMMA EvaluateTyped ==
  ASSUME NEW d, FiniteNetlist(d), NEW label, IsLabel(d, label),
         NEW f \in Formulas, NEW s \in [Formulas -> SUBSET Nodes(d)]
  PROVE  Evaluate(d, label, s, f) \in SUBSET Nodes(d)
<1> DEFINE N(x) == Nodes(d) \ x
           Sets == SUBSET Nodes(d)
<1>1. \A x \in Sets : EX(d, x) \in Sets /\ AX(d, x) \in Sets /\ EF(d, x) \in Sets /\ EG(d, x) \in Sets
  BY AXIsSet, EFLoop, EGLoop
<1>2. \A x, y \in Sets : EU(d, x, y) \in Sets /\ AU(d, x, y) \in Sets
  BY EULoop, AULoop
<1>3. CASE f[1] \in {"true", "false", "atom"}
  BY <1>3, FormulaFacts DEF IsLabel, Evaluate
<1>4. CASE f[1] \in Unary
  <2>1. s[f[2]] \in Sets /\ N(s[f[2]]) \in Sets
    BY <1>4, FormulaFacts
  <2>2. EF(d, N(s[f[2]])) \in Sets /\ EG(d, N(s[f[2]])) \in Sets
    BY <1>1, <2>1
  <2> HIDE DEF N
  <2>3. \A x : N(x) \in Sets
    BY DEF N
  <2>4. Evaluate(d, label, s, f) \in {N(s[f[2]]), EX(d, s[f[2]]), EF(d, s[f[2]]), EG(d, s[f[2]]), AX(d, s[f[2]]),
                                      N(EG(d, N(s[f[2]]))), N(EF(d, N(s[f[2]])))}
    BY <1>4 DEF Unary, N, Evaluate
  <2> HIDE DEF Sets
  <2>5. Evaluate(d, label, s, f) \in Sets
    BY <1>1, <2>1, <2>3, <2>4
  <2> QED BY <2>5 DEF Sets
<1>5. CASE f[1] \in Binary
  <2> DEFINE a == s[f[2]]
             b == s[f[3]]
  <2>1. a \in Sets /\ b \in Sets
    BY <1>5, FormulaFacts
  <2>2. a \cap b \in Sets /\ a \cup b \in Sets /\ N(a) \cup b \in Sets
        /\ {n \in Nodes(d) : n \in a <=> n \in b} \in Sets
    BY <2>1
  <2>3. \A x : N(x) \in Sets
    OBVIOUS
  <2>4. Evaluate(d, label, s, f) \in {a \cap b, a \cup b, N(a) \cup b, {n \in Nodes(d) : n \in a <=> n \in b},
                                      EU(d, a, b), AU(d, a, b), N(AU(d, N(a), N(b))), N(EU(d, N(a), N(b)))}
    BY <1>5 DEF Binary, Evaluate
  <2> HIDE DEF Sets, N, a, b
  <2>5. Evaluate(d, label, s, f) \in Sets
    BY <1>2, <2>1, <2>2, <2>3, <2>4
  <2> QED BY <2>5 DEF Sets
<1> QED BY <1>3, <1>4, <1>5, FormulaFacts

\* The value of a formula depends on those of its operands only.
LEMMA EvaluateLocal ==
  ASSUME NEW d, NEW label, NEW f \in Formulas, NEW s, NEW t, \A g \in Operands(f) : s[g] = t[g]
  PROVE  Evaluate(d, label, s, f) = Evaluate(d, label, t, f)
<1>1. CASE f[1] \in {"true", "false", "atom"}
  BY <1>1 DEF Evaluate
<1>2. CASE f[1] \in Unary
  <2>1. s[f[2]] = t[f[2]]
    BY <1>2, FormulaFacts
  <2> QED BY <1>2, <2>1 DEF Unary, Evaluate
<1>3. CASE f[1] \in Binary
  <2>1. s[f[2]] = t[f[2]] /\ s[f[3]] = t[f[3]]
    BY <1>3, FormulaFacts
  <2> QED BY <1>3, <2>1 DEF Binary, Evaluate
<1> QED BY <1>1, <1>2, <1>3, FormulaFacts

\* CTL(d, label, f) is the value of f, given those of its operands.
Computed(d, label) == [f \in Formulas |-> CTL(d, label, f)]

LEMMA CTLUnfolds ==
  ASSUME NEW d, FiniteNetlist(d), NEW label, IsLabel(d, label)
  PROVE  /\ Computed(d, label) \in [Formulas -> SUBSET Nodes(d)]
         /\ \A f \in Formulas : CTL(d, label, f) = Evaluate(d, label, Computed(d, label), f)
<1> DEFINE V == SUBSET Nodes(d)
           G == [p \in Formulas \X [Formulas -> V] |-> Evaluate(d, label, p[2], p[1])]
           Is(s) == s = [g \in Formulas |-> Evaluate(d, label, s, g)]
           sat == CHOOSE s : Is(s)
<1>1. \A f \in Formulas : \A s \in [Formulas -> V] : G[<<f, s>>] = Evaluate(d, label, s, f)
  OBVIOUS
<1>2. G \in [Formulas \X [Formulas -> V] -> V]
  BY EvaluateTyped
<1> HIDE DEF G
<1>3. OnOperands(V, G)
  BY <1>1, <1>2, EvaluateLocal DEF OnOperands
<1>4. {} \in V
  OBVIOUS
<1> HIDE DEF V
<1>5. PICK s : Solves(V, G, s)
  BY <1>3, <1>4, FormulaFunction
<1>6. s \in [Formulas -> V] /\ \A f \in Formulas : s[f] = Evaluate(d, label, s, f)
  BY <1>1, <1>5 DEF Solves
<1>7. Is(sat)
  <2>1. Is(s)
    BY <1>6
  <2> QED BY <2>1
<1>8. \A f : CTL(d, label, f) = sat[f]
  BY DEF CTL
<1> HIDE DEF sat
<1>9. sat = Computed(d, label)
  BY <1>7, <1>8 DEF Computed
<1>10. \A f \in Formulas : sat[f] = s[f]
  <2> DEFINE S == {f \in Formulas : sat[f] = s[f]}
  <2>1. ASSUME NEW f \in Formulas, \A g \in Operands(f) : g \in S PROVE f \in S
    <3>1. \A g \in Operands(f) : sat[g] = s[g]
      BY <2>1
    <3>2. Evaluate(d, label, sat, f) = Evaluate(d, label, s, f)
      BY <3>1, EvaluateLocal
    <3> QED BY <1>6, <1>7, <3>2
  <2> HIDE DEF S
  <2>2. Formulas \subseteq S
    BY <2>1, FormulaInduction
  <2> QED BY <2>2 DEF S
<1> QED BY <1>6, <1>7, <1>8, <1>9, <1>10 DEF V

\* The same for what formulas mean.
LEMMA MeaningIsSet ==
  ASSUME NEW d, IsNetlist(d), NEW S, NEW G
  PROVE  Before(d, S) \subseteq Alive(d) /\ Some(d, G, S) \subseteq Alive(d) /\ Ever(d, G) \subseteq Alive(d)
BY DEF Before, Some, Ever, Alive, Moves

LEMMA InterpretLocal ==
  ASSUME NEW d, NEW label, NEW f \in Formulas, NEW s, NEW t, \A g \in Operands(f) : s[g] = t[g]
  PROVE  Interpret(d, label, s, f) = Interpret(d, label, t, f)
<1>1. CASE f[1] \in {"true", "false", "atom"}
  BY <1>1 DEF Interpret
<1>2. CASE f[1] \in Unary
  <2>1. s[f[2]] = t[f[2]]
    BY <1>2, FormulaFacts
  <2> QED BY <1>2, <2>1 DEF Unary, Interpret
<1>3. CASE f[1] \in Binary
  <2>1. s[f[2]] = t[f[2]] /\ s[f[3]] = t[f[3]]
    BY <1>3, FormulaFacts
  <2> QED BY <1>3, <2>1 DEF Binary, Interpret
<1> QED BY <1>1, <1>2, <1>3, FormulaFacts

LEMMA InterpretTyped ==
  ASSUME NEW d, IsNetlist(d), NEW label, NEW f \in Formulas, NEW M \in [Formulas -> SUBSET Alive(d)]
  PROVE  Interpret(d, label, M, f) \in SUBSET Alive(d)
<1> DEFINE N(x) == Alive(d) \ x
           Sets == SUBSET Alive(d)
<1>1. \A x : N(x) \in Sets
  OBVIOUS
<1>2. \A x, y : Before(d, x) \in Sets /\ Some(d, x, y) \in Sets /\ Ever(d, x) \in Sets
  BY MeaningIsSet
<1>3. CASE f[1] \in {"true", "false", "atom"}
  BY <1>3 DEF Interpret
<1>4. CASE f[1] \in Unary
  <2> DEFINE a == M[f[2]]
  <2>1. Interpret(d, label, M, f) \in {N(a), Before(d, a), N(Before(d, N(a))), Some(d, Alive(d), a),
                                       N(Some(d, Alive(d), N(a))), Ever(d, a), N(Ever(d, N(a)))}
    BY <1>4 DEF Unary, Interpret
  <2> HIDE DEF Sets, N, a
  <2>2. Interpret(d, label, M, f) \in Sets
    BY <1>1, <1>2, <2>1
  <2> QED BY <2>2 DEF Sets
<1>5. CASE f[1] \in Binary
  <2> DEFINE a == M[f[2]]
             b == M[f[3]]
             Iff == {s \in Alive(d) : s \in a <=> s \in b}
             U == Some(d, b, a \cap b) \cup Ever(d, b)
  <2>1. a \cap b \in Sets /\ a \cup b \in Sets /\ N(a) \cup b \in Sets /\ Iff \in Sets /\ U \in Sets
    <3>1. a \in Sets /\ b \in Sets
      BY <1>5, FormulaFacts
    <3>2. \A x, y \in Sets : x \cap y \in Sets /\ x \cup y \in Sets
      OBVIOUS
    <3>3. Iff \in Sets
      OBVIOUS
    <3> HIDE DEF Sets, N, a, b, Iff
    <3> QED BY <1>1, <1>2, <3>1, <3>2, <3>3
  <2>2. Interpret(d, label, M, f) \in {a \cap b, a \cup b, N(a) \cup b, Iff, Some(d, a, b), N(Some(d, N(a), N(b))),
                                       N(Some(d, N(b), N(a \cup b)) \cup Ever(d, N(b))), U}
    BY <1>5 DEF Binary, Interpret
  <2> HIDE DEF Sets, N, a, b, Iff, U
  <2>3. Interpret(d, label, M, f) \in Sets
    BY <1>1, <1>2, <2>1, <2>2
  <2> QED BY <2>3 DEF Sets
<1> QED BY <1>3, <1>4, <1>5, FormulaFacts

Meant(d, label) == [f \in Formulas |-> Meaning(d, label, f)]

LEMMA MeaningUnfolds ==
  ASSUME NEW d, IsNetlist(d), NEW label
  PROVE  /\ Meant(d, label) \in [Formulas -> SUBSET Alive(d)]
         /\ \A f \in Formulas : Meaning(d, label, f) = Interpret(d, label, Meant(d, label), f)
<1> DEFINE V == SUBSET Alive(d)
           G == [p \in Formulas \X [Formulas -> V] |-> Interpret(d, label, p[2], p[1])]
           Is(s) == s = [g \in Formulas |-> Interpret(d, label, s, g)]
           M == CHOOSE s : Is(s)
<1>1. \A f \in Formulas : \A s \in [Formulas -> V] : G[<<f, s>>] = Interpret(d, label, s, f)
  OBVIOUS
<1>2. G \in [Formulas \X [Formulas -> V] -> V]
  BY InterpretTyped
<1> HIDE DEF G
<1>3. OnOperands(V, G)
  BY <1>1, <1>2, InterpretLocal DEF OnOperands
<1>4. {} \in V
  OBVIOUS
<1> HIDE DEF V
<1>5. PICK s : Solves(V, G, s)
  BY <1>3, <1>4, FormulaFunction
<1>6. s \in [Formulas -> V] /\ \A f \in Formulas : s[f] = Interpret(d, label, s, f)
  BY <1>1, <1>5 DEF Solves
<1>7. Is(M)
  <2>1. Is(s)
    BY <1>6
  <2> QED BY <2>1
<1>8. \A f : Meaning(d, label, f) = M[f]
  BY DEF Meaning
<1> HIDE DEF M
<1>9. M = Meant(d, label)
  BY <1>7, <1>8 DEF Meant
<1>10. \A f \in Formulas : M[f] = s[f]
  <2> DEFINE S == {f \in Formulas : M[f] = s[f]}
  <2>1. ASSUME NEW f \in Formulas, \A g \in Operands(f) : g \in S PROVE f \in S
    <3>1. \A g \in Operands(f) : M[g] = s[g]
      BY <2>1
    <3>2. Interpret(d, label, M, f) = Interpret(d, label, s, f)
      BY <3>1, InterpretLocal
    <3> QED BY <1>6, <1>7, <3>2
  <2> HIDE DEF S
  <2>2. Formulas \subseteq S
    BY <2>1, FormulaInduction
  <2> QED BY <2>2 DEF S
<1> QED BY <1>6, <1>7, <1>8, <1>9, <1>10 DEF V

\* And for the formulas whose predicates do not read inputs.
StatePredicate(d, S) == \A m, n \in Nodes(d) : m[1] = n[1] => (m \in S <=> n \in S)

LEMMA InputFreeUnfolds ==
  ASSUME NEW d, NEW label, NEW f \in Formulas, InputFree(d, label, f)
  PROVE  /\ f[1] = "atom" => StatePredicate(d, label[f[2]])
         /\ \A g \in Operands(f) : InputFree(d, label, g)
<1> DEFINE Free(s, g) == /\ g[1] = "atom" => \A m, n \in Nodes(d) : m[1] = n[1] => (m \in label[g[2]] <=> n \in label[g[2]])
                         /\ \A h \in Operands(g) : s[h]
           V == BOOLEAN
           G == [p \in Formulas \X [Formulas -> V] |-> Free(p[2], p[1])]
           Is(s) == s = [g \in Formulas |-> Free(s, g)]
           free == CHOOSE s : Is(s)
<1>1. \A g : InputFree(d, label, g) = free[g]
  BY DEF InputFree
<1>2. \A g \in Formulas : \A s \in [Formulas -> V] : G[<<g, s>>] = Free(s, g)
  OBVIOUS
<1>3. G \in [Formulas \X [Formulas -> V] -> V]
  OBVIOUS
<1> HIDE DEF G
<1>4. OnOperands(V, G)
  <2>1. ASSUME NEW g \in Formulas, NEW s \in [Formulas -> V], NEW t \in [Formulas -> V],
               \A h \in Operands(g) : s[h] = t[h]
        PROVE  Free(s, g) = Free(t, g)
    BY <2>1
  <2> HIDE DEF V, Free
  <2> QED BY <1>2, <1>3, <2>1 DEF OnOperands
<1>5. TRUE \in V
  OBVIOUS
<1>6. PICK s : Solves(V, G, s)
  BY <1>4, <1>5, FormulaFunction
<1>7. \A g \in Formulas : s[g] = Free(s, g)
  BY <1>2, <1>6 DEF Solves
<1>8. s \in [Formulas -> V]
  BY <1>6 DEF Solves
<1> HIDE DEF Free
<1>9. Is(s)
  BY <1>7, <1>8
<1>10. Is(free)
  BY <1>9
<1> HIDE DEF free
<1>11. free[f] = Free(free, f)
  BY <1>10
<1> QED BY <1>1, <1>11 DEF Free, StatePredicate

-----------------------------------------------------------------------------
\* Sets of nodes for sets of states.

Represents(d, Q, S) ==
  /\ S \in SUBSET Alive(d)
  /\ \A n \in Nodes(d) : n[1] \in Alive(d) => (n \in Q <=> n[1] \in S)

\* The states that S keeps its transitions in, and those it does not.
Not(d, S) == Alive(d) \ S
MustStep(d, S) == Not(d, Before(d, Not(d, S)))

LEMMA RepresentsOne ==
  ASSUME NEW d, IsNetlist(d), NEW Q, NEW S, NEW T, Represents(d, Q, S), Represents(d, Q, T)
  PROVE  S = T
<1>1. ASSUME NEW s \in Alive(d) PROVE s \in S <=> s \in T
  <2>1. PICK n \in d.constraint : n[1] = s
    BY DEF Alive
  <2>2. n \in Nodes(d)
    BY DEF IsNetlist
  <2> QED BY <2>1, <2>2 DEF Represents
<1> QED BY <1>1 DEF Represents

LEMMA RepresentsAll == ASSUME NEW d PROVE Represents(d, Nodes(d), Alive(d)) /\ Represents(d, {}, {})
BY DEF Represents

LEMMA RepresentsNot ==
  ASSUME NEW d, NEW Q, NEW S, Represents(d, Q, S)
  PROVE  Represents(d, Nodes(d) \ Q, Not(d, S))
BY DEF Represents, Not

LEMMA RepresentsBoth ==
  ASSUME NEW d, NEW Q, NEW S, NEW R, NEW T, Represents(d, Q, S), Represents(d, R, T)
  PROVE  Represents(d, Q \cap R, S \cap T) /\ Represents(d, Q \cup R, S \cup T)
BY DEF Represents

LEMMA RepresentsIff ==
  ASSUME NEW d, NEW Q, NEW S, NEW R, NEW T, Represents(d, Q, S), Represents(d, R, T)
  PROVE  Represents(d, {n \in Nodes(d) : n \in Q <=> n \in R}, {s \in Alive(d) : s \in S <=> s \in T})
BY DEF Represents

LEMMA RepresentsEX ==
  ASSUME NEW d, IsNetlist(d), NEW Q, NEW S, Represents(d, Q, S)
  PROVE  Represents(d, EX(d, Q), Before(d, S))
<1>1. ASSUME NEW n \in Nodes(d), n \in EX(d, Q) PROVE n[1] \in Before(d, S)
  <2>1. PICK m \in Moves(d) : m[1] = n[1] /\ \E q \in Q \cap d.constraint : q[1] = d.next[m]
    BY <1>1, PreImageNodes
  <2>2. PICK q \in Q \cap d.constraint : q[1] = d.next[m]
    BY <2>1
  <2>3. q \in Nodes(d) /\ q[1] \in Alive(d)
    BY DEF IsNetlist, Alive
  <2>4. d.next[m] \in S
    BY <2>2, <2>3 DEF Represents
  <2> QED BY <2>1, <2>4 DEF Before
<1>2. ASSUME NEW n \in Nodes(d), n[1] \in Before(d, S) PROVE n \in EX(d, Q)
  <2>1. PICK m \in Moves(d) : m[1] = n[1] /\ d.next[m] \in S
    BY <1>2 DEF Before
  <2>2. d.next[m] \in Alive(d)
    BY <2>1 DEF Represents
  <2>3. PICK q \in d.constraint : q[1] = d.next[m]
    BY <2>2 DEF Alive
  <2>4. q \in Q
    BY <2>1, <2>2, <2>3 DEF Represents, IsNetlist
  <2> QED BY <2>1, <2>3, <2>4, PreImageNodes
<1> QED BY <1>1, <1>2, MeaningIsSet DEF Represents

LEMMA RepresentsAX ==
  ASSUME NEW d, IsNetlist(d), NEW Q, NEW S, Represents(d, Q, S)
  PROVE  Represents(d, AX(d, Q), MustStep(d, S))
BY RepresentsEX, RepresentsNot DEF AX, MustStep

-----------------------------------------------------------------------------
\* The smallest and the largest sets.

LEMMA BeforeMonotone ==
  ASSUME NEW d, NEW S, NEW T, S \subseteq T PROVE Before(d, S) \subseteq Before(d, T)
BY DEF Before

LEMMA SomeUnfolds ==
  ASSUME NEW d, IsNetlist(d), NEW G, NEW H \in SUBSET Alive(d)
  PROVE  /\ H \subseteq Some(d, G, H)
         /\ G \cap Before(d, Some(d, G, H)) \subseteq Some(d, G, H)
         /\ Some(d, G, H) \subseteq H \cup (G \cap Before(d, Some(d, G, H)))
         /\ \A Q \in SUBSET Alive(d) : H \subseteq Q /\ G \cap Before(d, Q) \subseteq Q => Some(d, G, H) \subseteq Q
<1> DEFINE E == Some(d, G, H)
<1>1. \A Q \in SUBSET Alive(d) : H \subseteq Q /\ G \cap Before(d, Q) \subseteq Q => E \subseteq Q
  BY DEF Some
<1>2. \A s \in Alive(d) : (\A Q \in SUBSET Alive(d) : H \subseteq Q /\ G \cap Before(d, Q) \subseteq Q => s \in Q) => s \in E
  BY DEF Some
<1>3. H \subseteq E
  BY <1>2
<1>4. E \in SUBSET Alive(d)
  BY MeaningIsSet
<1> HIDE DEF E
<1>5. ASSUME NEW s \in G \cap Before(d, E) PROVE s \in E
  <2>1. s \in Alive(d)
    BY MeaningIsSet
  <2>2. ASSUME NEW Q \in SUBSET Alive(d), H \subseteq Q, G \cap Before(d, Q) \subseteq Q PROVE s \in Q
    <3>1. E \subseteq Q
      BY <1>1, <2>2
    <3> QED BY <2>2, <3>1, BeforeMonotone
  <2> QED BY <1>2, <2>1, <2>2
<1>6. E \subseteq H \cup (G \cap Before(d, E))
  <2> DEFINE Q == H \cup (G \cap Before(d, E))
  <2>1. Q \in SUBSET Alive(d)
    BY MeaningIsSet
  <2>2. Q \subseteq E
    BY <1>3, <1>5
  <2>3. Before(d, Q) \subseteq Before(d, E)
    BY <2>2, BeforeMonotone
  <2>4. H \subseteq Q /\ G \cap Before(d, Q) \subseteq Q
    BY <2>3
  <2> HIDE DEF Q
  <2>5. E \subseteq Q
    BY <1>1, <2>1, <2>4
  <2> QED BY <2>5 DEF Q
<1> QED BY <1>1, <1>3, <1>5, <1>6 DEF E

LEMMA EverUnfolds ==
  ASSUME NEW d, IsNetlist(d), NEW G
  PROVE  /\ Ever(d, G) \subseteq G
         /\ Ever(d, G) \subseteq Before(d, Ever(d, G))
         /\ \A Q \in SUBSET Alive(d) : Q \subseteq G /\ Q \subseteq Before(d, Q) => Q \subseteq Ever(d, G)
<1>1. \A Q \in SUBSET Alive(d) : Q \subseteq G /\ Q \subseteq Before(d, Q) => Q \subseteq Ever(d, G)
  BY DEF Ever
<1>2. ASSUME NEW s \in Ever(d, G) PROVE s \in G /\ s \in Before(d, Ever(d, G))
  <2>1. PICK Q \in SUBSET Alive(d) : Q \subseteq G /\ Q \subseteq Before(d, Q) /\ s \in Q
    BY DEF Ever
  <2>2. Before(d, Q) \subseteq Before(d, Ever(d, G))
    BY <1>1, <2>1, BeforeMonotone
  <2> QED BY <2>1, <2>2
<1> QED BY <1>1, <1>2

-----------------------------------------------------------------------------
\* What the loops compute.

\* A loop that adds to g the nodes of f with a step into what it has.
LEMMA RepresentsSome ==
  ASSUME NEW d, IsNetlist(d), NEW f, NEW g, NEW F, NEW G, Represents(d, f, F), Represents(d, g, G),
         NEW L, L = L \cup g \cup (f \cap EX(d, L)),
         \A W : g \in W /\ (\A y \in W : y \cup g \cup (f \cap EX(d, y)) \in W) => L \in W
  PROVE  Represents(d, L, Some(d, F, G))
<1> DEFINE E == Some(d, F, G)
           W == {y \in SUBSET (L \cup g) : \E S : Represents(d, y, S) /\ S \subseteq E}
<1>1. G \in SUBSET Alive(d)
  BY DEF Represents
<1>2. G \subseteq E /\ F \cap Before(d, E) \subseteq E
  BY <1>1, SomeUnfolds
<1> HIDE DEF E
<1>3. g \in W
  BY <1>2
<1>4. ASSUME NEW y \in W PROVE y \cup g \cup (f \cap EX(d, y)) \in W
  <2>1. PICK S : Represents(d, y, S) /\ S \subseteq E
    OBVIOUS
  <2>2. Represents(d, y \cup g \cup (f \cap EX(d, y)), S \cup G \cup (F \cap Before(d, S)))
    BY <2>1, RepresentsBoth, RepresentsEX
  <2>3. S \cup G \cup (F \cap Before(d, S)) \subseteq E
    <3>1. Before(d, S) \subseteq Before(d, E)
      BY <2>1, BeforeMonotone
    <3> QED BY <1>2, <2>1, <3>1
  <2>4. y \cup g \cup (f \cap EX(d, y)) \in SUBSET (L \cup g)
    <3>1. y \subseteq L /\ EX(d, y) \subseteq EX(d, L)
      BY EXMonotone
    <3> QED BY <3>1
  <2> QED BY <2>2, <2>3, <2>4
<1> HIDE DEF W
<1>5. L \in W
  BY <1>3, <1>4
<1>6. PICK S : Represents(d, L, S) /\ S \subseteq E
  BY <1>5 DEF W
<1>7. Represents(d, L, S \cup G \cup (F \cap Before(d, S)))
  <2>1. Represents(d, L \cup g \cup (f \cap EX(d, L)), S \cup G \cup (F \cap Before(d, S)))
    BY <1>6, RepresentsBoth, RepresentsEX
  <2> QED BY <2>1
<1>8. S = S \cup G \cup (F \cap Before(d, S))
  BY <1>6, <1>7, RepresentsOne
<1>9. S \in SUBSET Alive(d)
  BY <1>6 DEF Represents
<1>10. E \subseteq S
  BY <1>1, <1>8, <1>9, SomeUnfolds DEF E
<1> QED BY <1>6, <1>10 DEF E

LEMMA RepresentsEU ==
  ASSUME NEW d, FiniteNetlist(d), NEW f \in SUBSET Nodes(d), NEW g \in SUBSET Nodes(d), NEW F, NEW G,
         Represents(d, f, F), Represents(d, g, G)
  PROVE  Represents(d, EU(d, f, g), Some(d, F, G))
<1> DEFINE L == EU(d, f, g)
<1>1. /\ L \in SUBSET Nodes(d) /\ L = L \cup g \cup (f \cap EX(d, L))
      /\ \A W : g \in W /\ (\A y \in W \cap SUBSET Nodes(d) : y \cup g \cup (f \cap EX(d, y)) \in W) => L \in W
  BY EULoop
<1> HIDE DEF L
<1>2. IsNetlist(d)
  BY DEF FiniteNetlist
<1>3. \A W : g \in W /\ (\A y \in W : y \cup g \cup (f \cap EX(d, y)) \in W) => L \in W
  BY <1>1
<1>4. Represents(d, L, Some(d, F, G))
  BY <1>1, <1>2, <1>3, RepresentsSome
<1> QED BY <1>4 DEF L

LEMMA RepresentsEF ==
  ASSUME NEW d, FiniteNetlist(d), NEW f \in SUBSET Nodes(d), NEW F, Represents(d, f, F)
  PROVE  Represents(d, EF(d, f), Some(d, Alive(d), F))
<1> DEFINE L == EF(d, f)
           N == Nodes(d)
<1>1. /\ L \in SUBSET N /\ L = L \cup EX(d, L)
      /\ \A W : f \in W /\ (\A y \in W \cap SUBSET N : y \cup EX(d, y) \in W) => L \in W
  BY EFLoop
<1> HIDE DEF L
<1>2. IsNetlist(d) /\ Represents(d, N, Alive(d))
  BY RepresentsAll DEF FiniteNetlist
<1>3. ASSUME NEW W, f \in W, \A y \in W : y \cup f \cup (N \cap EX(d, y)) \in W PROVE L \in W /\ f \subseteq L
  <2> DEFINE U == {y \in W : f \subseteq y}
  <2>1. f \in U
    BY <1>3
  <2>2. ASSUME NEW y \in U PROVE y \cup EX(d, y) \in U
    <3>1. y \cup f \cup (N \cap EX(d, y)) = y \cup EX(d, y)
      BY AXIsSet
    <3>2. y \in W /\ f \subseteq y
      OBVIOUS
    <3>3. y \cup EX(d, y) \in W
      BY <1>3, <3>1, <3>2
    <3> QED BY <3>2, <3>3
  <2> HIDE DEF U
  <2>3. L \in U
    BY <1>1, <2>1, <2>2
  <2> QED BY <2>3 DEF U
<1>4. f \subseteq L
  <2> DEFINE W == SUBSET N
  <2>1. f \in W /\ \A y \in W : y \cup f \cup (N \cap EX(d, y)) \in W
    OBVIOUS
  <2> HIDE DEF W
  <2> QED BY <1>3, <2>1
<1>5. L = L \cup f \cup (N \cap EX(d, L))
  BY <1>1, <1>4, AXIsSet
<1>6. Represents(d, L, Some(d, Alive(d), F))
  BY <1>2, <1>3, <1>5, RepresentsSome
<1> QED BY <1>6 DEF L

LEMMA RepresentsEG ==
  ASSUME NEW d, FiniteNetlist(d), NEW f \in SUBSET Nodes(d), NEW F, Represents(d, f, F)
  PROVE  Represents(d, EG(d, f), Ever(d, F))
<1> DEFINE L == EG(d, f)
           N == Nodes(d)
           E == Ever(d, F)
           W == {y \in SUBSET f : \E S : Represents(d, y, S) /\ E \subseteq S}
<1>1. /\ L \in SUBSET N /\ L = L \cap EX(d, L)
      /\ \A V : f \in V /\ (\A y \in V \cap SUBSET N : y \cap EX(d, y) \in V) => L \in V
  BY EGLoop
<1> HIDE DEF L
<1>2. IsNetlist(d)
  BY DEF FiniteNetlist
<1>3. E \subseteq F /\ E \subseteq Before(d, E)
  BY <1>2, EverUnfolds
<1> HIDE DEF E
<1>4. f \in W
  BY <1>3
<1>5. ASSUME NEW y \in W PROVE y \cap EX(d, y) \in W
  <2>1. PICK S : Represents(d, y, S) /\ E \subseteq S
    OBVIOUS
  <2>2. Represents(d, y \cap EX(d, y), S \cap Before(d, S))
    BY <1>2, <2>1, RepresentsBoth, RepresentsEX
  <2>3. E \subseteq S \cap Before(d, S)
    BY <1>3, <2>1, BeforeMonotone
  <2>4. y \cap EX(d, y) \in SUBSET f
    OBVIOUS
  <2> QED BY <2>2, <2>3, <2>4
<1> HIDE DEF W
<1>6. L \in W
  BY <1>1, <1>4, <1>5
<1>7. PICK S : Represents(d, L, S) /\ E \subseteq S
  BY <1>6 DEF W
<1>8. L \subseteq f
  BY <1>6 DEF W
<1>9. S = S \cap Before(d, S)
  <2>1. Represents(d, L \cap EX(d, L), S \cap Before(d, S))
    BY <1>2, <1>7, RepresentsBoth, RepresentsEX
  <2>2. Represents(d, L, S \cap Before(d, S))
    BY <1>1, <2>1
  <2> QED BY <1>2, <1>7, <2>2, RepresentsOne
<1>10. S = S \cap F
  <2>1. Represents(d, L \cap f, S \cap F)
    BY <1>7, RepresentsBoth
  <2>2. L \cap f = L
    BY <1>8
  <2>3. Represents(d, L, S \cap F)
    BY <2>1, <2>2
  <2> QED BY <1>2, <1>7, <2>3, RepresentsOne
<1>11. S \in SUBSET Alive(d)
  BY <1>7 DEF Represents
<1>12. S \subseteq E
  BY <1>2, <1>9, <1>10, <1>11, EverUnfolds DEF E
<1>13. S = E
  BY <1>7, <1>12
<1>14. Represents(d, L, E)
  BY <1>7, <1>13
<1> QED BY <1>14 DEF E, L

\* A path on which f U g fails meets neither f nor g before it meets g, or never
\* meets g; and the loop has a state as soon as all its steps are into what it has.
LEMMA RepresentsAU ==
  ASSUME NEW d, FiniteNetlist(d), NEW f \in SUBSET Nodes(d), NEW g \in SUBSET Nodes(d), NEW F, NEW G,
         Represents(d, f, F), Represents(d, g, G)
  PROVE  Represents(d, AU(d, f, g),
                    Not(d, Some(d, Not(d, G), Not(d, F \cup G)) \cup Ever(d, Not(d, G))))
<1> DEFINE L == AU(d, f, g)
           A == Not(d, G)
           H == Not(d, F \cup G)
           E == Some(d, A, H)
           I == Ever(d, A)
           W == {y \in SUBSET (L \cup g) : \E S : Represents(d, y, S) /\ S \cap (E \cup I) = {}}
           turn(y) == y \cup g \cup (f \cap AX(d, y))
<1>1. /\ L \in SUBSET Nodes(d) /\ L = turn(L)
      /\ \A V : g \in V /\ (\A y \in V \cap SUBSET Nodes(d) : turn(y) \in V) => L \in V
  BY AULoop
<1> HIDE DEF L
<1>2. IsNetlist(d)
  BY DEF FiniteNetlist
<1>3. F \in SUBSET Alive(d) /\ G \in SUBSET Alive(d) /\ H \in SUBSET Alive(d) /\ A \in SUBSET Alive(d)
  BY DEF Represents, Not
<1>4. /\ H \subseteq A
      /\ \A s \in Alive(d) : (s \in A <=> s \notin G) /\ (s \in H <=> s \notin F /\ s \notin G)
  BY DEF Not
<1> HIDE DEF A, H
<1>5. H \subseteq E /\ A \cap Before(d, E) \subseteq E /\ E \subseteq H \cup (A \cap Before(d, E))
  BY <1>2, <1>3, SomeUnfolds
<1>6. I \subseteq A /\ I \subseteq Before(d, I) /\ \A Q \in SUBSET Alive(d) : Q \subseteq A /\ Q \subseteq Before(d, Q) => Q \subseteq I
  BY <1>2, EverUnfolds
<1>7. E \subseteq A /\ E \in SUBSET Alive(d) /\ I \in SUBSET Alive(d)
  BY <1>2, <1>4, <1>5, MeaningIsSet
<1> HIDE DEF E, I
<1>8. ASSUME NEW y, NEW S, Represents(d, y, S)
      PROVE  Represents(d, turn(y), S \cup G \cup (F \cap MustStep(d, S)))
  BY <1>2, <1>8, RepresentsBoth, RepresentsAX
<1>9. g \in W
  <2>1. G \cap (E \cup I) = {}
    BY <1>3, <1>4, <1>6, <1>7
  <2> QED BY <2>1
<1>10. ASSUME NEW y \in W PROVE turn(y) \in W
  <2>1. PICK S : Represents(d, y, S) /\ S \cap (E \cup I) = {}
    OBVIOUS
  <2>2. S \in SUBSET Alive(d) /\ E \subseteq Not(d, S) /\ I \subseteq Not(d, S)
    BY <1>7, <2>1 DEF Represents, Not
  <2>3. Before(d, E) \subseteq Before(d, Not(d, S)) /\ Before(d, I) \subseteq Before(d, Not(d, S))
    BY <2>2, BeforeMonotone
  <2>4. ASSUME NEW s \in F \cap MustStep(d, S) PROVE s \notin E \cup I
    <3>1. s \notin Before(d, Not(d, S)) /\ s \notin H
      BY <1>3, <1>4, <2>4 DEF MustStep, Not
    <3> QED BY <1>5, <1>6, <2>3, <3>1
  <2>5. (S \cup G \cup (F \cap MustStep(d, S))) \cap (E \cup I) = {}
    BY <1>3, <1>4, <1>6, <1>7, <2>1, <2>4
  <2>6. Represents(d, turn(y), S \cup G \cup (F \cap MustStep(d, S)))
    BY <1>8, <2>1
  <2>7. turn(y) \in SUBSET (L \cup g)
    <3>1. y \subseteq L
      BY <1>1
    <3>2. EX(d, Nodes(d) \ L) \subseteq EX(d, Nodes(d) \ y)
      BY <3>1, EXMonotone
    <3>3. AX(d, y) \subseteq AX(d, L)
      BY <3>2 DEF AX
    <3> QED BY <1>1, <3>1, <3>3
  <2> HIDE DEF turn
  <2> QED BY <2>5, <2>6, <2>7
<1> HIDE DEF W, turn
<1>11. L \in W
  BY <1>1, <1>9, <1>10
<1>12. PICK S : Represents(d, L, S) /\ S \cap (E \cup I) = {}
  BY <1>11 DEF W
<1>13. S = S \cup G \cup (F \cap MustStep(d, S))
  <2>1. Represents(d, turn(L), S \cup G \cup (F \cap MustStep(d, S)))
    BY <1>8, <1>12
  <2>2. Represents(d, L, S \cup G \cup (F \cap MustStep(d, S)))
    BY <1>1, <2>1
  <2> QED BY <1>2, <1>12, <2>2, RepresentsOne
<1>14. S \in SUBSET Alive(d)
  BY <1>12 DEF Represents
<1> DEFINE N == Not(d, S)
           Q == N \ E
<1>15. ASSUME NEW s \in Q PROVE s \in A /\ s \in Before(d, Q)
  <2>1. s \in Alive(d) /\ s \notin S /\ s \notin E
    BY DEF Not
  <2>2. s \in A /\ s \notin H
    BY <1>4, <1>5, <1>13, <2>1
  <2>3. s \in F
    BY <1>4, <2>1, <2>2
  <2>4. s \in Before(d, N)
    BY <1>13, <2>1, <2>3 DEF MustStep, Not
  <2>5. s \notin Before(d, E)
    BY <1>5, <2>1, <2>2
  <2>6. PICK n \in Moves(d) : n[1] = s /\ d.next[n] \in N
    BY <2>4 DEF Before
  <2>7. d.next[n] \notin E
    BY <2>5, <2>6 DEF Before
  <2> HIDE DEF N
  <2> QED BY <2>2, <2>6, <2>7 DEF Before
<1>16. Q \subseteq I
  <2>1. Q \in SUBSET Alive(d)
    BY DEF Not
  <2> HIDE DEF Q
  <2> QED BY <1>6, <1>15, <2>1
<1>17. S = Not(d, E \cup I)
  BY <1>12, <1>14, <1>16 DEF Not
<1> QED BY <1>12, <1>17 DEF L, E, I, A, H

-----------------------------------------------------------------------------
\* What the engine computes for a formula, and what the formula means.

LEMMA RepresentsAtom ==
  ASSUME NEW d, IsNetlist(d), NEW Q \in SUBSET Nodes(d), StatePredicate(d, Q)
  PROVE  Represents(d, Q, {s \in Alive(d) : \E n \in Q : n[1] = s})
BY DEF Represents, StatePredicate

LEMMA NotNot == ASSUME NEW d, NEW S \in SUBSET Alive(d) PROVE Not(d, Not(d, S)) = S
BY DEF Not

LEMMA RepresentsUnary ==
  ASSUME NEW d, FiniteNetlist(d), NEW label, NEW f \in Formulas, f[1] \in Unary,
         NEW s \in [Formulas -> SUBSET Nodes(d)], NEW M \in [Formulas -> SUBSET Alive(d)],
         Represents(d, s[f[2]], M[f[2]])
  PROVE  Represents(d, Evaluate(d, label, s, f), Interpret(d, label, M, f))
<1> DEFINE a == s[f[2]]
           A == M[f[2]]
           N(x) == Nodes(d) \ x
<1>1. IsNetlist(d) /\ a \in SUBSET Nodes(d) /\ A \in SUBSET Alive(d) /\ Represents(d, a, A)
  BY FormulaFacts DEF FiniteNetlist
<1>2. N(a) \in SUBSET Nodes(d) /\ Represents(d, N(a), Not(d, A))
  BY <1>1, RepresentsNot
<1>3. CASE f[1] = "not"
  <2>1. Evaluate(d, label, s, f) = N(a) /\ Interpret(d, label, M, f) = Not(d, A)
    BY <1>3 DEF Evaluate, Interpret, Not
  <2> QED BY <1>2, <2>1
<1>4. CASE f[1] = "EX"
  <2>1. Evaluate(d, label, s, f) = EX(d, a) /\ Interpret(d, label, M, f) = Before(d, A)
    BY <1>4 DEF Evaluate, Interpret
  <2> QED BY <1>1, <2>1, RepresentsEX
<1>5. CASE f[1] = "EF"
  <2>1. Evaluate(d, label, s, f) = EF(d, a) /\ Interpret(d, label, M, f) = Some(d, Alive(d), A)
    BY <1>5 DEF Evaluate, Interpret
  <2> QED BY <1>1, <2>1, RepresentsEF
<1>6. CASE f[1] = "EG"
  <2>1. Evaluate(d, label, s, f) = EG(d, a) /\ Interpret(d, label, M, f) = Ever(d, A)
    BY <1>6 DEF Evaluate, Interpret
  <2> QED BY <1>1, <2>1, RepresentsEG
<1>7. CASE f[1] = "AX"
  <2>1. Evaluate(d, label, s, f) = AX(d, a) /\ Interpret(d, label, M, f) = MustStep(d, A)
    BY <1>7 DEF Evaluate, Interpret, Not, MustStep
  <2> QED BY <1>1, <2>1, RepresentsAX
<1>8. CASE f[1] = "AF"
  <2>1. /\ Evaluate(d, label, s, f) = N(EG(d, N(a)))
        /\ Interpret(d, label, M, f) = Not(d, Ever(d, Not(d, A)))
    BY <1>8 DEF Evaluate, Interpret, Not
  <2>2. Represents(d, EG(d, N(a)), Ever(d, Not(d, A)))
    BY <1>2, RepresentsEG
  <2> QED BY <2>1, <2>2, RepresentsNot
<1>9. CASE f[1] = "AG"
  <2>1. /\ Evaluate(d, label, s, f) = N(EF(d, N(a)))
        /\ Interpret(d, label, M, f) = Not(d, Some(d, Alive(d), Not(d, A)))
    BY <1>9 DEF Evaluate, Interpret, Not
  <2>2. Represents(d, EF(d, N(a)), Some(d, Alive(d), Not(d, A)))
    BY <1>2, RepresentsEF
  <2>3. Represents(d, N(EF(d, N(a))), Not(d, Some(d, Alive(d), Not(d, A))))
    BY <2>2, RepresentsNot
  <2> QED BY <2>1, <2>3
<1> HIDE DEF a, A, N
<1> QED BY <1>3, <1>4, <1>5, <1>6, <1>7, <1>8, <1>9 DEF Unary

LEMMA RepresentsBinary ==
  ASSUME NEW d, FiniteNetlist(d), NEW label, NEW f \in Formulas, f[1] \in Binary,
         NEW s \in [Formulas -> SUBSET Nodes(d)], NEW M \in [Formulas -> SUBSET Alive(d)],
         Represents(d, s[f[2]], M[f[2]]), Represents(d, s[f[3]], M[f[3]])
  PROVE  Represents(d, Evaluate(d, label, s, f), Interpret(d, label, M, f))
<1> DEFINE a == s[f[2]]
           A == M[f[2]]
           b == s[f[3]]
           B == M[f[3]]
           N(x) == Nodes(d) \ x
<1>1. /\ IsNetlist(d)
      /\ a \in SUBSET Nodes(d) /\ A \in SUBSET Alive(d) /\ Represents(d, a, A)
      /\ b \in SUBSET Nodes(d) /\ B \in SUBSET Alive(d) /\ Represents(d, b, B)
  BY FormulaFacts DEF FiniteNetlist
<1>2. /\ N(a) \in SUBSET Nodes(d) /\ Represents(d, N(a), Not(d, A))
      /\ N(b) \in SUBSET Nodes(d) /\ Represents(d, N(b), Not(d, B))
  BY <1>1, RepresentsNot
<1>3. CASE f[1] = "and"
  <2>1. Evaluate(d, label, s, f) = a \cap b /\ Interpret(d, label, M, f) = A \cap B
    BY <1>3 DEF Evaluate, Interpret
  <2>2. Represents(d, a \cap b, A \cap B)
    BY <1>1, RepresentsBoth
  <2> QED BY <2>1, <2>2
<1>4. CASE f[1] = "or"
  <2>1. Evaluate(d, label, s, f) = a \cup b /\ Interpret(d, label, M, f) = A \cup B
    BY <1>4 DEF Evaluate, Interpret
  <2>2. Represents(d, a \cup b, A \cup B)
    BY <1>1, RepresentsBoth
  <2> QED BY <2>1, <2>2
<1>5. CASE f[1] = "implies"
  <2>1. Evaluate(d, label, s, f) = N(a) \cup b /\ Interpret(d, label, M, f) = Not(d, A) \cup B
    BY <1>5 DEF Evaluate, Interpret, Not
  <2>2. Represents(d, N(a) \cup b, Not(d, A) \cup B)
    BY <1>1, <1>2, RepresentsBoth
  <2> QED BY <2>1, <2>2
<1>6. CASE f[1] = "iff"
  <2>1. /\ Evaluate(d, label, s, f) = {n \in Nodes(d) : n \in a <=> n \in b}
        /\ Interpret(d, label, M, f) = {t \in Alive(d) : t \in A <=> t \in B}
    BY <1>6 DEF Evaluate, Interpret
  <2> QED BY <1>1, <2>1, RepresentsIff
<1>7. CASE f[1] = "EU"
  <2>1. Evaluate(d, label, s, f) = EU(d, a, b) /\ Interpret(d, label, M, f) = Some(d, A, B)
    BY <1>7 DEF Evaluate, Interpret
  <2> QED BY <1>1, <2>1, RepresentsEU
<1>8. CASE f[1] = "AU"
  <2>1. /\ Evaluate(d, label, s, f) = AU(d, a, b)
        /\ Interpret(d, label, M, f) = Not(d, Some(d, Not(d, B), Not(d, A \cup B)) \cup Ever(d, Not(d, B)))
    BY <1>8 DEF Evaluate, Interpret, Not
  <2> QED BY <1>1, <2>1, RepresentsAU
<1>9. CASE f[1] = "AR"
  <2>1. /\ Evaluate(d, label, s, f) = N(EU(d, N(a), N(b)))
        /\ Interpret(d, label, M, f) = Not(d, Some(d, Not(d, A), Not(d, B)))
    BY <1>9 DEF Evaluate, Interpret, Not
  <2>2. Represents(d, EU(d, N(a), N(b)), Some(d, Not(d, A), Not(d, B)))
    BY <1>2, RepresentsEU
  <2>3. Represents(d, N(EU(d, N(a), N(b))), Not(d, Some(d, Not(d, A), Not(d, B))))
    BY <2>2, RepresentsNot
  <2> QED BY <2>1, <2>3
<1>10. CASE f[1] = "ER"
  <2> DEFINE S == Some(d, B, A \cap B) \cup Ever(d, B)
  <2>1. Evaluate(d, label, s, f) = N(AU(d, N(a), N(b))) /\ Interpret(d, label, M, f) = S
    BY <1>10 DEF Evaluate, Interpret
  <2>2. Not(d, Not(d, B)) = B /\ Not(d, Not(d, A) \cup Not(d, B)) = A \cap B
    BY <1>1 DEF Not
  <2>3. Represents(d, AU(d, N(a), N(b)), Not(d, S))
    <3>1. Represents(d, AU(d, N(a), N(b)), Not(d, Some(d, Not(d, Not(d, B)), Not(d, Not(d, A) \cup Not(d, B)))
                                                  \cup Ever(d, Not(d, Not(d, B)))))
      BY <1>2, RepresentsAU
    <3> QED BY <2>2, <3>1
  <2>4. Represents(d, N(AU(d, N(a), N(b))), Not(d, Not(d, S)))
    BY <2>3, RepresentsNot
  <2>5. S \in SUBSET Alive(d)
    BY <1>1, MeaningIsSet
  <2> HIDE DEF S
  <2> QED BY <2>1, <2>4, <2>5, NotNot
<1> HIDE DEF a, A, b, B, N
<1> QED BY <1>3, <1>4, <1>5, <1>6, <1>7, <1>8, <1>9, <1>10 DEF Binary

\* The fixpoints of bdd_model_checkert, nested as bdd_enginet::CTL nests them, are what
\* CTL says: for every netlist with finitely many nodes and every formula whose
\* predicates do not read inputs, the allowed nodes that the engine computes are those
\* of the states in which the formula holds, on the graph of its moves with its dead ends.
THEOREM FixpointsAreRight ==
  ASSUME NEW d, FiniteNetlist(d), NEW label, IsLabel(d, label)
  PROVE  \A f \in Formulas :
           InputFree(d, label, f) => Represents(d, CTL(d, label, f), Meaning(d, label, f))
<1> DEFINE s == Computed(d, label)
           M == Meant(d, label)
           S == {f \in Formulas : InputFree(d, label, f) => Represents(d, CTL(d, label, f), Meaning(d, label, f))}
<1>1. IsNetlist(d)
  BY DEF FiniteNetlist
<1>2. s \in [Formulas -> SUBSET Nodes(d)] /\ \A f \in Formulas : CTL(d, label, f) = Evaluate(d, label, s, f)
  BY CTLUnfolds
<1>3. M \in [Formulas -> SUBSET Alive(d)] /\ \A f \in Formulas : Meaning(d, label, f) = Interpret(d, label, M, f)
  BY <1>1, MeaningUnfolds
<1>4. \A f \in Formulas : s[f] = CTL(d, label, f) /\ M[f] = Meaning(d, label, f)
  BY DEF Computed, Meant
<1> HIDE DEF s, M
<1>5. ASSUME NEW f \in Formulas, \A g \in Operands(f) : g \in S, InputFree(d, label, f)
      PROVE  Represents(d, Evaluate(d, label, s, f), Interpret(d, label, M, f))
  <2>1. ASSUME NEW g \in Operands(f), g \in Formulas PROVE Represents(d, s[g], M[g])
    <3>1. InputFree(d, label, g)
      BY <1>5, InputFreeUnfolds
    <3> QED BY <1>4, <1>5, <2>1, <3>1
  <2>2. CASE f[1] = "true"
    <3>1. Evaluate(d, label, s, f) = Nodes(d) /\ Interpret(d, label, M, f) = Alive(d)
      BY <2>2 DEF Evaluate, Interpret
    <3> QED BY <3>1, RepresentsAll
  <2>3. CASE f[1] = "false"
    <3>1. Evaluate(d, label, s, f) = {} /\ Interpret(d, label, M, f) = {}
      BY <2>3 DEF Evaluate, Interpret
    <3> QED BY <3>1, RepresentsAll
  <2>4. CASE f[1] = "atom"
    <3>1. /\ Evaluate(d, label, s, f) = label[f[2]]
          /\ Interpret(d, label, M, f) = {t \in Alive(d) : \E n \in label[f[2]] : n[1] = t}
      BY <2>4 DEF Evaluate, Interpret
    <3>2. StatePredicate(d, label[f[2]]) /\ label[f[2]] \in SUBSET Nodes(d)
      BY <1>5, <2>4, FormulaFacts, InputFreeUnfolds DEF IsLabel
    <3> QED BY <1>1, <3>1, <3>2, RepresentsAtom
  <2>5. CASE f[1] \in Unary
    <3>1. Represents(d, s[f[2]], M[f[2]])
      BY <2>1, <2>5, FormulaFacts
    <3> QED BY <1>2, <1>3, <2>5, <3>1, RepresentsUnary
  <2>6. CASE f[1] \in Binary
    <3>1. Represents(d, s[f[2]], M[f[2]]) /\ Represents(d, s[f[3]], M[f[3]])
      BY <2>1, <2>6, FormulaFacts
    <3> QED BY <1>2, <1>3, <2>6, <3>1, RepresentsBinary
  <2> QED BY <2>2, <2>3, <2>4, <2>5, <2>6, FormulaFacts
<1>6. \A f \in Formulas : (\A g \in Operands(f) : g \in S) => f \in S
  BY <1>2, <1>3, <1>5
<1> HIDE DEF S
<1>7. Formulas \subseteq S
  BY <1>6, FormulaInduction
<1> QED BY <1>7 DEF S

-----------------------------------------------------------------------------
\* Recursion over LTL formulas.
LtlOperandsOf == [f \in LtlFormulas |-> LtlOperands(f)]

LEMMA LtlFormulaHeight == IsHeight(LtlFormulas, LtlHeight, LtlOperandsOf)
BY LtlFormulasAssumption DEF IsHeight, LtlOperandsOf

LEMMA LtlInduction ==
  ASSUME NEW S, \A f \in LtlFormulas : (\A g \in LtlOperands(f) : g \in S) => f \in S
  PROVE  LtlFormulas \subseteq S
<1>1. \A f \in LtlFormulas : (\A g \in LtlOperandsOf[f] : g \in S) => f \in S
  BY DEF LtlOperandsOf
<1> QED BY <1>1, LtlFormulaHeight, HeightInduction

LEMMA LtlFacts ==
  ASSUME NEW f \in LtlFormulas
  PROVE  /\ f[1] \in {"true", "false", "atom"} \cup LtlUnary \cup LtlBinary
         /\ f[1] = "atom" => f[2] \in Atoms
         /\ f[1] \in LtlUnary \cup LtlBinary => f[2] \in LtlFormulas /\ f[2] \in LtlOperands(f)
         /\ f[1] \in LtlBinary => f[3] \in LtlFormulas /\ f[3] \in LtlOperands(f)
<1>1. LtlUnary \cap LtlBinary = {}
  BY DEF LtlUnary, LtlBinary
<1>2. f[1] \in LtlUnary => LtlOperands(f) = {f[2]}
  BY <1>1 DEF LtlOperands
<1>3. f[1] \in LtlBinary => LtlOperands(f) = {f[2], f[3]}
  BY <1>1 DEF LtlOperands
<1> QED BY <1>2, <1>3, LtlFormulasAssumption

\* What a formula becomes depends on what its operands become.
LEMMA TranslateLocal ==
  ASSUME NEW f \in LtlFormulas, NEW s, NEW t, \A g \in LtlOperands(f) : s[g] = t[g]
  PROVE  Translate(s, f) = Translate(t, f)
<1>1. CASE ~IsTemporal(f)
  BY <1>1 DEF Translate
<1>2. CASE f[1] \notin {"and", "X", "F", "G", "M"}
  BY <1>2 DEF Translate
<1>3. CASE f[1] \in {"X", "F", "G"}
  <2>1. s[f[2]] = t[f[2]]
    BY <1>3, LtlFacts DEF LtlUnary
  <2> QED BY <1>3, <2>1 DEF Translate
<1>4. CASE f[1] \in {"and", "M"}
  <2>1. s[f[2]] = t[f[2]] /\ s[f[3]] = t[f[3]]
    BY <1>4, LtlFacts DEF LtlBinary
  <2> QED BY <1>4, <2>1 DEF Translate
<1> QED BY <1>1, <1>2, <1>3, <1>4

\* The functions that are right for the formulas below a height: there is one for each
\* height, and they agree.
TranslatedTo(s, n) == \A f \in LtlFormulas : LtlHeight[f] < n => s[f] = Translate(s, f)

LEMMA TranslationsExist == \A b \in Nat : \E s : TranslatedTo(s, b)
<1> SUFFICES ASSUME NEW b \in Nat PROVE \E s : TranslatedTo(s, b)
  OBVIOUS
<1> DEFINE S == {n \in Nat : \E s : TranslatedTo(s, n)}
<1>1. 0 \in S
  <2>1. \A f \in LtlFormulas : ~(LtlHeight[f] < 0)
    BY LtlFormulasAssumption
  <2> QED BY <2>1 DEF TranslatedTo
<1>2. ASSUME NEW n \in Nat, n \in S PROVE n + 1 \in S
  <2>1. PICK s : TranslatedTo(s, n)
    BY <1>2
  <2> DEFINE t == [f \in LtlFormulas |-> Translate(s, f)]
  <2>2. ASSUME NEW f \in LtlFormulas, LtlHeight[f] < n + 1 PROVE t[f] = Translate(t, f)
    <3>1. ASSUME NEW g \in LtlOperands(f) PROVE s[g] = t[g]
      <4>1. g \in LtlFormulas /\ LtlHeight[g] < LtlHeight[f] /\ LtlHeight[g] \in Nat /\ LtlHeight[f] \in Nat
        BY LtlFormulasAssumption
      <4>2. LtlHeight[g] < n
        BY <2>2, <4>1
      <4> QED BY <2>1, <4>1, <4>2 DEF TranslatedTo
    <3>2. t[f] = Translate(s, f)
      OBVIOUS
    <3> HIDE DEF t
    <3> QED BY <3>1, <3>2, TranslateLocal
  <2> HIDE DEF t
  <2>3. TranslatedTo(t, n + 1)
    BY <2>2 DEF TranslatedTo
  <2> QED BY <2>3
<1> HIDE DEF S
<1>3. 0 .. b \subseteq S
  BY <1>1, <1>2, TimeframeInduction
<1> QED BY <1>3 DEF S

LEMMA TranslationsAgree ==
  ASSUME NEW m \in Nat, NEW n \in Nat, NEW s, NEW t, TranslatedTo(s, m), TranslatedTo(t, n)
  PROVE  \A f \in LtlFormulas : LtlHeight[f] < m /\ LtlHeight[f] < n => s[f] = t[f]
<1> DEFINE S == {f \in LtlFormulas : LtlHeight[f] < m /\ LtlHeight[f] < n => s[f] = t[f]}
<1>1. ASSUME NEW f \in LtlFormulas, \A g \in LtlOperands(f) : g \in S PROVE f \in S
  <2>1. SUFFICES ASSUME LtlHeight[f] < m, LtlHeight[f] < n PROVE s[f] = t[f]
    OBVIOUS
  <2>2. ASSUME NEW g \in LtlOperands(f) PROVE s[g] = t[g]
    <3>1. LtlHeight[g] < LtlHeight[f] /\ LtlHeight[g] \in Nat /\ LtlHeight[f] \in Nat
      BY LtlFormulasAssumption
    <3> QED BY <1>1, <2>1, <3>1
  <2>3. s[f] = Translate(s, f) /\ t[f] = Translate(t, f)
    BY <2>1 DEF TranslatedTo
  <2> QED BY <2>2, <2>3, TranslateLocal
<1> HIDE DEF S
<1>2. LtlFormulas \subseteq S
  BY <1>1, LtlInduction
<1> QED BY <1>2 DEF S

Translation == [f \in LtlFormulas |-> LtlToCtl(f)]

LEMMA LtlToCtlUnfolds == \A f \in LtlFormulas : LtlToCtl(f) = Translate(Translation, f)
<1> DEFINE upto(n) == CHOOSE s : TranslatedTo(s, n)
           s == [f \in LtlFormulas |-> upto(LtlHeight[f] + 1)[f]]
           Is(u) == u = [g \in LtlFormulas |-> Translate(u, g)]
           ctl == CHOOSE u : Is(u)
<1>1. \A n \in Nat : TranslatedTo(upto(n), n)
  BY TranslationsExist
<1> HIDE DEF upto
<1>2. \A f \in LtlFormulas : LtlHeight[f] \in Nat /\ LtlHeight[f] + 1 \in Nat /\ LtlHeight[f] < LtlHeight[f] + 1
  BY LtlFormulasAssumption
<1>3. ASSUME NEW f \in LtlFormulas PROVE s[f] = Translate(s, f)
  <2> DEFINE u == upto(LtlHeight[f] + 1)
  <2>1. TranslatedTo(u, LtlHeight[f] + 1)
    BY <1>1, <1>2
  <2>2. u[f] = Translate(u, f)
    BY <1>2, <2>1 DEF TranslatedTo
  <2>3. ASSUME NEW g \in LtlOperands(f) PROVE u[g] = s[g]
    <3>1. g \in LtlFormulas /\ LtlHeight[g] < LtlHeight[f]
      BY LtlFormulasAssumption
    <3>2. TranslatedTo(upto(LtlHeight[g] + 1), LtlHeight[g] + 1)
      BY <1>1, <1>2, <3>1
    <3>3. LtlHeight[g] < LtlHeight[f] + 1
      BY <1>2, <3>1
    <3>4. u[g] = upto(LtlHeight[g] + 1)[g]
      <4> HIDE DEF u
      <4> QED BY <1>2, <2>1, <3>1, <3>2, <3>3, TranslationsAgree
    <3> QED BY <3>1, <3>4
  <2>4. s[f] = u[f]
    OBVIOUS
  <2> HIDE DEF s, u
  <2>5. Translate(u, f) = Translate(s, f)
    BY <2>3, TranslateLocal
  <2> QED BY <2>2, <2>4, <2>5
<1>4. s = [f \in LtlFormulas |-> s[f]]
  OBVIOUS
<1> HIDE DEF s
<1>5. Is(s)
  BY <1>3, <1>4
<1>6. Is(ctl)
  BY <1>5
<1>7. \A f : LtlToCtl(f) = ctl[f]
  BY DEF LtlToCtl
<1> HIDE DEF ctl
<1>8. ctl = Translation
  BY <1>6, <1>7 DEF Translation
<1> QED BY <1>6, <1>7, <1>8

-----------------------------------------------------------------------------
\* What LTL formulas mean, by cases.

LEMMA TimesTyped ==
  ASSUME NEW label, NEW w, NEW f \in LtlFormulas, NEW at \in [LtlFormulas -> SUBSET Nat]
  PROVE  Times(label, w, at, f) \in SUBSET Nat
<1>1. CASE f[1] \in {"true", "false", "atom"}
  BY <1>1 DEF Times
<1>2. CASE f[1] \in LtlUnary
  BY <1>2 DEF LtlUnary, Times
<1>3. CASE f[1] \in LtlBinary
  <2>1. at[f[2]] \in SUBSET Nat /\ at[f[3]] \in SUBSET Nat
    BY <1>3, LtlFacts
  <2> QED BY <1>3, <2>1 DEF LtlBinary, Times
<1> QED BY <1>1, <1>2, <1>3, LtlFacts

LEMMA TimesLocal ==
  ASSUME NEW label, NEW w, NEW f \in LtlFormulas, NEW s, NEW t, \A g \in LtlOperands(f) : s[g] = t[g]
  PROVE  Times(label, w, s, f) = Times(label, w, t, f)
<1>1. CASE f[1] \in {"true", "false", "atom"}
  BY <1>1 DEF Times
<1>2. CASE f[1] \in LtlUnary
  <2>1. s[f[2]] = t[f[2]]
    BY <1>2, LtlFacts
  <2> QED BY <1>2, <2>1 DEF LtlUnary, Times
<1>3. CASE f[1] \in LtlBinary
  <2>1. s[f[2]] = t[f[2]] /\ s[f[3]] = t[f[3]]
    BY <1>3, LtlFacts
  <2> QED BY <1>3, <2>1 DEF LtlBinary, Times
<1> QED BY <1>1, <1>2, <1>3, LtlFacts

Held(label, w) == [f \in LtlFormulas |-> HoldsAt(label, w, f)]

LEMMA HoldsAtUnfolds ==
  ASSUME NEW label, NEW w
  PROVE  /\ Held(label, w) \in [LtlFormulas -> SUBSET Nat]
         /\ \A f \in LtlFormulas : HoldsAt(label, w, f) = Times(label, w, Held(label, w), f)
<1> DEFINE V == SUBSET Nat
           F == [LtlFormulas -> V]
           G == [p \in LtlFormulas \X F |-> Times(label, w, p[2], p[1])]
           Is(s) == s = [g \in LtlFormulas |-> Times(label, w, s, g)]
           at == CHOOSE s : Is(s)
<1>1. \A f \in LtlFormulas : \A s \in F : G[<<f, s>>] = Times(label, w, s, f)
  OBVIOUS
<1>2. G \in [LtlFormulas \X F -> V]
  BY TimesTyped
<1> HIDE DEF G
<1>3. Local(LtlFormulas, LtlOperandsOf, V, G)
  BY <1>1, <1>2, TimesLocal DEF Local, LtlOperandsOf
<1>4. {} \in V
  OBVIOUS
<1> HIDE DEF V
<1>5. PICK s : AreValues(LtlFormulas, V, G, s)
  BY <1>3, <1>4, LtlFormulaHeight, RecursiveFunction
<1>6. s \in F /\ \A f \in LtlFormulas : s[f] = Times(label, w, s, f)
  BY <1>1, <1>5 DEF AreValues
<1>7. Is(at)
  <2>1. Is(s)
    BY <1>6
  <2> QED BY <2>1
<1>8. \A f : HoldsAt(label, w, f) = at[f]
  BY DEF HoldsAt
<1> HIDE DEF at
<1>9. at = Held(label, w)
  BY <1>7, <1>8 DEF Held
<1>10. \A f \in LtlFormulas : at[f] = s[f]
  <2> DEFINE S == {f \in LtlFormulas : at[f] = s[f]}
  <2>1. ASSUME NEW f \in LtlFormulas, \A g \in LtlOperands(f) : g \in S PROVE f \in S
    <3>1. \A g \in LtlOperands(f) : at[g] = s[g]
      BY <2>1
    <3>2. Times(label, w, at, f) = Times(label, w, s, f)
      BY <3>1, TimesLocal
    <3> QED BY <1>6, <1>7, <3>2
  <2> HIDE DEF S
  <2>2. LtlFormulas \subseteq S
    BY <2>1, LtlInduction
  <2> QED BY <2>2 DEF S
<1> QED BY <1>6, <1>7, <1>8, <1>9, <1>10 DEF V

-----------------------------------------------------------------------------
\* Infinite paths and the CTL operators.

LEMMA PathFacts ==
  ASSUME NEW d, IsNetlist(d), NEW w \in InfinitePaths(d), NEW t \in Nat
  PROVE  /\ w[t] \in d.constraint /\ w[t] \in Nodes(d) /\ w[t][1] \in Alive(d)
         /\ w[t + 1][1] = d.next[w[t]]
         /\ \A Q : w[t + 1][1] \in Q => w[t][1] \in Before(d, Q)
<1>1. w[t + 1][1] = d.next[w[t]]
  BY DEF InfinitePaths
<1>2. w[t] \in Moves(d)
  BY DEF InfinitePaths
<1>3. w[t] \in d.constraint
  BY <1>2 DEF Moves
<1> QED BY <1>1, <1>2, <1>3 DEF IsNetlist, Alive, Before

LEMMA PathAX ==
  ASSUME NEW d, IsNetlist(d), NEW w \in InfinitePaths(d), NEW t \in Nat, NEW M,
         w[t][1] \in Not(d, Before(d, Not(d, M)))
  PROVE  w[t + 1][1] \in M
BY PathFacts DEF Not

\* Along a path on which A fails, the states that do not lead through states without A
\* to a state without B stay such.
LEMMA PathAR ==
  ASSUME NEW d, IsNetlist(d), NEW w \in InfinitePaths(d), NEW t \in Nat, NEW A, NEW B,
         w[t][1] \in Not(d, Some(d, Not(d, A), Not(d, B))),
         NEW n \in Nat, \A k \in 0 .. n - 1 : w[t + k][1] \notin A
  PROVE  w[t + n][1] \in B
<1> DEFINE E == Some(d, Not(d, A), Not(d, B))
           S == {k \in 0 .. n : w[t + k][1] \notin E}
<1>1. Not(d, B) \subseteq E /\ Not(d, A) \cap Before(d, E) \subseteq E
  <2>1. Not(d, B) \in SUBSET Alive(d)
    BY DEF Not
  <2> QED BY <2>1, SomeUnfolds
<1>2. w[t][1] \notin E
  BY DEF Not
<1> HIDE DEF E
<1>3. \A k \in Nat : t + k \in Nat /\ t + (k + 1) = (t + k) + 1
  OBVIOUS
<1>4. 0 \in S
  BY <1>2
<1>5. ASSUME NEW k \in 0 .. n - 1, k \in S PROVE k + 1 \in S
  <2>1. w[t + k][1] \in Not(d, A) /\ w[t + k][1] \notin E
    BY <1>3, <1>5, PathFacts DEF Not
  <2>2. w[t + k][1] \notin Before(d, E)
    BY <1>1, <2>1
  <2>3. w[t + (k + 1)][1] \notin E
    BY <1>3, <2>2, PathFacts
  <2> QED BY <2>3
<1> HIDE DEF S
<1>6. 0 .. n \subseteq S
  BY <1>4, <1>5, TimeframeInduction
<1>7. w[t + n][1] \notin E /\ w[t + n][1] \in Alive(d)
  <2>1. n \in S
    BY <1>6
  <2>2. w[t + n][1] \in Alive(d)
    BY <1>3, PathFacts
  <2> QED BY <2>1, <2>2 DEF S
<1> QED BY <1>1, <1>7 DEF Not

LEMMA PathAG ==
  ASSUME NEW d, IsNetlist(d), NEW w \in InfinitePaths(d), NEW t \in Nat, NEW M,
         w[t][1] \in Not(d, Some(d, Alive(d), Not(d, M))), NEW j \in Nat, j >= t
  PROVE  w[j][1] \in M
<1>1. w[t][1] \in Not(d, Some(d, Not(d, {}), Not(d, M)))
  <2>1. Not(d, {}) = Alive(d)
    BY DEF Not
  <2> QED BY <2>1
<1>2. PICK n \in Nat : t + n = j
  <2>1. j - t \in Nat /\ t + (j - t) = j
    OBVIOUS
  <2> QED BY <2>1
<1>3. \A k \in 0 .. n - 1 : w[t + k][1] \notin {}
  OBVIOUS
<1>4. w[t + n][1] \in M
  BY <1>1, <1>3, PathAR
<1> QED BY <1>2, <1>4

LEMMA PathAF ==
  ASSUME NEW d, IsNetlist(d), NEW w \in InfinitePaths(d), NEW t \in Nat, NEW M,
         w[t][1] \in Not(d, Ever(d, Not(d, M)))
  PROVE  \E j \in Nat : j >= t /\ w[j][1] \in M
<1>1. SUFFICES ASSUME \A j \in Nat : j >= t => w[j][1] \notin M PROVE FALSE
  OBVIOUS
<1> DEFINE Q == {w[j][1] : j \in {j \in Nat : j >= t}}
<1>2. Q \in SUBSET Alive(d) /\ Q \subseteq Not(d, M)
  BY <1>1, PathFacts DEF Not
<1>3. \A j \in Nat : j >= t => j + 1 \in Nat /\ j + 1 >= t
  OBVIOUS
<1>4. \A j \in Nat : j >= t => w[j + 1][1] \in Q
  BY <1>3
<1>5. \A j \in Nat : j >= t => w[j][1] \in Before(d, Q)
  BY <1>4, PathFacts
<1>6. Q \subseteq Before(d, Q)
  BY <1>5
<1>7. w[t][1] \in Q
  OBVIOUS
<1> HIDE DEF Q
<1>8. w[t][1] \in Ever(d, Not(d, M))
  BY <1>2, <1>6, <1>7, EverUnfolds
<1> QED BY <1>8 DEF Not

-----------------------------------------------------------------------------
\* The mapping.

\* The supported formulas, and what becomes of them.
LEMMA TranslationCases ==
  ASSUME NEW f \in LtlFormulas, LtlToCtl(f) # Unsupported, IsTemporal(f)
  PROVE  /\ \A g \in LtlOperands(f) : LtlToCtl(g) # Unsupported
         /\ \/ f[1] = "and" /\ LtlToCtl(f) = <<"and", LtlToCtl(f[2]), LtlToCtl(f[3])>>
            \/ f[1] = "X"   /\ LtlToCtl(f) = <<"AX", LtlToCtl(f[2])>>
            \/ f[1] = "F"   /\ LtlToCtl(f) = <<"AF", LtlToCtl(f[2])>>
            \/ f[1] = "G"   /\ LtlToCtl(f) = <<"AG", LtlToCtl(f[2])>>
            \/ f[1] = "M"   /\ LtlToCtl(f) = StrongRelease(LtlToCtl(f[2]), LtlToCtl(f[3]))
<1>1. LtlToCtl(f) = Translate(Translation, f)
  BY LtlToCtlUnfolds
<1>2. /\ f[1] \in {"and", "X", "F", "G", "M"}
      /\ \A g \in LtlOperands(f) : Translation[g] # Unsupported
  BY <1>1 DEF Translate
<1>3. \A g \in LtlOperands(f) : g \in LtlFormulas /\ Translation[g] = LtlToCtl(g)
  BY LtlFormulasAssumption DEF Translation
<1>4. CASE f[1] \in {"X", "F", "G"}
  <2>1. f[2] \in LtlOperands(f)
    BY <1>4, LtlFacts DEF LtlUnary
  <2> QED BY <1>1, <1>2, <1>3, <1>4, <2>1 DEF Translate
<1>5. CASE f[1] \in {"and", "M"}
  <2>1. f[2] \in LtlOperands(f) /\ f[3] \in LtlOperands(f)
    BY <1>5, LtlFacts DEF LtlBinary
  <2> QED BY <1>1, <1>2, <1>3, <1>5, <2>1 DEF Translate
<1> QED BY <1>2, <1>3, <1>4, <1>5

\* A formula without temporal operators stays as it is.
LEMMA StateFormulaStays ==
  ASSUME NEW f \in LtlFormulas, ~IsTemporal(f)
  PROVE  /\ LtlToCtl(f) = f /\ f \in Formulas /\ f[1] \in Connectives
         /\ Operands(f) = LtlOperands(f) /\ \A g \in LtlOperands(f) : ~IsTemporal(g)
<1>1. LtlToCtl(f) = f
  BY LtlToCtlUnfolds DEF Translate
<1>2. f # Unsupported
  BY LtlFacts DEF LtlUnary, LtlBinary, Unsupported
<1>3. f \in Formulas
  BY <1>1, <1>2, TranslationAssumption
<1>4. f[1] \in Connectives /\ \A g \in LtlOperands(f) : ~IsTemporal(g)
  BY TemporalAssumption
<1>5. Operands(f) = LtlOperands(f)
  BY <1>4 DEF Connectives, Operands, LtlOperands, Unary, Binary, LtlUnary, LtlBinary
<1> QED BY <1>1, <1>3, <1>4, <1>5

\* It holds at a time of a run iff it holds in the state.
LEMMA StateFormulasOnPaths ==
  ASSUME NEW d, FiniteNetlist(d), NEW label, IsLabel(d, label), NEW w \in InfinitePaths(d)
  PROVE  \A f \in LtlFormulas : ~IsTemporal(f) /\ InputFree(d, label, f) =>
           \A t \in Nat : t \in HoldsAt(label, w, f) <=> w[t][1] \in Meaning(d, label, f)
<1> DEFINE H == Held(label, w)
           M == Meant(d, label)
           Agree(f) == \A t \in Nat : t \in HoldsAt(label, w, f) <=> w[t][1] \in Meaning(d, label, f)
           S == {f \in LtlFormulas : ~IsTemporal(f) /\ InputFree(d, label, f) => Agree(f)}
<1>1. IsNetlist(d)
  BY DEF FiniteNetlist
<1>2. ASSUME NEW f \in LtlFormulas, \A g \in LtlOperands(f) : g \in S, ~IsTemporal(f), InputFree(d, label, f)
      PROVE  Agree(f)
  <2>1. /\ f \in Formulas /\ f[1] \in Connectives /\ Operands(f) = LtlOperands(f)
        /\ \A g \in LtlOperands(f) : ~IsTemporal(g)
    BY <1>2, StateFormulaStays
  <2>2. /\ f[1] = "atom" => StatePredicate(d, label[f[2]])
        /\ \A g \in LtlOperands(f) : InputFree(d, label, g)
    BY <1>2, <2>1, InputFreeUnfolds
  <2>3. \A g \in LtlOperands(f) : Agree(g)
    BY <1>2, <2>1, <2>2
  <2>4. HoldsAt(label, w, f) = Times(label, w, H, f) /\ Meaning(d, label, f) = Interpret(d, label, M, f)
    BY <1>1, <2>1, HoldsAtUnfolds, MeaningUnfolds
  <2>5. \A g \in LtlOperands(f) : g \in LtlFormulas /\ g \in Formulas
    BY <2>1, LtlFormulasAssumption, FormulasAssumption
  <2>6. \A g \in LtlOperands(f) : H[g] = HoldsAt(label, w, g) /\ M[g] = Meaning(d, label, g)
    BY <2>5 DEF Held, Meant
  <2>7. \A g \in LtlOperands(f) : \A t \in Nat : t \in H[g] <=> w[t][1] \in M[g]
    BY <2>3, <2>6
  <2> HIDE DEF H, M
  <2>8. \A t \in Nat : w[t][1] \in Alive(d) /\ w[t] \in Nodes(d)
    BY <1>1, PathFacts
  <2>9. \A t \in Nat : t \in Times(label, w, H, f) <=> w[t][1] \in Interpret(d, label, M, f)
    <3>1. CASE f[1] \in {"true", "false"}
      BY <2>8, <3>1 DEF Times, Interpret
    <3>2. CASE f[1] = "atom"
      <4>1. label[f[2]] \in SUBSET Nodes(d)
        BY <3>2, LtlFacts DEF IsLabel
      <4>2. \A t \in Nat : w[t] \in label[f[2]] <=> \E n \in label[f[2]] : n[1] = w[t][1]
        BY <2>2, <2>8, <3>2, <4>1 DEF StatePredicate
      <4> QED BY <2>8, <3>2, <4>2 DEF Times, Interpret
    <3>3. CASE f[1] = "not"
      <4>1. f[2] \in LtlOperands(f)
        BY <3>3, LtlFacts DEF LtlUnary
      <4> QED BY <2>7, <2>8, <3>3, <4>1 DEF Times, Interpret
    <3>4. CASE f[1] \in {"and", "or", "implies", "iff"}
      <4>1. f[2] \in LtlOperands(f) /\ f[3] \in LtlOperands(f)
        BY <3>4, LtlFacts DEF LtlBinary
      <4> QED BY <2>7, <2>8, <3>4, <4>1 DEF Times, Interpret
    <3> QED BY <2>1, <3>1, <3>2, <3>3, <3>4 DEF Connectives
  <2> QED BY <2>4, <2>9
<1> HIDE DEF Agree
<1>3. \A f \in LtlFormulas : (\A g \in LtlOperands(f) : g \in S) => f \in S
  BY <1>2
<1> HIDE DEF S
<1>4. LtlFormulas \subseteq S
  BY <1>3, LtlInduction
<1> QED BY <1>4 DEF S, Agree

\* The translation of an operand: what the CTL formula of an operator is made of.
LEMMA OperandFormulas ==
  ASSUME NEW d, NEW label, NEW a \in Formulas, InputFree(d, label, a)
  PROVE  /\ a[1] \in {"AX", "AF", "AG"} => a[2] \in Formulas /\ InputFree(d, label, a[2])
         /\ a[1] \in {"and", "AR"} => /\ a[2] \in Formulas /\ InputFree(d, label, a[2])
                                      /\ a[3] \in Formulas /\ InputFree(d, label, a[3])
<1>1. a[1] \in {"AX", "AF", "AG"} => a[2] \in Operands(a)
  BY FormulaFacts DEF Unary
<1>2. a[1] \in {"and", "AR"} => a[2] \in Operands(a) /\ a[3] \in Operands(a)
  BY FormulaFacts DEF Binary
<1>3. \A g \in Operands(a) : g \in Formulas /\ InputFree(d, label, g)
  BY InputFreeUnfolds, FormulasAssumption
<1> QED BY <1>1, <1>2, <1>3

LEMMA MeaningCases ==
  ASSUME NEW d, IsNetlist(d), NEW label, NEW a \in Formulas
  PROVE  /\ a[1] = "and" => Meaning(d, label, a) = Meaning(d, label, a[2]) \cap Meaning(d, label, a[3])
         /\ a[1] = "AX"  => Meaning(d, label, a) = Not(d, Before(d, Not(d, Meaning(d, label, a[2]))))
         /\ a[1] = "AG"  => Meaning(d, label, a) = Not(d, Some(d, Alive(d), Not(d, Meaning(d, label, a[2]))))
         /\ a[1] = "AF"  => Meaning(d, label, a) = Not(d, Ever(d, Not(d, Meaning(d, label, a[2]))))
         /\ a[1] = "AR"  => Meaning(d, label, a) = Not(d, Some(d, Not(d, Meaning(d, label, a[2])), Not(d, Meaning(d, label, a[3]))))
<1> DEFINE M == Meant(d, label)
<1>1. Meaning(d, label, a) = Interpret(d, label, M, a)
  BY MeaningUnfolds
<1>2. a[1] \in {"AX", "AF", "AG"} => M[a[2]] = Meaning(d, label, a[2])
  <2>1. a[1] \in {"AX", "AF", "AG"} => a[2] \in Formulas
    BY FormulaFacts DEF Unary
  <2> QED BY <2>1 DEF Meant
<1>3. a[1] \in {"and", "AR"} => M[a[2]] = Meaning(d, label, a[2]) /\ M[a[3]] = Meaning(d, label, a[3])
  <2>1. a[1] \in {"and", "AR"} => a[2] \in Formulas /\ a[3] \in Formulas
    BY FormulaFacts DEF Binary
  <2> QED BY <2>1 DEF Meant
<1> HIDE DEF M
<1> QED BY <1>1, <1>2, <1>3 DEF Interpret, Not

\* A strong release: what AF a and AR a b say of a run.
LEMMA PathRelease ==
  ASSUME NEW d, IsNetlist(d), NEW w \in InfinitePaths(d), NEW t \in Nat, NEW A, NEW B,
         w[t][1] \in Not(d, Ever(d, Not(d, A))),
         w[t][1] \in Not(d, Some(d, Not(d, A), Not(d, B)))
  PROVE  \E j \in Nat : j >= t /\ w[j][1] \in A /\ \A k \in Nat : t <= k /\ k <= j => w[k][1] \in B
<1> DEFINE S == {j \in Nat : j >= t /\ w[j][1] \in A}
<1>1. S # {} /\ S \subseteq Nat
  BY PathAF
<1>2. PICK j \in S : \A m \in S : j <= m
  BY <1>1, LeastNumber
<1>3. j \in Nat /\ j >= t /\ w[j][1] \in A /\ \A k \in Nat : t <= k /\ k < j => w[k][1] \notin A
  BY <1>2
<1> HIDE DEF S
<1>4. ASSUME NEW k \in Nat, t <= k, k <= j PROVE w[k][1] \in B
  <2>1. k - t \in Nat /\ t + (k - t) = k
    BY <1>4
  <2>2. ASSUME NEW i \in 0 .. (k - t) - 1 PROVE w[t + i][1] \notin A
    <3>1. t + i \in Nat /\ t <= t + i /\ t + i < j
      BY <1>3, <1>4, <2>1
    <3> QED BY <1>3, <3>1
  <2>3. w[t + (k - t)][1] \in B
    BY <2>1, <2>2, PathAR
  <2> QED BY <2>1, <2>3
<1> QED BY <1>3, <1>4

\* The mapping of LTL to CTL is sound: on every netlist with finitely many nodes, an
\* infinite run that comes through a state in which the CTL formula holds satisfies the
\* LTL formula from there on.
THEOREM LtlMappingIsSound ==
  ASSUME NEW d, FiniteNetlist(d), NEW label, IsLabel(d, label), NEW w \in InfinitePaths(d),
         NEW f \in LtlFormulas, LtlToCtl(f) # Unsupported, InputFree(d, label, LtlToCtl(f)),
         NEW t \in Nat, w[t][1] \in Meaning(d, label, LtlToCtl(f))
  PROVE  t \in HoldsAt(label, w, f)
<1> DEFINE At(g) == Meaning(d, label, LtlToCtl(g))
           Sound(g) == \A n \in Nat : w[n][1] \in At(g) => n \in HoldsAt(label, w, g)
           S == {g \in LtlFormulas : LtlToCtl(g) # Unsupported /\ InputFree(d, label, LtlToCtl(g)) => Sound(g)}
           H == Held(label, w)
<1>1. IsNetlist(d)
  BY DEF FiniteNetlist
<1>2. ASSUME NEW g \in LtlFormulas, \A h \in LtlOperands(g) : h \in S,
             LtlToCtl(g) # Unsupported, InputFree(d, label, LtlToCtl(g))
      PROVE  Sound(g)
  <2> DEFINE a == LtlToCtl(g)
  <2>1. HoldsAt(label, w, g) = Times(label, w, H, g) /\ H \in [LtlFormulas -> SUBSET Nat]
    BY HoldsAtUnfolds
  <2>2. a \in Formulas
    BY <1>2, TranslationAssumption
  <2>3. CASE ~IsTemporal(g)
    BY <1>2, <2>3, StateFormulaStays, StateFormulasOnPaths
  <2>4. ASSUME NEW h \in LtlOperands(g), IsTemporal(g), LtlToCtl(h) \in Formulas, InputFree(d, label, LtlToCtl(h))
        PROVE  h \in LtlFormulas /\ \A n \in Nat : w[n][1] \in At(h) => n \in H[h]
    <3>1. h \in LtlFormulas /\ H[h] = HoldsAt(label, w, h)
      BY LtlFormulasAssumption DEF Held
    <3>2. LtlToCtl(h) # Unsupported
      BY <1>2, <2>4, TranslationCases
    <3> QED BY <1>2, <2>4, <3>1, <3>2
  <2>5. CASE IsTemporal(g) /\ g[1] \in {"X", "F", "G"}
    <3> DEFINE M == At(g[2])
    <3>1. /\ \/ g[1] = "X" /\ a = <<"AX", LtlToCtl(g[2])>>
             \/ g[1] = "F" /\ a = <<"AF", LtlToCtl(g[2])>>
             \/ g[1] = "G" /\ a = <<"AG", LtlToCtl(g[2])>>
          /\ g[2] \in LtlOperands(g)
      BY <1>2, <2>5, TranslationCases, LtlFacts DEF LtlUnary
    <3>2. a[1] \in {"AX", "AF", "AG"} /\ a[2] = LtlToCtl(g[2])
      BY <3>1
    <3>3. \A n \in Nat : w[n][1] \in M => n \in H[g[2]]
      BY <1>2, <2>2, <2>4, <2>5, <3>1, <3>2, OperandFormulas
    <3>4. /\ g[1] = "X" => At(g) = Not(d, Before(d, Not(d, M)))
          /\ g[1] = "F" => At(g) = Not(d, Ever(d, Not(d, M)))
          /\ g[1] = "G" => At(g) = Not(d, Some(d, Alive(d), Not(d, M)))
      BY <1>1, <2>2, <3>1, MeaningCases
    <3> HIDE DEF M, At, H
    <3>5. CASE g[1] = "X"
      <4>1. ASSUME NEW n \in Nat, w[n][1] \in At(g) PROVE n + 1 \in H[g[2]]
        BY <1>1, <3>3, <3>4, <3>5, <4>1, PathAX
      <4> QED BY <2>1, <3>5, <4>1 DEF Times
    <3>6. CASE g[1] = "F"
      <4>1. ASSUME NEW n \in Nat, w[n][1] \in At(g) PROVE \E j \in Nat : j >= n /\ j \in H[g[2]]
        BY <1>1, <3>3, <3>4, <3>6, <4>1, PathAF
      <4> QED BY <2>1, <3>6, <4>1 DEF Times, Until
    <3>7. CASE g[1] = "G"
      <4>1. ASSUME NEW n \in Nat, w[n][1] \in At(g), NEW j \in Nat, j >= n PROVE j \in H[g[2]]
        BY <1>1, <3>3, <3>4, <3>7, <4>1, PathAG
      <4> QED BY <2>1, <3>7, <4>1 DEF Times, Always
    <3> QED BY <2>5, <3>5, <3>6, <3>7
  <2>6. CASE IsTemporal(g) /\ g[1] = "and"
    <3>1. a = <<"and", LtlToCtl(g[2]), LtlToCtl(g[3])>> /\ g[2] \in LtlOperands(g) /\ g[3] \in LtlOperands(g)
      BY <1>2, <2>6, TranslationCases, LtlFacts DEF LtlBinary
    <3>2. a[1] = "and" /\ a[2] = LtlToCtl(g[2]) /\ a[3] = LtlToCtl(g[3])
      BY <3>1
    <3>3. \A n \in Nat : (w[n][1] \in At(g[2]) => n \in H[g[2]]) /\ (w[n][1] \in At(g[3]) => n \in H[g[3]])
      BY <1>2, <2>2, <2>4, <2>6, <3>1, <3>2, OperandFormulas
    <3>4. At(g) = At(g[2]) \cap At(g[3])
      BY <1>1, <2>2, <3>2, MeaningCases
    <3> HIDE DEF At, H
    <3> QED BY <2>1, <2>6, <3>3, <3>4 DEF Times
  <2>7. CASE IsTemporal(g) /\ g[1] = "M"
    <3> DEFINE A == At(g[2])
               B == At(g[3])
    <3>1. a = StrongRelease(LtlToCtl(g[2]), LtlToCtl(g[3])) /\ g[2] \in LtlOperands(g) /\ g[3] \in LtlOperands(g)
      BY <1>2, <2>7, TranslationCases, LtlFacts DEF LtlBinary
    <3>2. /\ a[1] = "and"
          /\ a[2] = <<"AF", LtlToCtl(g[2])>> /\ a[2][1] = "AF" /\ a[2][2] = LtlToCtl(g[2])
          /\ a[3] = <<"AR", LtlToCtl(g[2]), LtlToCtl(g[3])>>
          /\ a[3][1] = "AR" /\ a[3][2] = LtlToCtl(g[2]) /\ a[3][3] = LtlToCtl(g[3])
      BY <3>1 DEF StrongRelease
    <3>3. /\ a[2] \in Formulas /\ InputFree(d, label, a[2])
          /\ a[3] \in Formulas /\ InputFree(d, label, a[3])
      BY <1>2, <2>2, <3>2, OperandFormulas
    <3>4. /\ LtlToCtl(g[2]) \in Formulas /\ InputFree(d, label, LtlToCtl(g[2]))
          /\ LtlToCtl(g[3]) \in Formulas /\ InputFree(d, label, LtlToCtl(g[3]))
      BY <3>2, <3>3, OperandFormulas
    <3>5. \A n \in Nat : (w[n][1] \in A => n \in H[g[2]]) /\ (w[n][1] \in B => n \in H[g[3]])
      BY <2>4, <2>7, <3>1, <3>4
    <3>6. At(g) = Not(d, Ever(d, Not(d, A))) \cap Not(d, Some(d, Not(d, A), Not(d, B)))
      <4>1. At(g) = Meaning(d, label, a[2]) \cap Meaning(d, label, a[3])
        BY <1>1, <2>2, <3>2, MeaningCases
      <4>2. Meaning(d, label, a[2]) = Not(d, Ever(d, Not(d, A)))
        BY <1>1, <3>2, <3>3, MeaningCases
      <4>3. Meaning(d, label, a[3]) = Not(d, Some(d, Not(d, A), Not(d, B)))
        BY <1>1, <3>2, <3>3, MeaningCases
      <4> QED BY <4>1, <4>2, <4>3
    <3> HIDE DEF A, B, At, H
    <3>7. ASSUME NEW n \in Nat, w[n][1] \in At(g) PROVE Until(H[g[3]], H[g[2]] \cap H[g[3]], n)
      <4>1. PICK j \in Nat : j >= n /\ w[j][1] \in A /\ \A k \in Nat : n <= k /\ k <= j => w[k][1] \in B
        BY <1>1, <3>6, <3>7, PathRelease
      <4>2. n <= j /\ j <= j
        BY <4>1
      <4>3. j \in H[g[2]] \cap H[g[3]]
        BY <3>5, <4>1, <4>2
      <4>4. \A k \in Nat : n <= k /\ k < j => k \in H[g[3]]
        BY <3>5, <4>1
      <4> QED BY <4>1, <4>3, <4>4 DEF Until
    <3> QED BY <2>1, <2>7, <3>7 DEF Times
  <2>8. IsTemporal(g) => g[1] \in {"and", "X", "F", "G", "M"}
    BY <1>2, TranslationCases
  <2> QED BY <2>3, <2>5, <2>6, <2>7, <2>8
<1> HIDE DEF Sound
<1>3. \A g \in LtlFormulas : (\A h \in LtlOperands(g) : h \in S) => g \in S
  BY <1>2
<1> HIDE DEF S
<1>4. LtlFormulas \subseteq S
  BY <1>3, LtlInduction
<1> QED BY <1>4 DEF S, Sound

=============================================================================
