------------------------------- MODULE CtlFixpoints -------------------------------
(***************************************************************************)
(* The CTL part of the BDD engine: the fixpoints of bdd_model_checkert and *)
(* the evaluation of formulas by bdd_enginet::CTL, next to what CTL        *)
(* formulas mean on the states of the netlist.                             *)
(*                                                                         *)
(* A formula is a tuple that starts with its operator, such as             *)
(* <<"AG", f>>.  The evaluation is a recursive function over a set of      *)
(* formulas that has the operands of its members, which are lower.         *)
(***************************************************************************)
EXTENDS BddReachability, FiniteSets

CONSTANTS Atoms,      \* the state predicates of the properties
          Formulas,   \* the CTL formulas that the engine evaluates, with their operands
          Height      \* the height of a formula

Connectives == {"true", "false", "atom", "not", "and", "or", "implies", "iff"}
Unary  == {"not", "EX", "EF", "EG", "AX", "AF", "AG"}
Binary == {"and", "or", "implies", "iff", "EU", "AU", "ER", "AR"}

Operands(f) ==
  CASE f[1] \in Unary  -> {f[2]}
    [] f[1] \in Binary -> {f[2], f[3]}
    [] OTHER           -> {}

ASSUME FormulasAssumption ==
  /\ Height \in [Formulas -> Nat]
  /\ \A f \in Formulas :
       /\ f[1] \in {"true", "false", "atom"} \cup Unary \cup Binary
       /\ f[1] = "atom" => f[2] \in Atoms
       /\ \A g \in Operands(f) : g \in Formulas /\ Height[g] < Height[f]

\* A BDD has finitely many variables.
ASSUME FinitenessAssumption == IsFiniteSet(Latches) /\ IsFiniteSet(Inputs)

-----------------------------------------------------------------------------
\* bdd_model_checkert.

\* x, tau(x), tau(tau(x)) and so on, until nothing changes.
fixedpoint(d, tau, x) ==
  LET turn[n \in Nat] == IF n = 0 THEN x ELSE tau[turn[n - 1]]
  IN  turn[CHOOSE n \in 0 .. Cardinality(Nodes(d)) : turn[n + 1] = turn[n]]

EF(d, f)    == fixedpoint(d, [x \in SUBSET Nodes(d) |-> x \cup EX(d, x)], f)
EG(d, f)    == fixedpoint(d, [x \in SUBSET Nodes(d) |-> x \cap EX(d, x)], f)
EU(d, f, g) == fixedpoint(d, [x \in SUBSET Nodes(d) |-> x \cup g \cup (f \cap EX(d, x))], g)

AX(d, f) == Nodes(d) \ EX(d, Nodes(d) \ f)

\* A slip: one successor is enough.
AUOnSomePath(d, f, g) == EU(d, f, g)

AU(d, f, g) == fixedpoint(d, [x \in SUBSET Nodes(d) |-> x \cup g \cup (f \cap AX(d, x))], g)

\* bdd_enginet::CTL, one formula, given the sets of its operands.
Evaluate(d, label, sat, f) ==
  LET N(s) == Nodes(d) \ s
  IN  CASE f[1] = "true"    -> Nodes(d)
        [] f[1] = "false"   -> {}
        [] f[1] = "atom"    -> label[f[2]]
        [] f[1] = "not"     -> N(sat[f[2]])
        [] f[1] = "and"     -> sat[f[2]] \cap sat[f[3]]
        [] f[1] = "or"      -> sat[f[2]] \cup sat[f[3]]
        [] f[1] = "implies" -> N(sat[f[2]]) \cup sat[f[3]]
        [] f[1] = "iff"     -> {n \in Nodes(d) : n \in sat[f[2]] <=> n \in sat[f[3]]}
        [] f[1] = "EX"      -> EX(d, sat[f[2]])
        [] f[1] = "EF"      -> EF(d, sat[f[2]])
        [] f[1] = "EG"      -> EG(d, sat[f[2]])
        [] f[1] = "AX"      -> AX(d, sat[f[2]])
        [] f[1] = "AF"      -> N(EG(d, N(sat[f[2]])))
        [] f[1] = "AG"      -> N(EF(d, N(sat[f[2]])))
        [] f[1] = "EU"      -> EU(d, sat[f[2]], sat[f[3]])
        [] f[1] = "AU"      -> AU(d, sat[f[2]], sat[f[3]])
        [] f[1] = "ER"      -> N(AU(d, N(sat[f[2]]), N(sat[f[3]])))
        [] f[1] = "AR"      -> N(EU(d, N(sat[f[2]]), N(sat[f[3]])))

\* The nodes of d that satisfy a formula.
CTL(d, label, f) ==
  LET sat[g \in Formulas] == Evaluate(d, label, sat, g) IN sat[f]

-----------------------------------------------------------------------------
(***************************************************************************)
(* What CTL formulas mean, on the states that have an allowed input: with  *)
(* steps from state to state (Before) in the place of BDDs over nodes, and *)
(* the fixpoints given as the smallest and the largest sets.  Dead ends    *)
(* are states like the others: EX is false in them and AX true, a path to  *)
(* a dead end counts for EF and AG, and EG asks for a path that goes on.   *)
(***************************************************************************)

\* Some path through G to H, and some path in G that does not end.
Some(d, G, H) ==
  {s \in Alive(d) : \A Q \in SUBSET Alive(d) : H \subseteq Q /\ G \cap Before(d, Q) \subseteq Q => s \in Q}
Ever(d, G) == UNION {Q \in SUBSET Alive(d) : Q \subseteq G /\ Q \subseteq Before(d, Q)}

Interpret(d, label, M, f) ==
  LET Not(S) == Alive(d) \ S
  IN  CASE f[1] = "true"    -> Alive(d)
        [] f[1] = "false"   -> {}
        [] f[1] = "atom"    -> {s \in Alive(d) : \E n \in label[f[2]] : n[1] = s}
        [] f[1] = "not"     -> Not(M[f[2]])
        [] f[1] = "and"     -> M[f[2]] \cap M[f[3]]
        [] f[1] = "or"      -> M[f[2]] \cup M[f[3]]
        [] f[1] = "implies" -> Not(M[f[2]]) \cup M[f[3]]
        [] f[1] = "iff"     -> {s \in Alive(d) : s \in M[f[2]] <=> s \in M[f[3]]}
        [] f[1] = "EX"      -> Before(d, M[f[2]])
        [] f[1] = "AX"      -> Not(Before(d, Not(M[f[2]])))
        [] f[1] = "EF"      -> Some(d, Alive(d), M[f[2]])
        [] f[1] = "AG"      -> Not(Some(d, Alive(d), Not(M[f[2]])))
        [] f[1] = "EG"      -> Ever(d, M[f[2]])
        [] f[1] = "AF"      -> Not(Ever(d, Not(M[f[2]])))
        [] f[1] = "EU"      -> Some(d, M[f[2]], M[f[3]])
        [] f[1] = "AR"      -> Not(Some(d, Not(M[f[2]]), Not(M[f[3]])))
        [] f[1] = "AU"      -> Not(Some(d, Not(M[f[3]]), Not(M[f[2]] \cup M[f[3]])) \cup Ever(d, Not(M[f[3]])))
        [] f[1] = "ER"      -> Some(d, M[f[3]], M[f[2]] \cap M[f[3]]) \cup Ever(d, M[f[3]])

\* The states of d in which a formula holds.
Meaning(d, label, f) ==
  LET M[g \in Formulas] == Interpret(d, label, M, g) IN M[f]

\* The predicates in a formula do not read the inputs, so that they are about states.
InputFree(d, label, f) ==
  LET free[g \in Formulas] ==
        /\ g[1] = "atom" => \A m, n \in Nodes(d) : m[1] = n[1] => (m \in label[g[2]] <=> n \in label[g[2]])
        /\ \A h \in Operands(g) : free[h]
  IN  free[f]

=============================================================================
