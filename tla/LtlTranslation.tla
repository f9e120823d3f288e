------------------------------ MODULE LtlTranslation ------------------------------
(***************************************************************************)
(* The mapping of LTL to CTL (LTL_to_CTL), next to what LTL formulas mean  *)
(* on the infinite runs of a netlist.                                      *)
(*                                                                         *)
(* LTL formulas are tuples as well, such as <<"G", f>>; U and W are the    *)
(* strong and the weak until, M and R the strong and the weak release.     *)
(***************************************************************************)
EXTENDS CtlFixpoints

CONSTANTS LtlFormulas,     \* the LTL formulas that the engine is given, with their operands
          LtlHeight,       \* the height of a formula
          IsTemporal(_)    \* has_temporal_operator()

LtlUnary  == {"not", "X", "F", "G"}
LtlBinary == {"and", "or", "implies", "iff", "U", "W", "R", "M"}

LtlOperands(f) ==
  CASE f[1] \in LtlUnary  -> {f[2]}
    [] f[1] \in LtlBinary -> {f[2], f[3]}
    [] OTHER              -> {}

ASSUME LtlFormulasAssumption ==
  /\ LtlHeight \in [LtlFormulas -> Nat]
  /\ \A f \in LtlFormulas :
       /\ f[1] \in {"true", "false", "atom"} \cup LtlUnary \cup LtlBinary
       /\ f[1] = "atom" => f[2] \in Atoms
       /\ \A g \in LtlOperands(f) : g \in LtlFormulas /\ LtlHeight[g] < LtlHeight[f]

\* A formula is temporal if its operator is, or one of its operands.
ASSUME TemporalAssumption ==
  /\ \A f \in Formulas : IsTemporal(f) <=> f[1] \notin Connectives \/ \E g \in Operands(f) : IsTemporal(g)
  /\ \A f \in LtlFormulas : IsTemporal(f) <=> f[1] \notin Connectives \/ \E g \in LtlOperands(f) : IsTemporal(g)

-----------------------------------------------------------------------------
Unsupported == <<"unsupported">>

\* A slip: the weak release, without the eventuality.
WeakRelease(f, g) == <<"AR", f, g>>

StrongRelease(f, g) == <<"and", <<"AF", f>>, <<"AR", f, g>>>>

\* LTL_to_CTL, one formula, given what its operands become.
Translate(ctl, f) ==
  IF ~IsTemporal(f) THEN f
  ELSE IF f[1] \notin {"and", "X", "F", "G", "M"} \/ \E g \in LtlOperands(f) : ctl[g] = Unsupported THEN Unsupported
  ELSE CASE f[1] = "and" -> <<"and", ctl[f[2]], ctl[f[3]]>>
         [] f[1] = "X"   -> <<"AX", ctl[f[2]]>>
         [] f[1] = "F"   -> <<"AF", ctl[f[2]]>>
         [] f[1] = "G"   -> <<"AG", ctl[f[2]]>>
         [] f[1] = "M"   -> StrongRelease(ctl[f[2]], ctl[f[3]])

LtlToCtl(f) ==
  LET ctl[g \in LtlFormulas] == Translate(ctl, g) IN ctl[f]

\* What becomes of a formula is among the CTL formulas with a meaning.
ASSUME TranslationAssumption == \A f \in LtlFormulas : LtlToCtl(f) \in Formulas \cup {Unsupported}

-----------------------------------------------------------------------------
(***************************************************************************)
(* What LTL formulas mean: the times of an infinite run at which they      *)
(* hold.                                                                   *)
(***************************************************************************)

\* The infinite runs of d: its moves, one after the other, from an initial state.
InfinitePaths(d) == {w \in [Nat -> Moves(d)] : \A t \in Nat : w[t + 1][1] = d.next[w[t]]}
Runs(d) == {w \in InfinitePaths(d) : w[0][1] \in d.init}

\* a holds until b does, from time t on.
Until(a, b, t) == \E j \in Nat : j >= t /\ j \in b /\ \A k \in Nat : t <= k /\ k < j => k \in a
Always(a, t)   == \A j \in Nat : j >= t => j \in a

Times(label, w, at, f) ==
  CASE f[1] = "true"    -> Nat
    [] f[1] = "false"   -> {}
    [] f[1] = "atom"    -> {t \in Nat : w[t] \in label[f[2]]}
    [] f[1] = "not"     -> Nat \ at[f[2]]
    [] f[1] = "and"     -> at[f[2]] \cap at[f[3]]
    [] f[1] = "or"      -> at[f[2]] \cup at[f[3]]
    [] f[1] = "implies" -> (Nat \ at[f[2]]) \cup at[f[3]]
    [] f[1] = "iff"     -> {t \in Nat : t \in at[f[2]] <=> t \in at[f[3]]}
    [] f[1] = "X"       -> {t \in Nat : t + 1 \in at[f[2]]}
    [] f[1] = "F"       -> {t \in Nat : Until(Nat, at[f[2]], t)}
    [] f[1] = "G"       -> {t \in Nat : Always(at[f[2]], t)}
    [] f[1] = "U"       -> {t \in Nat : Until(at[f[2]], at[f[3]], t)}
    [] f[1] = "W"       -> {t \in Nat : Until(at[f[2]], at[f[3]], t) \/ Always(at[f[2]], t)}
    [] f[1] = "M"       -> {t \in Nat : Until(at[f[3]], at[f[2]] \cap at[f[3]], t)}
    [] f[1] = "R"       -> {t \in Nat : Until(at[f[3]], at[f[2]] \cap at[f[3]], t) \/ Always(at[f[3]], t)}

\* The times of the run w at which f holds.
HoldsAt(label, w, f) ==
  LET at[g \in LtlFormulas] == Times(label, w, at, g) IN at[f]

=============================================================================
