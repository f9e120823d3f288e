------------------------------- MODULE BddSemantics -------------------------------
(***************************************************************************)
(* What the BDD engine does to properties before it maps them to CTL: the  *)
(* normalisation, and the mapping of SVA to LTL.  And what properties      *)
(* mean: CTL on the states of the netlist, LTL and SVA on its runs.        *)
(*                                                                         *)
(* Formulas are those of TemporalFormula, and CTL formulas of the same     *)
(* form, such as <<"AG", f>>.                                              *)
(***************************************************************************)
EXTENDS BddEngine

CONSTANT Horizon   \* the longest lasso that the reference semantics looks at

\* The only sequences here are those of one state predicate, <<"boolean", p>>.
OneState(s)   == s
IsOneState(s) == s[1] = "boolean"
OneMatch(s)   == {<<s[2]>>}
OneEnd(pi, s, t, last) == {e \in {t} : s[2][2] \in pi[t]}
TF == INSTANCE TemporalFormula
        WITH Ends <- OneEnd, TrivialSequence <- OneState, LtlSequence <- IsOneState, LtlMatches <- OneMatch

-----------------------------------------------------------------------------
\* normalize_property(), and has_temporal_operator().
NormalizeProperty(f) == TF!Normalize(f)
HasTemporalOperator(f) == TF!Temporal(f)

\* SVA_to_LTL
SvaConverted(f) == IF TF!SvaToLtlSupported(f) THEN TF!SvaToLtl(f) ELSE Unsupported

-----------------------------------------------------------------------------
(***************************************************************************)
(* What the properties mean.                                               *)
(***************************************************************************)

\* The infinite runs within the constraints, as words over the atoms.
Words(d, label) ==
  LET letter(n) == {a \in Atoms : n \in label[a]}
      lassos(n) ==
        {w \in {Unwind(d, s, u, n + 1) : s \in d.init, u \in [0 .. n -> Inputs]} :
           \A t \in 0 .. n : w[t] \in Moves(d)}
  IN  UNION {UNION {{TF!Word([t \in 0 .. n - 1 |-> letter(w[t])], k) :
                       k \in {k \in 0 .. n - 1 : w[k] = w[n]}} : w \in lassos(n)} : n \in 1 .. Horizon}

\* The netlist without the moves that leave S; the states from which a run goes on for ever.
Within(d, S) == [d EXCEPT !.constraint = Moves(d) \ {n \in Moves(d) : n[1] \notin S \/ d.next[n] \notin S}]
Endless(d)   == Ever(d, Alive(d))

\* Every run that goes on for ever and meets the assumptions has the property; the path
\* quantifiers of CTL are about such runs too, and come without assumptions.
TrueOf(pr, i) ==
  LET p    == pr.props[i]
      net  == [init |-> pr.init, next |-> pr.next, constraint |-> pr.constraint, transition |-> pr.transition]
      fair == {w \in Words(net, pr.label) :
                 \A j \in DOMAIN pr.props : pr.props[j].role = "assume" => TF!Satisfies(w, pr.props[j].expr)}
  IN  IF p.lang = "CTL"
      THEN \E S \in {Endless(net)} :
             LiveInit(Within(net, S)) \subseteq Meaning(Within(net, S), pr.label, p.expr)
      ELSE \A w \in fair : TF!Satisfies(w, p.expr)

TrueProperties ==
  UNION {{<<pr, i>> : i \in {i \in DOMAIN pr.props : TrueOf(pr, i)}} : pr \in Problems}

IsTrue(i) == <<problem, i>> \in TrueProperties

(***************************************************************************)
(* Properties.                                                             *)
(***************************************************************************)

\* No quantifier over some path.
Universal(f) ==
  LET u[g \in Formulas] ==
        IsTemporal(g) => g[1] \in {"and", "or", "AX", "AF", "AG", "AU", "AR"} /\ \A h \in Operands(g) : u[h]
  IN  u[f]

\* What the fixpoints prove holds on every run that meets the assumptions; a cover
\* that they refute is covered by no run.  A CTL formula about some path may be proved by
\* a path to a dead end, and a translated property by several assumptions of liveness.
ProvedIsRight ==
  \A i \in Ids :
    /\ ~IsAssumption(i) /\ props[i].status = HoldsVerdict(i)
    /\ P(i).lang = "CTL" => Universal(P(i).expr) \/ EveryStateMovesOn(BddNet)
    /\ Translates => AtMostOneRecurs
    => IsTrue(i)

\* No state is a dead end, nor one under the inputs that a formula reads.
NoDeadEnd(f) ==
  /\ EveryStateMovesOn(BddNet)
  /\ InputFree(BddNet, problem.label, f) \/ BddNet.constraint \subseteq BddNet.transition

\* What the engine refutes does not hold, unless an assumption was left out, or there are
\* dead ends: only the translated properties are refuted with runs that go on for ever.
RefutedIsRight ==
  Translates \/ (\A i \in Ids : IsAssumption(i) => Usable(i)) =>
    \A i \in Ids :
      /\ ~IsAssumption(i) /\ props[i].status = ViolatedVerdict(i)
      /\ Translates \/ NoDeadEnd(Formula(i))
      => ~IsTrue(i)

\* "finite deadend branches do not falsify universal properties" (AFAG_deadend1.desc)
DeadEndsDoNotFalsify ==
  \A i \in Ids :
    P(i).lang = "CTL" /\ Universal(P(i).expr) /\ props[i].status = "REFUTED" => ~IsTrue(i)

=============================================================================
