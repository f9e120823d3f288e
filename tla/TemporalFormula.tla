----------------------------- MODULE TemporalFormula -----------------------------
(***************************************************************************)
(* Temporal properties: their syntax, what they mean on infinite words,    *)
(* the two rewritings that come before they are unwound,                   *)
(* normalize_property() and property_nnf(), and the one that comes before  *)
(* they are given to other engines, SVA_to_LTL().                          *)
(*                                                                         *)
(* A formula is a tuple that starts with its operator.  LTL and SVA        *)
(* operators that the code treats alike share a name: G stands for         *)
(* `always`, F for s_eventually, U for s_until, W for until, R for         *)
(* until_with and M for s_until_with with the operands swapped.  The       *)
(* ranged operators carry their bounds: <<"always", m, n, f>>.  The        *)
(* sequence operators have a sequence on the left: <<"|->", s, f>>; what   *)
(* there is to know of sequences comes with the constants, but for the     *)
(* sequence <<"boolean", b>> of one state predicate.                       *)
(***************************************************************************)
EXTENDS Integers, FiniteSets, SequencesExt

CONSTANTS Ends(_, _, _, _),     \* where the matches of a sequence end, by the standard
          TrivialSequence(_),   \* a sequence with what trivial_sva() does to it
          LtlSequence(_),       \* are the matches known, and finitely many?
          LtlMatches(_)         \* LTL_sequence_matches()

True == <<"true">>
Negation(f) == <<"not", f>>

Unary   == {"not", "X", "G", "F", "nexttime", "s_nexttime", "cover"}
Binary  == {"and", "or", "implies", "iff", "U", "W", "R", "M"}
Ranged  == {"always", "s_always", "eventually", "s_eventually"}
SequenceProperty == {"weak", "strong"}
Conditional == {"|->", "|=>", "#-#", "#=#"}

\* Words.  A word stands for the infinite sequence of letters that continues from
\* its last letter with the letter at `loop`.
Word(letters, loop) == [letters |-> letters, loop |-> loop]

End(w) == Cardinality(DOMAIN w.letters) - 1

\* The index into w.letters of the letter at time i.
At(w, i) == IF i <= End(w) THEN i ELSE w.loop + ((i - w.loop) % (End(w) + 1 - w.loop))

\* Times that include every letter that the word still has after time i.
From(w, i) == i .. i + End(w)

\* The letters ahead of time i, enough of them for a match that goes round the
\* loop once more than the word does, and the ends of the matches in them.
LookAhead(w)  == 2 * End(w) + 3
Ahead(w, i) == [k \in 0 .. LookAhead(w) |-> w.letters[At(w, i + k)]]
EndsAhead(w, s, i) == Ends(Ahead(w, i), s, 0, LookAhead(w))

\* Every sequence here can be completed in that many ticks.
Completion == 4

\* The LTL and SVA semantics on infinite words; a ranged operator asks nothing
\* beyond its range, and on an infinite word its weak and strong forms agree.  A
\* weak sequence asks that no prefix of the word rules out a match.
RECURSIVE Holds(_, _, _)
Holds(w, f, i) ==
  LET H(g, j)     == Holds(w, g, At(w, j))
      ends        == IF f[2][1] = "boolean" THEN {e \in {0} : H(f[2][2], i)} ELSE EndsAhead(w, f[2], i)
      Until(a, b) == \E j \in From(w, i) : H(b, j) /\ \A k \in i .. j - 1 : H(a, k)
  IN  CASE f[1] = "true"    -> TRUE
        [] f[1] = "atom"    -> f[2] \in w.letters[i]
        [] f[1] = "not"     -> ~H(f[2], i)
        [] f[1] = "and"     -> H(f[2], i) /\ H(f[3], i)
        [] f[1] = "or"      -> H(f[2], i) \/ H(f[3], i)
        [] f[1] = "implies" -> H(f[2], i) => H(f[3], i)
        [] f[1] = "iff"     -> H(f[2], i) <=> H(f[3], i)
        [] f[1] \in {"X", "nexttime", "s_nexttime"} -> H(f[2], i + 1)
        [] f[1] = "G"       -> \A j \in From(w, i) : H(f[2], j)
        [] f[1] = "cover"   -> \A j \in From(w, i) : ~H(f[2], j)
        [] f[1] = "F"       -> \E j \in From(w, i) : H(f[2], j)
        [] f[1] = "U"       -> Until(f[2], f[3])
        [] f[1] = "W"       -> Until(f[2], f[3]) \/ \A j \in From(w, i) : H(f[2], j)
        [] f[1] = "M"       -> Until(f[3], <<"and", f[2], f[3]>>)
        [] f[1] = "R"       -> Until(f[3], <<"and", f[2], f[3]>>) \/ \A j \in From(w, i) : H(f[3], j)
        [] f[1] \in {"always", "s_always"}         -> \A j \in i + f[2] .. i + f[3] : H(f[4], j)
        [] f[1] \in {"eventually", "s_eventually"} -> \E j \in i + f[2] .. i + f[3] : H(f[4], j)
        [] f[1] = "strong" -> ends \ {-1} # {}
        [] f[1] = "weak"   -> Ends(Ahead(w, i), f[2], 0, LookAhead(w) + Completion) \ {-1} # {}
        [] f[1] = "|->"    -> \A e \in ends \ {-1} : H(f[3], i + e)
        [] f[1] = "|=>"    -> \A e \in ends : H(f[3], i + e + 1)
        [] f[1] = "#-#"    -> \E e \in ends \ {-1} : H(f[3], i + e)
        [] f[1] = "#=#"    -> \E e \in ends : H(f[3], i + e + 1)

Satisfies(w, f) == Holds(w, f, 0)

-----------------------------------------------------------------------------
\* f with other operands, where they are formulas: the one on the left, and the last.
WithOperands(f, left, last) ==
  CASE f[1] \in Unary  -> <<f[1], last>>
    [] f[1] \in Binary -> <<f[1], left, last>>
    [] f[1] \in Ranged -> <<f[1], f[2], f[3], last>>
    [] f[1] \in Conditional -> <<f[1], f[2], last>>
    [] OTHER           -> f

\* trivial_sva: state predicates that are written as sequences, and |-> and |=> whose
\* antecedent is one.  normalize_pre_sva_*_implication repeats the latter.
TrivialSva(f) ==
  LET s == TrivialSequence(f[2])
  IN  CASE f[1] \in SequenceProperty -> IF s[1] = "boolean" THEN s[2] ELSE <<f[1], s>>
        [] f[1] = "|=>" /\ s[1] = "boolean" -> <<"or", Negation(s[2]), <<"always", 1, 1, f[3]>>>>
        [] f[1] = "|->" /\ s[1] = "boolean" -> <<"implies", s[2], f[3]>>
        [] f[1] \in Conditional /\ (f[1] \in {"#-#", "#=#"} \/ s[1] # "boolean") -> <<f[1], s, f[3]>>

\* normalize_property_rec
NormalizeNode(f) ==
  CASE f[1] \in SequenceProperty \cup Conditional -> TrivialSva(f)
    [] f[1] = "nexttime"   -> <<"always", 1, 1, f[2]>>
    [] f[1] = "s_nexttime" -> <<"s_always", 1, 1, f[2]>>
    [] OTHER               -> f

RECURSIVE NormalizeRec(_)
NormalizeRec(f) ==
  LET n == NormalizeNode(f)
      g == WithOperands(n, NormalizeRec(n[2]), NormalizeRec(Last(n)))
  IN  IF g[1] = "R" /\ g[2] = Negation(True) THEN <<"G", g[3]>> ELSE g

\* normalize_property: a cover is about its dual.
Normalize(f) ==
  NormalizeRec(IF f[1] = "cover" THEN <<"G", Negation(f[2])>> ELSE f)

\* negate_property_node: the operator of the negation, on the negated operands.
\* The antecedent of a Conditional is not negated.
DualKeepingStrength ==
  [and |-> "or", or |-> "and", X |-> "X", G |-> "F", F |-> "G",
   U |-> "M", R |-> "W", W |-> "R", M |-> "U",
   always |-> "s_eventually", s_always |-> "eventually", eventually |-> "s_always"]

Dual ==
  [and |-> "or", or |-> "and", X |-> "X", G |-> "F", F |-> "G",
   U |-> "R", R |-> "U", W |-> "M", M |-> "W",
   always |-> "s_eventually", s_always |-> "eventually", eventually |-> "s_always"]

ConditionalDual(o) ==
  CASE o = "|->" -> "#-#" [] o = "#-#" -> "|->" [] o = "|=>" -> "#=#" [] o = "#=#" -> "|=>"

NegateNode(f) ==
  CASE f[1] = "not"          -> f[2]
    [] f[1] = "implies"      -> <<"and", f[2], Negation(f[3])>>
    [] f[1] \in Conditional  -> <<ConditionalDual(f[1]), f[2], Negation(f[3])>>
    [] f[1] \in DOMAIN Dual  -> [WithOperands(f, Negation(f[2]), Negation(Last(f))) EXCEPT ![1] = Dual[f[1]]]
    [] OTHER                 -> Negation(f)

\* property_nnf: the node first, then its operands.  A negation that cannot be
\* moved inwards stays, with all that is below it.
NnfNode(f) ==
  CASE f[1] = "not"     -> NegateNode(f[2])
    [] f[1] = "implies" -> <<"or", Negation(f[2]), f[3]>>
    [] f[1] = "iff"     -> <<"and", <<"implies", f[2], f[3]>>, <<"implies", f[3], f[2]>>>>
    [] OTHER            -> f

RECURSIVE Nnf(_)
Nnf(f) ==
  LET n == NnfNode(f)
  IN  IF f[1] = "not" /\ NegateNode(f[2]) = f THEN f
      ELSE WithOperands(n, Nnf(n[2]), Nnf(Last(n)))

-----------------------------------------------------------------------------
\* The operators of CTL, which only the BDD engine evaluates.
CtlUnary  == {"EX", "EF", "EG", "AX", "AF", "AG"}
CtlBinary == {"EU", "AU", "ER", "AR"}

\* has_temporal_operator
RECURSIVE Temporal(_)
Temporal(f) ==
  \/ f[1] \in {"X", "G", "F", "U", "W", "R", "M", "nexttime", "s_nexttime"} \cup Ranged
  \/ f[1] \in SequenceProperty \cup Conditional \cup CtlUnary \cup CtlBinary
  \/ f[1] = "not" /\ Temporal(f[2])
  \/ f[1] \in {"and", "or", "implies", "iff"} /\ (Temporal(f[2]) \/ Temporal(f[3]))

RECURSIVE NXes(_, _)
NXes(n, f) == IF n = 0 THEN f ELSE <<"X", NXes(n - 1, f)>>

\* f now and in the next n timeframes
RECURSIVE Lasting(_, _)
Lasting(n, f) == IF n = 0 THEN f ELSE <<"and", Lasting(n - 1, f), NXes(n, f)>>

\* conjunction() and disjunction()
Joined(op, unit, fs) ==
  LET first == CHOOSE f \in fs : TRUE
  IN  IF fs = {} THEN unit ELSE FoldSet(LAMBDA f, g : <<op, f, g>>, first, fs \ {first})

AllOf(fs) == Joined("and", True, fs)
AnyOf(fs) == Joined("or", Negation(True), fs)

\* The predicates of a match at their positions, and with f after it: at its last
\* position, or one later.
MatchLtl(m) == AllOf({NXes(k - 1, m[k]) : k \in DOMAIN m})
OneLater(o) == o \in {"|=>", "#=#"}
After(o, m, f) == NXes(IF OneLater(o) THEN Len(m) ELSE Len(m) - 1, f)

\* The matches of s that o looks at; an empty one counts for |=> and #=#.
MatchesFor(o, s) == {m \in LtlMatches(s) : OneLater(o) \/ m # <<>>}

\* SVA_to_LTL; it throws on what it does not support.
RECURSIVE SvaToLtlSupported(_)
SvaToLtlSupported(f) ==
  \/ ~Temporal(f)
  \/ f[1] \in {"G", "F", "not", "nexttime", "s_nexttime"} /\ SvaToLtlSupported(f[2])
  \/ f[1] \in {"U", "M", "and", "or", "implies", "iff"}
       /\ SvaToLtlSupported(f[2]) /\ SvaToLtlSupported(f[3])
  \/ f[1] \in {"always", "s_always"} /\ SvaToLtlSupported(f[4])
  \/ /\ f[1] \in SequenceProperty \cup Conditional /\ LtlSequence(f[2])
     /\ f[1] \in Conditional => SvaToLtlSupported(f[3])

RECURSIVE SvaToLtl(_)
SvaToLtl(f) ==
  LET matches == MatchesFor(f[1], f[2])
      parts   == CASE f[1] \in {"|->", "|=>"} ->
                        {<<"implies", MatchLtl(m), After(f[1], m, SvaToLtl(f[3]))>> : m \in matches}
                   [] f[1] \in {"#-#", "#=#"} ->
                        {<<"and", MatchLtl(m), After(f[1], m, SvaToLtl(f[3]))>> : m \in matches}
                   [] f[1] \in SequenceProperty -> {MatchLtl(m) : m \in matches}
  IN  CASE ~Temporal(f) -> f
        [] f[1] \in {"G", "F", "U", "M", "and", "or", "implies", "not", "iff"} -> WithOperands(f, SvaToLtl(f[2]), SvaToLtl(Last(f)))
        [] f[1] \in {"nexttime", "s_nexttime"} -> <<"X", SvaToLtl(f[2])>>
        [] f[1] \in {"always", "s_always"} -> NXes(f[2], Lasting(f[3] - f[2], SvaToLtl(f[4])))
        [] f[1] \in {"|->", "|=>"} -> AllOf(parts)
        [] f[1] \in {"#-#", "#=#"} \cup SequenceProperty -> AnyOf(parts)

=============================================================================
