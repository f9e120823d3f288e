---------------------------- MODULE MCEngineHeuristic ----------------------------
(* Designs and properties for the model checking of EngineHeuristic. *)
EXTENDS EngineHeuristic, Sequences

MCLatches1 == {"a"}
MCLatches2 == {"a", "b"}
MCLatches3 == {"a", "b", "c"}
MCInputs1  == {0}
MCInputs2  == {0, 1}

\* The latches as the bits of a number, and back.
Weight == [l \in {"a", "b", "c"} |-> IF l = "a" THEN 1 ELSE IF l = "b" THEN 2 ELSE 4]

Number(s) == LET v(l) == IF l \in Latches /\ s[l] THEN Weight[l] ELSE 0
             IN  v("a") + v("b") + v("c")

Word(n) == CHOOSE s \in State : Number(s) = n

\* The timeframes whose state is one of ns.
At(ns) == {q \in Node : Number(q[1]) \in ns}

NI == (0 .. 7) \X Inputs

System(inits, f, wide, ps) ==
  [init |-> {Word(n) : n \in inits}, next |-> [q \in Node |-> Word(f[Number(q[1]), q[2]])],
   wide |-> wide, props |-> ps]

\* Properties.
Base(role, lang, form, pred) ==
  [role |-> role, lang |-> lang, form |-> form, pred |-> pred,
   step |-> {}, body |-> "atom", live |-> {}]

Claim(form, pred) == Base("assert", "SVA", form, pred)
Ltl(form, pred)    == Base("assert", "LTL", form, pred)
Assume(pred)       == Base("assume", "SVA", "G", pred)
Cover(pred)        == Base("cover", "SVA", "G", Node \ pred)
OrBody(p)          == [p EXCEPT !.body = "or"]
Unsupported        == Base("assert", "LTL", "EX", {})

\* always (p or nexttime q), and the ranking lemma  !live |=> rank < $past(rank).
Stepping(role, p, q) ==
  [Base(role, "SVA", "GX", {}) EXCEPT !.step = {e \in Node \X Node : e[1] \in p \/ e[2] \in q}]

Ranking(live, rank(_)) ==
  [Base("assert", "SVA", "GX", {}) EXCEPT
     !.step = {e \in Node \X Node : e[1] \in live \/ rank(e[2]) < rank(e[1])},
     !.body = "rank", !.live = live]

-----------------------------------------------------------------------------
\* A counter modulo 3 with an enable input, next to the unreachable state 3.
Mod3 == [q \in NI |-> IF q[1] = 3 THEN 3 ELSE IF q[2] = 0 THEN q[1] ELSE (q[1] + 1) % 3]

\* 0 waits or goes to 1 and comes back; the unreachable 2 steps to 3, so that
\* "never 3" holds but is not inductive.
Hop == [q \in NI |-> CASE q[1] = 0 -> q[2] [] q[1] = 1 -> 0 [] OTHER -> 3]

\* A counter that stops at 3.
UpTo3 == [q \in NI |-> IF q[1] = 3 THEN 3 ELSE q[1] + q[2]]

InputZero == {q \in Node : q[2] = 0}

\* Assumptions that take two timeframes: never two enables in a row, no enable.
NoTwoEnables == Stepping("assume", InputZero, InputZero)
NeverEnabled == Stepping("assume", InputZero, {})

From0(f, wide, ps) == System({0}, f, wide, ps)

SafetyProblemsOf(wide) == <<
  From0(Mod3, wide, <<Claim("G", Node \ At({3})), Cover(At({2})), Claim("GF", At({0}))>>),
  From0(Mod3, wide, <<Claim("G", Node \ At({2})), Stepping("assert", Node \ At({2}), At({0, 2})),
                      Unsupported>>),
  From0(Mod3, wide, <<Assume(InputZero), Claim("G", At({0})), Cover(At({1})), Claim("next", At({0}))>>),
  From0(Mod3, wide, <<Claim("now", At({0})), Ltl("G", Node), Claim("next", At({0})), Cover(At({2}))>>),
  From0(Hop, wide, <<Claim("G", Node \ At({3})), Claim("GF", At({0}))>>),
  From0(UpTo3, wide, <<Claim("G", Node \ At({3})), Claim("GF", Node \ At({1})),
                       Stepping("assert", At({0, 1, 2}), At({3}))>>)
  >>

\* On designs within the limit of recurrence_diameter() and beyond it; the last two
\* have assumptions that k-induction does not support.
SafetyProblems ==
  SafetyProblemsOf(FALSE) \o SafetyProblemsOf(TRUE) \o
  <<From0(UpTo3, TRUE, <<NoTwoEnables, Claim("G", Node \ At({3})), Cover(At({3}))>>),
    From0(UpTo3, TRUE, <<NeverEnabled, Claim("G", At({0})), Claim("now", At({0})), Cover(At({3}))>>)>>

-----------------------------------------------------------------------------
\* Liveness.  Down counts to 0 and starts again, or stays where it is when the
\* input is 1; DownTo1 forgets the last step.
Down    == [q \in NI |-> IF q[2] = 1 THEN q[1] ELSE IF q[1] = 0 THEN 3 ELSE q[1] - 1]
DownTo1 == [q \in NI |-> IF q[1] > 1 THEN q[1] - 1 ELSE q[1]]
Cycle   == [q \in NI |-> IF q[1] = 0 THEN 3 ELSE q[1] - 1]

Rank(q) == Number(q[1])

From3(f, wide, ps) == System({3}, f, wide, ps)

LivenessProblemsOf(wide) == <<
  From3(Cycle, wide, <<Ranking(At({0}), Rank), Claim("GF", At({0})), Claim("F", At({1}))>>),
  From3(DownTo1, wide, <<Ranking(At({0}), Rank), Claim("GF", At({0})), Claim("F", At({2}))>>),
  From3(Down, wide, <<Claim("F", At({2})), Ltl("F", Node), Claim("GF", At({3})), Cover(At({0}))>>),
  From3(Down, wide, <<Assume(InputZero), Claim("F", At({0})), Claim("GF", At({2})), Ltl("GF", Node)>>),
  From3(Cycle, wide, <<Ranking(At({1}), Rank), Claim("GF", At({1})), OrBody(Claim("G", At({0})))>>),
  From3(Cycle, wide, <<OrBody(Claim("G", Node)), Claim("GF", At({0}))>>)
  >>

LivenessProblems == LivenessProblemsOf(FALSE) \o LivenessProblemsOf(TRUE)

AllProblems == SafetyProblems \o LivenessProblems

-----------------------------------------------------------------------------
\* The problem for a disagreement between the code and what it says.

\* The lasso of an alternating bit needs two transitions, the threshold is one.
Toggle == [q \in NI |-> 1 - (q[1] % 2)]
ThresholdOfLasso == <<From0(Toggle, FALSE, <<Claim("F", {})>>)>>

-----------------------------------------------------------------------------
\* The designs meet the hypotheses of the theorems on the verdicts, except for those
\* that liveness properties take over the threshold (a lasso is longer than it) and those
\* with a cover next to an assumption over two cycles.
ASSUME DesignsFit ==
  LET ds == {Problems[n] : n \in DOMAIN Problems}
  IN  /\ \A d \in ds : SafetyAssumptions(d) /\ RankingsDecrease(d, 0 .. 3)
      /\ \A d \in ds : ThresholdFits(d) \/ \E i \in DOMAIN d.props : d.props[i].form = "F"
      /\ \A d \in ds : CoversFit(d) \/ \E i \in DOMAIN d.props :
                         d.props[i].role = "assume" /\ d.props[i].form = "GX"
      /\ Len(Problems) > 1 => /\ 22 = Cardinality({n \in DOMAIN Problems : ThresholdFits(Problems[n])})
                              /\ 24 = Cardinality({n \in DOMAIN Problems : CoversFit(Problems[n])})

=============================================================================
