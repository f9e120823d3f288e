------------------------------- MODULE Obligations -------------------------------
(***************************************************************************)
(* The word-level encoding of temporal properties for BMC                  *)
(* (trans-word-level/property.cpp): which conditions on the timeframes     *)
(* 0 .. no_timeframes - 1 stand for "no counterexample".                   *)
(*                                                                         *)
(* An obligation is a timeframe, the length of the counterexample if the   *)
(* condition is violated, and the condition.  Here the conditions are      *)
(* evaluated on the path that the solver has picked, so an obligation is a *)
(* pair <<timeframe, BOOLEAN>> and an obligationst is a set of them.  The  *)
(* design is free: every sequence of letters is a path, and two timeframes *)
(* are equal when their letters are.                                       *)
(***************************************************************************)
EXTENDS SvaSequences

\* Its constants are the operators of SvaSequences with the same names.
INSTANCE TemporalFormula

CONSTANTS Properties,    \* the properties, before normalization
          MaxFrames,     \* bound on no_timeframes
          Extension,     \* how many letters the reference words add to the path
          Unrolling      \* how often the reference follows a loop again

VARIABLES property,      \* the property that is checked
          path           \* the letters of the timeframes, 0 .. no_timeframes - 1

vars == <<property, path>>

NoTimeframes(pi) == Cardinality(DOMAIN pi)

\* A lasso: timeframe `start` equals timeframe `end`.
NoLasso  == [start |-> -1, end |-> -1]
Lassos(pi) == {l \in [start : DOMAIN pi, end : DOMAIN pi] : l.start < l.end}

\* obligationst::conjunction()
Time(os)  == Max({0} \cup {o[1] : o \in os})
AllMet(os) == \A o \in os : o[2]

\* The timeframes over which G ranges, and those over which W and R range.
FramesOfGLastOnly(pi, t, l) ==
  IF l = NoLasso THEN {NoTimeframes(pi) - 1} ELSE Min({t, l.start}) .. l.end

FramesOfG(pi, t, l) ==
  IF l = NoLasso THEN t .. NoTimeframes(pi) - 1 ELSE Min({t, l.start}) .. l.end

FramesOfR(pi, t, l) ==
  IF l = NoLasso THEN t .. NoTimeframes(pi) - 1 ELSE Min({t, l.start}) .. l.end - 1

\* The obligation that cannot be violated within the bound; relies on NNF.
OpenBeyondBound(pi) == {<<NoTimeframes(pi), TRUE>>}

Open(pi) == {<<NoTimeframes(pi) - 1, TRUE>>}

\* Where the property after a match starts: |=> and #=# go one timeframe further.
StartAfter(o, m) == IF o \in {"|=>", "#=#"} /\ m.kind = "match" THEN m.end + 1 ELSE m.end

\* The matches that |->, |=>, #-# and #=# look at.
Followable(o, ms) == {m \in Concrete(ms) : m.kind = "empty" => o \in {"|=>", "#=#"}}

\* The matches that weak, strong and their negations look at.
Considered(ms, allowPending) == {m \in ms : m.kind = "match" \/ (IsPending(m) /\ allowPending)}

\* property_obligations_rec, at timeframe t
RECURSIVE ObligationsRec(_, _, _, _, _)
ObligationsRec(pi, f, t, l, allowPending) ==
  LET n        == NoTimeframes(pi)
      O(g, c)  == ObligationsRec(pi, g, c, l, allowPending)
      C(g, c)  == AllMet(O(g, c))
      Matches  == InstantiateSequence(pi, f[2], t)
      Inside(m)   == StartAfter(f[1], m) < n
      \* the obligations of f[3] after a match
      Rest(m)     == IF Inside(m) THEN O(f[3], StartAfter(f[1], m)) ELSE Open(pi)
  IN  CASE f[1] = "true" -> {<<t, TRUE>>}
        [] f[1] = "atom" -> {<<t, f[2] \in pi[t]>>}
        [] f[1] = "not" /\ NegateNode(f[2]) # f -> O(NegateNode(f[2]), t)
        [] f[1] = "not" /\ f[2][1] \in SequenceProperty ->
             {<<m.end, ~m.cond>> : m \in Considered(InstantiateSequence(pi, f[2][2], t), allowPending)}
        [] f[1] = "not" /\ NegateNode(f[2]) = f /\ f[2][1] \notin SequenceProperty -> {<<t, ~C(f[2], t)>>}
        [] f[1] = "and"  -> O(f[2], t) \cup O(f[3], t)
        [] f[1] = "or"   -> {<<Max({Time(O(f[2], t)), Time(O(f[3], t))}), C(f[2], t) \/ C(f[3], t)>>}
        [] f[1] = "implies" -> O(<<"or", Negation(f[2]), f[3]>>, t)
        [] f[1] = "iff"  -> O(<<"and", <<"implies", f[2], f[3]>>, <<"implies", f[3], f[2]>>>>, t)
        [] f[1] = "X"    -> IF l # NoLasso THEN O(f[2], IF t = l.end THEN l.start ELSE t + 1)
                            ELSE IF t + 1 < n THEN O(f[2], t + 1) ELSE Open(pi)
        [] f[1] = "G"    -> UNION {O(f[2], c) : c \in FramesOfG(pi, t, l)}
        [] f[1] = "F"    -> IF l = NoLasso \/ l.start < t THEN {}
                            ELSE {<<l.end, \E c \in t .. l.end - 1 : C(f[2], c)>>}
        [] f[1] = "U"    -> O(<<"and", <<"F", f[3]>>, <<"W", f[2], f[3]>>>>, t)
        [] f[1] = "M"    -> O(<<"and", <<"F", f[2]>>, <<"R", f[2], f[3]>>>>, t)
        [] f[1] = "W"    ->
             {<<t, C(f[2], j) \/ \E c \in FramesOfR(pi, t, l) : c <= j /\ C(f[3], c)>> :
                j \in FramesOfR(pi, t, l)}
        [] f[1] = "R"    ->
             {<<t, C(f[3], j) \/ \E c \in FramesOfR(pi, t, l) : c < j /\ C(f[2], c)>> :
                j \in FramesOfR(pi, t, l)}
        [] f[1] \in {"always", "s_always"} ->
             UNION {O(f[4], c) : c \in t + f[2] .. Min({t + f[3], n - 1})}
        [] f[1] = "eventually" ->
             IF t + f[3] >= n THEN Open(pi)
             ELSE {<<n - 1, \E c \in t + f[2] .. t + f[3] : C(f[4], c)>>}
        [] f[1] = "s_eventually" ->
             LET frames == Min({n - 1, t + f[2]}) .. Min({n - 1, t + f[3]})
             IN  {<<Max({Time(O(f[4], c)) : c \in frames}), \E c \in frames : C(f[4], c)>>}
        [] f[1] \in {"|->", "|=>"} ->
             UNION {{<<o[1], m.cond => o[2]>> : o \in Rest(m)} :
                      m \in {m \in Followable(f[1], Matches) : Inside(m)}}
        [] f[1] \in {"#-#", "#=#"} ->
             LET ms == Followable(f[1], Matches)
             IN  {<<Max({t} \cup {Time(Rest(m)) : m \in ms}),
                    \E m \in ms : m.cond /\ AllMet(Rest(m))>>}
        [] f[1] \in SequenceProperty ->
             LET ms == Considered(Matches, allowPending)
             IN  {<<Max({t} \cup {m.end : m \in ms}), Fires(ms)>>}

\* Does the property, in NNF, use a lasso anywhere?
UsesLassoAtTop(f) == f[1] \in {"F", "U", "M"}

RECURSIVE UsesLasso(_)
UsesLasso(f) ==
  \/ f[1] \in {"F", "U", "M"}
  \/ f[1] \in Unary /\ UsesLasso(f[2])
  \/ f[1] \in Binary /\ (UsesLasso(f[2]) \/ UsesLasso(f[3]))
  \/ f[1] \in Ranged /\ UsesLasso(f[4])
  \/ f[1] \in Conditional /\ UsesLasso(f[3])

\* property_obligations_lasso: under the symbol of each lasso, and at its end.
LassoObligationsUnguarded(pi, f) ==
  IF ~UsesLasso(f) THEN {}
  ELSE UNION {{<<l.end, o[2]>> : o \in ObligationsRec(pi, f, 0, l, FALSE)} : l \in Lassos(pi)}

LassoObligationsAtTheirTime(pi, f) ==
  IF ~UsesLasso(f) THEN {}
  ELSE UNION {{<<o[1], pi[l.start] = pi[l.end] => o[2]>> : o \in ObligationsRec(pi, f, 0, l, FALSE)} :
                l \in Lassos(pi)}

LassoObligations(pi, f) ==
  IF ~UsesLasso(f) THEN {}
  ELSE UNION {{<<l.end, pi[l.start] = pi[l.end] => o[2]>> : o \in ObligationsRec(pi, f, 0, l, FALSE)} :
                l \in Lassos(pi)}

LinearObligations(pi, f, p) == ObligationsRec(pi, f, 0, NoLasso, p[1] # "cover")

\* property(): the timeframes whose handle is false.
FalseHandles(pi, p) ==
  LET f == Nnf(Normalize(p))
  IN  {o[1] : o \in {o \in LinearObligations(pi, f, p) \cup LassoObligations(pi, f) : ~o[2]}}

Refuted(pi, p) == FalseHandles(pi, p) # {}

-----------------------------------------------------------------------------
Init ==
  /\ property \in Properties
  /\ path \in [{0} -> Letter]

\* The next larger bound, on a path that continues the path.
Extend ==
  /\ NoTimeframes(path) < MaxFrames
  /\ \E a \in Letter :
       path' = [t \in 0 .. NoTimeframes(path) |-> IF t \in DOMAIN path THEN path[t] ELSE a]
  /\ UNCHANGED property

Next == Extend

Spec == Init /\ [][Next]_vars

-----------------------------------------------------------------------------
(***************************************************************************)
(* What a path shows.                                                      *)
(***************************************************************************)

\* The word that goes round the lasso for ever.
LassoWord(pi, l) == Word([t \in 0 .. l.end - 1 |-> pi[t]], l.start)

\* The words that begin with pi: up to Extension further letters, then a loop.
Continued(pi, u) ==
  [t \in 0 .. NoTimeframes(pi) + Len(u) - 1 |->
     IF t \in DOMAIN pi THEN pi[t] ELSE u[t + 1 - NoTimeframes(pi)]]

WordsFrom(pi) ==
  UNION {{Word(letters, k) : k \in DOMAIN letters} :
           letters \in {Continued(pi, u) : u \in BoundedSeq(Letter, Extension)}}

\* A lasso in pi whose run has not the property, or no run that begins with pi has.
ShowsViolation(pi, p) ==
  \/ \E l \in Lassos(pi) : pi[l.start] = pi[l.end] /\ ~Satisfies(LassoWord(pi, l), p)
  \/ \A w \in WordsFrom(pi) : ~Satisfies(w, p)

\* pi up to the end of the lasso, and the loop some more times.
Unrolled(pi, l) ==
  LET length == l.end - l.start
  IN  [t \in 0 .. l.end + Unrolling * length |->
         IF t < l.end THEN pi[t] ELSE pi[l.start + ((t - l.start) % length)]]

(***************************************************************************)
(* Properties.                                                             *)
(***************************************************************************)

\* No false alarm: a property is refuted only on a path that shows a violation.
AlarmIsGenuine == Refuted(path, property) => ShowsViolation(path, property)

\* Formulas without until operators.
RECURSIVE UntilFree(_)
UntilFree(f) ==
  /\ f[1] \notin {"U", "W", "R", "M"}
  /\ f[1] \in Unary => UntilFree(f[2])
  /\ f[1] \in Binary => UntilFree(f[2]) /\ UntilFree(f[3])
  /\ f[1] \in Ranged => UntilFree(f[4])
  /\ f[1] \in Conditional => UntilFree(f[3])

\* The trace is cut after the first timeframe whose handle is false
\* (get_min_failing_timeframe); the part that is left shows the violation.  The
\* obligations of an until all carry the timeframe where the until starts
\* (property.cpp:476, :510), so this is about formulas without one.
TraceShowsViolation ==
  UntilFree(property) /\ Refuted(path, property) =>
    ShowsViolation([t \in 0 .. Min(FalseHandles(path, property)) |-> path[t]], property)

\* A run that goes round a lasso and violates the property is found with a bound
\* that allows to follow the loop some more times.
ViolationIsFound ==
  \A l \in Lassos(path) :
    path[l.start] = path[l.end] /\ ~Satisfies(LassoWord(path, l), property) =>
      Refuted(Unrolled(path, l), property)

\* Normalization and NNF do not change what the property says.
RewritingKeepsMeaning ==
  LET f == Nnf(Normalize(property))
  IN  \A k \in DOMAIN path : Satisfies(Word(path, k), property) = Satisfies(Word(path, k), f)

\* The sequences in f.
RECURSIVE SequencesOf(_)
SequencesOf(f) ==
  CASE f[1] \in Unary            -> SequencesOf(f[2])
    [] f[1] \in Binary           -> SequencesOf(f[2]) \cup SequencesOf(f[3])
    [] f[1] \in Ranged           -> SequencesOf(f[4])
    [] f[1] \in Conditional      -> {f[2]} \cup SequencesOf(f[3])
    [] f[1] \in SequenceProperty -> {f[2]}
    [] OTHER                     -> {}

\* The matches of a sequence inside the unwinding are those of the language: their
\* ends, for every start, but for empty matches.
MatchesAreExact ==
  \A s \in SequencesOf(property), t \in DOMAIN path :
    {m.end : m \in {m \in InstantiateSequence(path, s, t) : m.kind = "match" /\ m.cond}}
      = Ends(path, s, t, NoTimeframes(path) - 1) \ {t - 1}

\* SVA_to_LTL returns an equivalent formula.
SvaToLtlKeepsMeaning ==
  LET f == Normalize(property)
      g == SvaToLtl(f)
  IN  SvaToLtlSupported(f) =>
        \A k \in DOMAIN path : Satisfies(Word(path, k), property) = Satisfies(Word(path, k), g)

\* Every obligation has a timeframe of the unwinding (the DATA_INVARIANT of property()).
ObligationsInRange ==
  LET f == Nnf(Normalize(property))
  IN  \A o \in LinearObligations(path, f, property) \cup LassoObligations(path, f) : o[1] \in DOMAIN path

\* What is refuted with a bound is refuted with every larger one.
AlarmPersists == [][Refuted(path, property) => Refuted(path', property)]_vars

=============================================================================
