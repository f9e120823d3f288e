----------------------------- MODULE SvaSequences -----------------------------
(***************************************************************************)
(* SystemVerilog sequences: what they match, how they are rewritten        *)
(* (rewrite_sva_sequence), how their matches are encoded over the          *)
(* timeframes of an unwinding (instantiate_sequence) and over the          *)
(* positions of an LTL formula (LTL_sequence_matches).                     *)
(*                                                                         *)
(* A sequence is a tuple that starts with its operator:                    *)
(*   <<"boolean", b>>             a state predicate                        *)
(*   <<"##", l, m, n, r>>         l ##[m:n] r; m = n is l ##m r            *)
(*   <<"##[*]", l, r>>, <<"##[+]", l, r>>                                  *)
(*   <<"[*n]", r, n>>, <<"[*n:m]", r, n, m>>, <<"[*]", r>>, <<"[+]", r>>   *)
(*   <<"[->]", b, n, m>>, <<"[=]", b, n, m>>                               *)
(*   <<"and", l, r>>, <<"or", l, r>>, <<"intersect", l, r>>,               *)
(*   <<"within", l, r>>, <<"throughout", b, r>>, <<"first_match", r>>      *)
(* The left-hand side of a delay may be Nil, an upper limit Unbounded.     *)
(*                                                                         *)
(* An operator below that has no arm for an operand is one that the code   *)
(* aborts on.                                                              *)
(***************************************************************************)
EXTENDS Integers, FiniteSets, SequencesExt

CONSTANT Atoms      \* the state predicates that the properties are made of

Letter == SUBSET Atoms

Nil       == <<"nil">>
Unbounded == -1

\* The state predicate that always holds.
Always == <<"true">>

\* State predicates.
RECURSIVE IsTrue(_, _)
IsTrue(b, letter) ==
  CASE b[1] = "true" -> TRUE
    [] b[1] = "atom" -> b[2] \in letter
    [] b[1] = "not"  -> ~IsTrue(b[2], letter)
    [] b[1] = "and"  -> IsTrue(b[2], letter) /\ IsTrue(b[3], letter)
    [] b[1] = "or"   -> IsTrue(b[2], letter) \/ IsTrue(b[3], letter)

Times(from, to, last) == from .. (IF to = Unbounded THEN last ELSE to)

-----------------------------------------------------------------------------
(***************************************************************************)
(* What a sequence matches (IEEE 1800 F.5, tight satisfaction): the times  *)
(* up to `last` at which a match that starts at time t ends; t - 1 is the  *)
(* empty match.  Times outside of pi satisfy every predicate, and its      *)
(* negation.                                                               *)
(***************************************************************************)
RECURSIVE Ends(_, _, _, _)
Ends(pi, s, t, last) ==
  LET E(r, c)      == Ends(pi, r, c, last)
      Sat(b, c)    == c \in DOMAIN pi => IsTrue(b, pi[c])
      Starts(l)    == IF l = Nil THEN {t} ELSE E(l, t)
      Delayed(S, d, r) == IF d = 0 THEN UNION {{e \in E(r, c) : e >= c} : c \in S \ {t - 1}}
                                   ELSE UNION {E(r, c + d) : c \in S}
      Delays(l, m, n, r) == UNION {Delayed(Starts(l), d, r) : d \in Times(m, n, last + 1)}
      Repeats(r, k) == LET rep[j \in 0 .. k] ==
                             IF j = 0 THEN {t - 1} ELSE UNION {E(r, c + 1) : c \in rep[j - 1]}
                       IN  rep[k]
      Repeated(r, m, n) == UNION {Repeats(r, k) : k \in Times(m, n, m + last - t + 1)}
      \* the numbers of times that b holds up to time e, where it holds at e if `at`
      Counts(b, e, at) ==
        LET seen == Cardinality({c \in t .. e : c \in DOMAIN pi /\ IsTrue(b, pi[c])})
            free == Cardinality((t .. e) \ DOMAIN pi)
        IN  IF at /\ e \notin DOMAIN pi THEN seen + 1 .. seen + free ELSE seen .. seen + free
  IN  IF t > last + 1 THEN {}
      ELSE CASE s[1] = "boolean" -> {c \in {t} : c <= last /\ Sat(s[2], c)}
        [] s[1] = "##"    -> Delays(s[2], s[3], s[4], s[5])
        [] s[1] = "##[*]" -> Delays(s[2], 0, Unbounded, s[3])
        [] s[1] = "##[+]" -> Delays(s[2], 1, Unbounded, s[3])
        [] s[1] = "[*n]"   -> Repeats(s[2], s[3])
        [] s[1] = "[*n:m]" -> Repeated(s[2], s[3], s[4])
        [] s[1] = "[*]"    -> Repeated(s[2], 0, Unbounded)
        [] s[1] = "[+]"    -> Repeated(s[2], 1, Unbounded)
        [] s[1] = "[->]" ->
             {e \in t .. last : Sat(s[2], e) /\ Counts(s[2], e, TRUE) \cap Times(s[3], s[4], last + 1) # {}}
        [] s[1] = "[=]" ->
             {e \in t .. last : Counts(s[2], e, FALSE) \cap Times(s[3], s[4], last + 1) # {}}
        [] s[1] = "or"         -> E(s[2], t) \cup E(s[3], t)
        [] s[1] = "and"        -> {Max({c, e}) : c \in E(s[2], t), e \in E(s[3], t)}
        [] s[1] = "intersect"  -> E(s[2], t) \cap E(s[3], t)
        [] s[1] = "within"     -> {e \in E(s[3], t) : \E c \in t .. e + 1 : \E f \in E(s[2], c) : f <= e}
        [] s[1] = "throughout" -> {e \in E(s[3], t) : \A c \in t .. e : Sat(s[2], c)}
        [] s[1] = "first_match" -> LET ends == E(s[2], t) IN IF ends = {} THEN {} ELSE {Min(ends)}

-----------------------------------------------------------------------------
\* s with other operands, where they are sequences: the one on the left, and the last.
WithSequences(s, left, last) ==
  CASE s[1] = "##" -> <<"##", IF s[2] = Nil THEN Nil ELSE left, s[3], s[4], last>>
    [] s[1] \in {"##[*]", "##[+]"} -> <<s[1], IF s[2] = Nil THEN Nil ELSE left, last>>
    [] s[1] \in {"[*n]", "[*n:m]", "[*]", "[+]", "first_match"} -> [s EXCEPT ![2] = left]
    [] s[1] \in {"or", "and", "intersect", "within"} -> <<s[1], left, last>>
    [] s[1] = "throughout" -> <<s[1], s[2], last>>
    [] s[1] \in {"boolean", "[->]", "[=]"} -> s

\* admits_empty, with f[*0] as <<"[*n]", f, 0>>
RECURSIVE AdmitsEmpty(_)
AdmitsEmpty(s) ==
  CASE s[1] \in {"boolean", "[->]", "[=]"} -> FALSE
    [] s[1] = "##" /\ s[3] = 0 /\ s[4] = 0 -> FALSE
    [] s[1] = "##" /\ s[4] # 0 -> s[2] # Nil /\ AdmitsEmpty(s[2]) /\ AdmitsEmpty(s[5])
    [] s[1] \in {"##[*]", "##[+]"} -> s[2] # Nil /\ AdmitsEmpty(s[2]) /\ AdmitsEmpty(s[3])
    [] s[1] = "or" -> AdmitsEmpty(s[2]) \/ AdmitsEmpty(s[3])
    [] s[1] \in {"and", "intersect", "within"} -> AdmitsEmpty(s[2]) /\ AdmitsEmpty(s[3])
    [] s[1] = "throughout" -> AdmitsEmpty(s[3])
    [] s[1] = "[*]" -> TRUE
    [] s[1] \in {"[*n]", "[*n:m]"} -> s[3] = 0 \/ AdmitsEmpty(s[2])
    [] s[1] = "first_match" /\ ~AdmitsEmpty(s[2]) -> FALSE

\* ##n r after an empty match
AfterEmptyTooLate(n, r) == <<"##", Nil, n, n, r>>

AfterEmpty(n, r) == <<"##", Nil, n - 1, n - 1, r>>

\* The empty matches of the operands of l ##n r, n > 0: ##(n-1) r and l ##(n-1) 1.
WithEmptyCases(l, n, r, emptyL, emptyR) ==
  LET delay == <<"##", l, n, n, r>>
  IN  IF n = 0 THEN delay
      ELSE IF emptyL THEN <<"or", AfterEmpty(n, r), delay>>
      ELSE IF emptyR THEN <<"or", <<"##", l, n - 1, n - 1, <<"boolean", Always>>>>, delay>>
      ELSE delay

\* rewrite_sva_sequence: sequences without empty matches, but for f[*0].  A ranged
\* delay between operands of which one admits an empty match is not supported.
RECURSIVE Rewrite(_)
Rewrite(s) ==
  LET r      == WithSequences(s, Rewrite(s[2]), Rewrite(Last(s)))
      emptyL == s[2] # Nil /\ AdmitsEmpty(s[2])
      emptyR == AdmitsEmpty(s[5])
  IN  CASE s[1] = "##" /\ s[3] = s[4] -> WithEmptyCases(r[2], s[3], r[5], emptyL, emptyR)
        [] s[1] = "##" /\ s[3] # s[4] /\ ~emptyL /\ ~emptyR -> r
        [] s[1] = "[*n:m]" -> [r EXCEPT ![3] = Max({1, @})]
        [] s[1] = "[*]"    -> <<"[*n:m]", r[2], 1, Unbounded>>
        [] s[1] \notin {"##", "[*n:m]", "[*]"} -> r

\* lower(): the operators that stand for others; r[*n] with n > 0 is r ##1 r ...
RECURSIVE Repetition(_, _)
Repetition(r, n) == IF n = 1 THEN r ELSE <<"##", Repetition(r, n - 1), 1, 1, r>>

RECURSIVE OneOfRepetitions(_, _, _)
OneOfRepetitions(r, m, n) ==
  CASE m = n -> <<"[*n]", r, m>>
    [] m < n -> <<"or", OneOfRepetitions(r, m, n - 1), <<"[*n]", r, n>>>>

Lower(s) ==
  CASE s[1] = "##[*]"  -> <<"##", s[2], 0, Unbounded, s[3]>>
    [] s[1] = "##[+]"  -> <<"##", s[2], 1, Unbounded, s[3]>>
    [] s[1] = "[+]"    -> <<"[*n:m]", s[2], 1, Unbounded>>
    [] s[1] = "[*n]"   -> Repetition(s[2], s[3])
    [] s[1] = "[*n:m]" -> OneOfRepetitions(s[2], s[3], s[4])

-----------------------------------------------------------------------------
(***************************************************************************)
(* The potential matches over the timeframes of an unwinding               *)
(* (sequence_matcht).  A pending match is one that may be completed        *)
(* beyond the bound; it has no end.                                        *)
(***************************************************************************)
Match(e, c)   == [kind |-> "match", end |-> e, cond |-> c]
EmptyMatch(e) == [kind |-> "empty", end |-> e, cond |-> TRUE]
Pending(c)    == [kind |-> "pending", end |-> 0, cond |-> c]

IsPending(m) == m.kind = "pending"
Concrete(ms) == {m \in ms : ~IsPending(m)}
HasPending(ms) == \E m \in ms : IsPending(m)
Fires(ms) == \E m \in ms : m.cond

\* An operand that is pending keeps the whole pending until something has matched.
PendingIf(open, ms) == IF open THEN ms \cup {Pending(~Fires(ms))} ELSE ms

\* The match that remains of each match of a first_match.
FirstOnly(ms) ==
  LET none(e) == ~\E m \in Concrete(ms) : m.end < e /\ m.cond
  IN  {Match(m.end, none(m.end) /\ m.cond) : m \in Concrete(ms)}
        \cup {Pending(~Fires(Concrete(ms)) /\ m.cond) : m \in ms \ Concrete(ms)}

Timeframes(pi) == Cardinality(DOMAIN pi)

\* The last delay of ##[m:n] that is looked at, for a left-hand side that ends at e.
DelayLimit(e, n, frames) == IF n = Unbounded THEN frames ELSE e + n

\* A match m of the left-hand side, then rs, the matches of the right-hand side at c.
Followed(m, c, frames, rs) ==
  IF c >= frames THEN {Pending(m.cond)}
  ELSE {[r EXCEPT !.cond = m.cond /\ r.cond] : r \in {r \in rs : r.kind # "empty"}}

\* instantiate_sequence_rec
RECURSIVE Instantiate(_, _, _)
Instantiate(pi, s, t) ==
  LET frames   == Timeframes(pi)
      I(r)     == Instantiate(pi, r, t)
      B(b, c)  == IsTrue(b, pi[c])
      Count(c) == Cardinality({u \in t .. c : B(s[2], u)})
      Counted(c) == Count(c) \in Times(s[3], s[4], frames)
  IN  CASE s[1] = "boolean" -> {Match(t, B(s[2], t))}
        [] s[1] = "##" ->
             UNION {CASE m.kind = "empty"   -> {}
                      [] m.kind = "pending" -> {m}
                      [] m.kind = "match"   ->
                           UNION {Followed(m, c, frames, Instantiate(pi, s[5], c)) :
                                    c \in m.end + s[3] .. DelayLimit(m.end, s[4], frames)} :
                      m \in IF s[2] = Nil THEN {Match(t, TRUE)} ELSE I(s[2])}
        [] s[1] = "[*n]" /\ s[3] = 0 -> {EmptyMatch(t)}
        [] s[1] = "[*n:m]" /\ s[4] = Unbounded -> I(Lower(<<"[*n:m]", s[2], s[3], frames - t>>))
        [] s[1] \in {"##[*]", "##[+]", "[+]"} \/ (s[1] = "[*n]" /\ s[3] # 0)
             \/ (s[1] = "[*n:m]" /\ s[4] # Unbounded) -> I(Lower(s))
        [] s[1] = "[->]" ->
             {Match(c, B(s[2], c) /\ Counted(c)) : c \in t .. frames - 1}
               \cup {Pending(Count(frames - 1) < s[3])}
        [] s[1] = "[=]" ->
             {Match(c, Counted(c)) : c \in t .. frames - 1} \cup {Pending(Count(frames - 1) < s[3])}
        [] s[1] = "or" -> I(s[2]) \cup I(s[3])
        [] s[1] = "and" ->
             PendingIf(HasPending(I(s[2])) \/ HasPending(I(s[3])),
               {Match(Max({l.end, r.end}), l.cond /\ r.cond) : l \in Concrete(I(s[2])), r \in Concrete(I(s[3]))})
        [] s[1] = "intersect" ->
             PendingIf(HasPending(I(s[2])) \/ HasPending(I(s[3])),
               {Match(m[1].end, m[1].cond /\ m[2].cond) :
                  m \in {m \in Concrete(I(s[2])) \X Concrete(I(s[3])) : m[1].end = m[2].end}})
        [] s[1] = "within" ->
             LET inner(r) == UNION {Instantiate(pi, s[2], c) : c \in t .. r.end}
             IN  PendingIf(HasPending(I(s[3])) \/ \E r \in Concrete(I(s[3])) : HasPending(inner(r)),
                   UNION {{Match(r.end, l.cond /\ r.cond) : l \in {l \in Concrete(inner(r)) : l.end <= r.end}} :
                            r \in Concrete(I(s[3]))})
        [] s[1] = "throughout" ->
             {IF IsPending(m) THEN m ELSE Match(m.end, m.cond /\ \A c \in t .. m.end : B(s[2], c)) : m \in I(s[3])}
        [] s[1] = "first_match" -> FirstOnly(I(s[2]))

\* instantiate_sequence
InstantiateSequence(pi, s, t) == Instantiate(pi, Rewrite(s), t)

-----------------------------------------------------------------------------
(***************************************************************************)
(* The matches of a sequence as conditions on the positions of a word      *)
(* (sva_sequence_matcht); a match is the tuple of its predicates.          *)
(***************************************************************************)
BothOf(b, c) == <<"and", b, c>>

Adjacent(m, n) == m \o n

\* overlapping_concat
Overlapping(m, n) == Front(m) \o <<BothOf(Last(m), Head(n))>> \o Tail(n)

TrueMatch(n) == [k \in 1 .. n |-> Always]
RepeatMatch(m, n) == FlattenSeq([k \in 1 .. n |-> m])

\* of [*m:n]
RepetitionsOf(m, n) == m .. n - 1

\* sva_sequence_matches_rec
RECURSIVE LtlMatchesRec(_)
LtlMatchesRec(s) ==
  LET L(r) == LtlMatchesRec(r)
  IN  CASE s[1] = "boolean" -> {<<s[2]>>}
        [] s[1] = "[*n]"    -> {RepeatMatch(m, s[3]) : m \in L(s[2])}
        [] s[1] = "[*n:m]"  -> {RepeatMatch(m, n) : m \in L(s[2]), n \in RepetitionsOf(s[3], s[4])}
        [] s[1] = "##" ->
             {Overlapping(l, TrueMatch(d) \o r) :
                l \in (IF s[2] = Nil THEN {<<Always>>} ELSE L(Rewrite(s[2]))) \ {<<>>},
                d \in s[3] .. s[4], r \in L(Rewrite(s[5])) \ {<<>>}}
        [] s[1] = "and" ->
             {[k \in 1 .. Max({Len(l), Len(r)}) |->
                 IF k > Len(l) THEN r[k] ELSE IF k > Len(r) THEN l[k] ELSE BothOf(l[k], r[k])] :
                l \in L(s[2]), r \in L(s[3])}
        [] s[1] = "or" -> L(s[2]) \cup L(s[3])

\* It throws on what it does not support.
RECURSIVE IsLtlSequence(_)
IsLtlSequence(s) ==
  /\ s[1] \in {"boolean", "[*n]", "[*n:m]", "##", "and", "or"}
  /\ s[1] \in {"[*n:m]", "##"} => s[4] # Unbounded
  /\ s[1] \in {"[*n]", "[*n:m]"} => IsLtlSequence(s[2])
  /\ s[1] = "##" => /\ s[2] = Nil \/ IsLtlSequence(Rewrite(s[2]))
                    /\ IsLtlSequence(Rewrite(s[5]))
  /\ s[1] \in {"and", "or"} => \A k \in {2, 3} : IsLtlSequence(s[k])
  /\ s[1] = "or" => \A k \in {2, 3} : LtlMatchesRec(s[k]) # {}

\* LTL_sequence_matches
LtlSequence(s) == IsLtlSequence(Rewrite(s))
LtlMatches(s)  == LtlMatchesRec(Rewrite(s))

-----------------------------------------------------------------------------
\* trivial_sva on sequences: "and" and "or" of state predicates are state predicates.
RECURSIVE TrivialSequence(_)
TrivialSequence(s) ==
  LET r == WithSequences(s, TrivialSequence(s[2]), TrivialSequence(Last(s)))
  IN  IF s[1] \in {"and", "or"} /\ r[2][1] = "boolean" /\ r[3][1] = "boolean"
      THEN <<"boolean", <<s[1], r[2][2], r[3][2]>>>> ELSE r

=============================================================================
