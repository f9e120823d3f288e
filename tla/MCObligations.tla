------------------------------ MODULE MCObligations ------------------------------
(***************************************************************************)
(* Instances of Obligations: two atoms, every path of up to MaxFrames      *)
(* letters, and a list of properties in which every operator meets every   *)
(* other at least once.                                                    *)
(***************************************************************************)
EXTENDS Obligations

MCAtoms == {"p", "q"}

p == <<"atom", "p">>
q == <<"atom", "q">>
X(f) == <<"X", f>>
G(f) == <<"G", f>>
F(f) == <<"F", f>>
And(f, g) == <<"and", f, g>>
Or(f, g) == <<"or", f, g>>
Implies(f, g) == <<"implies", f, g>>
Negated(fs) == {Negation(f) : f \in fs}

\* Safety, eventualities and their combinations.
Modal ==
  {X(p), X(X(p)), G(p), G(X(p)), X(G(p)), G(Or(Negation(p), X(q))), F(p), X(F(p)), F(X(p)), G(F(p)), F(G(p)),
   G(Implies(p, F(q))), F(And(p, G(q))), Implies(G(F(p)), G(F(q))), Or(F(p), G(q)), And(G(p), F(q)), And(G(X(p)), F(q)),
   G(Or(F(p), G(q))), <<"iff", p, F(q)>>}

\* The negation of an iff between temporal operands never reaches this code.
NegatedModal ==
  Negated({X(p), G(p), F(p), G(F(p)), F(G(p)), Implies(G(p), F(q)), And(F(p), F(q)), G(Implies(p, F(q)))})

Untils ==
  {<<o, p, q>> : o \in {"U", "W", "R", "M"}} \cup Negated({<<o, p, q>> : o \in {"U", "W", "R", "M"}})
  \cup {<<o, p, F(q)>> : o \in {"U", "W"}} \cup {Or(<<o, p, q>>, X(p)) : o \in {"U", "R"}}
  \cup {<<"U", p, <<"W", q, p>>>>, <<"R", Negation(<<"true">>), p>>}

\* SystemVerilog: overlapped and non-overlapped implication, ranges, covers.
Bool(f) == <<"boolean", f>>
pb == Bool(p)
qb == Bool(q)

Sva ==
  {G(<<"|=>", pb, q>>), G(<<"|->", pb, F(q)>>), G(<<"|=>", pb, F(q)>>), G(<<"|=>", pb, <<"nexttime", q>>>>),
   <<"nexttime", p>>, Implies(<<"s_nexttime", p>>, q), F(<<"always", 0, 1, p>>),
   <<"always", 1, 2, p>>, <<"s_always", 0, 2, p>>, <<"eventually", 1, 2, p>>, G(<<"eventually", 1, 1, q>>),
   Negation(<<"eventually", 0, 1, p>>), <<"cover", p>>, <<"cover", F(p)>>}

\* Sequences.
Delay(l, n, r)     == <<"##", l, n, n, r>>
Delays(l, m, n, r) == <<"##", l, m, n, r>>
Repeat(r, n)       == <<"[*n]", r, n>>
Repeats(r, m, n)   == <<"[*n:m]", r, m, n>>
Goto(f, m, n)      == <<"[->]", f, m, n>>
Counts(f, m, n)    == <<"[=]", f, m, n>>
First(s)           == <<"first_match", s>>
pThenQ             == Delay(pb, 1, qb)

Weak(s)      == <<"weak", s>>
Strong(s)    == <<"strong", s>>
Cover(f)     == <<"cover", f>>
Then(s, f)   == <<"|->", s, f>>
Later(s, f)  == <<"|=>", s, f>>
Along(s, f)  == <<"#-#", s, f>>
Beyond(s, f) == <<"#=#", s, f>>

\* As assertions, with limits and without.
Asserted ==
  {Weak(pThenQ), Weak(Delays(pb, 0, 2, qb)), Weak(Delay(<<"[*]", pb>>, 1, qb)), Weak(Goto(p, 1, 2)),
   Weak(Counts(p, 1, 1)), Weak(<<"or", Delay(pb, 1, pb), qb>>), Weak(<<"throughout", p, Delays(qb, 0, 1, qb)>>),
   Weak(<<"intersect", Delays(pb, 0, 2, qb), Delays(pb, 1, 2, pb)>>), Weak(First(Delay(Repeats(pb, 0, 1), 1, qb))),
   Weak(<<"##[+]", Nil, Delay(qb, 1, pb)>>), Strong(Delays(pb, 0, 1, qb)), Or(q, Weak(pThenQ)), X(Weak(pThenQ))}

\* As antecedents, some with empty matches of their operands.
Antecedents ==
  {Later(s, q) : s \in {Delay(Repeat(pb, 2), 1, qb), Delay(Repeat(pb, 0), 1, qb), First(Delay(qb, 1, Repeats(pb, 0, 2))),
                        Goto(p, 2, Unbounded), Delay(First(Delays(pb, 0, 1, qb)), 1, qb)}}
  \cup {Then(s, q) : s \in {<<"within", pThenQ, Delays(pb, 1, 2, pb)>>, <<"##[*]", pb, Bool(Negation(q))>>, <<"[+]", pb>>}}
  \cup {G(Then(<<"and", pThenQ, Delays(qb, 0, 1, pb)>>, X(p))), G(Later(qb, Weak(Delay(Nil, 1, pb)))),
        Negation(Along(Delays(pb, 0, 1, qb), p)), Negation(Then(<<"or", pb, qb>>, q)), G(Along(pb, q)), Beyond(qb, p)}

\* As covers.
Covered == {Cover(Strong(pThenQ)), Cover(Beyond(Delay(Goto(p, 1, 1), 1, qb), q))}

SomeProperties == Modal \cup NegatedModal \cup Untils \cup Sva \cup Asserted \cup Antecedents \cup Covered

\* The two disagreements.
NextUntil == {X(<<"U", p, q>>)}
EventuallyEventually == {F(F(p))}

=============================================================================
