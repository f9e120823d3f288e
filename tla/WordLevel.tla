-------------------------------- MODULE WordLevel --------------------------------
(***************************************************************************)
(* A design and its properties as the word-level engines see them: the     *)
(* unwinding of the transition relation (trans-word-level/unwind.cpp), and *)
(* what the obligations of a property (trans-word-level/property.cpp) ask  *)
(* of an unwinding, for the shapes of properties that the engines tell     *)
(* apart.  Beside it stands what a property means: its value on the        *)
(* infinite runs of the design, given as ultimately periodic words.        *)
(***************************************************************************)
EXTENDS Integers, FiniteSets, Sequences

CONSTANTS Latches,      \* the state bits
          Inputs        \* the valuations of the inputs

State == [Latches -> BOOLEAN]

\* One timeframe: the state variables and the inputs.
Node == State \X Inputs

\* The shapes of normalized properties.  now: p, next: X p or nexttime p,
\* G: always p, GX: always (p or nexttime q), F: s_eventually p,
\* GF: always s_eventually p, EX: a CTL formula outside the common fragment.
Forms == {"now", "next", "G", "GX", "F", "GF", "EX"}

\* pred: where the operand of the shape holds (all but GX); step: the pairs of
\* successive timeframes that the operand of GX admits.  body: whether the
\* operand of `always` is a disjunction, and a ranking lemma for `live`.
\* A cover is given by its normalized dual, always not p.
Property ==
  [role : {"assert", "assume", "cover"}, lang : {"LTL", "SVA"}, form : Forms,
   pred : SUBSET Node, step : SUBSET (Node \X Node),
   body : {"atom", "or", "rank"}, live : SUBSET Node]

\* wide: the design has a further, constant register that takes the state bits
\* over the limit of recurrence_diameter().
Problem ==
  [init : SUBSET State, next : [Node -> State], wide : BOOLEAN, props : Seq(Property)]

-----------------------------------------------------------------------------
\* The unwinding over timeframes 0 .. b, from s under the inputs u.
Unwind(d, s, u, b) ==
  LET st[t \in 0 .. b] == IF t = 0 THEN s ELSE d.next[<<st[t - 1], u[t - 1]>>]
  IN  [t \in 0 .. b |-> <<st[t], u[t]>>]

Paths(d, b) == {Unwind(d, s, u, b) : s \in d.init, u \in [0 .. b -> Inputs]}

\* The edges of a two-timeframe unwinding without an initial state.
Edges(d) == {e \in Node \X Node : e[2][1] = d.next[e[1]]}

\* lasso_symbol(k, i)
LassoOfOneFrame(path, k, i) == k <= i /\ path[k] = path[i]

Lasso(path, k, i) == k < i /\ path[k] = path[i]

\* Some handle of p is false on the path with timeframes 0 .. b.
Falsified(p, path, b) ==
  \/ p.form = "now"  /\ path[0] \notin p.pred
  \/ p.form = "next" /\ b >= 1 /\ path[1] \notin p.pred
  \/ p.form = "G"    /\ \E t \in 0 .. b : path[t] \notin p.pred
  \/ p.form = "GX"   /\ \E t \in 1 .. b : <<path[t - 1], path[t]>> \notin p.step
  \/ p.form = "F"    /\ \E k, i \in 0 .. b :
                           Lasso(path, k, i) /\ \A t \in 0 .. i : path[t] \notin p.pred
  \/ p.form = "GF"   /\ \E k, i \in 0 .. b :
                           Lasso(path, k, i) /\ \A t \in k .. i : path[t] \notin p.pred

\* bmc_supports_property
BmcSupports(p) == p.form # "EX"

-----------------------------------------------------------------------------
\* Meaning.  A word is a path whose last timeframe `last` equals timeframe
\* `loop`, read as the infinite run that repeats loop .. last - 1.

WordsOfLength(d, n) ==
  {w \in [path : Paths(d, n), loop : 0 .. n - 1, last : {n}] : w.path[w.loop] = w.path[n]}

Words(d, horizon) == UNION {WordsOfLength(d, n) : n \in 1 .. horizon}

\* The first timeframe by which the word violates p for sure, for a violation
\* that a prefix shows; a lasso has to be seen up to its end.
ViolatedBy(p, w) ==
  CASE p.form = "now"  -> {t \in {0} : w.path[t] \notin p.pred}
    [] p.form = "next" -> {t \in {1} : w.path[t] \notin p.pred}
    [] p.form = "G"    -> {t \in 0 .. w.last : w.path[t] \notin p.pred}
    [] p.form = "GX"   -> {t \in 1 .. w.last : <<w.path[t - 1], w.path[t]>> \notin p.step}
    [] p.form = "F"    -> {t \in {w.last} : \A j \in 0 .. t : w.path[j] \notin p.pred}
    [] p.form = "GF"   -> {t \in {w.last} : \A j \in w.loop .. t : w.path[j] \notin p.pred}
    [] OTHER           -> {}

=============================================================================
