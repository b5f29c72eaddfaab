------------------------ MODULE FoskPredicate_proofs ------------------------
(***************************************************************************)
(* Folding a predicate keeps what it decides, for any values, columns and  *)
(* predicates, if no two different numbers are closer than the tolerance   *)
(* of float_eq.                                                            *)
(*                                                                         *)
(* Scalars and atoms evaluate to the same after folding; AND and OR keep a *)
(* decided truth because a constant that is not decisive is dropped only   *)
(* if it is neutral or unknown.                                            *)
(***************************************************************************)
EXTENDS FoskPredicate, FoskLemmas

\* No two different numbers are within the tolerance.
Apart == \A x, y \in Numbers : <<x, y>> \in Near => x = y

\* Values are records with a type and a number.
LEMMA ValueFacts ==
  /\ Null \in Values /\ Null.ty = "null" /\ Null.v = 0
  /\ \A v \in Values :
       /\ v = [ty |-> v.ty, v |-> v.v]
       /\ v.ty = "num" => v.v \in Numbers
       /\ v.ty = "text" => v.v \in Texts
       /\ v.ty = "null" => v = Null
       /\ v.ty \in {"null", "bool", "num", "text"}
BY DEF Values, Value, Null

\* upper of a value is a value.
LEMMA UpperType == \A v \in Values : upper(v) \in Values
BY ValueFacts, TextsAssumption DEF upper, Values, Value

\* What scalars are.
LEMMA ScalarFacts ==
  ASSUME NEW s \in Scalars
  PROVE  /\ s.k \in {"lit", "col", "upper"}
         /\ s.k = "lit" => s = [k |-> "lit", v |-> s.v] /\ s.v \in Values
         /\ s.k = "col" => s.c \in Columns
         /\ s.k = "upper" => /\ s.of \in Literals \cup Cols
                             /\ s.of.k = "lit" => s.of.v \in Values
                             /\ s.of.k # "lit" => s.of.c \in Columns
BY DEF Scalars, Literals, Cols, Uppers

\* A literal is a scalar that evaluates to itself.
LEMMA LiteralFacts ==
  ASSUME NEW v \in Values, NEW r
  PROVE  LET s == [k |-> "lit", v |-> v] IN
         s \in Scalars /\ literal(s) /\ s.v = v /\ eval_scalar(s, r) = v
<1> DEFINE s == [k |-> "lit", v |-> v]
<1>1. s.k = "lit" /\ s.v = v /\ s \in Scalars
  BY DEF Scalars, Literals
<1> HIDE DEF s
<1>2. literal(s) /\ eval_scalar(s, r) = v
  BY <1>1 DEF literal, eval_scalar
<1> QED
  BY <1>1, <1>2 DEF s

\* A constant is an atom that evaluates to its truth.
LEMMA ConstFacts ==
  ASSUME NEW t \in Truth, NEW r
  PROVE  /\ const(t) \in Atoms /\ const(t).k = "const" /\ const(t).t = t
         /\ eval_atom(const(t), r) = t
<1> DEFINE p == const(t)
<1>1. p.k = "const" /\ p.t = t /\ p \in Atoms
  BY DEF const, Consts, Atoms
<1> HIDE DEF p
<1>2. eval_atom(p, r) = t
  BY <1>1 DEF eval_atom
<1> QED
  BY <1>1, <1>2 DEF p

\* Folding keeps a scalar a scalar and its value the same; what is literal
\* evaluates to itself on every row.
LEMMA FoldScalar ==
  ASSUME NEW s \in Scalars, NEW r \in Rows
  PROVE  /\ fold_scalar(s) \in Scalars
         /\ eval_scalar(s, r) \in Values
         /\ eval_scalar(fold_scalar(s), r) = eval_scalar(s, r)
         /\ literal(fold_scalar(s)) => fold_scalar(s).v = eval_scalar(s, r)
<1>1. \A c \in Columns : r[c] \in Values
  BY DEF Rows
<1>2. CASE s.k = "lit"
  BY <1>2, ScalarFacts DEF fold_scalar, eval_scalar, literal
<1>3. CASE s.k = "col"
  BY <1>1, <1>3, ScalarFacts DEF fold_scalar, eval_scalar, literal
<1>4. CASE s.k = "upper"
  <2>1. eval_scalar(s, r) = upper(IF s.of.k = "lit" THEN s.of.v ELSE r[s.of.c])
    BY <1>4 DEF eval_scalar
  <2>2. eval_scalar(s, r) \in Values
    BY <1>1, <1>4, <2>1, ScalarFacts, UpperType
  <2>3. CASE literal(s.of) /\ s.of.v.ty = "text"
    <3>1. fold_scalar(s) = [k |-> "lit", v |-> upper(s.of.v)]
      BY <1>4, <2>3 DEF fold_scalar
    <3>2. upper(s.of.v) = eval_scalar(s, r)
      BY <2>1, <2>3 DEF literal
    <3> QED
      BY <2>2, <3>1, <3>2, LiteralFacts
  <2>4. CASE ~(literal(s.of) /\ s.of.v.ty = "text")
    <3>1. fold_scalar(s) = s
      BY <2>4 DEF fold_scalar
    <3> QED
      BY <1>4, <2>2, <3>1 DEF literal
  <2> QED
    BY <2>3, <2>4
<1> QED
  BY <1>2, <1>3, <1>4, ScalarFacts

\* Then being near is being equal.
LEMMA NearFacts ==
  ASSUME Apart, NEW x \in Numbers, NEW y \in Numbers
  PROVE  <<x, y>> \in Near <=> x = y
<1>1. <<x, y>> \in Near => x = y
  BY DEF Apart
<1>2. <<x, x>> \in Near
  BY NumbersAssumption
<1> QED
  BY <1>1, <1>2

\* Without close numbers the analyzer compares as the executor does.
LEMMA CompareAgrees ==
  ASSUME Apart, NEW l \in Values, NEW r \in Values, NEW op \in Ops
  PROVE  eval_compare3(l, op, r) = lit_cmp3(l, op, r) /\ lit_cmp3(l, op, r) \in Truth
<1>1. CASE l.ty = "num" /\ r.ty = "num"
  <2>1. l.v \in Numbers /\ r.v \in Numbers
    BY <1>1, ValueFacts
  <2>2. <<l.v, r.v>> \in Near <=> l.v = r.v
    BY <2>1, NearFacts
  <2>4. CASE <<l.v, r.v>> \in Near
    BY <1>1, <2>2, <2>4 DEF eval_compare3, lit_cmp3, compare, truth_of, Truth, numeric
  <2>5. CASE <<l.v, r.v>> \notin Near
    BY <1>1, <2>2, <2>5 DEF eval_compare3, lit_cmp3, compare, truth_of, Truth, numeric
  <2> QED
    BY <2>4, <2>5
<1>2. CASE ~(l.ty = "num" /\ r.ty = "num")
  BY <1>2 DEF eval_compare3, lit_cmp3, compare, truth_of, Truth
<1> QED
  BY <1>1, <1>2

\* Without close numbers IN compares literals as the executor compares values.
LEMMA EqualAgrees ==
  ASSUME Apart, NEW l \in Values, NEW r \in Values
  PROVE  literal_equal(l, r) = value_equal(l, r)
<1>1. l = [ty |-> l.ty, v |-> l.v] /\ r = [ty |-> r.ty, v |-> r.v]
  BY ValueFacts
<1>2. (l = r) = (l.ty = r.ty /\ l.v = r.v)
  BY <1>1
<1>3. l.ty = "num" /\ r.ty = "num" => (<<l.v, r.v>> \in Near <=> l.v = r.v)
  BY ValueFacts, NearFacts
<1> QED
  BY <1>2, <1>3 DEF literal_equal, value_equal

\* A comparison.
LEMMA FoldCompare ==
  ASSUME Apart, NEW p \in Compares, NEW r \in Rows
  PROVE  /\ fold_compare(p) \in Atoms
         /\ eval_atom(fold_compare(p), r) = eval_atom(p, r)
<1> DEFINE l == fold_scalar(p.left)
           q == fold_scalar(p.right)
<1>1. p.k = "cmp" /\ p.left \in Scalars /\ p.op \in Ops /\ p.right \in Scalars
      /\ p = [k |-> "cmp", left |-> p.left, op |-> p.op, right |-> p.right]
  BY DEF Compares
<1>2. /\ l \in Scalars /\ eval_scalar(l, r) = eval_scalar(p.left, r)
      /\ eval_scalar(p.left, r) \in Values
      /\ literal(l) => l.v = eval_scalar(p.left, r)
  BY <1>1, FoldScalar
<1>3. /\ q \in Scalars /\ eval_scalar(q, r) = eval_scalar(p.right, r)
      /\ eval_scalar(p.right, r) \in Values
      /\ literal(q) => q.v = eval_scalar(p.right, r)
  BY <1>1, FoldScalar
<1>4. eval_atom(p, r) = lit_cmp3(eval_scalar(p.left, r), p.op, eval_scalar(p.right, r))
  BY <1>1 DEF eval_atom
<1>5. CASE literal(l) /\ literal(q)
  <2>1. fold_compare(p) = const(eval_compare3(l.v, p.op, q.v))
    BY <1>5 DEF fold_compare
  <2>2. eval_compare3(l.v, p.op, q.v) = eval_atom(p, r) /\ eval_atom(p, r) \in Truth
    BY <1>1, <1>2, <1>3, <1>4, <1>5, CompareAgrees
  <2> QED
    BY <2>1, <2>2, ConstFacts
<1>6. CASE ~(literal(l) /\ literal(q))
  <2>1. fold_compare(p) = [k |-> "cmp", left |-> l, op |-> p.op, right |-> q]
    BY <1>1, <1>6 DEF fold_compare
  <2> HIDE DEF l, q
  <2>2. fold_compare(p) \in Compares
    BY <1>1, <1>2, <1>3, <2>1 DEF Compares
  <2>3. eval_atom(fold_compare(p), r) = lit_cmp3(eval_scalar(l, r), p.op, eval_scalar(q, r))
    BY <2>1 DEF eval_atom
  <2> QED
    BY <1>2, <1>3, <1>4, <2>2, <2>3 DEF Atoms
<1> QED
  BY <1>5, <1>6

\* Negation of a truth, of a condition or not, is a truth.
LEMMA NegatedTruth ==
  /\ \A b, t : t \in Truth => negate(b, t) \in Truth
  /\ \A b, c : negate(b, truth_of(c)) \in Truth
BY DEF truth_of, negate, not, Truth

\* IS NULL.
LEMMA FoldIsNull ==
  ASSUME NEW p \in IsNulls, NEW r \in Rows
  PROVE  /\ fold_is_null(p) \in Atoms
         /\ eval_atom(fold_is_null(p), r) = eval_atom(p, r)
<1> DEFINE e == fold_scalar(p.e)
<1>1. p.k = "null" /\ p.e \in Scalars /\ p.negated \in BOOLEAN
      /\ p = [k |-> "null", e |-> p.e, negated |-> p.negated]
  BY DEF IsNulls
<1>2. /\ e \in Scalars /\ eval_scalar(e, r) = eval_scalar(p.e, r)
      /\ literal(e) => e.v = eval_scalar(p.e, r)
  BY <1>1, FoldScalar
<1>3. eval_atom(p, r) = negate(p.negated, truth_of(eval_scalar(p.e, r) = Null))
  BY <1>1 DEF eval_atom
<1>4. CASE literal(e)
  <2>1. fold_is_null(p) = const(negate(p.negated, truth_of(e.v = Null)))
    BY <1>4 DEF fold_is_null
  <2>2. fold_is_null(p) = const(eval_atom(p, r))
    BY <1>2, <1>3, <1>4, <2>1
  <2>3. eval_atom(p, r) \in Truth
    BY <1>1, <1>3, NegatedTruth
  <2> QED
    BY <2>2, <2>3, ConstFacts
<1>5. CASE ~literal(e)
  <2>1. fold_is_null(p) = [k |-> "null", e |-> e, negated |-> p.negated]
    BY <1>1, <1>5 DEF fold_is_null
  <2> HIDE DEF e
  <2>2. fold_is_null(p) \in IsNulls
    BY <1>1, <1>2, <2>1 DEF IsNulls
  <2>3. eval_atom(fold_is_null(p), r) = negate(p.negated, truth_of(eval_scalar(e, r) = Null))
    BY <2>1 DEF eval_atom
  <2> QED
    BY <1>2, <1>3, <2>2, <2>3 DEF Atoms
<1> QED
  BY <1>4, <1>5

\* The elements of an IN list, arrays expanded, are scalars; expanding the
\* expanded list changes nothing.
LEMMA ExpandFacts ==
  /\ \A list \in SUBSET (Scalars \cup Args) : expand_args(list) \subseteq Scalars
  /\ \A list \in SUBSET Scalars : expand_args(list) = list
<1>1. /\ \A s \in Args : s.k = "args" /\ s.of \subseteq Scalars
      /\ \A s \in Scalars : s.k # "args"
  BY ScalarFacts DEF Args, Scalars
<1> QED
  BY <1>1 DEF expand_args

\* IN.
LEMMA FoldIn ==
  ASSUME Apart, NEW p \in InLists, NEW r \in Rows
  PROVE  /\ fold_in(p) \in Atoms
         /\ eval_atom(fold_in(p), r) = eval_atom(p, r)
<1> DEFINE e == fold_scalar(p.e)
           flat == expand_args(p.list)
           list == {fold_scalar(s) : s \in flat}
           vs == {eval_scalar(s, r) : s \in flat}
           x == eval_scalar(p.e, r)
           t == truth_in(\E v \in vs \ {Null} : value_equal(x, v), Null \in vs, p.negated)
<1>1. p.k = "in" /\ p.e \in Scalars /\ p.list \in SUBSET (Scalars \cup Args)
      /\ p.negated \in BOOLEAN
      /\ p = [k |-> "in", e |-> p.e, list |-> p.list, negated |-> p.negated]
  BY DEF InLists
<1>2. flat \subseteq Scalars
  BY <1>1, ExpandFacts
<1>3. /\ e \in Scalars /\ eval_scalar(e, r) = x /\ x \in Values
      /\ literal(e) => e.v = x
  BY <1>1, FoldScalar
<1>4. \A s \in flat : /\ fold_scalar(s) \in Scalars /\ eval_scalar(s, r) \in Values
                      /\ eval_scalar(fold_scalar(s), r) = eval_scalar(s, r)
                      /\ literal(fold_scalar(s)) => fold_scalar(s).v = eval_scalar(s, r)
  BY <1>2, FoldScalar
<1>5. eval_atom(p, r) = t
  BY <1>1 DEF eval_atom
<1>6. CASE literal(e) /\ \A s \in list : literal(s)
  <2>1. {s.v : s \in list} = vs
    BY <1>4, <1>6
  <2>2. fold_in(p) = const(truth_in(\E v \in {s.v : s \in list} \ {Null} : literal_equal(e.v, v),
                                    Null \in {s.v : s \in list}, p.negated))
    BY <1>6 DEF fold_in
  <2>3. \A v \in vs : literal_equal(e.v, v) = value_equal(x, v)
    BY <1>3, <1>4, <1>6, EqualAgrees
  <2>4. (\E v \in vs \ {Null} : literal_equal(e.v, v)) <=> (\E v \in vs \ {Null} : value_equal(x, v))
    BY <2>3
  <2>5. fold_in(p) = const(t)
    <3>1. fold_in(p) = const(truth_in(\E v \in vs \ {Null} : literal_equal(e.v, v),
                                      Null \in vs, p.negated))
      BY <2>1, <2>2
    <3> HIDE DEF vs, x
    <3> QED
      BY <2>4, <3>1 DEF truth_in
  <2>6. t \in Truth
    <3>1. \A hit, nulls, negated : truth_in(hit, nulls, negated) \in Truth
      BY NegatedTruth DEF truth_in, Truth
    <3> QED
      BY <3>1
  <2> HIDE DEF t
  <2> QED
    BY <1>5, <2>5, <2>6, ConstFacts
<1>7. CASE ~(literal(e) /\ \A s \in list : literal(s))
  <2>1. fold_in(p) = [k |-> "in", e |-> e, list |-> list, negated |-> p.negated]
    BY <1>1, <1>7 DEF fold_in
  <2>2. list \subseteq Scalars
    BY <1>4
  <2>3. expand_args(list) = list
    BY <2>2, ExpandFacts
  <2>4. {eval_scalar(s, r) : s \in list} = vs
    BY <1>4
  <2> HIDE DEF e, list, vs, x, flat
  <2>5. fold_in(p) \in InLists
    BY <1>1, <1>3, <2>1, <2>2 DEF InLists
  <2>6. eval_atom(fold_in(p), r) =
          truth_in(\E v \in {eval_scalar(s, r) : s \in list} \ {Null} : value_equal(eval_scalar(e, r), v),
                   Null \in {eval_scalar(s, r) : s \in list}, p.negated)
    BY <2>1, <2>3 DEF eval_atom
  <2>7. eval_atom(fold_in(p), r) = t
    BY <1>3, <2>4, <2>6
  <2> QED
    BY <1>5, <2>5, <2>7 DEF Atoms
<1> QED
  BY <1>6, <1>7

\* LIKE.
LEMMA FoldLike ==
  ASSUME NEW p \in Likes, NEW r \in Rows
  PROVE  /\ fold_like(p) \in Atoms
         /\ eval_atom(fold_like(p), r) = eval_atom(p, r)
<1> DEFINE e == fold_scalar(p.e)
           q == fold_scalar(p.pattern)
           x == eval_scalar(p.e, r)
           y == eval_scalar(p.pattern, r)
           like(v, w) == negate(p.negated, IF v.ty = "text" /\ w.ty = "text"
                                           THEN eval_like(v, w) ELSE "Unknown")
<1>1. p.k = "like" /\ p.e \in Scalars /\ p.pattern \in Scalars /\ p.negated \in BOOLEAN
      /\ p = [k |-> "like", e |-> p.e, pattern |-> p.pattern, negated |-> p.negated]
  BY DEF Likes
<1>2. /\ e \in Scalars /\ eval_scalar(e, r) = x /\ x \in Values
      /\ literal(e) => e.v = x
  BY <1>1, FoldScalar
<1>3. /\ q \in Scalars /\ eval_scalar(q, r) = y /\ y \in Values
      /\ literal(q) => q.v = y
  BY <1>1, FoldScalar
<1>4. eval_atom(p, r) = like(x, y)
  BY <1>1 DEF eval_atom
<1>5. CASE literal(e) /\ literal(q) /\ e.v.ty = "text" /\ q.v.ty = "text"
  <2>0. [k |-> "lit", v |-> Null] \notin {e, q}
    BY <1>5, LiteralFacts, ValueFacts
  <2>1. fold_like(p) = const(negate(p.negated, eval_like(e.v, q.v)))
    BY <1>5, <2>0 DEF fold_like
  <2>2. fold_like(p) = const(like(x, y))
    BY <1>2, <1>3, <1>5, <2>1
  <2>3. like(x, y) \in Truth
    BY <1>2, <1>3, <1>5, NegatedTruth DEF eval_like
  <2> QED
    BY <1>4, <2>2, <2>3, ConstFacts
<1>6. CASE /\ ~(literal(e) /\ literal(q) /\ e.v.ty = "text" /\ q.v.ty = "text")
           /\ [k |-> "lit", v |-> Null] \in {e, q}
  <2>1. fold_like(p) = const("Unknown")
    BY <1>6 DEF fold_like
  <2>2. x = Null \/ y = Null
    BY <1>2, <1>3, <1>6, LiteralFacts, ValueFacts
  <2>3. like(x, y) = "Unknown"
    BY <2>2, ValueFacts DEF negate, not
  <2> QED
    BY <1>4, <2>1, <2>3, ConstFacts DEF Truth
<1>7. CASE /\ ~(literal(e) /\ literal(q) /\ e.v.ty = "text" /\ q.v.ty = "text")
           /\ [k |-> "lit", v |-> Null] \notin {e, q}
  <2>1. fold_like(p) = [k |-> "like", e |-> e, pattern |-> q, negated |-> p.negated]
    BY <1>1, <1>7 DEF fold_like
  <2> HIDE DEF e, q
  <2>2. fold_like(p) \in Likes
    BY <1>1, <1>2, <1>3, <2>1 DEF Likes
  <2>3. eval_atom(fold_like(p), r) = like(eval_scalar(e, r), eval_scalar(q, r))
    BY <2>1 DEF eval_atom
  <2> QED
    BY <1>2, <1>3, <1>4, <2>2, <2>3 DEF Atoms
<1> QED
  BY <1>5, <1>6, <1>7

\* Atoms evaluate to the same after folding.
LEMMA FoldAtom ==
  ASSUME Apart, NEW p \in Atoms, NEW r \in Rows
  PROVE  /\ fold_atom(p) \in Atoms
         /\ eval_atom(fold_atom(p), r) = eval_atom(p, r)
<1>1. CASE p \in Compares
  <2>1. fold_atom(p) = fold_compare(p)
    BY <1>1 DEF Compares, fold_atom
  <2> QED
    BY <1>1, <2>1, FoldCompare
<1>2. CASE p \in IsNulls
  <2>1. fold_atom(p) = fold_is_null(p)
    BY <1>2 DEF IsNulls, fold_atom
  <2> QED
    BY <1>2, <2>1, FoldIsNull
<1>3. CASE p \in InLists
  <2>1. fold_atom(p) = fold_in(p)
    BY <1>3 DEF InLists, fold_atom
  <2> QED
    BY <1>3, <2>1, FoldIn
<1>4. CASE p \in Likes
  <2>1. fold_atom(p) = fold_like(p)
    BY <1>4 DEF Likes, fold_atom
  <2> QED
    BY <1>4, <2>1, FoldLike
<1>5. CASE p \in Consts
  <2>1. fold_atom(p) = p
    BY <1>5 DEF Consts, fold_atom
  <2> QED
    BY <1>5, <2>1 DEF Atoms
<1> QED
  BY <1>1, <1>2, <1>3, <1>4, <1>5 DEF Atoms
-----------------------------------------------------------------------------
(* AND and OR.                                                             *)

\* Atoms are not AND or OR.
LEMMA KindFacts ==
  /\ \A p \in Atoms : p.k \notin {"and", "or"}
  /\ \A S : \A p \in Junctions(S) : /\ p.k \in {"and", "or"} /\ p.of \subseteq S /\ p.of # {}
                                   /\ p = [k |-> p.k, of |-> p.of]
  /\ \A p : p \in Groups <=> p \in Atoms \/ p \in Junctions(Atoms)
  /\ \A p : p \in Trees <=> p \in Groups \/ p \in Junctions(Groups)
BY DEF Atoms, Compares, IsNulls, InLists, Likes, Consts, Junctions, Groups, Trees

\* The folds of AND and OR give truths.
LEMMA AllAnyTruth == \A T : all(T) \in Truth /\ any(T) \in Truth
BY DEF all, any, Truth

\* One level of AND, of any operands: val is the truth of an operand before it is
\* folded, new after, and folding the operands kept what was decided.
LEMMA FoldAnd ==
  ASSUME NEW X, NEW val \in [X -> Truth], NEW fold, NEW S, S = {fold[x] : x \in X},
         NEW new \in [S -> Truth],
         \A x \in X : val[x] # "Unknown" => new[fold[x]] = val[x],
         \A y \in S : y.k = "const" => new[y] = y.t,
         all({val[x] : x \in X}) # "Unknown"
  PROVE  \/ fold_and(S) = const(all({val[x] : x \in X}))
         \/ /\ S # constants(S) /\ fold_and(S) = [k |-> "and", of |-> S \ constants(S)]
            /\ all({new[y] : y \in S \ constants(S)}) = all({val[x] : x \in X})
<1> DEFINE t == all({val[x] : x \in X})
<1>1. /\ \A x \in X : fold[x] \in S
      /\ \A y \in S : \E x \in X : y = fold[x]
  OBVIOUS
<1>2. \A y \in constants(S) : y \in S /\ new[y] = y.t
  BY DEF constants
<1>3. CASE t = "True"
  <2>1. \A x \in X : val[x] = "True"
    BY <1>3 DEF all, Truth
  <2>2. \A y \in S : new[y] = "True"
    BY <1>1, <2>1
  <2>3. \A u \in truths(S) : u = "True"
    BY <1>2, <2>2 DEF truths
  <2>4. "False" \notin truths(S) /\ all(truths(S)) = "True"
    BY <2>3 DEF all
  <2>5. all({new[y] : y \in S \ constants(S)}) = "True"
    BY <2>2 DEF all
  <2> QED
    BY <1>3, <2>4, <2>5 DEF fold_and
<1>4. CASE t = "False"
  <2>1. PICK x \in X : val[x] = "False"
    BY <1>4 DEF all
  <2>2. fold[x] \in S /\ new[fold[x]] = "False"
    BY <1>1, <2>1
  <2>3. CASE fold[x] \in constants(S)
    <3>1. "False" \in truths(S)
      BY <1>2, <2>2, <2>3 DEF truths
    <3>2. fold_and(S) = const("False")
      BY <3>1 DEF fold_and, all
    <3> QED
      BY <1>4, <3>2
  <2>4. CASE fold[x] \notin constants(S)
    <3>1. all({new[y] : y \in S \ constants(S)}) = "False"
      BY <2>2, <2>4 DEF all
    <3>2. S # constants(S)
      BY <2>2, <2>4
    <3>3. fold_and(S) = const("False") \/ fold_and(S) = [k |-> "and", of |-> S \ constants(S)]
      BY <3>2 DEF fold_and
    <3> QED
      BY <1>4, <3>1, <3>2, <3>3
  <2> QED
    BY <2>3, <2>4
<1> QED
  BY <1>3, <1>4, AllAnyTruth DEF Truth

\* One level of OR, of any operands: val is the truth of an operand before it is
\* folded, new after, and folding the operands kept what was decided.
LEMMA FoldOr ==
  ASSUME NEW X, NEW val \in [X -> Truth], NEW fold, NEW S, S = {fold[x] : x \in X},
         NEW new \in [S -> Truth],
         \A x \in X : val[x] # "Unknown" => new[fold[x]] = val[x],
         \A y \in S : y.k = "const" => new[y] = y.t,
         any({val[x] : x \in X}) # "Unknown"
  PROVE  \/ fold_or(S) = const(any({val[x] : x \in X}))
         \/ /\ S # constants(S) /\ fold_or(S) = [k |-> "or", of |-> S \ constants(S)]
            /\ any({new[y] : y \in S \ constants(S)}) = any({val[x] : x \in X})
<1> DEFINE t == any({val[x] : x \in X})
<1>1. /\ \A x \in X : fold[x] \in S
      /\ \A y \in S : \E x \in X : y = fold[x]
  OBVIOUS
<1>2. \A y \in constants(S) : y \in S /\ new[y] = y.t
  BY DEF constants
<1>3. CASE t = "False"
  <2>1. \A x \in X : val[x] = "False"
    BY <1>3 DEF any, Truth
  <2>2. \A y \in S : new[y] = "False"
    BY <1>1, <2>1
  <2>3. \A u \in truths(S) : u = "False"
    BY <1>2, <2>2 DEF truths
  <2>4. "True" \notin truths(S) /\ any(truths(S)) = "False"
    BY <2>3 DEF any
  <2>5. any({new[y] : y \in S \ constants(S)}) = "False"
    BY <2>2 DEF any
  <2> QED
    BY <1>3, <2>4, <2>5 DEF fold_or
<1>4. CASE t = "True"
  <2>1. PICK x \in X : val[x] = "True"
    BY <1>4 DEF any
  <2>2. fold[x] \in S /\ new[fold[x]] = "True"
    BY <1>1, <2>1
  <2>3. CASE fold[x] \in constants(S)
    <3>1. "True" \in truths(S)
      BY <1>2, <2>2, <2>3 DEF truths
    <3>2. fold_or(S) = const("True")
      BY <3>1 DEF fold_or, any
    <3> QED
      BY <1>4, <3>2
  <2>4. CASE fold[x] \notin constants(S)
    <3>1. any({new[y] : y \in S \ constants(S)}) = "True"
      BY <2>2, <2>4 DEF any
    <3>2. S # constants(S)
      BY <2>2, <2>4
    <3>3. fold_or(S) = const("True") \/ fold_or(S) = [k |-> "or", of |-> S \ constants(S)]
      BY <3>2 DEF fold_or
    <3> QED
      BY <1>4, <3>1, <3>2, <3>3
  <2> QED
    BY <2>3, <2>4
<1> QED
  BY <1>3, <1>4, AllAnyTruth DEF Truth

\* An atom is true, false or unknown of a row.
LEMMA EvalAtomTruth ==
  ASSUME NEW p \in Atoms, NEW r \in Rows
  PROVE  eval_atom(p, r) \in Truth
<1>1. CASE p \in Compares
  <2>1. \A l, op, q, equal : compare(l, op, q, equal) \in Truth
    BY DEF compare, truth_of, Truth
  <2>2. eval_atom(p, r) = lit_cmp3(eval_scalar(p.left, r), p.op, eval_scalar(p.right, r))
    BY <1>1 DEF Compares, eval_atom
  <2> QED
    BY <2>1, <2>2 DEF lit_cmp3
<1>2. CASE p \in IsNulls
  <2>1. eval_atom(p, r) = negate(p.negated, truth_of(eval_scalar(p.e, r) = Null))
    BY <1>2 DEF IsNulls, eval_atom
  <2> QED
    BY <2>1, NegatedTruth
<1>3. CASE p \in InLists
  <2>1. \E hit, nulls : eval_atom(p, r) = truth_in(hit, nulls, p.negated)
    BY <1>3 DEF InLists, eval_atom
  <2>2. \A hit, nulls, negated : truth_in(hit, nulls, negated) \in Truth
    BY NegatedTruth DEF truth_in, Truth
  <2> QED
    BY <2>1, <2>2
<1>4. CASE p \in Likes
  <2> DEFINE t == IF eval_scalar(p.e, r).ty = "text" /\ eval_scalar(p.pattern, r).ty = "text"
                  THEN eval_like(eval_scalar(p.e, r), eval_scalar(p.pattern, r)) ELSE "Unknown"
  <2>1. eval_atom(p, r) = negate(p.negated, t)
    BY <1>4 DEF Likes, eval_atom
  <2>2. t \in Truth
    BY DEF eval_like, truth_of, Truth
  <2> HIDE DEF t
  <2> QED
    BY <2>1, <2>2, NegatedTruth
<1>5. CASE p \in Consts
  BY <1>5 DEF Consts, eval_atom
<1> QED
  BY <1>1, <1>2, <1>3, <1>4, <1>5 DEF Atoms

\* A group is true, false or unknown of a row.
LEMMA EvalGroupTruth ==
  ASSUME NEW p \in Groups, NEW r \in Rows
  PROVE  eval_group(p, r) \in Truth
BY EvalAtomTruth, AllAnyTruth, KindFacts DEF eval_group

\* The left fold of and is the truth of the set of the operands.
LEMMA LeftFoldAnd ==
  ASSUME NEW n \in Nat, NEW t \in [1..n -> Truth]
  PROVE  FoldLeft(and, "True", t) = all(Range(t))
<1> DEFINE G == [X \in SUBSET (1..n) |-> all({t[i] : i \in X})]
           is_fold(F) == F = [X \in SUBSET (1..n) |->
                                IF X = {} THEN "True" ELSE and(F[X \ {Max(X)}], t[Max(X)])]
           H == CHOOSE F : is_fold(F)
<1>1. is_fold(G)
  <2>1. ASSUME NEW X \in SUBSET (1..n), X # {}
        PROVE  G[X] = and(G[X \ {Max(X)}], t[Max(X)])
    <3>1. PICK m \in X : m = Max(X) /\ m \in 1..n
      BY <2>1, MaxFacts
    <3>2. t[m] \in Truth /\ {t[i] : i \in X} = {t[i] : i \in X \ {m}} \cup {t[m]}
      BY <3>1
    <3>3. X \ {m} \in SUBSET (1..n)
      OBVIOUS
    <3>4. all({t[i] : i \in X}) = and(all({t[i] : i \in X \ {m}}), t[m])
      BY <3>2 DEF all, and, Truth
    <3> QED
      BY <3>1, <3>3, <3>4
  <2>2. G[{}] = "True"
    BY DEF all
  <2> QED
    BY <2>1, <2>2
<1>2. is_fold(H)
  BY <1>1
<1>3. FoldLeft(and, "True", t) = H[1..n]
  BY DEF FoldLeft, MapThenFoldSet
<1> HIDE DEF H, G
<1>4. ASSUME NEW F, is_fold(F)
      PROVE  /\ F[{}] = "True"
             /\ \A X \in SUBSET (1..n) : X # {} => F[X] = and(F[X \ {Max(X)}], t[Max(X)])
  BY <1>4
<1> HIDE DEF is_fold
<1>5. G[1..n] = H[1..n]
  <2>1. G[{}] = H[{}]
    BY <1>1, <1>2, <1>4
  <2>2. \A X \in SUBSET (1..n) : X # {} /\ G[X \ {Max(X)}] = H[X \ {Max(X)}] => G[X] = H[X]
    BY <1>1, <1>2, <1>4
  <2> QED
    BY <2>1, <2>2, FoldsAgree
<1>6. G[1..n] = all(Range(t))
  BY DEF G, Range
<1> QED
  BY <1>3, <1>5, <1>6

\* The left fold of or is the truth of the set of the operands.
LEMMA LeftFoldOr ==
  ASSUME NEW n \in Nat, NEW t \in [1..n -> Truth]
  PROVE  FoldLeft(or, "False", t) = any(Range(t))
<1> DEFINE G == [X \in SUBSET (1..n) |-> any({t[i] : i \in X})]
           is_fold(F) == F = [X \in SUBSET (1..n) |->
                                IF X = {} THEN "False" ELSE or(F[X \ {Max(X)}], t[Max(X)])]
           H == CHOOSE F : is_fold(F)
<1>1. is_fold(G)
  <2>1. ASSUME NEW X \in SUBSET (1..n), X # {}
        PROVE  G[X] = or(G[X \ {Max(X)}], t[Max(X)])
    <3>1. PICK m \in X : m = Max(X) /\ m \in 1..n
      BY <2>1, MaxFacts
    <3>2. t[m] \in Truth /\ {t[i] : i \in X} = {t[i] : i \in X \ {m}} \cup {t[m]}
      BY <3>1
    <3>3. X \ {m} \in SUBSET (1..n)
      OBVIOUS
    <3>4. any({t[i] : i \in X}) = or(any({t[i] : i \in X \ {m}}), t[m])
      BY <3>2 DEF any, or, Truth
    <3> QED
      BY <3>1, <3>3, <3>4
  <2>2. G[{}] = "False"
    BY DEF any
  <2> QED
    BY <2>1, <2>2
<1>2. is_fold(H)
  BY <1>1
<1>3. FoldLeft(or, "False", t) = H[1..n]
  BY DEF FoldLeft, MapThenFoldSet
<1> HIDE DEF H, G
<1>4. ASSUME NEW F, is_fold(F)
      PROVE  /\ F[{}] = "False"
             /\ \A X \in SUBSET (1..n) : X # {} => F[X] = or(F[X \ {Max(X)}], t[Max(X)])
  BY <1>4
<1> HIDE DEF is_fold
<1>5. G[1..n] = H[1..n]
  <2>1. G[{}] = H[{}]
    BY <1>1, <1>2, <1>4
  <2>2. \A X \in SUBSET (1..n) : X # {} /\ G[X \ {Max(X)}] = H[X \ {Max(X)}] => G[X] = H[X]
    BY <1>1, <1>2, <1>4
  <2> QED
    BY <2>1, <2>2, FoldsAgree
<1>6. G[1..n] = any(Range(t))
  BY DEF G, Range
<1> QED
  BY <1>3, <1>5, <1>6

\* What is constant among atoms and groups, and what folding AND and OR returns.
LEMMA ConstantFacts ==
  ASSUME NEW p \in Groups, p.k = "const", NEW r
  PROVE  p \in Consts /\ eval_atom(p, r) = p.t /\ eval_group(p, r) = p.t
<1>1. p \in Consts
  BY KindFacts DEF Atoms, Compares, IsNulls, InLists, Likes
<1> QED
  BY <1>1 DEF Consts, eval_atom, eval_group

\* Folding an AND or OR of operands in B gives a constant, or one of operands in B.
LEMMA FoldJunctionType ==
  ASSUME NEW B, NEW S \in SUBSET B
  PROVE  /\ fold_and(S) \in Consts \cup Junctions(B)
         /\ fold_or(S) \in Consts \cup Junctions(B)
<1>1. \A t \in Truth : const(t) \in Consts
  BY DEF const, Consts
<1>2. {"True", "False"} \subseteq Truth /\ all(truths(S)) \in Truth /\ any(truths(S)) \in Truth
  BY AllAnyTruth DEF Truth
<1>3. S # constants(S) =>
        /\ [k |-> "and", of |-> S \ constants(S)] \in Junctions(B)
        /\ [k |-> "or", of |-> S \ constants(S)] \in Junctions(B)
  <2> SUFFICES ASSUME S # constants(S)
               PROVE  S \ constants(S) \in (SUBSET B) \ {{}}
    BY DEF Junctions
  <2> QED
    BY DEF constants
<1>4. CASE S = constants(S)
  BY <1>1, <1>2, <1>4 DEF fold_and, fold_or, all, any
<1>5. CASE S # constants(S)
  BY <1>1, <1>2, <1>3, <1>5 DEF fold_and, fold_or
<1> QED
  BY <1>4, <1>5

\* An AND or OR of atoms that is true or false of a row stays so after folding.
LEMMA FoldGroup ==
  ASSUME Apart, NEW p \in Groups, NEW r \in Rows
  PROVE  /\ fold_group(p) \in Groups
         /\ eval_group(p, r) \in Truth
         /\ eval_group(p, r) # "Unknown" => eval_group(fold_group(p), r) = eval_group(p, r)
<1> DEFINE S == {fold_atom(q) : q \in p.of}
           F == [x \in p.of |-> fold_atom(x)]
           V == [x \in p.of |-> eval_atom(x, r)]
           N == [y \in S |-> eval_atom(y, r)]
<1>1. CASE p \in Atoms
  <2>1. p.k \notin {"and", "or"}
    BY <1>1, KindFacts
  <2>2. fold_group(p) = fold_atom(p) /\ eval_group(p, r) = eval_atom(p, r)
    BY <2>1 DEF fold_group, eval_group
  <2>3. fold_atom(p) \in Atoms /\ eval_atom(fold_atom(p), r) = eval_atom(p, r)
    BY <1>1, FoldAtom
  <2>4. eval_group(fold_atom(p), r) = eval_atom(fold_atom(p), r)
    BY <2>3, KindFacts DEF eval_group
  <2> QED
    BY <1>1, <2>2, <2>3, <2>4, KindFacts, EvalAtomTruth
<1>2. CASE p \in Junctions(Atoms)
  <2>1. p.k \in {"and", "or"} /\ p.of \subseteq Atoms
    BY <1>2, KindFacts
  <2>2. \A x \in p.of : /\ fold_atom(x) \in Atoms /\ eval_atom(x, r) \in Truth
                        /\ eval_atom(x, r) # "Unknown" => eval_atom(fold_atom(x), r) = eval_atom(x, r)
    BY <2>1, FoldAtom, EvalAtomTruth
  <2>3. S \subseteq Atoms /\ S = {F[x] : x \in p.of}
    BY <2>2
  <2>4. \A y \in S : eval_atom(y, r) \in Truth
    BY <2>3, FoldAtom, EvalAtomTruth
  <2>5. V \in [p.of -> Truth] /\ N \in [S -> Truth]
    BY <2>2, <2>4
  <2>6. /\ \A x \in p.of : V[x] # "Unknown" => N[F[x]] = V[x]
        /\ \A y \in S : y.k = "const" => N[y] = y.t
    BY <2>2, <2>3, ConstantFacts, KindFacts
  <2>7. {V[x] : x \in p.of} = {eval_atom(x, r) : x \in p.of}
    OBVIOUS
  <2>8. \A T \in SUBSET S : {N[y] : y \in T} = {eval_atom(y, r) : y \in T}
    OBVIOUS
  <2>9. \A t \in Truth : const(t) \in Groups /\ eval_group(const(t), r) = t
    BY ConstFacts, KindFacts DEF eval_group
  <2>10. fold_and(S) \in Consts \cup Junctions(Atoms) /\ fold_or(S) \in Consts \cup Junctions(Atoms)
    BY <2>3, FoldJunctionType
  <2>11. \A q \in Consts : q \in Groups
    BY KindFacts DEF Atoms
  <2> HIDE DEF S, F, V, N
  <2>12. CASE p.k = "and"
    <3>1. fold_group(p) = fold_and(S) /\ eval_group(p, r) = all({V[x] : x \in p.of})
      BY <2>7, <2>12 DEF fold_group, eval_group, S
    <3>2. eval_group(p, r) # "Unknown" =>
            \/ fold_and(S) = const(eval_group(p, r))
            \/ /\ fold_and(S) = [k |-> "and", of |-> S \ constants(S)]
               /\ all({N[y] : y \in S \ constants(S)}) = eval_group(p, r)
      BY <2>3, <2>5, <2>6, <3>1, FoldAnd
    <3>3. eval_group([k |-> "and", of |-> S \ constants(S)], r) = all({N[y] : y \in S \ constants(S)})
      BY <2>8 DEF eval_group
    <3>4. fold_group(p) \in Groups /\ eval_group(p, r) \in Truth
      BY <2>10, <2>11, <3>1, AllAnyTruth, KindFacts
    <3>5. eval_group(p, r) # "Unknown" => eval_group(fold_group(p), r) = eval_group(p, r)
      BY <2>9, <3>1, <3>2, <3>3, <3>4
    <3> QED
      BY <3>4, <3>5
  <2>13. CASE p.k = "or"
    <3>1. fold_group(p) = fold_or(S) /\ eval_group(p, r) = any({V[x] : x \in p.of})
      BY <2>7, <2>13 DEF fold_group, eval_group, S
    <3>2. eval_group(p, r) # "Unknown" =>
            \/ fold_or(S) = const(eval_group(p, r))
            \/ /\ fold_or(S) = [k |-> "or", of |-> S \ constants(S)]
               /\ any({N[y] : y \in S \ constants(S)}) = eval_group(p, r)
      <4>1. SUFFICES ASSUME any({V[x] : x \in p.of}) # "Unknown"
                   PROVE  \/ fold_or(S) = const(any({V[x] : x \in p.of}))
                          \/ /\ fold_or(S) = [k |-> "or", of |-> S \ constants(S)]
                             /\ any({N[y] : y \in S \ constants(S)}) = any({V[x] : x \in p.of})
        BY <3>1
      <4> QED
        BY <2>3, <2>5, <2>6, <4>1, FoldOr
    <3>3. eval_group([k |-> "or", of |-> S \ constants(S)], r) = any({N[y] : y \in S \ constants(S)})
      BY <2>8 DEF eval_group
    <3>4. fold_group(p) \in Groups /\ eval_group(p, r) \in Truth
      BY <2>10, <2>11, <3>1, AllAnyTruth, KindFacts
    <3>5. eval_group(p, r) # "Unknown" => eval_group(fold_group(p), r) = eval_group(p, r)
      BY <2>9, <3>1, <3>2, <3>3, <3>4
    <3> QED
      BY <3>4, <3>5
  <2> QED
    BY <2>1, <2>12, <2>13
<1> QED
  BY <1>1, <1>2, KindFacts

\* And so does an AND or OR of such groups.
LEMMA FoldTree ==
  ASSUME Apart, NEW p \in Trees, NEW r \in Rows
  PROVE  /\ fold_predicate(p) \in Trees
         /\ eval_predicate3(p, r) \in Truth
         /\ eval_predicate3(p, r) # "Unknown" => eval_predicate3(fold_predicate(p), r) = eval_predicate3(p, r)
<1> DEFINE S == {fold_group(q) : q \in p.of}
           F == [x \in p.of |-> fold_group(x)]
           V == [x \in p.of |-> eval_group(x, r)]
           N == [y \in S |-> eval_group(y, r)]
<1>1. CASE p \in Atoms
  <2>1. \A q \in Atoms : fold_predicate(q) = fold_group(q) /\ eval_predicate3(q, r) = eval_group(q, r)
    BY KindFacts DEF fold_predicate, eval_predicate3
  <2>2. fold_group(p) \in Atoms
    BY <1>1, FoldAtom, KindFacts DEF fold_group
  <2> QED
    BY <1>1, <2>1, <2>2, FoldGroup, KindFacts
<1>2. CASE p \in Junctions(Groups)
  <2>1. p.k \in {"and", "or"} /\ p.of \subseteq Groups
    BY <1>2, KindFacts
  <2>2. \A x \in p.of : /\ fold_group(x) \in Groups /\ eval_group(x, r) \in Truth
                        /\ eval_group(x, r) # "Unknown" => eval_group(fold_group(x), r) = eval_group(x, r)
    BY <2>1, FoldGroup
  <2>3. S \subseteq Groups /\ S = {F[x] : x \in p.of}
    BY <2>2
  <2>4. \A y \in S : eval_group(y, r) \in Truth
    BY <2>3, FoldGroup
  <2>5. V \in [p.of -> Truth] /\ N \in [S -> Truth]
    BY <2>2, <2>4
  <2>6. /\ \A x \in p.of : V[x] # "Unknown" => N[F[x]] = V[x]
        /\ \A y \in S : y.k = "const" => N[y] = y.t
    BY <2>2, <2>3, ConstantFacts, KindFacts
  <2>7. {V[x] : x \in p.of} = {eval_group(x, r) : x \in p.of}
    OBVIOUS
  <2>8. \A T \in SUBSET S : {N[y] : y \in T} = {eval_group(y, r) : y \in T}
    OBVIOUS
  <2>9. \A t \in Truth : const(t) \in Trees /\ eval_predicate3(const(t), r) = t
    BY ConstFacts, KindFacts DEF eval_group, eval_predicate3
  <2>10. fold_and(S) \in Consts \cup Junctions(Groups) /\ fold_or(S) \in Consts \cup Junctions(Groups)
    BY <2>3, FoldJunctionType
  <2>11. \A q \in Consts : q \in Trees
    BY KindFacts DEF Atoms
  <2> HIDE DEF S, F, V, N
  <2>12. CASE p.k = "and"
    <3>1. fold_predicate(p) = fold_and(S) /\ eval_predicate3(p, r) = all({V[x] : x \in p.of})
      BY <2>7, <2>12 DEF fold_predicate, eval_predicate3, S
    <3>2. eval_predicate3(p, r) # "Unknown" =>
            \/ fold_and(S) = const(eval_predicate3(p, r))
            \/ /\ fold_and(S) = [k |-> "and", of |-> S \ constants(S)]
               /\ all({N[y] : y \in S \ constants(S)}) = eval_predicate3(p, r)
      BY <2>3, <2>5, <2>6, <3>1, FoldAnd
    <3>3. eval_predicate3([k |-> "and", of |-> S \ constants(S)], r) = all({N[y] : y \in S \ constants(S)})
      BY <2>8 DEF eval_predicate3
    <3>4. fold_predicate(p) \in Trees /\ eval_predicate3(p, r) \in Truth
      BY <2>10, <2>11, <3>1, AllAnyTruth, KindFacts
    <3>5. eval_predicate3(p, r) # "Unknown" => eval_predicate3(fold_predicate(p), r) = eval_predicate3(p, r)
      BY <2>9, <3>1, <3>2, <3>3, <3>4
    <3> QED
      BY <3>4, <3>5
  <2>13. CASE p.k = "or"
    <3>1. fold_predicate(p) = fold_or(S) /\ eval_predicate3(p, r) = any({V[x] : x \in p.of})
      BY <2>7, <2>13 DEF fold_predicate, eval_predicate3, S
    <3>2. eval_predicate3(p, r) # "Unknown" =>
            \/ fold_or(S) = const(eval_predicate3(p, r))
            \/ /\ fold_or(S) = [k |-> "or", of |-> S \ constants(S)]
               /\ any({N[y] : y \in S \ constants(S)}) = eval_predicate3(p, r)
      <4>1. SUFFICES ASSUME any({V[x] : x \in p.of}) # "Unknown"
                   PROVE  \/ fold_or(S) = const(any({V[x] : x \in p.of}))
                          \/ /\ fold_or(S) = [k |-> "or", of |-> S \ constants(S)]
                             /\ any({N[y] : y \in S \ constants(S)}) = any({V[x] : x \in p.of})
        BY <3>1
      <4> QED
        BY <2>3, <2>5, <2>6, <4>1, FoldOr
    <3>3. eval_predicate3([k |-> "or", of |-> S \ constants(S)], r) = any({N[y] : y \in S \ constants(S)})
      BY <2>8 DEF eval_predicate3
    <3>4. fold_predicate(p) \in Trees /\ eval_predicate3(p, r) \in Truth
      BY <2>10, <2>11, <3>1, AllAnyTruth, KindFacts
    <3>5. eval_predicate3(p, r) # "Unknown" => eval_predicate3(fold_predicate(p), r) = eval_predicate3(p, r)
      BY <2>9, <3>1, <3>2, <3>3, <3>4
    <3> QED
      BY <3>4, <3>5
  <2> QED
    BY <2>1, <2>12, <2>13
<1>3. Junctions(Atoms) \subseteq Junctions(Groups)
  BY DEF Junctions, Groups
<1> QED
  BY <1>1, <1>2, <1>3, KindFacts

\* One level of parentheses is two levels, of which one is not used.
LEMMA GroupIsTree ==
  ASSUME NEW p \in Groups, NEW r
  PROVE  eval_predicate3(p, r) = eval_group(p, r) /\ fold_predicate(p) = fold_group(p)
<1>1. \A q \in Atoms : eval_group(q, r) = eval_atom(q, r) /\ fold_group(q) = fold_atom(q)
  BY KindFacts DEF eval_group, fold_group
<1>2. CASE p \in Atoms
  BY <1>2, KindFacts DEF eval_predicate3, fold_predicate
<1>3. CASE p \in Junctions(Atoms)
  <2>1. p.k \in {"and", "or"} /\ p.of \subseteq Atoms
    BY <1>3, KindFacts
  <2>2. /\ {eval_group(q, r) : q \in p.of} = {eval_atom(q, r) : q \in p.of}
        /\ {fold_group(q) : q \in p.of} = {fold_atom(q) : q \in p.of}
    BY <1>1, <2>1
  <2> QED
    BY <2>1, <2>2 DEF eval_predicate3, fold_predicate, eval_group, fold_group
<1> QED
  BY <1>2, <1>3, KindFacts

\* What folding makes true was true, unless an unknown operand of AND is dropped.
LEMMA FoldedTrue ==
  ASSUME Apart, NEW p \in Groups, NEW r \in Rows,
         eval_group(fold_group(p), r) = "True"
  PROVE  eval_group(p, r) = "True" \/ drops_unknown(p)
<1> DEFINE S == {fold_atom(q) : q \in p.of}
<1>1. CASE p \in Atoms
  <2>1. fold_group(p) = fold_atom(p) /\ fold_atom(p) \in Atoms
    BY <1>1, FoldAtom, KindFacts DEF fold_group
  <2>2. \A q \in Atoms : eval_group(q, r) = eval_atom(q, r)
    BY KindFacts DEF eval_group
  <2> QED
    BY <1>1, <2>1, <2>2, FoldAtom
<1>2. CASE p \in Junctions(Atoms)
  <2>1. p.k \in {"and", "or"} /\ p.of \subseteq Atoms
    BY <1>2, KindFacts
  <2>2. \A q \in p.of : /\ fold_atom(q) \in S /\ fold_atom(q) \in Atoms
                        /\ eval_atom(fold_atom(q), r) = eval_atom(q, r)
    BY <2>1, FoldAtom
  <2>3. \A y \in S : \E q \in p.of : y = fold_atom(q) /\ eval_atom(y, r) = eval_atom(q, r)
    BY <2>2
  <2>4. \A y \in S : y \in Atoms
    BY <2>2
  <2>5. \A y \in constants(S) : y \in S /\ y = const(y.t) /\ y.t \in Truth /\ eval_atom(y, r) = y.t
    <3>1. \A y \in Consts : y = const(y.t) /\ y.t \in Truth
      BY DEF Consts, const
    <3> QED
      BY <2>4, <3>1, ConstantFacts, KindFacts DEF constants
  <2>6. \A t \in Truth : eval_group(const(t), r) = t
    BY ConstFacts DEF eval_group
  <2>7. all(truths(S)) \in Truth /\ any(truths(S)) \in Truth /\ {"True", "False"} \subseteq Truth
    BY AllAnyTruth DEF Truth
  <2>8. /\ \A u \in truths(S) : \E y \in constants(S) : u = y.t
        /\ \A y \in constants(S) : y.t \in truths(S)
    BY DEF truths, constants
  <2> DEFINE rest == {eval_atom(y, r) : y \in S \ constants(S)}
  <2>9. CASE p.k = "and"
    <3>1. fold_group(p) = fold_and(S) /\ eval_group(p, r) = all({eval_atom(q, r) : q \in p.of})
      BY <2>9 DEF fold_group, eval_group
    <3>2. SUFFICES ASSUME ~drops_unknown(p) PROVE \A y \in S : eval_atom(y, r) = "True"
      <4>1. (\A y \in S : eval_atom(y, r) = "True") => \A q \in p.of : eval_atom(q, r) = "True"
        BY <2>2
      <4> QED
        BY <3>1, <4>1 DEF all
    <3>3. const("Unknown") \notin S
      BY <2>9, <3>2 DEF drops_unknown
    <3> HIDE DEF S
    <3>4. "False" \notin truths(S)
      BY <2>6, <2>7, <3>1 DEF fold_and, all
    <3>5. \A y \in constants(S) : eval_atom(y, r) = "True"
      BY <2>5, <2>8, <3>3, <3>4 DEF Truth
    <3>6. ASSUME S # constants(S)
          PROVE  \A y \in S \ constants(S) : eval_atom(y, r) = "True"
      <4>1. fold_and(S) = [k |-> "and", of |-> S \ constants(S)]
        BY <3>4, <3>6 DEF fold_and
      <4>2. all(rest) = "True"
        BY <3>1, <4>1 DEF eval_group
      <4>3. \A u \in rest : u = "True"
        <5>1. \A y \in S : eval_atom(y, r) \in Truth
          BY <2>4, EvalAtomTruth
        <5> QED
          BY <4>2, <5>1 DEF all, Truth
      <4> QED
        BY <4>3
    <3> QED
      BY <3>5, <3>6
  <2>10. CASE p.k = "or"
    <3>1. fold_group(p) = fold_or(S) /\ eval_group(p, r) = any({eval_atom(q, r) : q \in p.of})
      BY <2>10 DEF fold_group, eval_group
    <3>2. SUFFICES \E y \in S : eval_atom(y, r) = "True"
      <4>1. (\E y \in S : eval_atom(y, r) = "True") => \E q \in p.of : eval_atom(q, r) = "True"
        BY <2>3
      <4> QED
        BY <3>1, <4>1 DEF any
    <3> HIDE DEF S
    <3>3. CASE "True" \in truths(S)
      BY <2>5, <2>8, <3>3
    <3>4. CASE "True" \notin truths(S)
      <4>1. S # constants(S)
        <5>1. any(truths(S)) # "True"
          BY <3>4 DEF any
        <5>2. S = constants(S) => fold_or(S) = const(any(truths(S)))
          BY <3>4 DEF fold_or
        <5> QED
          BY <2>6, <2>7, <3>1, <5>1, <5>2
      <4>2. fold_or(S) = [k |-> "or", of |-> S \ constants(S)]
        BY <3>4, <4>1 DEF fold_or
      <4>3. any(rest) = "True"
        BY <3>1, <4>2 DEF eval_group
      <4> QED
        BY <4>3 DEF any
    <3> QED
      BY <3>3, <3>4
  <2> QED
    BY <2>1, <2>9, <2>10
<1> QED
  BY <1>1, <1>2, KindFacts
-----------------------------------------------------------------------------
(* The specification.                                                      *)

\* The inductive invariant holds initially and every step keeps it.
THEOREM Invariance ==
  ASSUME Apart
  PROVE  Spec => []IInv
<1> USE CriteriaAssumption
<1>1. Init => IInv
  BY DEF Init, IInv, TypeOK
<1>2. IInv /\ [Next]_vars => IInv'
  <2> SUFFICES ASSUME IInv, [Next]_vars PROVE IInv'
    OBVIOUS
  <2>1. CASE Fold
    <3>1. fold_predicate(criteria) \in Trees
      BY FoldTree DEF IInv, TypeOK
    <3>2. answer = "none"
      BY <2>1 DEF Fold, IInv, TypeOK
    <3> QED
      BY <2>1, <3>1, <3>2 DEF Fold, IInv, TypeOK
  <2>2. CASE Filter
    BY <2>2 DEF Filter, IInv, TypeOK
  <2>3. CASE UNCHANGED vars
    BY <2>3 DEF vars, IInv, TypeOK
  <2> QED
    BY <2>1, <2>2, <2>3 DEF Next
<1> QED
  BY <1>1, <1>2, PTL DEF Spec

\* Folding never changes what a row makes true or false (PredicateResolver
\* against Eval).
THEOREM FoldingKeepsDecided ==
  ASSUME Apart
  PROVE  Spec => []FoldKeepsDecided
<1>1. IInv => FoldKeepsDecided
  BY FoldTree, CriteriaAssumption DEF IInv, TypeOK, FoldKeepsDecided, truth
<1> QED
  BY <1>1, Invariance, PTL

\* The filter keeps what the predicate is true of and drops what it is false of,
\* and keeps an unknown row only if folding has dropped an unknown operand.
THEOREM FilteringIsExact ==
  ASSUME Apart
  PROVE  Spec => []FilterIsExact
<1>1. IInv => FilterIsExact
  <2> SUFFICES ASSUME IInv PROVE FilterIsExact
    OBVIOUS
  <2> DEFINE new == eval_predicate3(folded, row)
  <2>1. criteria \in Trees /\ row \in Rows
    BY DEF IInv, TypeOK
  <2>2. answer # "none" => folded = fold_predicate(criteria)
    BY DEF IInv
  <2>3. answer # "none" /\ truth # "Unknown" => new = truth
    BY <2>1, <2>2, FoldTree DEF truth
  <2>4. (answer = "kept" => new = "True") /\ (answer = "dropped" => new # "True")
    BY DEF IInv
  <2>5. answer = "kept" /\ criteria \in Groups => truth = "True" \/ drops_unknown(criteria)
    <3> SUFFICES ASSUME answer = "kept", criteria \in Groups
                 PROVE  truth = "True" \/ drops_unknown(criteria)
      OBVIOUS
    <3>1. fold_group(criteria) \in Groups
      BY <2>1, FoldGroup
    <3>2. eval_group(fold_group(criteria), row) = "True"
      BY <2>2, <2>4, <3>1, GroupIsTree
    <3>3. eval_group(criteria, row) = "True" \/ drops_unknown(criteria)
      BY <2>1, <3>2, FoldedTrue
    <3> QED
      BY <3>3, GroupIsTree DEF truth
  <2> HIDE DEF new
  <2> QED
    BY <2>3, <2>4, <2>5 DEF FilterIsExact
<1> QED
  BY <1>1, Invariance, PTL

\* Truth::and and Truth::or, applied to the operands as they are written, give the
\* truth of the set of operands (Eval::eval_predicate3).
THEOREM OrderIsImmaterial ==
  Spec => []AnyOrder
<1> DEFINE Given == criteria \in Trees /\ row \in Rows
<1>1. Init => Given
  BY CriteriaAssumption DEF Init
<1>2. Given /\ [Next]_vars => Given'
  BY DEF Next, Fold, Filter, vars
<1>3. Given => AnyOrder
  <2> SUFFICES ASSUME Given, criteria.k \in {"and", "or"},
                      NEW n \in 1..MaxOperands, NEW s \in [1..n -> criteria.of],
                      Range(s) = criteria.of
               PROVE  truth = LET t == [i \in DOMAIN s |-> eval_group(s[i], row)] IN
                              IF criteria.k = "and" THEN FoldLeft(and, "True", t)
                                                    ELSE FoldLeft(or, "False", t)
    BY DEF AnyOrder
  <2> DEFINE t == [i \in DOMAIN s |-> eval_group(s[i], row)]
  <2>1. criteria.of \subseteq Groups
    BY KindFacts
  <2>2. n \in Nat /\ t \in [1..n -> Truth]
    BY <2>1, EvalGroupTruth, MaxOperandsAssumption
  <2>3. Range(t) = {eval_group(q, row) : q \in criteria.of}
    BY DEF Range
  <2> HIDE DEF t
  <2>4. FoldLeft(and, "True", t) = all(Range(t)) /\ FoldLeft(or, "False", t) = any(Range(t))
    BY <2>2, LeftFoldAnd, LeftFoldOr
  <2>5. truth = IF criteria.k = "and" THEN all(Range(t)) ELSE any(Range(t))
    BY <2>3 DEF truth, eval_predicate3
  <2> QED
    BY <2>4, <2>5 DEF t
<1> QED
  BY <1>1, <1>2, <1>3, PTL DEF Spec
=============================================================================
