--------------------------- MODULE FoskQuery_proofs ---------------------------
(***************************************************************************)
(* What a query returns, for any collections, documents, predicates and    *)
(* queries.  Lemmas come first, on rows, joins and aggregates, then IInv,  *)
(* the inductive invariant of scans and joins; with it Stages, that after  *)
(* each later node the rows are those of SQL so far, is inductive too.     *)
(***************************************************************************)
EXTENDS FoskQuery, FoskLemmas, FiniteSetTheorems, SequenceTheorems

\* The visible names of the first n sources, and the rows over some names.
Visible(q, n) == {q.from[i].visible : i \in 1..n}
Tuples(V) == UNION {[C -> Values] : C \in SUBSET (V \X Fields)}
All(q) == Visible(q, Len(q.from))

\* Rows are told apart by their values in all columns.
Key(q) == [r \in Tuples(All(q)) |-> Complete(q, r)]
-----------------------------------------------------------------------------
(* Rows.                                                                   *)

\* What a query is.
LEMMA QueryFacts ==
  ASSUME NEW q \in Queries
  PROVE  /\ Len(q.from) \in Nat \ {0} /\ DOMAIN q.from = 1..Len(q.from)
         /\ \A i \in 1..Len(q.from) : q.from[i].coll \in Colls /\ q.from[i].join \in Joins
         /\ \A i, j \in 1..Len(q.from) : q.from[i].visible = q.from[j].visible => i = j
         /\ Cols(q) = All(q) \X Fields
<1>1. /\ q.from \in Seq(Range(q.from)) /\ q.from # <<>>
      /\ \A i \in DOMAIN q.from : q.from[i].coll \in Colls /\ q.from[i].join \in Joins
      /\ IsInjective([i \in DOMAIN q.from |-> q.from[i].visible])
  BY QueriesAssumption
<1>2. Len(q.from) \in Nat \ {0} /\ DOMAIN q.from = 1..Len(q.from)
  BY <1>1
<1>3. \A i, j \in 1..Len(q.from) : q.from[i].visible = q.from[j].visible => i = j
  BY <1>1, <1>2 DEF IsInjective
<1>4. Cols(q) = All(q) \X Fields
  BY <1>2 DEF Cols, All, Visible
<1> QED
  BY <1>1, <1>2, <1>3, <1>4

\* NULL is a value, and of its type alone.
LEMMA NullFacts ==
  Null \in Values /\ \A v \in Values : v.ty = "null" <=> v = Null
BY DEF Values, Null

\* A row has values in some of its columns.
LEMMA TupleFacts ==
  ASSUME NEW V, NEW r
  PROVE  r \in Tuples(V) <=> /\ r \in [DOMAIN r -> Values]
                             /\ DOMAIN r \subseteq V \X Fields
BY DEF Tuples

\* More names allow more rows.
LEMMA TuplesGrow ==
  ASSUME NEW V, NEW W, V \subseteq W
  PROVE  Tuples(V) \subseteq Tuples(W)
BY DEF Tuples

\* eval gives values.
LEMMA EvalType ==
  ASSUME NEW V, NEW r \in Tuples(V), NEW c
  PROVE  eval(c, r) \in Values
BY TupleFacts, NullFacts DEF eval

\* A row and the row with all columns read the same.
LEMMA EvalComplete ==
  ASSUME NEW q \in Queries, NEW r \in Tuples(All(q)), NEW c
  PROVE  eval(c, Complete(q, r)) = eval(c, r)
<1>1. DOMAIN r \subseteq Cols(q)
  BY TupleFacts, QueryFacts
<1> QED
  BY <1>1 DEF eval, Complete

\* So a predicate is true of both or of none.
LEMMA HoldsComplete ==
  ASSUME NEW q \in Queries, NEW r \in Tuples(All(q)), NEW p
  PROVE  holds(p, Complete(q, r)) = holds(p, r)
<1>1. [c \in Reads(p) |-> eval(c, Complete(q, r))] = [c \in Reads(p) |-> eval(c, r)]
  BY EvalComplete
<1> QED
  BY <1>1 DEF holds

\* retain keeps the rows of T, in as many places.
LEMMA RetainFacts ==
  ASSUME NEW X, NEW rs \in Seq(X), NEW T, NEW K, NEW ss \in [1..Len(rs) -> Seq(X)],
         \A j \in 1..Len(rs) : ss[j] = IF rs[j] \in T THEN <<rs[j]>> ELSE <<>>
  PROVE  /\ FlattenSeq(ss) \in Seq(X) /\ Range(FlattenSeq(ss)) = Range(rs) \cap T
         /\ distinct(K, rs) => distinct(K, FlattenSeq(ss))
<1>0. Len(rs) \in Nat
  OBVIOUS
<1>1. DOMAIN rs = 1..Len(rs) /\ \A j \in 1..Len(rs) : rs[j] \in X
  OBVIOUS
<1>2. \A x \in X : <<x>> \in Seq(X) /\ Range(<<x>>) = {x} /\ DOMAIN <<x>> = {1}
  BY DEF Range
<1>3. <<>> \in Seq(X) /\ Range(<<>>) = {} /\ DOMAIN <<>> = {}
  BY DEF Range
<1>5. \A j \in 1..Len(rs) : Range(ss[j]) = {rs[j]} \cap T
  BY <1>1, <1>2, <1>3
<1>6. \A j \in 1..Len(rs) : distinct(K, ss[j])
  BY <1>1, <1>2, <1>3 DEF distinct
<1>7. /\ FlattenSeq(ss) \in Seq(X)
      /\ Range(FlattenSeq(ss)) = UNION {Range(ss[i]) : i \in 1..Len(rs)}
  BY <1>0, FlattenFacts
<1>8. Range(FlattenSeq(ss)) = Range(rs) \cap T
  <2>1. Range(rs) = {rs[i] : i \in 1..Len(rs)}
    BY <1>1 DEF Range
  <2>2. UNION {Range(ss[i]) : i \in 1..Len(rs)} = UNION {{rs[i]} \cap T : i \in 1..Len(rs)}
    BY <1>5
  <2> QED
    BY <1>7, <2>1, <2>2
<1>9. ASSUME distinct(K, rs) PROVE distinct(K, FlattenSeq(ss))
  <2>1. \A i, j \in 1..Len(rs) : i # j => \A x \in Range(ss[i]), y \in Range(ss[j]) : K[x] # K[y]
    <3> SUFFICES ASSUME NEW i \in 1..Len(rs), NEW j \in 1..Len(rs), i # j,
                        NEW x \in Range(ss[i]), NEW y \in Range(ss[j])
                 PROVE  K[x] # K[y]
      OBVIOUS
    <3>1. x = rs[i] /\ y = rs[j]
      BY <1>5
    <3> QED
      BY <1>1, <1>9, <3>1 DEF distinct
  <2> QED
    BY <1>0, <1>6, <2>1, FlattenDistinct
<1> QED
  BY <1>7, <1>8, <1>9

\* What a predicate retains.
LEMMA FilterFacts ==
  ASSUME NEW X, NEW ms \in Seq(X), NEW p, NEW K
  PROVE  /\ filter(p, ms) \in Seq(X) /\ Range(filter(p, ms)) = {x \in Range(ms) : holds(p, x)}
         /\ distinct(K, ms) => distinct(K, filter(p, ms))
<1> DEFINE T == {x \in Range(ms) : holds(p, x)}
           ss == [j \in DOMAIN ms |-> IF holds(p, ms[j]) THEN <<ms[j]>> ELSE <<>>]
<1>1. \A j \in 1..Len(ms) : ss[j] = IF ms[j] \in T THEN <<ms[j]>> ELSE <<>>
  BY DEF Range
<1>0. ss \in [1..Len(ms) -> Seq(X)]
  <2>1. \A x \in X : <<x>> \in Seq(X)
    OBVIOUS
  <2>2. \A j \in 1..Len(ms) : (IF holds(p, ms[j]) THEN <<ms[j]>> ELSE <<>>) \in Seq(X)
    BY <2>1
  <2>3. DOMAIN ms = 1..Len(ms)
    OBVIOUS
  <2> QED
    BY <2>2, <2>3
<1>2. filter(p, ms) = FlattenSeq(ss)
  BY DEF filter, retain
<1>3. T \subseteq Range(ms)
  OBVIOUS
<1> HIDE DEF T, ss
<1> DEFINE Kept(f) == /\ FlattenSeq(f) \in Seq(X) /\ Range(FlattenSeq(f)) = Range(ms) \cap T
                      /\ distinct(K, ms) => distinct(K, FlattenSeq(f))
<1>4. Kept(ss)
  BY <1>0, <1>1, RetainFacts
<1>5. Range(FlattenSeq(ss)) = T
  BY <1>3, <1>4
<1> QED
  BY <1>2, <1>4, <1>5 DEF T

\* A row read in all columns: NULL where the row cannot have a value.
LEMMA CompleteFacts ==
  ASSUME NEW q \in Queries, NEW V, V \subseteq All(q), NEW r \in Tuples(V)
  PROVE  /\ r \in Tuples(All(q)) /\ Key(q)[r] = Complete(q, r)
         /\ Complete(q, r) \in [Cols(q) -> Values]
         /\ \A c \in Cols(q) : c[1] \notin V => Complete(q, r)[c] = Null
<1>1. r \in Tuples(All(q))
  BY TuplesGrow
<1>2. \A c \in Cols(q) : c[1] \notin V => c \notin DOMAIN r
  BY TupleFacts
<1> QED
  BY <1>1, <1>2, EvalType DEF Key, Complete, eval

\* The halves of a pair.
left_part(q, v, m)  == [c \in Cols(q) |-> IF c[1] = v THEN Null ELSE m[c]]
right_part(q, v, m) == [c \in Cols(q) |-> IF c[1] = v THEN m[c] ELSE Null]

\* A row of some sources merged with one of another source: the pair, read in all columns,
\* which determines both.
LEMMA MergeFacts ==
  ASSUME NEW q \in Queries, NEW V \in SUBSET All(q), NEW v \in All(q), v \notin V,
         NEW l \in Tuples(V), NEW r \in Tuples({v})
  PROVE  /\ merge_objs(l, r) \in Tuples(V \cup {v})
         /\ Complete(q, merge_objs(l, r)) = Pair(q, Complete(q, l), Complete(q, r), v)
         /\ Complete(q, l) = left_part(q, v, Complete(q, merge_objs(l, r)))
         /\ Complete(q, r) = right_part(q, v, Complete(q, merge_objs(l, r)))
<1> DEFINE m == merge_objs(l, r)
<1>1. /\ l \in [DOMAIN l -> Values] /\ DOMAIN l \subseteq V \X Fields
      /\ r \in [DOMAIN r -> Values] /\ DOMAIN r \subseteq {v} \X Fields
  BY TupleFacts
<1>2. m \in [DOMAIN m -> Values] /\ DOMAIN m = DOMAIN l \cup DOMAIN r
  BY <1>1 DEF merge_objs
<1>3. m \in Tuples(V \cup {v})
  BY <1>1, <1>2, TupleFacts
<1>4. ASSUME NEW c \in Cols(q)
      PROVE  eval(c, m) = IF c[1] = v THEN eval(c, r) ELSE eval(c, l)
  <2>1. c[1] # v => c \notin DOMAIN r
    BY <1>1
  <2>2. c[1] = v => c \notin DOMAIN l
    BY <1>1
  <2> QED
    BY <1>2, <2>1, <2>2 DEF eval, merge_objs
<1> HIDE DEF m
<1>5. Complete(q, m) = Pair(q, Complete(q, l), Complete(q, r), v)
  BY <1>4 DEF Complete, Pair
<1>6. \A c \in Cols(q) : c[1] = v => Complete(q, l)[c] = Null
  BY CompleteFacts
<1>7. \A c \in Cols(q) : c[1] # v => Complete(q, r)[c] = Null
  BY CompleteFacts
<1>8. \A c \in Cols(q) : Complete(q, m)[c] = eval(c, m) /\ Complete(q, l)[c] = eval(c, l)
                         /\ Complete(q, r)[c] = eval(c, r)
  BY DEF Complete
<1>9. Complete(q, l) = left_part(q, v, Complete(q, m))
  BY <1>4, <1>6, <1>8 DEF Complete, left_part
<1>10. Complete(q, r) = right_part(q, v, Complete(q, m))
  BY <1>4, <1>7, <1>8 DEF Complete, right_part
<1> QED
  BY <1>3, <1>5, <1>9, <1>10 DEF m

\* Two such pairs that read the same are of rows that read the same.
LEMMA MergeDetermines ==
  ASSUME NEW q \in Queries, NEW V \in SUBSET All(q), NEW v \in All(q), v \notin V,
         NEW l \in Tuples(V), NEW r \in Tuples({v}),
         NEW x \in Tuples(V), NEW y \in Tuples({v}),
         Complete(q, merge_objs(l, r)) = Complete(q, merge_objs(x, y))
  PROVE  Complete(q, l) = Complete(q, x) /\ Complete(q, r) = Complete(q, y)
<1>1. /\ Complete(q, l) = left_part(q, v, Complete(q, merge_objs(l, r)))
      /\ Complete(q, r) = right_part(q, v, Complete(q, merge_objs(l, r)))
  BY MergeFacts
<1>2. /\ Complete(q, x) = left_part(q, v, Complete(q, merge_objs(x, y)))
      /\ Complete(q, y) = right_part(q, v, Complete(q, merge_objs(x, y)))
  BY MergeFacts
<1> QED
  BY <1>1, <1>2

\* Rows extended by NULL read as they did.
LEMMA NullExtended ==
  ASSUME NEW q \in Queries, NEW V, NEW keys \in SUBSET (V \X Fields)
  PROVE  /\ null_extended(keys) \in Tuples(V)
         /\ \A c : eval(c, null_extended(keys)) = Null
<1>1. null_extended(keys) = [c \in keys |-> Null]
  BY DEF null_extended
<1> QED
  BY <1>1, NullFacts, TupleFacts DEF eval

LEMMA ExtendFacts ==
  ASSUME NEW q \in Queries, NEW V \in SUBSET All(q), NEW v \in All(q), v \notin V,
         NEW l \in Tuples(V), NEW r \in Tuples({v})
  PROVE  /\ (\A c : eval(c, r) = Null) => Complete(q, merge_objs(l, r)) = Complete(q, l)
         /\ (\A c : eval(c, l) = Null) => Complete(q, merge_objs(l, r)) = Complete(q, r)
<1> DEFINE m == merge_objs(l, r)
<1>1. /\ Complete(q, m) = Pair(q, Complete(q, l), Complete(q, r), v)
      /\ Complete(q, l) = left_part(q, v, Complete(q, m))
      /\ Complete(q, r) = right_part(q, v, Complete(q, m))
  BY MergeFacts
<1> HIDE DEF m
<1>2. \A c \in Cols(q) : Complete(q, l)[c] = eval(c, l) /\ Complete(q, r)[c] = eval(c, r)
  BY DEF Complete
<1>3. ASSUME \A c : eval(c, r) = Null PROVE Complete(q, m) = Complete(q, l)
  <2>1. Pair(q, Complete(q, l), Complete(q, r), v) = left_part(q, v, Complete(q, m))
    BY <1>1, <1>2, <1>3 DEF Pair, left_part
  <2> QED
    BY <1>1, <2>1
<1>4. ASSUME \A c : eval(c, l) = Null PROVE Complete(q, m) = Complete(q, r)
  <2>1. Pair(q, Complete(q, l), Complete(q, r), v) = right_part(q, v, Complete(q, m))
    BY <1>1, <1>2, <1>4 DEF Pair, right_part
  <2> QED
    BY <1>1, <2>1
<1> QED
  BY <1>3, <1>4 DEF m
-----------------------------------------------------------------------------
(* Joins.                                                                  *)

\* What join puts together.
of_left(l, R, p) == filter(p, [j \in DOMAIN R |-> merge_objs(l, R[j])])
of_right(L, r, p) == filter(p, [i \in DOMAIN L |-> merge_objs(L[i], r)])

\* rs has the rows of M, each once.
once_each(q, X, rs, M) == rs \in Seq(X) /\ distinct(Key(q), rs) /\ Range(rs) = M

matched_left(l, R, p)  == {merge_objs(l, R[j]) : j \in {j \in DOMAIN R : holds(p, merge_objs(l, R[j]))}}
matched_right(L, r, p) == {merge_objs(L[i], r) : i \in {i \in DOMAIN L : holds(p, merge_objs(L[i], r))}}

\* The pairs that a row of the left side is in.
LEMMA OfLeft ==
  ASSUME NEW q \in Queries, NEW V \in SUBSET All(q), NEW v \in All(q), v \notin V,
         NEW l \in Tuples(V), NEW R \in Seq(Tuples({v})), distinct(Key(q), R), NEW p
  PROVE  once_each(q, Tuples(V \cup {v}), of_left(l, R, p), matched_left(l, R, p))
<1> DEFINE ms == [j \in DOMAIN R |-> merge_objs(l, R[j])]
           T == Tuples(V \cup {v})
<1>1. \A j \in DOMAIN R : R[j] \in Tuples({v})
  OBVIOUS
<1>2. \A j \in DOMAIN R : merge_objs(l, R[j]) \in T
  BY <1>1, MergeFacts
<1> HIDE DEF T
<1>3. ms \in Seq(T) /\ DOMAIN ms = DOMAIN R
  <2>1. Len(R) \in Nat /\ DOMAIN R = 1..Len(R)
    OBVIOUS
  <2> QED
    BY <1>2, <2>1
<1>4. ASSUME NEW i \in DOMAIN R, NEW j \in DOMAIN R, Key(q)[ms[i]] = Key(q)[ms[j]] PROVE i = j
  <2>1. ms[i] = merge_objs(l, R[i]) /\ ms[j] = merge_objs(l, R[j]) /\ R[i] \in Tuples({v}) /\ R[j] \in Tuples({v})
    BY <1>1
  <2>2. V \cup {v} \subseteq All(q) /\ {v} \subseteq All(q)
    OBVIOUS
  <2>3. Complete(q, ms[i]) = Complete(q, ms[j])
    <3>1. ms[i] \in T /\ ms[j] \in T
      BY <1>2
    <3>2. Key(q)[ms[i]] = Complete(q, ms[i]) /\ Key(q)[ms[j]] = Complete(q, ms[j])
      BY <2>2, <3>1, CompleteFacts DEF T
    <3> QED
      BY <1>4, <3>2
  <2> HIDE DEF ms
  <2>4. Complete(q, R[i]) = Complete(q, R[j])
    BY <2>1, <2>3, MergeDetermines
  <2>5. Key(q)[R[i]] = Complete(q, R[i]) /\ Key(q)[R[j]] = Complete(q, R[j])
    BY <2>1, <2>2, CompleteFacts
  <2> QED
    BY <2>4, <2>5 DEF distinct
<1>5. distinct(Key(q), ms)
  BY <1>3, <1>4 DEF distinct
<1>6. Range(ms) = {merge_objs(l, R[j]) : j \in DOMAIN R}
  BY DEF Range
<1>7. of_left(l, R, p) = filter(p, ms)
  BY DEF of_left
<1> HIDE DEF ms
<1>8. /\ filter(p, ms) \in Seq(T) /\ Range(filter(p, ms)) = {x \in Range(ms) : holds(p, x)}
      /\ distinct(Key(q), filter(p, ms))
  BY <1>3, <1>5, FilterFacts
<1>9. Range(of_left(l, R, p)) = matched_left(l, R, p)
  BY <1>6, <1>7, <1>8 DEF matched_left
<1> QED
  BY <1>7, <1>8, <1>9 DEF T, once_each

\* The pairs that a row of the right side is in.
LEMMA OfRight ==
  ASSUME NEW q \in Queries, NEW V \in SUBSET All(q), NEW v \in All(q), v \notin V,
         NEW r \in Tuples({v}), NEW L \in Seq(Tuples(V)), distinct(Key(q), L), NEW p
  PROVE  once_each(q, Tuples(V \cup {v}), of_right(L, r, p), matched_right(L, r, p))
<1> DEFINE ms == [i \in DOMAIN L |-> merge_objs(L[i], r)]
           T == Tuples(V \cup {v})
<1>1. \A i \in DOMAIN L : L[i] \in Tuples(V)
  OBVIOUS
<1>2. \A i \in DOMAIN L : merge_objs(L[i], r) \in T
  BY <1>1, MergeFacts
<1> HIDE DEF T
<1>3. ms \in Seq(T) /\ DOMAIN ms = DOMAIN L
  <2>1. Len(L) \in Nat /\ DOMAIN L = 1..Len(L)
    OBVIOUS
  <2> QED
    BY <1>2, <2>1
<1>4. ASSUME NEW i \in DOMAIN L, NEW j \in DOMAIN L, Key(q)[ms[i]] = Key(q)[ms[j]] PROVE i = j
  <2>1. ms[i] = merge_objs(L[i], r) /\ ms[j] = merge_objs(L[j], r) /\ L[i] \in Tuples(V) /\ L[j] \in Tuples(V)
    BY <1>1
  <2>2. V \cup {v} \subseteq All(q) /\ V \subseteq All(q)
    OBVIOUS
  <2>3. Complete(q, ms[i]) = Complete(q, ms[j])
    <3>1. ms[i] \in T /\ ms[j] \in T
      BY <1>2
    <3>2. Key(q)[ms[i]] = Complete(q, ms[i]) /\ Key(q)[ms[j]] = Complete(q, ms[j])
      BY <2>2, <3>1, CompleteFacts DEF T
    <3> QED
      BY <1>4, <3>2
  <2> HIDE DEF ms
  <2>4. Complete(q, L[i]) = Complete(q, L[j])
    BY <2>1, <2>3, MergeDetermines
  <2>5. Key(q)[L[i]] = Complete(q, L[i]) /\ Key(q)[L[j]] = Complete(q, L[j])
    BY <2>1, <2>2, CompleteFacts
  <2> QED
    BY <2>4, <2>5 DEF distinct
<1>5. distinct(Key(q), ms)
  BY <1>3, <1>4 DEF distinct
<1>6. Range(ms) = {merge_objs(L[i], r) : i \in DOMAIN L}
  BY DEF Range
<1>7. of_right(L, r, p) = filter(p, ms)
  BY DEF of_right
<1> HIDE DEF ms
<1>8. /\ filter(p, ms) \in Seq(T) /\ Range(filter(p, ms)) = {x \in Range(ms) : holds(p, x)}
      /\ distinct(Key(q), filter(p, ms))
  BY <1>3, <1>5, FilterFacts
<1>9. Range(of_right(L, r, p)) = matched_right(L, r, p)
  BY <1>6, <1>7, <1>8 DEF matched_right
<1> QED
  BY <1>7, <1>8, <1>9 DEF T, once_each

\* A[i] has rows that stem from the i-th row of the left side, of the right side.
of_lefts(q, v, L, A)  == \A i \in 1..Len(L) : /\ distinct(Key(q), A[i])
                                              /\ \A x \in Range(A[i]) : \E y \in Tuples({v}) : x = merge_objs(L[i], y)
of_rights(q, V, R, A) == \A j \in 1..Len(R) : /\ distinct(Key(q), A[j])
                                              /\ \A x \in Range(A[j]) : \E y \in Tuples(V) : x = merge_objs(y, R[j])

\* Rows that stem from different rows of the left side are different, so they may be
\* put after each other.
LEMMA LeftSide ==
  ASSUME NEW q \in Queries, NEW V \in SUBSET All(q), NEW v \in All(q), v \notin V,
         NEW L \in Seq(Tuples(V)), distinct(Key(q), L),
         NEW A \in [1..Len(L) -> Seq(Tuples(V \cup {v}))],
         of_lefts(q, v, L, A)
  PROVE  /\ FlattenSeq(A) \in Seq(Tuples(V \cup {v})) /\ distinct(Key(q), FlattenSeq(A))
<1>1. Len(L) \in Nat /\ DOMAIN L = 1..Len(L) /\ \A i \in 1..Len(L) : L[i] \in Tuples(V)
  OBVIOUS
<1>2. ASSUME NEW i \in 1..Len(L), NEW j \in 1..Len(L), i # j,
             NEW x \in Range(A[i]), NEW y \in Range(A[j]), Key(q)[x] = Key(q)[y]
      PROVE  FALSE
  <2>1. PICK a \in Tuples({v}) : x = merge_objs(L[i], a)
    BY DEF of_lefts
  <2>2. PICK b \in Tuples({v}) : y = merge_objs(L[j], b)
    BY DEF of_lefts
  <2>3. x \in Tuples(V \cup {v}) /\ y \in Tuples(V \cup {v})
    BY <1>1, <2>1, <2>2, MergeFacts
  <2>4. Complete(q, merge_objs(L[i], a)) = Complete(q, merge_objs(L[j], b))
    <3>1. V \cup {v} \subseteq All(q)
      OBVIOUS
    <3>2. Key(q)[x] = Complete(q, x) /\ Key(q)[y] = Complete(q, y)
      BY <2>3, <3>1, CompleteFacts
    <3> QED
      BY <1>2, <2>1, <2>2, <3>2
  <2>5. L[i] \in Tuples(V) /\ L[j] \in Tuples(V)
    BY <1>1
  <2>6. Complete(q, L[i]) = Complete(q, L[j])
    <3>1. Complete(q, L[i]) = left_part(q, v, Complete(q, merge_objs(L[i], a)))
      BY <2>5, MergeFacts
    <3>2. Complete(q, L[j]) = left_part(q, v, Complete(q, merge_objs(L[j], b)))
      BY <2>5, MergeFacts
    <3> QED
      BY <2>4, <3>1, <3>2
  <2>7. Key(q)[L[i]] = Complete(q, L[i]) /\ Key(q)[L[j]] = Complete(q, L[j])
    BY <2>5, CompleteFacts
  <2> QED
    BY <1>1, <1>2, <2>6, <2>7 DEF distinct
<1>3. \A i, j \in 1..Len(L) : i # j => \A x \in Range(A[i]), y \in Range(A[j]) : Key(q)[x] # Key(q)[y]
  BY <1>2
<1>4. distinct(Key(q), FlattenSeq(A))
  <2>1. \A i \in 1..Len(L) : distinct(Key(q), A[i])
    BY DEF of_lefts
  <2> QED
    BY <1>1, <1>3, <2>1, FlattenDistinct
<1> QED
  BY <1>1, <1>4, FlattenFacts

\* Likewise for the right side.
LEMMA RightSide ==
  ASSUME NEW q \in Queries, NEW V \in SUBSET All(q), NEW v \in All(q), v \notin V,
         NEW R \in Seq(Tuples({v})), distinct(Key(q), R),
         NEW A \in [1..Len(R) -> Seq(Tuples(V \cup {v}))],
         of_rights(q, V, R, A)
  PROVE  /\ FlattenSeq(A) \in Seq(Tuples(V \cup {v})) /\ distinct(Key(q), FlattenSeq(A))
<1>1. Len(R) \in Nat /\ DOMAIN R = 1..Len(R) /\ \A i \in 1..Len(R) : R[i] \in Tuples({v})
  OBVIOUS
<1>2. ASSUME NEW i \in 1..Len(R), NEW j \in 1..Len(R), i # j,
             NEW x \in Range(A[i]), NEW y \in Range(A[j]), Key(q)[x] = Key(q)[y]
      PROVE  FALSE
  <2>1. PICK a \in Tuples(V) : x = merge_objs(a, R[i])
    BY DEF of_rights
  <2>2. PICK b \in Tuples(V) : y = merge_objs(b, R[j])
    BY DEF of_rights
  <2>3. x \in Tuples(V \cup {v}) /\ y \in Tuples(V \cup {v})
    BY <1>1, <2>1, <2>2, MergeFacts
  <2>4. Complete(q, merge_objs(a, R[i])) = Complete(q, merge_objs(b, R[j]))
    <3>1. V \cup {v} \subseteq All(q)
      OBVIOUS
    <3>2. Key(q)[x] = Complete(q, x) /\ Key(q)[y] = Complete(q, y)
      BY <2>3, <3>1, CompleteFacts
    <3> QED
      BY <1>2, <2>1, <2>2, <3>2
  <2>5. R[i] \in Tuples({v}) /\ R[j] \in Tuples({v}) /\ {v} \subseteq All(q)
    BY <1>1
  <2>6. Complete(q, R[i]) = Complete(q, R[j])
    <3>1. Complete(q, R[i]) = right_part(q, v, Complete(q, merge_objs(a, R[i])))
      BY <2>5, MergeFacts
    <3>2. Complete(q, R[j]) = right_part(q, v, Complete(q, merge_objs(b, R[j])))
      BY <2>5, MergeFacts
    <3> QED
      BY <2>4, <3>1, <3>2
  <2>7. Key(q)[R[i]] = Complete(q, R[i]) /\ Key(q)[R[j]] = Complete(q, R[j])
    BY <2>5, CompleteFacts
  <2> QED
    BY <1>1, <1>2, <2>6, <2>7 DEF distinct
<1>3. \A i, j \in 1..Len(R) : i # j => \A x \in Range(A[i]), y \in Range(A[j]) : Key(q)[x] # Key(q)[y]
  BY <1>2
<1>4. distinct(Key(q), FlattenSeq(A))
  <2>1. \A i \in 1..Len(R) : distinct(Key(q), A[i])
    BY DEF of_rights
  <2> QED
    BY <1>1, <1>3, <2>1, FlattenDistinct
<1> QED
  BY <1>1, <1>4, FlattenFacts

\* SQL's pairs, in terms of the rows they are made of.
pairs_left(q, l, R, p) ==
  {Complete(q, merge_objs(l, R[j])) : j \in {j \in DOMAIN R : holds(p, merge_objs(l, R[j]))}}
pairs_right(q, L, r, p) ==
  {Complete(q, merge_objs(L[i], r)) : i \in {i \in DOMAIN L : holds(p, merge_objs(L[i], r))}}
alone_left(q, l, R, p)  == {x \in {Complete(q, l)} : \A j \in DOMAIN R : ~holds(p, merge_objs(l, R[j]))}
alone_right(q, L, r, p) == {x \in {Complete(q, r)} : \A i \in DOMAIN L : ~holds(p, merge_objs(L[i], r))}
pairs(q, L, R, p) == UNION {pairs_left(q, L[i], R, p) : i \in DOMAIN L}
left_over(q, L, R, p) ==
  {Complete(q, L[i]) : i \in {i \in DOMAIN L : \A j \in DOMAIN R : ~holds(p, merge_objs(L[i], R[j]))}}
right_over(q, L, R, p) ==
  {Complete(q, R[j]) : j \in {j \in DOMAIN R : \A i \in DOMAIN L : ~holds(p, merge_objs(L[i], R[j]))}}

LEMMA SqlJoinFacts ==
  ASSUME NEW q \in Queries, NEW V \in SUBSET All(q), NEW s, s.visible \in All(q), s.visible \notin V,
         NEW L \in Seq(Tuples(V)), NEW R \in Seq(Tuples({s.visible})),
         NEW SL, SL = {Complete(q, L[i]) : i \in DOMAIN L},
         NEW SR, SR = {Complete(q, R[j]) : j \in DOMAIN R}
  PROVE  SqlJoin(q, SL, SR, s) =
           pairs(q, L, R, s.on)
           \cup (IF s.join \in {"left", "full"} THEN left_over(q, L, R, s.on) ELSE {})
           \cup (IF s.join \in {"right", "full"} THEN right_over(q, L, R, s.on) ELSE {})
<1> DEFINE v == s.visible
           on(l, r) == holds(s.on, Pair(q, l, r, v))
           ij(i, j) == holds(s.on, merge_objs(L[i], R[j]))
<1>1. (\A i \in DOMAIN L : L[i] \in Tuples(V)) /\ (\A j \in DOMAIN R : R[j] \in Tuples({v}))
  OBVIOUS
<1>2. ASSUME NEW i \in DOMAIN L, NEW j \in DOMAIN R
      PROVE  /\ Complete(q, merge_objs(L[i], R[j])) = Pair(q, Complete(q, L[i]), Complete(q, R[j]), v)
             /\ ij(i, j) = on(Complete(q, L[i]), Complete(q, R[j]))
  <2> DEFINE m == merge_objs(L[i], R[j])
  <2>1. L[i] \in Tuples(V) /\ R[j] \in Tuples({v}) /\ V \cup {v} \subseteq All(q) /\ v \in All(q) /\ v \notin V
    BY <1>1
  <2> HIDE DEF v
  <2>2. m \in Tuples(V \cup {v}) /\ Complete(q, m) = Pair(q, Complete(q, L[i]), Complete(q, R[j]), v)
    BY <2>1, MergeFacts
  <2>3. m \in Tuples(All(q))
    BY <2>1, <2>2, CompleteFacts
  <2> HIDE DEF m
  <2>4. holds(s.on, Complete(q, m)) = holds(s.on, m)
    BY <2>3, HoldsComplete
  <2> QED
    BY <2>2, <2>4 DEF m
<1> HIDE DEF v
<1> DEFINE P == SqlPairs(q, SL, SR, v, s.on)
<1>3. P = pairs(q, L, R, s.on)
  <2>1. ASSUME NEW i \in DOMAIN L, NEW j \in DOMAIN R, ij(i, j)
        PROVE  Complete(q, merge_objs(L[i], R[j])) \in P
    <3>1. Complete(q, L[i]) \in SL /\ Complete(q, R[j]) \in SR
      OBVIOUS
    <3>2. on(Complete(q, L[i]), Complete(q, R[j]))
      BY <1>2, <2>1
    <3> QED
      BY <1>2, <3>1, <3>2 DEF SqlPairs
  <2>2. pairs(q, L, R, s.on) \subseteq P
    <3> HIDE DEF P
    <3> QED
      BY <2>1 DEF pairs, pairs_left
  <2>3. ASSUME NEW i \in DOMAIN L, NEW j \in DOMAIN R, on(Complete(q, L[i]), Complete(q, R[j]))
        PROVE  Pair(q, Complete(q, L[i]), Complete(q, R[j]), v) \in pairs(q, L, R, s.on)
    <3>1. ij(i, j)
      BY <1>2, <2>3
    <3>2. Complete(q, merge_objs(L[i], R[j])) \in pairs(q, L, R, s.on)
      BY <3>1 DEF pairs, pairs_left
    <3> QED
      BY <1>2, <3>2
  <2>4. P \subseteq pairs(q, L, R, s.on)
    <3> SUFFICES ASSUME NEW l \in SL, NEW r \in SR, on(l, r)
                 PROVE  Pair(q, l, r, v) \in pairs(q, L, R, s.on)
      BY DEF SqlPairs
    <3> QED
      BY <2>3
  <2> QED
    BY <2>2, <2>4
<1>4. SqlLeft(q, SL, SR, v, s.on) = left_over(q, L, R, s.on)
  BY <1>2 DEF left_over, SqlLeft
<1>5. SqlRight(q, SL, SR, v, s.on) = right_over(q, L, R, s.on)
  BY <1>2 DEF right_over, SqlRight
<1> HIDE DEF P
<1> QED
  BY <1>3, <1>4, <1>5 DEF P, v, SqlJoin

\* What a join returns for a row of the left side: its pairs, or itself alone.
padded_left(l, R, p, rkeys) ==
  IF of_left(l, R, p) = <<>> THEN <<merge_objs(l, null_extended(rkeys))>> ELSE of_left(l, R, p)
padded_right(L, r, p, lkeys) ==
  IF \A i \in DOMAIN L : ~holds(p, merge_objs(L[i], r))
  THEN <<merge_objs(null_extended(lkeys), r)>> ELSE of_right(L, r, p)
rest_right(L, r, p, lkeys) ==
  IF \A i \in DOMAIN L : ~holds(p, merge_objs(L[i], r))
  THEN <<merge_objs(null_extended(lkeys), r)>> ELSE <<>>

\* The rows rs as SQL sees them.
image(q, X) == {Complete(q, x) : x \in X}

\* A sequence of one element and the empty one.
LEMMA SmallSeqs ==
  /\ \A X, x : x \in X => <<x>> \in Seq(X)
  /\ \A X : <<>> \in Seq(X)
  /\ \A x : Range(<<x>>) = {x}
  /\ Range(<<>>) = {}
  /\ \A K, x : distinct(K, <<x>>)
  /\ \A K : distinct(K, <<>>)
  /\ \A X : \A s \in Seq(X) : s = <<>> <=> Range(s) = {}
<1>1. \A X : \A s \in Seq(X) : s = <<>> <=> Range(s) = {}
  <2> SUFFICES ASSUME NEW X, NEW s \in Seq(X) PROVE s = <<>> <=> Range(s) = {}
    OBVIOUS
  <2>1. DOMAIN s = 1..Len(s) /\ Len(s) \in Nat /\ (s = <<>> <=> Len(s) = 0)
    OBVIOUS
  <2>2. Len(s) # 0 => 1 \in DOMAIN s
    BY <2>1
  <2>3. Len(s) = 0 => DOMAIN s = {}
    BY <2>1
  <2>4. Range(s) = {s[i] : i \in DOMAIN s}
    BY DEF Range
  <2>5. Len(s) # 0 => s[1] \in Range(s)
    BY <2>2, <2>4
  <2>6. Len(s) = 0 => Range(s) = {}
    BY <2>3, <2>4
  <2> QED
    BY <2>1, <2>5, <2>6
<1>2. \A x : DOMAIN <<x>> = {1} /\ <<x>>[1] = x
  OBVIOUS
<1>3. DOMAIN <<>> = {}
  OBVIOUS
<1>4. \A x : Range(<<x>>) = {x}
  BY <1>2 DEF Range
<1>5. Range(<<>>) = {}
  BY <1>3 DEF Range
<1>6. \A K, x : distinct(K, <<x>>)
  BY <1>2 DEF distinct
<1>7. \A K : distinct(K, <<>>)
  BY <1>3 DEF distinct
<1>8. \A X, x : x \in X => <<x>> \in Seq(X)
  OBVIOUS
<1>9. \A X : <<>> \in Seq(X)
  OBVIOUS
<1> QED
  BY <1>1, <1>4, <1>5, <1>6, <1>7, <1>8, <1>9

is_padded_left(q, V, v, l, R, p, keys) ==
  /\ padded_left(l, R, p, keys) \in Seq(Tuples(V \cup {v}))
  /\ distinct(Key(q), padded_left(l, R, p, keys))
  /\ \A x \in Range(padded_left(l, R, p, keys)) : \E y \in Tuples({v}) :
       /\ x = merge_objs(l, y)
       /\ \/ \E j \in DOMAIN R : y = R[j] /\ holds(p, merge_objs(l, R[j]))
          \/ y = null_extended(keys)
  /\ image(q, Range(padded_left(l, R, p, keys))) =
       pairs_left(q, l, R, p)
       \cup alone_left(q, l, R, p)

\* The rows of one row of the left side.
LEMMA PaddedLeft ==
  ASSUME NEW q \in Queries, NEW V \in SUBSET All(q), NEW v \in All(q), v \notin V,
         NEW l \in Tuples(V), NEW R \in Seq(Tuples({v})), distinct(Key(q), R), NEW p,
         NEW keys \in SUBSET ({v} \X Fields)
  PROVE  is_padded_left(q, V, v, l, R, p, keys)
<1> DEFINE T == Tuples(V \cup {v})
           on == {j \in DOMAIN R : holds(p, merge_objs(l, R[j]))}
           n == null_extended(keys)
<1>1. /\ of_left(l, R, p) \in Seq(T)
      /\ Range(of_left(l, R, p)) = {merge_objs(l, R[j]) : j \in on}
      /\ distinct(Key(q), of_left(l, R, p))
  <2>1. once_each(q, T, of_left(l, R, p), matched_left(l, R, p))
    BY OfLeft
  <2> HIDE DEF T
  <2> QED
    BY <2>1 DEF once_each, matched_left
<1>8. pairs_left(q, l, R, p) = {Complete(q, merge_objs(l, R[j])) : j \in on}
  BY DEF pairs_left
<1>2. n \in Tuples({v}) /\ \A c : eval(c, n) = Null
  BY NullExtended
<1>3. \A j \in DOMAIN R : R[j] \in Tuples({v})
  OBVIOUS
<1> HIDE DEF n
<1>4. merge_objs(l, n) \in T /\ Complete(q, merge_objs(l, n)) = Complete(q, l)
  <2>1. merge_objs(l, n) \in T
    BY <1>2, MergeFacts
  <2>2. Complete(q, merge_objs(l, n)) = Complete(q, l)
    BY <1>2, ExtendFacts
  <2> QED
    BY <2>1, <2>2
<1>5. of_left(l, R, p) = <<>> <=> on = {}
  <2>1. of_left(l, R, p) = <<>> <=> Range(of_left(l, R, p)) = {}
    BY <1>1, SmallSeqs
  <2> QED
    BY <1>1, <2>1
<1> HIDE DEF T
<1>6. CASE on = {}
  <2>1. padded_left(l, R, p, keys) = <<merge_objs(l, n)>>
    BY <1>5, <1>6 DEF padded_left, n
  <2>2. Range(<<merge_objs(l, n)>>) = {merge_objs(l, n)}
    BY SmallSeqs
  <2>3. <<merge_objs(l, n)>> \in Seq(T) /\ distinct(Key(q), <<merge_objs(l, n)>>)
    BY <1>4, SmallSeqs
  <2>4. image(q, Range(padded_left(l, R, p, keys))) = {Complete(q, l)}
    BY <1>4, <2>1, <2>2 DEF image
  <2> HIDE DEF on
  <2>5. pairs_left(q, l, R, p) = {}
    BY <1>6, <1>8
  <2>6. \A j \in DOMAIN R : ~holds(p, merge_objs(l, R[j]))
    BY <1>6 DEF on
  <2>7. alone_left(q, l, R, p) = {Complete(q, l)}
    BY <2>6 DEF alone_left
  <2> QED
    BY <1>2, <2>1, <2>2, <2>3, <2>4, <2>5, <2>7 DEF T, on, n, is_padded_left
<1>7. CASE on # {}
  <2>1. padded_left(l, R, p, keys) = of_left(l, R, p)
    BY <1>5, <1>7 DEF padded_left
  <2>2. image(q, Range(of_left(l, R, p))) = pairs_left(q, l, R, p)
    BY <1>1, <1>8 DEF image
  <2>3. alone_left(q, l, R, p) = {}
    BY <1>7 DEF alone_left
  <2>4. \A x \in Range(of_left(l, R, p)) : \E j \in on : x = merge_objs(l, R[j])
    BY <1>1
  <2> QED
    BY <1>1, <1>3, <2>1, <2>2, <2>3, <2>4 DEF T, is_padded_left
<1> QED
  BY <1>6, <1>7

is_padded_right(q, V, v, r, L, p, keys) ==
  /\ padded_right(L, r, p, keys) \in Seq(Tuples(V \cup {v}))
  /\ distinct(Key(q), padded_right(L, r, p, keys))
  /\ \A x \in Range(padded_right(L, r, p, keys)) : \E y \in Tuples(V) : x = merge_objs(y, r)
  /\ image(q, Range(padded_right(L, r, p, keys))) =
       pairs_right(q, L, r, p)
       \cup alone_right(q, L, r, p)
  /\ rest_right(L, r, p, keys) \in Seq(Tuples(V \cup {v}))
  /\ distinct(Key(q), rest_right(L, r, p, keys))
  /\ \A x \in Range(rest_right(L, r, p, keys)) :
       /\ x = merge_objs(null_extended(keys), r) /\ null_extended(keys) \in Tuples(V)
       /\ \A i \in DOMAIN L : ~holds(p, merge_objs(L[i], r))
  /\ image(q, Range(rest_right(L, r, p, keys))) =
       alone_right(q, L, r, p)

\* The rows of one row of the right side.
LEMMA PaddedRight ==
  ASSUME NEW q \in Queries, NEW V \in SUBSET All(q), NEW v \in All(q), v \notin V,
         NEW r \in Tuples({v}), NEW L \in Seq(Tuples(V)), distinct(Key(q), L), NEW p,
         NEW keys \in SUBSET (V \X Fields)
  PROVE  is_padded_right(q, V, v, r, L, p, keys)
<1> DEFINE T == Tuples(V \cup {v})
           on == {i \in DOMAIN L : holds(p, merge_objs(L[i], r))}
           n == null_extended(keys)
<1>1. /\ of_right(L, r, p) \in Seq(T)
      /\ Range(of_right(L, r, p)) = {merge_objs(L[i], r) : i \in on}
      /\ distinct(Key(q), of_right(L, r, p))
  <2>1. once_each(q, T, of_right(L, r, p), matched_right(L, r, p))
    BY OfRight
  <2> HIDE DEF T
  <2> QED
    BY <2>1 DEF once_each, matched_right
<1>8. pairs_right(q, L, r, p) = {Complete(q, merge_objs(L[i], r)) : i \in on}
  BY DEF pairs_right
<1>2. n \in Tuples(V) /\ \A c : eval(c, n) = Null
  BY NullExtended
<1>3. \A i \in DOMAIN L : L[i] \in Tuples(V)
  OBVIOUS
<1> HIDE DEF n
<1>4. merge_objs(n, r) \in T /\ Complete(q, merge_objs(n, r)) = Complete(q, r)
  <2>1. merge_objs(n, r) \in T
    BY <1>2, MergeFacts
  <2>2. Complete(q, merge_objs(n, r)) = Complete(q, r)
    BY <1>2, ExtendFacts
  <2> QED
    BY <2>1, <2>2
<1>5. (\A i \in DOMAIN L : ~holds(p, merge_objs(L[i], r))) <=> on = {}
  OBVIOUS
<1> HIDE DEF T
<1>6. CASE on = {}
  <2>1. /\ padded_right(L, r, p, keys) = <<merge_objs(n, r)>>
        /\ rest_right(L, r, p, keys) = <<merge_objs(n, r)>>
    BY <1>5, <1>6 DEF padded_right, rest_right, n
  <2>2. Range(<<merge_objs(n, r)>>) = {merge_objs(n, r)}
    BY SmallSeqs
  <2>3. <<merge_objs(n, r)>> \in Seq(T) /\ distinct(Key(q), <<merge_objs(n, r)>>)
    BY <1>4, SmallSeqs
  <2>4. image(q, {merge_objs(n, r)}) = {Complete(q, r)}
    BY <1>4 DEF image
  <2> HIDE DEF on
  <2>5. pairs_right(q, L, r, p) = {}
    BY <1>6, <1>8
  <2>6. \A i \in DOMAIN L : ~holds(p, merge_objs(L[i], r))
    BY <1>6 DEF on
  <2>7. alone_right(q, L, r, p) = {Complete(q, r)}
    BY <2>6 DEF alone_right
  <2>8. /\ image(q, Range(padded_right(L, r, p, keys))) =
             pairs_right(q, L, r, p) \cup alone_right(q, L, r, p)
        /\ image(q, Range(rest_right(L, r, p, keys))) = alone_right(q, L, r, p)
    BY <2>1, <2>2, <2>4, <2>5, <2>7
  <2>9. /\ \A x \in Range(padded_right(L, r, p, keys)) : \E y \in Tuples(V) : x = merge_objs(y, r)
        /\ \A x \in Range(rest_right(L, r, p, keys)) : x = merge_objs(n, r)
    BY <1>2, <2>1, <2>2
  <2> QED
    BY <1>2, <2>1, <2>3, <2>6, <2>8, <2>9 DEF T, on, n, is_padded_right
<1>7. CASE on # {}
  <2>1. padded_right(L, r, p, keys) = of_right(L, r, p) /\ rest_right(L, r, p, keys) = <<>>
    BY <1>5, <1>7 DEF padded_right, rest_right
  <2>2. image(q, Range(of_right(L, r, p))) = pairs_right(q, L, r, p)
    BY <1>1, <1>8 DEF image
  <2>3. alone_right(q, L, r, p) = {}
    BY <1>7 DEF alone_right
  <2>4. \A x \in Range(of_right(L, r, p)) : \E i \in on : x = merge_objs(L[i], r)
    BY <1>1
  <2>5. Range(<<>>) = {} /\ <<>> \in Seq(T) /\ distinct(Key(q), <<>>)
    BY SmallSeqs
  <2>6. image(q, {}) = {}
    BY DEF image
  <2>7. \A x \in Range(padded_right(L, r, p, keys)) : \E y \in Tuples(V) : x = merge_objs(y, r)
    BY <1>3, <2>1, <2>4
  <2> HIDE DEF on
  <2>8. /\ image(q, Range(padded_right(L, r, p, keys))) =
             pairs_right(q, L, r, p) \cup alone_right(q, L, r, p)
        /\ image(q, Range(rest_right(L, r, p, keys))) = alone_right(q, L, r, p)
    BY <2>1, <2>2, <2>3, <2>5, <2>6
  <2> QED
    BY <1>1, <2>1, <2>5, <2>7, <2>8 DEF T, on, is_padded_right
<1> QED
  BY <1>6, <1>7

\* The rows of the left side, each with its pairs, alone, or both.
inner_rows(L, R, p)        == [i \in DOMAIN L |-> of_left(L[i], R, p)]
left_rows(L, R, p, rkeys)  == [i \in DOMAIN L |-> padded_left(L[i], R, p, rkeys)]
right_rows(L, R, p, lkeys) == [j \in DOMAIN R |-> padded_right(L, R[j], p, lkeys)]
rest_rows(L, R, p, lkeys)  == [j \in DOMAIN R |-> rest_right(L, R[j], p, lkeys)]

LEMMA JoinDef ==
  ASSUME NEW L, NEW R, NEW s, NEW lkeys, NEW rkeys
  PROVE  /\ s.join = "inner" => join(L, R, s, lkeys, rkeys) = FlattenSeq(inner_rows(L, R, s.on))
         /\ s.join = "left"  => join(L, R, s, lkeys, rkeys) = FlattenSeq(left_rows(L, R, s.on, rkeys))
         /\ s.join = "right" => join(L, R, s, lkeys, rkeys) = FlattenSeq(right_rows(L, R, s.on, lkeys))
         /\ s.join = "full"  => join(L, R, s, lkeys, rkeys) =
              FlattenSeq(left_rows(L, R, s.on, rkeys)) \o FlattenSeq(rest_rows(L, R, s.on, lkeys))
<1>1. ASSUME s.join = "inner" PROVE join(L, R, s, lkeys, rkeys) = FlattenSeq(inner_rows(L, R, s.on))
  BY <1>1 DEF join, inner_rows, of_left
<1>2. ASSUME s.join = "left" PROVE join(L, R, s, lkeys, rkeys) = FlattenSeq(left_rows(L, R, s.on, rkeys))
  BY <1>2 DEF join, left_rows, padded_left, of_left
<1>3. ASSUME s.join = "right" PROVE join(L, R, s, lkeys, rkeys) = FlattenSeq(right_rows(L, R, s.on, lkeys))
  BY <1>3 DEF join, right_rows, padded_right, of_right
<1>4. ASSUME s.join = "full"
      PROVE  join(L, R, s, lkeys, rkeys) =
               FlattenSeq(left_rows(L, R, s.on, rkeys)) \o FlattenSeq(rest_rows(L, R, s.on, lkeys))
  BY <1>4 DEF join, left_rows, padded_left, of_left, rest_rows, rest_right
<1> QED
  BY <1>1, <1>2, <1>3, <1>4

\* rs has what SQL joins, each row once.
joined(q, X, rs, M) == rs \in Seq(X) /\ distinct(Key(q), rs) /\ image(q, Range(rs)) = M

\* A row that stems from a row of the left side; one of the right side that is in no pair.
from_left(v, L, R, p, keys, x) ==
  \E i \in DOMAIN L, y \in Tuples({v}) :
    /\ x = merge_objs(L[i], y)
    /\ \/ \E j \in DOMAIN R : y = R[j] /\ holds(p, merge_objs(L[i], R[j]))
       \/ y = null_extended(keys)
from_rest(V, L, R, p, x) ==
  \E j \in DOMAIN R, y \in Tuples(V) :
    x = merge_objs(y, R[j]) /\ \A i \in DOMAIN L : ~holds(p, merge_objs(L[i], R[j]))

\* The pairs of an inner join.
LEMMA InnerRows ==
  ASSUME NEW q \in Queries, NEW V \in SUBSET All(q), NEW v \in All(q), v \notin V,
         NEW L \in Seq(Tuples(V)), distinct(Key(q), L),
         NEW R \in Seq(Tuples({v})), distinct(Key(q), R), NEW p
  PROVE  joined(q, Tuples(V \cup {v}), FlattenSeq(inner_rows(L, R, p)), pairs(q, L, R, p))
<1> DEFINE A == inner_rows(L, R, p)
           T == Tuples(V \cup {v})
           on(i) == {j \in DOMAIN R : holds(p, merge_objs(L[i], R[j]))}
<1>1. DOMAIN L = 1..Len(L) /\ (\A i \in 1..Len(L) : L[i] \in Tuples(V)) /\ \A j \in DOMAIN R : R[j] \in Tuples({v})
  OBVIOUS
<1>2. ASSUME NEW i \in 1..Len(L)
      PROVE  /\ A[i] \in Seq(T) /\ distinct(Key(q), A[i])
             /\ Range(A[i]) = {merge_objs(L[i], R[j]) : j \in on(i)}
  <2>1. A[i] = of_left(L[i], R, p) /\ L[i] \in Tuples(V)
    BY <1>1 DEF inner_rows
  <2>2. once_each(q, T, of_left(L[i], R, p), matched_left(L[i], R, p))
    BY <2>1, OfLeft
  <2>3. matched_left(L[i], R, p) = {merge_objs(L[i], R[j]) : j \in on(i)}
    BY DEF matched_left
  <2> HIDE DEF A, T, on
  <2> QED
    BY <2>1, <2>2, <2>3 DEF once_each
<1>3. A \in [1..Len(L) -> Seq(T)]
  BY <1>1, <1>2 DEF inner_rows
<1>4. ASSUME NEW i \in 1..Len(L)
      PROVE  /\ distinct(Key(q), A[i])
             /\ \A x \in Range(A[i]) : \E y \in Tuples({v}) : x = merge_objs(L[i], y)
             /\ image(q, Range(A[i])) = pairs_left(q, L[i], R, p)
  BY <1>1, <1>2 DEF image, pairs_left
<1> HIDE DEF A
<1>5. FlattenSeq(A) \in Seq(T) /\ distinct(Key(q), FlattenSeq(A))
  <2>1. of_lefts(q, v, L, A)
    BY <1>4 DEF of_lefts
  <2> QED
    BY <1>3, <2>1, LeftSide
<1>8. Range(FlattenSeq(A)) = UNION {Range(A[i]) : i \in 1..Len(L)}
  <2>1. Len(L) \in Nat
    OBVIOUS
  <2> HIDE DEF T
  <2> QED
    BY <1>3, <2>1, FlattenFacts
<1>6. image(q, Range(FlattenSeq(A))) = UNION {image(q, Range(A[i])) : i \in 1..Len(L)}
  BY <1>8 DEF image
<1>7. image(q, Range(FlattenSeq(A))) = pairs(q, L, R, p)
  BY <1>1, <1>4, <1>6 DEF pairs
<1> QED
  BY <1>5, <1>7 DEF A, joined

\* What SQL's rows left over are, row by row.
LEMMA LeftOver ==
  ASSUME NEW q, NEW L, NEW R, NEW p
  PROVE  /\ left_over(q, L, R, p) = UNION {alone_left(q, L[i], R, p) : i \in DOMAIN L}
         /\ right_over(q, L, R, p) = UNION {alone_right(q, L, R[j], p) : j \in DOMAIN R}
<1>1. left_over(q, L, R, p) = UNION {alone_left(q, L[i], R, p) : i \in DOMAIN L}
  BY DEF left_over, alone_left
<1>2. right_over(q, L, R, p) = UNION {alone_right(q, L, R[j], p) : j \in DOMAIN R}
  BY DEF right_over, alone_right
<1> QED
  BY <1>1, <1>2

\* The pairs, gathered by the rows of the right side.
LEMMA PairsByRight ==
  ASSUME NEW q, NEW L, NEW R, NEW p
  PROVE  pairs(q, L, R, p) = UNION {pairs_right(q, L, R[j], p) : j \in DOMAIN R}
BY DEF pairs, pairs_left, pairs_right

\* The left side with its pairs or NULL.
LEMMA LeftRows ==
  ASSUME NEW q \in Queries, NEW V \in SUBSET All(q), NEW v \in All(q), v \notin V,
         NEW L \in Seq(Tuples(V)), distinct(Key(q), L),
         NEW R \in Seq(Tuples({v})), distinct(Key(q), R), NEW p, NEW keys \in SUBSET ({v} \X Fields)
  PROVE  /\ joined(q, Tuples(V \cup {v}), FlattenSeq(left_rows(L, R, p, keys)), pairs(q, L, R, p) \cup left_over(q, L, R, p))
         /\ \A x \in Range(FlattenSeq(left_rows(L, R, p, keys))) : from_left(v, L, R, p, keys, x)
<1> DEFINE A == left_rows(L, R, p, keys)
           T == Tuples(V \cup {v})
           from(x, l) == \E y \in Tuples({v}) :
                           /\ x = merge_objs(l, y)
                           /\ \/ \E j \in DOMAIN R : y = R[j] /\ holds(p, merge_objs(l, R[j]))
                              \/ y = null_extended(keys)
<1>1. DOMAIN L = 1..Len(L) /\ (\A i \in 1..Len(L) : L[i] \in Tuples(V))
  OBVIOUS
<1>2. ASSUME NEW l \in Tuples(V)
      PROVE  /\ padded_left(l, R, p, keys) \in Seq(T)
             /\ distinct(Key(q), padded_left(l, R, p, keys))
             /\ \A x \in Range(padded_left(l, R, p, keys)) : from(x, l)
             /\ image(q, Range(padded_left(l, R, p, keys))) =
                  pairs_left(q, l, R, p) \cup alone_left(q, l, R, p)
  <2>1. is_padded_left(q, V, v, l, R, p, keys)
    BY PaddedLeft
  <2> QED
    BY <2>1 DEF is_padded_left
<1>3. ASSUME NEW i \in 1..Len(L)
      PROVE  /\ A[i] \in Seq(T) /\ distinct(Key(q), A[i])
             /\ \A x \in Range(A[i]) : from(x, L[i])
             /\ image(q, Range(A[i])) = pairs_left(q, L[i], R, p) \cup alone_left(q, L[i], R, p)
  <2>1. A[i] = padded_left(L[i], R, p, keys) /\ L[i] \in Tuples(V)
    BY <1>1 DEF left_rows
  <2> HIDE DEF A, T, from
  <2> QED
    BY <1>2, <2>1
<1>4. A \in [1..Len(L) -> Seq(T)]
  BY <1>1, <1>3 DEF left_rows
<1> HIDE DEF A
<1>5. FlattenSeq(A) \in Seq(T) /\ distinct(Key(q), FlattenSeq(A))
  <2>1. \A i \in 1..Len(L) : \A x \in Range(A[i]) : \E y \in Tuples({v}) : x = merge_objs(L[i], y)
    BY <1>3
  <2>2. of_lefts(q, v, L, A)
    BY <1>3, <2>1 DEF of_lefts
  <2> QED
    BY <1>4, <2>2, LeftSide
<1>6. Range(FlattenSeq(A)) = UNION {Range(A[i]) : i \in 1..Len(L)}
  <2>1. Len(L) \in Nat
    OBVIOUS
  <2> HIDE DEF T
  <2> QED
    BY <1>4, <2>1, FlattenFacts
<1>7. image(q, Range(FlattenSeq(A))) = UNION {image(q, Range(A[i])) : i \in 1..Len(L)}
  BY <1>6 DEF image
<1>8. image(q, Range(FlattenSeq(A))) = pairs(q, L, R, p) \cup left_over(q, L, R, p)
  <2>1. \A i \in 1..Len(L) : image(q, Range(A[i])) = pairs_left(q, L[i], R, p) \cup alone_left(q, L[i], R, p)
    BY <1>3
  <2> DEFINE both(i) == image(q, Range(A[i]))
             paired(i) == pairs_left(q, L[i], R, p)
             alone(i) == alone_left(q, L[i], R, p)
  <2>2. \A i \in 1..Len(L) : both(i) = paired(i) \cup alone(i)
    BY <2>1
  <2> HIDE DEF both, paired, alone
  <2>3. UNION {both(i) : i \in 1..Len(L)} =
          (UNION {paired(i) : i \in 1..Len(L)}) \cup UNION {alone(i) : i \in 1..Len(L)}
    BY <2>2
  <2> QED
    BY <1>1, <1>7, <2>3, LeftOver DEF pairs, both, paired, alone
<1>9. \A x \in Range(FlattenSeq(A)) : \E i \in DOMAIN L : from(x, L[i])
  <2> HIDE DEF from
  <2> QED
    BY <1>1, <1>3, <1>6
<1> QED
  BY <1>5, <1>8, <1>9 DEF A, joined, from_left

\* The right side with its pairs or NULL, and its rows that are in no pair.
LEMMA RightRows ==
  ASSUME NEW q \in Queries, NEW V \in SUBSET All(q), NEW v \in All(q), v \notin V,
         NEW L \in Seq(Tuples(V)), distinct(Key(q), L),
         NEW R \in Seq(Tuples({v})), distinct(Key(q), R), NEW p, NEW keys \in SUBSET (V \X Fields)
  PROVE  joined(q, Tuples(V \cup {v}), FlattenSeq(right_rows(L, R, p, keys)), pairs(q, L, R, p) \cup right_over(q, L, R, p))
<1> DEFINE A == right_rows(L, R, p, keys)
           T == Tuples(V \cup {v})
<1>1. DOMAIN R = 1..Len(R) /\ (\A i \in 1..Len(R) : R[i] \in Tuples({v}))
  OBVIOUS
<1>2. ASSUME NEW r \in Tuples({v})
      PROVE  /\ padded_right(L, r, p, keys) \in Seq(T)
             /\ distinct(Key(q), padded_right(L, r, p, keys))
             /\ \A x \in Range(padded_right(L, r, p, keys)) : \E y \in Tuples(V) : x = merge_objs(y, r)
             /\ image(q, Range(padded_right(L, r, p, keys))) =
                  pairs_right(q, L, r, p) \cup alone_right(q, L, r, p)
  <2>1. is_padded_right(q, V, v, r, L, p, keys)
    BY PaddedRight
  <2> QED
    BY <2>1 DEF is_padded_right
<1>3. ASSUME NEW i \in 1..Len(R)
      PROVE  /\ A[i] \in Seq(T) /\ distinct(Key(q), A[i])
             /\ \A x \in Range(A[i]) : \E y \in Tuples(V) : x = merge_objs(y, R[i])
             /\ image(q, Range(A[i])) = pairs_right(q, L, R[i], p) \cup alone_right(q, L, R[i], p)
  <2>1. A[i] = padded_right(L, R[i], p, keys) /\ R[i] \in Tuples({v})
    BY <1>1 DEF right_rows
  <2> HIDE DEF A, T
  <2> QED
    BY <1>2, <2>1
<1>4. A \in [1..Len(R) -> Seq(T)]
  BY <1>1, <1>3 DEF right_rows
<1> HIDE DEF A
<1>5. FlattenSeq(A) \in Seq(T) /\ distinct(Key(q), FlattenSeq(A))
  <2>2. of_rights(q, V, R, A)
    BY <1>3 DEF of_rights
  <2> QED
    BY <1>4, <2>2, RightSide
<1>6. Range(FlattenSeq(A)) = UNION {Range(A[i]) : i \in 1..Len(R)}
  <2>1. Len(R) \in Nat
    OBVIOUS
  <2> HIDE DEF T
  <2> QED
    BY <1>4, <2>1, FlattenFacts
<1>7. image(q, Range(FlattenSeq(A))) = UNION {image(q, Range(A[i])) : i \in 1..Len(R)}
  BY <1>6 DEF image
<1>8. image(q, Range(FlattenSeq(A))) = pairs(q, L, R, p) \cup right_over(q, L, R, p)
  <2>1. \A i \in 1..Len(R) : image(q, Range(A[i])) = pairs_right(q, L, R[i], p) \cup alone_right(q, L, R[i], p)
    BY <1>3
  <2> DEFINE both(i) == image(q, Range(A[i]))
             paired(i) == pairs_right(q, L, R[i], p)
             alone(i) == alone_right(q, L, R[i], p)
  <2>2. \A i \in 1..Len(R) : both(i) = paired(i) \cup alone(i)
    BY <2>1
  <2> HIDE DEF both, paired, alone
  <2>3. UNION {both(i) : i \in 1..Len(R)} =
          (UNION {paired(i) : i \in 1..Len(R)}) \cup UNION {alone(i) : i \in 1..Len(R)}
    BY <2>2
  <2> QED
    BY <1>1, <1>7, <2>3, LeftOver, PairsByRight DEF both, paired, alone
<1> QED
  BY <1>5, <1>8 DEF A, joined

LEMMA RestRows ==
  ASSUME NEW q \in Queries, NEW V \in SUBSET All(q), NEW v \in All(q), v \notin V,
         NEW L \in Seq(Tuples(V)), distinct(Key(q), L),
         NEW R \in Seq(Tuples({v})), distinct(Key(q), R), NEW p, NEW keys \in SUBSET (V \X Fields)
  PROVE  /\ joined(q, Tuples(V \cup {v}), FlattenSeq(rest_rows(L, R, p, keys)), right_over(q, L, R, p))
         /\ \A x \in Range(FlattenSeq(rest_rows(L, R, p, keys))) : from_rest(V, L, R, p, x)
<1> DEFINE A == rest_rows(L, R, p, keys)
           T == Tuples(V \cup {v})
           none(r) == \A i \in DOMAIN L : ~holds(p, merge_objs(L[i], r))
<1>1. DOMAIN R = 1..Len(R) /\ (\A i \in 1..Len(R) : R[i] \in Tuples({v}))
  OBVIOUS
<1>2. ASSUME NEW r \in Tuples({v})
      PROVE  /\ rest_right(L, r, p, keys) \in Seq(T)
             /\ distinct(Key(q), rest_right(L, r, p, keys))
             /\ \A x \in Range(rest_right(L, r, p, keys)) :
                  x = merge_objs(null_extended(keys), r) /\ null_extended(keys) \in Tuples(V) /\ none(r)
             /\ image(q, Range(rest_right(L, r, p, keys))) = alone_right(q, L, r, p)
  <2>1. is_padded_right(q, V, v, r, L, p, keys)
    BY PaddedRight
  <2> QED
    BY <2>1 DEF is_padded_right
<1>3. ASSUME NEW i \in 1..Len(R)
      PROVE  /\ A[i] \in Seq(T) /\ distinct(Key(q), A[i])
             /\ \A x \in Range(A[i]) : (\E y \in Tuples(V) : x = merge_objs(y, R[i])) /\ none(R[i])
             /\ image(q, Range(A[i])) = alone_right(q, L, R[i], p)
  <2>1. A[i] = rest_right(L, R[i], p, keys) /\ R[i] \in Tuples({v})
    BY <1>1 DEF rest_rows
  <2> HIDE DEF A, T, none
  <2> QED
    BY <1>2, <2>1
<1>4. A \in [1..Len(R) -> Seq(T)]
  BY <1>1, <1>3 DEF rest_rows
<1> HIDE DEF A
<1>5. FlattenSeq(A) \in Seq(T) /\ distinct(Key(q), FlattenSeq(A))
  <2>2. of_rights(q, V, R, A)
    BY <1>3 DEF of_rights
  <2> QED
    BY <1>4, <2>2, RightSide
<1>6. Range(FlattenSeq(A)) = UNION {Range(A[i]) : i \in 1..Len(R)}
  <2>1. Len(R) \in Nat
    OBVIOUS
  <2> HIDE DEF T
  <2> QED
    BY <1>4, <2>1, FlattenFacts
<1>7. image(q, Range(FlattenSeq(A))) = UNION {image(q, Range(A[i])) : i \in 1..Len(R)}
  BY <1>6 DEF image
<1>8. image(q, Range(FlattenSeq(A))) = right_over(q, L, R, p)
  BY <1>1, <1>3, <1>7, LeftOver
<1>9. \A x \in Range(FlattenSeq(A)) : \E j \in DOMAIN R, y \in Tuples(V) :
        x = merge_objs(y, R[j]) /\ none(R[j])
  <2> HIDE DEF none
  <2> QED
    BY <1>1, <1>3, <1>6
<1> QED
  BY <1>5, <1>8, <1>9 DEF A, joined, from_rest

\* A pair of some row of the left side with a row of the right side, or with NULL, is no
\* row of the right side that is in no pair.
LEMMA RestApart ==
  ASSUME NEW q \in Queries, NEW V \in SUBSET All(q), NEW v \in All(q), v \notin V,
         NEW L \in Seq(Tuples(V)), NEW R \in Seq(Tuples({v})), distinct(Key(q), R), NEW p,
         \A j \in DOMAIN R : \E c \in Cols(q) : eval(c, R[j]) # Null,
         NEW keys \in SUBSET ({v} \X Fields),
         NEW i \in DOMAIN L, NEW y \in Tuples({v}),
         (\E j \in DOMAIN R : y = R[j] /\ holds(p, merge_objs(L[i], R[j]))) \/ y = null_extended(keys),
         NEW z \in Tuples(V), NEW k \in DOMAIN R,
         \A h \in DOMAIN L : ~holds(p, merge_objs(L[h], R[k]))
  PROVE  Key(q)[merge_objs(L[i], y)] # Key(q)[merge_objs(z, R[k])]
<1> SUFFICES ASSUME Key(q)[merge_objs(L[i], y)] = Key(q)[merge_objs(z, R[k])]
             PROVE  FALSE
  OBVIOUS
<1>1. L[i] \in Tuples(V) /\ R[k] \in Tuples({v}) /\ {v} \subseteq All(q) /\ V \cup {v} \subseteq All(q)
  OBVIOUS
<1>2. Complete(q, merge_objs(L[i], y)) = Complete(q, merge_objs(z, R[k]))
  <2>1. merge_objs(L[i], y) \in Tuples(V \cup {v}) /\ merge_objs(z, R[k]) \in Tuples(V \cup {v})
    BY <1>1, MergeFacts
  <2>2. /\ Key(q)[merge_objs(L[i], y)] = Complete(q, merge_objs(L[i], y))
        /\ Key(q)[merge_objs(z, R[k])] = Complete(q, merge_objs(z, R[k]))
    BY <1>1, <2>1, CompleteFacts
  <2> QED
    BY <2>2
<1>3. Complete(q, y) = Complete(q, R[k])
  BY <1>1, <1>2, MergeDetermines
<1>4. ASSUME NEW j \in DOMAIN R, y = R[j], holds(p, merge_objs(L[i], R[j])) PROVE FALSE
  <2>1. R[j] \in Tuples({v})
    BY <1>4
  <2>2. Key(q)[R[j]] = Complete(q, R[j]) /\ Key(q)[R[k]] = Complete(q, R[k])
    BY <1>1, <2>1, CompleteFacts
  <2>3. j = k
    BY <1>3, <1>4, <2>2 DEF distinct
  <2> QED
    BY <1>4, <2>3
<1>5. CASE y = null_extended(keys)
  <2>1. \A c : eval(c, y) = Null
    BY <1>5, NullExtended
  <2>2. \A c \in Cols(q) : eval(c, R[k]) = Null
    BY <1>3, <2>1 DEF Complete
  <2> QED
    BY <2>2
<1> QED
  BY <1>4, <1>5

\* A join returns what SQL's join returns.
LEMMA JoinFacts ==
  ASSUME NEW q \in Queries, NEW V \in SUBSET All(q), NEW v \in All(q), v \notin V,
         NEW L \in Seq(Tuples(V)), distinct(Key(q), L),
         NEW R \in Seq(Tuples({v})), distinct(Key(q), R),
         \A j \in DOMAIN R : \E c \in Cols(q) : eval(c, R[j]) # Null,
         NEW s, s.visible = v, s.join \in Joins,
         NEW lkeys \in SUBSET (V \X Fields), NEW rkeys \in SUBSET ({v} \X Fields)
  PROVE  joined(q, Tuples(V \cup {v}), join(L, R, s, lkeys, rkeys),
                SqlJoin(q, image(q, Range(L)), image(q, Range(R)), s))
<1> DEFINE T == Tuples(V \cup {v})
           J == join(L, R, s, lkeys, rkeys)
           S == SqlJoin(q, image(q, Range(L)), image(q, Range(R)), s)
           FI == FlattenSeq(inner_rows(L, R, s.on))
           FL == FlattenSeq(left_rows(L, R, s.on, rkeys))
           FR == FlattenSeq(right_rows(L, R, s.on, lkeys))
           FX == FlattenSeq(rest_rows(L, R, s.on, lkeys))
           P == pairs(q, L, R, s.on)
           A == left_over(q, L, R, s.on)
           B == right_over(q, L, R, s.on)
<1>1. /\ image(q, Range(L)) = {Complete(q, L[i]) : i \in DOMAIN L}
      /\ image(q, Range(R)) = {Complete(q, R[j]) : j \in DOMAIN R}
  BY DEF image, Range
<1>2. S = P \cup (IF s.join \in {"left", "full"} THEN A ELSE {})
            \cup (IF s.join \in {"right", "full"} THEN B ELSE {})
  BY <1>1, SqlJoinFacts
<1>3. /\ s.join = "inner" => J = FI
      /\ s.join = "left"  => J = FL
      /\ s.join = "right" => J = FR
      /\ s.join = "full"  => J = FL \o FX
  BY JoinDef
<1> DEFINE of_left_side(x) == from_left(v, L, R, s.on, rkeys, x)
           of_rest(x) == from_rest(V, L, R, s.on, x)
<1>4. joined(q, T, FI, P)
  BY InnerRows
<1>5. joined(q, T, FL, P \cup A) /\ \A x \in Range(FL) : of_left_side(x)
  BY LeftRows
<1>6. joined(q, T, FR, P \cup B)
  BY RightRows
<1>7. joined(q, T, FX, B) /\ \A x \in Range(FX) : of_rest(x)
  BY RestRows
<1>8. \A x \in Range(FL), y \in Range(FX) : Key(q)[x] # Key(q)[y]
  <2>1. ASSUME NEW x, of_left_side(x), NEW y, of_rest(y) PROVE Key(q)[x] # Key(q)[y]
    <3>1. PICK i \in DOMAIN L, a \in Tuples({v}) :
            /\ x = merge_objs(L[i], a)
            /\ \/ \E j \in DOMAIN R : a = R[j] /\ holds(s.on, merge_objs(L[i], R[j]))
               \/ a = null_extended(rkeys)
      BY <2>1 DEF from_left
    <3>2. PICK k \in DOMAIN R, z \in Tuples(V) :
            y = merge_objs(z, R[k]) /\ \A h \in DOMAIN L : ~holds(s.on, merge_objs(L[h], R[k]))
      BY <2>1 DEF from_rest
    <3>3. Key(q)[merge_objs(L[i], a)] # Key(q)[merge_objs(z, R[k])]
      BY <3>1, <3>2, RestApart
    <3> QED
      BY <3>1, <3>2, <3>3
  <2> HIDE DEF of_left_side, of_rest
  <2> QED
    BY <1>5, <1>7, <2>1
<1> HIDE DEF FI, FL, FR, FX, P, A, B, S, J, T, of_left_side, of_rest
<1>9. joined(q, T, FL \o FX, P \cup A \cup B)
  <2>1. FL \o FX \in Seq(T) /\ Range(FL \o FX) = Range(FL) \cup Range(FX)
    BY <1>5, <1>7, RangeConcat DEF joined
  <2>2. distinct(Key(q), FL \o FX)
    BY <1>5, <1>7, <1>8, DistinctConcat DEF joined
  <2> QED
    BY <1>5, <1>7, <2>1, <2>2 DEF image, joined
<1>10. joined(q, T, J, S)
  <2>1. CASE s.join = "inner"
    BY <1>2, <1>3, <1>4, <2>1
  <2>2. CASE s.join = "left"
    BY <1>2, <1>3, <1>5, <2>2
  <2>3. CASE s.join = "right"
    BY <1>2, <1>3, <1>6, <2>3
  <2>4. CASE s.join = "full"
    BY <1>2, <1>3, <1>9, <2>4
  <2> QED
    BY <2>1, <2>2, <2>3, <2>4 DEF Joins
<1> QED
  BY <1>10 DEF J, S, T

\* g[i] is SQL's join of the sources up to the i-th.
is_joins(g, q, sc, n) ==
  g = [i \in 1..n |->
         IF i = 1 THEN Source(q, sc, 1) ELSE SqlJoin(q, g[i - 1], Source(q, sc, i), q.from[i])]

LEMMA JoinsExist ==
  ASSUME NEW q, NEW sc
  PROVE  \A n \in Nat : \E g : is_joins(g, q, sc, n)
<1> DEFINE S == {n \in Nat : \E g : is_joins(g, q, sc, n)}
<1>1. 0 \in S
  <2>1. is_joins(<<>>, q, sc, 0)
    BY DEF is_joins
  <2> QED
    BY <2>1
<1>2. ASSUME NEW n \in Nat, n \in S PROVE n + 1 \in S
  <2>1. PICK g : is_joins(g, q, sc, n)
    BY <1>2
  <2> DEFINE last == IF n = 0 THEN Source(q, sc, 1)
                     ELSE SqlJoin(q, g[n], Source(q, sc, n + 1), q.from[n + 1])
             h == [i \in 1..(n + 1) |-> IF i = n + 1 THEN last ELSE g[i]]
  <2>2. ASSUME NEW i \in 1..(n + 1)
        PROVE  h[i] = IF i = 1 THEN Source(q, sc, 1)
                      ELSE SqlJoin(q, h[i - 1], Source(q, sc, i), q.from[i])
    <3>1. CASE i = n + 1 /\ n = 0
      BY <3>1
    <3>2. CASE i = n + 1 /\ n # 0
      <4>1. i - 1 = n /\ n \in 1..(n + 1) /\ n # n + 1 /\ i # 1
        BY <3>2
      <4>2. h[i] = SqlJoin(q, g[n], Source(q, sc, n + 1), q.from[n + 1])
        BY <3>2
      <4>3. h[n] = g[n]
        BY <4>1
      <4> HIDE DEF h
      <4> QED
        BY <3>2, <4>1, <4>2, <4>3
    <3>3. CASE i # n + 1
      <4>1. i \in 1..n
        BY <3>3
      <4>2. h[i] = IF i = 1 THEN Source(q, sc, 1)
                   ELSE SqlJoin(q, g[i - 1], Source(q, sc, i), q.from[i])
        BY <2>1, <4>1, <3>3 DEF is_joins
      <4>3. i # 1 => i - 1 \in 1..(n + 1) /\ i - 1 # n + 1
        BY <4>1
      <4> QED
        BY <4>2, <4>3
    <3> QED
      BY <3>1, <3>2, <3>3
  <2>3. is_joins(h, q, sc, n + 1)
    BY <2>2 DEF is_joins
  <2> QED
    BY <2>3
<1> HIDE DEF S
<1>3. Nat \subseteq S
  BY <1>1, <1>2, SetInduction
<1> QED
  BY <1>3 DEF S

\* SqlJoins is such a function.
LEMMA SqlJoinsDef ==
  ASSUME NEW q \in Queries, NEW sc
  PROVE  /\ SqlJoins(q, sc)[1] = Source(q, sc, 1)
         /\ \A i \in 2..Len(q.from) :
              SqlJoins(q, sc)[i] = SqlJoin(q, SqlJoins(q, sc)[i - 1], Source(q, sc, i), q.from[i])
<1> DEFINE n == Len(q.from)
           is_from(h) == h = [i \in 1..n |->
                  IF i = 1 THEN Source(q, sc, 1) ELSE SqlJoin(q, h[i - 1], Source(q, sc, i), q.from[i])]
           g == CHOOSE h : is_from(h)
<1>1. n \in Nat \ {0}
  BY QueryFacts
<1>2. is_from(g)
  <2>1. PICK h : is_joins(h, q, sc, n)
    BY <1>1, JoinsExist
  <2>2. is_from(h)
    BY <2>1 DEF is_joins
  <2> QED
    BY <2>2
<1>3. SqlJoins(q, sc) = g
  BY DEF SqlJoins
<1> HIDE DEF g
<1>4. \A i \in 1..n : g[i] = IF i = 1 THEN Source(q, sc, 1)
                             ELSE SqlJoin(q, g[i - 1], Source(q, sc, i), q.from[i])
  BY <1>2
<1>5. 1 \in 1..n /\ \A i \in 2..n : i \in 1..n /\ i # 1
  BY <1>1
<1> QED
  BY <1>3, <1>4, <1>5

\* It depends on the sources joined so far only.
LEMMA SqlJoinsSame ==
  ASSUME NEW q \in Queries, NEW sc, NEW tc, NEW k \in 1..Len(q.from), \A i \in 1..k : sc[i] = tc[i]
  PROVE  SqlJoins(q, sc)[k] = SqlJoins(q, tc)[k]
<1> DEFINE S == {m \in Nat : m + 1 \in 1..k => SqlJoins(q, sc)[m + 1] = SqlJoins(q, tc)[m + 1]}
<1>1. \A i \in 1..k : Source(q, sc, i) = Source(q, tc, i)
  BY DEF Source
<1>2. 0 \in S
  BY <1>1, SqlJoinsDef
<1>3. ASSUME NEW m \in Nat, m \in S PROVE m + 1 \in S
  <2> SUFFICES ASSUME m + 2 \in 1..k PROVE SqlJoins(q, sc)[m + 2] = SqlJoins(q, tc)[m + 2]
    <3>1. (m + 1) + 1 = m + 2 /\ m + 1 \in Nat
      OBVIOUS
    <3> QED
      BY <3>1
  <2>0. Len(q.from) \in Nat
    BY QueryFacts
  <2>1. m + 2 \in 2..Len(q.from) /\ (m + 2) - 1 = m + 1 /\ m + 1 \in 1..k
    BY <2>0
  <2>2. SqlJoins(q, sc)[m + 1] = SqlJoins(q, tc)[m + 1]
    BY <1>3, <2>1
  <2>3. /\ SqlJoins(q, sc)[m + 2] = SqlJoin(q, SqlJoins(q, sc)[m + 1], Source(q, sc, m + 2), q.from[m + 2])
        /\ SqlJoins(q, tc)[m + 2] = SqlJoin(q, SqlJoins(q, tc)[m + 1], Source(q, tc, m + 2), q.from[m + 2])
    BY <2>1, SqlJoinsDef
  <2> QED
    BY <1>1, <2>2, <2>3
<1> HIDE DEF S
<1>4. Nat \subseteq S
  BY <1>2, <1>3, SetInduction
<1>5. k - 1 \in Nat /\ (k - 1) + 1 = k
  OBVIOUS
<1> QED
  BY <1>4, <1>5 DEF S
-----------------------------------------------------------------------------
(* Aggregates.                                                             *)

\* F[X] is the accumulator after the positions X of vs.
is_accumulation(F, func, n, D, vs) ==
  /\ F \in [SUBSET (1..n) -> D] /\ F[{}] = new_acc(func)
  /\ \A X \in SUBSET (1..n) : X # {} => F[X] = update(func, F[X \ {Max(X)}], vs[Max(X)])
  /\ F[1..n] = accumulate(func, vs)

LEMMA AccumulateFold ==
  ASSUME NEW func, NEW n \in Nat, NEW D, NEW V, NEW vs \in [1..n -> V], new_acc(func) \in D,
         \A a \in D, v \in V : update(func, a, v) \in D
  PROVE  \E F : is_accumulation(F, func, n, D, vs)
<1> DEFINE G == [a \in D |-> [v \in V |-> update(func, a, v)]]
           base == new_acc(func)
           is_fold(F) == F = [X \in SUBSET (1..n) |->
                                IF X = {} THEN base ELSE update(func, F[X \ {Max(X)}], vs[Max(X)])]
           H == CHOOSE F : is_fold(F)
<1>0. base \in D
  OBVIOUS
<1>1. G \in [D -> [V -> D]] /\ \A a \in D, v \in V : G[a][v] = update(func, a, v)
  OBVIOUS
<1> HIDE DEF G, base
<1>2. PICK F : is_left_fold(F, n, D, base, G, vs)
  BY <1>0, <1>1, FoldExists
<1>3. /\ F \in [SUBSET (1..n) -> D] /\ F[{}] = base
      /\ \A X \in SUBSET (1..n) : X # {} => F[X] = G[F[X \ {Max(X)}]][vs[Max(X)]]
  BY <1>2 DEF is_left_fold
<1>4. ASSUME NEW X \in SUBSET (1..n), X # {}
      PROVE  F[X] = update(func, F[X \ {Max(X)}], vs[Max(X)])
  <2>1. PICK m \in 1..n : m = Max(X)
    BY <1>4, MaxFacts
  <2>2. X \ {m} \in SUBSET (1..n) /\ vs[m] \in V
    OBVIOUS
  <2>3. F[X \ {m}] \in D
    BY <1>3, <2>2
  <2> QED
    BY <1>1, <1>3, <1>4, <2>1, <2>2, <2>3
<1>5. is_fold(F)
  BY <1>3, <1>4
<1>6. is_fold(H)
  BY <1>5
<1>7. accumulate(func, vs) = H[1..n]
  BY DEF accumulate, FoldLeft, MapThenFoldSet, base
<1> HIDE DEF H
<1>8. ASSUME NEW E, is_fold(E)
      PROVE  /\ E[{}] = base
             /\ \A X \in SUBSET (1..n) : X # {} => E[X] = update(func, E[X \ {Max(X)}], vs[Max(X)])
  BY <1>8
<1> HIDE DEF is_fold
<1>9. F[1..n] = H[1..n]
  <2>1. F[{}] = H[{}]
    BY <1>5, <1>6, <1>8
  <2>2. \A X \in SUBSET (1..n) : X # {} /\ F[X \ {Max(X)}] = H[X \ {Max(X)}] => F[X] = H[X]
    BY <1>5, <1>6, <1>8
  <2> QED
    BY <2>1, <2>2, FoldsAgree
<1> QED
  BY <1>3, <1>4, <1>7, <1>9 DEF base, is_accumulation

\* What update keeps true of an accumulator is true of the last one.
LEMMA AccumulateFacts ==
  ASSUME NEW func, NEW n \in Nat, NEW D, NEW V, NEW vs \in [1..n -> V], new_acc(func) \in D,
         \A a \in D, v \in V : update(func, a, v) \in D
  PROVE  accumulate(func, vs) \in D
<1>1. PICK F : is_accumulation(F, func, n, D, vs)
  BY AccumulateFold
<1> QED
  BY <1>1 DEF is_accumulation

\* F[X] has the values of the positions X of vs, each once.
collected(seen, v) == IF v \in Range(seen) THEN seen ELSE Append(seen, v)
is_collection(F, n, V, vs) ==
  /\ F \in [SUBSET (1..n) -> Seq(V)] /\ F[{}] = <<>>
  /\ \A X \in SUBSET (1..n) : X # {} => F[X] = collected(F[X \ {Max(X)}], vs[Max(X)])
  /\ F[1..n] = once(vs)

LEMMA OnceFold ==
  ASSUME NEW n \in Nat, NEW V, NEW vs \in [1..n -> V]
  PROVE  \E F : is_collection(F, n, V, vs)
<1> DEFINE D == Seq(V)
           G == [a \in D |-> [v \in V |-> collected(a, v)]]
           base == <<>>
           is_fold(F) == F = [X \in SUBSET (1..n) |->
                                IF X = {} THEN base ELSE collected(F[X \ {Max(X)}], vs[Max(X)])]
           H == CHOOSE F : is_fold(F)
<1>0. base \in D /\ \A a \in D, v \in V : collected(a, v) \in D
  BY DEF collected
<1>7. once(vs) = H[1..n]
  BY DEF once, FoldLeft, MapThenFoldSet, collected
<1> HIDE DEF D
<1>1. G \in [D -> [V -> D]] /\ \A a \in D, v \in V : G[a][v] = collected(a, v)
  BY <1>0
<1> HIDE DEF G, base
<1>2. PICK F : is_left_fold(F, n, D, base, G, vs)
  BY <1>0, <1>1, FoldExists
<1>3. /\ F \in [SUBSET (1..n) -> D] /\ F[{}] = base
      /\ \A X \in SUBSET (1..n) : X # {} => F[X] = G[F[X \ {Max(X)}]][vs[Max(X)]]
  BY <1>2 DEF is_left_fold
<1>4. ASSUME NEW X \in SUBSET (1..n), X # {}
      PROVE  F[X] = collected(F[X \ {Max(X)}], vs[Max(X)])
  <2>1. PICK m \in 1..n : m = Max(X)
    BY <1>4, MaxFacts
  <2>2. X \ {m} \in SUBSET (1..n) /\ vs[m] \in V
    OBVIOUS
  <2>3. F[X \ {m}] \in D
    BY <1>3, <2>2
  <2> QED
    BY <1>1, <1>3, <1>4, <2>1, <2>2, <2>3
<1>5. is_fold(F)
  BY <1>3, <1>4
<1>6. is_fold(H)
  BY <1>5
<1> HIDE DEF H
<1>8. ASSUME NEW E, is_fold(E)
      PROVE  /\ E[{}] = base
             /\ \A X \in SUBSET (1..n) : X # {} => E[X] = collected(E[X \ {Max(X)}], vs[Max(X)])
  BY <1>8
<1> HIDE DEF is_fold
<1>9. F[1..n] = H[1..n]
  <2>1. F[{}] = H[{}]
    BY <1>5, <1>6, <1>8
  <2>2. \A X \in SUBSET (1..n) : X # {} /\ F[X \ {Max(X)}] = H[X \ {Max(X)}] => F[X] = H[X]
    BY <1>5, <1>6, <1>8
  <2> QED
    BY <2>1, <2>2, FoldsAgree
<1> QED
  BY <1>3, <1>4, <1>7, <1>9 DEF base, D, is_collection

\* once takes values only that are there.
LEMMA OnceFacts ==
  ASSUME NEW n \in Nat, NEW V, NEW vs \in [1..n -> V]
  PROVE  once(vs) \in Seq(V)
<1>1. PICK F : is_collection(F, n, V, vs)
  BY OnceFold
<1> QED
  BY <1>1 DEF is_collection

\* Values of the kinds K, or NULL.
Kinds == {"bool", "int", "float", "text"}
Given(K) == {Null} \cup [ty : K, v : Int]

\* The accumulators of each function over values it takes.
LEMMA CountUpdates ==
  /\ new_acc("count") \in [ty : {"int"}, v : Int]
  /\ \A a \in [ty : {"int"}, v : Int] : \A v : update("count", a, v) \in [ty : {"int"}, v : Int]
  /\ \A a \in [ty : {"int"}, v : Int] : finalize("count", a) # Failed
BY DEF new_acc, update, finalize, Failed, Null

LEMMA AvgUpdates ==
  /\ new_acc("avg") \in [ty : {"avg"}, v : Int, n : Int]
  /\ \A a \in [ty : {"avg"}, v : Int, n : Int], v \in Given({"int", "float"}) :
       update("avg", a, v) \in [ty : {"avg"}, v : Int, n : Int]
  /\ \A a \in [ty : {"avg"}, v : Int, n : Int] : finalize("avg", a) # Failed
<1>1. ASSUME NEW a \in [ty : {"avg"}, v : Int, n : Int], NEW v \in Given({"int", "float"})
      PROVE  update("avg", a, v) \in [ty : {"avg"}, v : Int, n : Int]
  <2>1. a.ty = "avg" /\ a.v \in Int /\ a.n \in Int /\ a # Failed
    BY DEF Failed
  <2>2. CASE v = Null
    <3>1. update("avg", a, v) = a
      BY <2>1, <2>2 DEF update
    <3> QED
      BY <3>1
  <2>3. CASE v # Null
    <3>1. v.ty \in {"int", "float"} /\ v.v \in Int
      BY <2>3 DEF Given
    <3>2. update("avg", a, v) = [a EXCEPT !.v = @ + v.v, !.n = @ + 1]
      BY <2>1, <2>3, <3>1 DEF update, avg_update, number
    <3>3. a.v + v.v \in Int /\ a.n + 1 \in Int
      BY <2>1, <3>1
    <3>4. ASSUME NEW x \in Int, NEW y \in Int
          PROVE  [a EXCEPT !.v = x, !.n = y] \in [ty : {"avg"}, v : Int, n : Int]
      OBVIOUS
    <3> QED
      BY <3>2, <3>3, <3>4
  <2> QED
    BY <2>2, <2>3
<1>2. ASSUME NEW a \in [ty : {"avg"}, v : Int, n : Int] PROVE finalize("avg", a) # Failed
  BY DEF finalize, Null, Failed
<1> QED
  BY <1>1, <1>2 DEF new_acc

LEMMA SumUpdates ==
  ASSUME NEW t \in {"int", "float"}
  PROVE  /\ new_acc("sum") \in Given({t})
         /\ \A a \in Given({t}), v \in Given({t}) : update("sum", a, v) \in Given({t})
<1>1. ASSUME NEW a \in Given({t}), NEW v \in Given({t}) PROVE update("sum", a, v) \in Given({t})
  <2>1. a # Failed
    BY DEF Given, Failed, Null
  <2>2. CASE v = Null
    <3>1. update("sum", a, v) = a
      BY <2>1, <2>2 DEF update
    <3> QED
      BY <3>1
  <2>3. CASE v # Null
    <3>1. v \in [ty : {t}, v : Int] /\ v.ty = t /\ number(v)
      BY <2>3 DEF Given, number
    <3>2. update("sum", a, v) = sum_update(a, v)
      BY <2>1, <2>3 DEF update
    <3>3. CASE a = Null
      BY <3>1, <3>2, <3>3 DEF sum_update
    <3>4. CASE a # Null
      <4>1. a \in [ty : {t}, v : Int] /\ a.ty = t
        BY <3>4 DEF Given
      <4>2. sum_update(a, v) = [a EXCEPT !.v = @ + v.v]
        BY <3>1, <3>4, <4>1 DEF sum_update
      <4>3. a.v + v.v \in Int
        BY <3>1, <4>1
      <4>4. a = [ty |-> t, v |-> a.v]
        BY <4>1
      <4>5. [a EXCEPT !.v = @ + v.v] = [ty |-> t, v |-> a.v + v.v]
        BY <4>4
      <4> QED
        BY <3>2, <4>2, <4>3, <4>5 DEF Given
    <3> QED
      BY <3>3, <3>4
  <2> QED
    BY <2>2, <2>3
<1> QED
  BY <1>1 DEF new_acc, Given

LEMMA ExtremaUpdates ==
  ASSUME NEW t \in Kinds, NEW func \in {"min", "max"}
  PROVE  /\ new_acc(func) \in Given({t})
         /\ \A a \in Given({t}), v \in Given({t}) : update(func, a, v) \in Given({t})
<1>1. ASSUME NEW a \in Given({t}), NEW v \in Given({t}) PROVE update(func, a, v) \in Given({t})
  <2>1. a # Failed
    BY DEF Given, Failed, Null, Kinds
  <2>2. CASE v = Null
    BY <2>1, <2>2 DEF update
  <2>3. CASE v # Null
    <3>1. v.ty = t
      BY <2>3 DEF Given
    <3>2. update(func, a, v) = extrema_update(func, a, v)
      BY <2>1, <2>3 DEF update
    <3>3. a # Null => a.ty = t
      BY DEF Given
    <3>4. CASE a = Null
      BY <3>2, <3>4 DEF extrema_update
    <3>5. CASE a # Null
      <4>1. extrema_update(func, a, v) = a \/ extrema_update(func, a, v) = v
        BY <3>1, <3>3, <3>5 DEF extrema_update
      <4> QED
        BY <3>2, <4>1
    <3> QED
      BY <3>4, <3>5
  <2> QED
    BY <2>2, <2>3
<1> QED
  BY <1>1 DEF new_acc, Given

\* What is not Failed does not become so at the end.
LEMMA FinalizeGiven ==
  ASSUME NEW func, NEW t \in Kinds, NEW a \in Given({t})
  PROVE  finalize(func, a) # Failed
<1>1. CASE a = Null
  BY <1>1 DEF finalize, Null, Failed
<1>2. CASE a # Null
  <2>1. a \in [ty : {t}, v : Int] /\ a.ty = t /\ t # "avg" /\ t # "failed"
    BY <1>2 DEF Given, Kinds
  <2>2. finalize(func, a) = a \/ finalize(func, a) = [a EXCEPT !.v = wrap(a.v)]
    BY <2>1 DEF finalize
  <2>3. finalize(func, a).ty = t
    BY <2>1, <2>2
  <2> QED
    BY <2>1, <2>3 DEF Failed
<1> QED
  BY <1>1, <1>2

\* An aggregate of values of one kind, for SUM and AVG of numbers, does not fail.
LEMMA NoFailure ==
  ASSUME NEW func \in Funcs, NEW n \in Nat, NEW K \in SUBSET Kinds, NEW vs \in [1..n -> Given(K)],
         func \in {"sum", "min", "max"} => \A s, t \in K : s = t,
         func \in {"sum", "avg"} => K \subseteq {"int", "float"}
  PROVE  finalize(func, accumulate(func, vs)) # Failed
<1>1. CASE func = "count"
  BY <1>1, CountUpdates, AccumulateFacts
<1>2. CASE func = "avg"
  <2>1. vs \in [1..n -> Given({"int", "float"})]
    BY <1>2 DEF Given
  <2> QED
    BY <1>2, <2>1, AvgUpdates, AccumulateFacts
<1>3. CASE func = "sum"
  <2>1. \E t \in {"int", "float"} : K \subseteq {t}
    BY <1>3
  <2>2. PICK t \in {"int", "float"} : K \subseteq {t}
    BY <2>1
  <2>3. vs \in [1..n -> Given({t})]
    BY <2>2 DEF Given
  <2>4. accumulate(func, vs) \in Given({t})
    BY <1>3, <2>3, SumUpdates, AccumulateFacts
  <2> QED
    BY <2>4, FinalizeGiven DEF Kinds
<1>4. CASE func \in {"min", "max"}
  <2>1. \E t \in Kinds : K \subseteq {t}
    BY <1>4 DEF Kinds
  <2>2. PICK t \in Kinds : K \subseteq {t}
    BY <2>1
  <2>3. vs \in [1..n -> Given({t})]
    BY <2>2 DEF Given
  <2>4. accumulate(func, vs) \in Given({t})
    BY <1>4, <2>3, ExtremaUpdates, AccumulateFacts
  <2> QED
    BY <2>4, FinalizeGiven
<1> QED
  BY <1>1, <1>2, <1>3, <1>4 DEF Funcs

\* The rows of a group.
members(q, rs, k) == retain(rs, LAMBDA r : gb_vals(q, r) = k)

LEMMA MembersFacts ==
  ASSUME NEW q, NEW X, NEW rs \in Seq(X), NEW k
  PROVE  members(q, rs, k) \in Seq(X) /\ Range(members(q, rs, k)) \subseteq Range(rs)
<1> DEFINE T == {x \in Range(rs) : gb_vals(q, x) = k}
           ss == [j \in DOMAIN rs |-> IF gb_vals(q, rs[j]) = k THEN <<rs[j]>> ELSE <<>>]
<1>1. \A j \in 1..Len(rs) : ss[j] = IF rs[j] \in T THEN <<rs[j]>> ELSE <<>>
  BY DEF Range
<1>2. ss \in [1..Len(rs) -> Seq(X)]
  <2>1. \A x \in X : <<x>> \in Seq(X)
    OBVIOUS
  <2>2. \A j \in 1..Len(rs) : (IF gb_vals(q, rs[j]) = k THEN <<rs[j]>> ELSE <<>>) \in Seq(X)
    BY <2>1
  <2>3. DOMAIN rs = 1..Len(rs)
    OBVIOUS
  <2> QED
    BY <2>2, <2>3
<1>3. members(q, rs, k) = FlattenSeq(ss)
  BY DEF members, retain
<1> HIDE DEF T, ss
<1> DEFINE Kept(f, K) == /\ FlattenSeq(f) \in Seq(X) /\ Range(FlattenSeq(f)) = Range(rs) \cap T
                         /\ distinct(K, rs) => distinct(K, FlattenSeq(f))
<1>4. \A K : Kept(ss, K)
  BY <1>1, <1>2, RetainFacts
<1> QED
  BY <1>3, <1>4

\* A set of kinds with two members has a cardinality above 1.
LEMMA KindsFinite ==
  ASSUME NEW K \in SUBSET Kinds, ~(Cardinality(K) > 1)
  PROVE  \A s, t \in K : s = t
<1> SUFFICES ASSUME NEW s \in K, NEW t \in K, s # t PROVE FALSE
  OBVIOUS
<1>1. IsFiniteSet(Kinds)
  <2>1. Kinds = {"bool"} \cup ({"int"} \cup ({"float"} \cup {"text"}))
    BY DEF Kinds
  <2> QED
    BY <2>1, FS_Singleton, FS_Union
<1>2. IsFiniteSet(K)
  BY <1>1, FS_Subset
<1>3. IsFiniteSet({s}) /\ Cardinality({s}) = 1
  BY FS_Singleton
<1>4. IsFiniteSet({s} \cup {t}) /\ Cardinality({s} \cup {t}) = 2
  <2> DEFINE S == {s}
  <2>1. IsFiniteSet(S) /\ Cardinality(S) = 1 /\ t \notin S
    BY <1>3
  <2> HIDE DEF S
  <2>2. IsFiniteSet(S \cup {t}) /\ Cardinality(S \cup {t}) = Cardinality(S) + 1
    BY <2>1, FS_AddElement
  <2> QED
    BY <2>1, <2>2 DEF S
<1>5. {s} \cup {t} \subseteq K
  OBVIOUS
<1>6. Cardinality({s} \cup {t}) <= Cardinality(K)
  BY <1>2, <1>5, FS_Subset
<1>7. Cardinality(K) \in Nat
  BY <1>2, FS_CardinalityType
<1> QED
  BY <1>4, <1>6, <1>7

\* A call that fails over some rows of rs is one that their values can make fail.
LEMMA CallFails ==
  ASSUME NEW q \in Queries, NEW i \in DOMAIN q.calls, NEW rs \in Seq(Tuples(All(q))),
         NEW ms \in Seq(Tuples(All(q))), Range(ms) \subseteq Range(rs),
         finalize(q.calls[i].func, accumulate(q.calls[i].func, args(q.calls[i], ms))) = Failed
  PROVE  blamed(q, i, image(q, Range(rs)))
<1> DEFINE call == q.calls[i]
           S == image(q, Range(rs))
           kinds == {eval(call.arg, r).ty : r \in S} \ {"null"}
           n == Len(ms)
           vs == [j \in DOMAIN ms |-> IF call.star THEN [ty |-> "bool", v |-> 1] ELSE eval(call.arg, ms[j])]
<1>1. call.func \in Funcs /\ (call.star => call.func = "count")
  BY QueriesAssumption
<1>2. n \in Nat /\ DOMAIN ms = 1..n /\ \A j \in 1..n : ms[j] \in Tuples(All(q)) /\ ms[j] \in Range(rs)
  <2>1. n \in Nat /\ DOMAIN ms = 1..n /\ \A j \in 1..n : ms[j] \in Tuples(All(q))
    OBVIOUS
  <2>2. \A j \in DOMAIN ms : ms[j] \in Range(ms)
    BY DEF Range
  <2> QED
    BY <2>1, <2>2
<1>3. ASSUME NEW r \in Range(rs)
      PROVE  /\ eval(call.arg, r) \in Values /\ Complete(q, r) \in S
             /\ eval(call.arg, Complete(q, r)) = eval(call.arg, r)
  <2>1. r \in Tuples(All(q))
    BY DEF Range
  <2> QED
    BY <2>1, EvalType, EvalComplete DEF image
<1>4. kinds \subseteq Kinds
  <2> SUFFICES ASSUME NEW x \in S, eval(call.arg, x).ty # "null" PROVE eval(call.arg, x).ty \in Kinds
    OBVIOUS
  <2>1. PICK r \in Range(rs) : x = Complete(q, r)
    BY DEF image
  <2>2. eval(call.arg, x) \in Values
    BY <1>3, <2>1
  <2> HIDE DEF call
  <2> QED
    BY <2>2 DEF Values, Null, Kinds
<1>5. ASSUME ~call.star PROVE vs \in [1..n -> Given(kinds)]
  <2> SUFFICES ASSUME NEW j \in 1..n PROVE eval(call.arg, ms[j]) \in Given(kinds)
    BY <1>2, <1>5
  <2>1. ms[j] \in Range(rs)
    BY <1>2
  <2>2. eval(call.arg, ms[j]) \in Values /\ eval(call.arg, ms[j]).ty \in {eval(call.arg, r).ty : r \in S}
    BY <1>3, <2>1
  <2> DEFINE v == eval(call.arg, ms[j])
  <2>3. v # Null => v \in [ty : {"bool", "int", "float", "text"}, v : Int] /\ v.ty # "null"
    BY <2>2 DEF Values
  <2>4. v # Null => v.ty \in kinds
    BY <2>2, <2>3
  <2> HIDE DEF v, kinds
  <2>5. v # Null => v \in [ty : kinds, v : Int]
    BY <2>3, <2>4
  <2> QED
    BY <2>5 DEF Given, v
<1>6. args(call, ms) = IF call.distinct THEN once(vs) ELSE vs
  BY DEF args
<1> HIDE DEF vs, kinds, S
<1>7. CASE call.star
  <2>1. call.func = "count"
    BY <1>1, <1>7
  <2>2. vs \in [1..n -> {[ty |-> "bool", v |-> 1]}]
    BY <1>2, <1>7 DEF vs
  <2>3. ASSUME NEW m \in Nat, NEW us \in [1..m -> {[ty |-> "bool", v |-> 1]}]
        PROVE  finalize("count", accumulate("count", us)) # Failed
    BY CountUpdates, AccumulateFacts
  <2>4. once(vs) \in Seq({[ty |-> "bool", v |-> 1]})
    BY <1>2, <2>2, OnceFacts
  <2>5. \E m \in Nat : args(call, ms) \in [1..m -> {[ty |-> "bool", v |-> 1]}]
    <3>1. CASE call.distinct
      <4>1. args(call, ms) = once(vs)
        BY <1>6, <3>1
      <4> QED
        BY <2>4, <4>1
    <3>2. CASE ~call.distinct
      <4>1. args(call, ms) = vs
        BY <1>6, <3>2
      <4> QED
        BY <1>2, <2>2, <4>1
    <3> QED
      BY <3>1, <3>2
  <2> QED
    BY <2>1, <2>3, <2>5
<1>8. CASE ~call.star
  <2>1. vs \in [1..n -> Given(kinds)]
    BY <1>5, <1>8
  <2>2. once(vs) \in Seq(Given(kinds))
    BY <1>2, <2>1, OnceFacts
  <2>3. PICK m \in Nat : args(call, ms) \in [1..m -> Given(kinds)]
    <3>1. CASE call.distinct
      <4>1. args(call, ms) = once(vs)
        BY <1>6, <3>1
      <4> QED
        BY <2>2, <4>1
    <3>2. CASE ~call.distinct
      <4>1. args(call, ms) = vs
        BY <1>6, <3>2
      <4> QED
        BY <1>2, <2>1, <4>1
    <3> QED
      BY <3>1, <3>2
  <2>4. ~ ( /\ call.func \in {"sum", "min", "max"} => \A s, t \in kinds : s = t
            /\ call.func \in {"sum", "avg"} => kinds \subseteq {"int", "float"})
    BY <1>1, <1>4, <2>3, NoFailure
  <2>5. \/ call.func \in {"sum", "min", "max"} /\ Cardinality(kinds) > 1
        \/ call.func \in {"sum", "avg"} /\ ~(kinds \subseteq {"int", "float"})
    BY <1>4, <2>4, KindsFinite
  <2> QED
    BY <2>5 DEF blamed, kinds, S
<1> QED
  BY <1>7, <1>8

\* A group with a call that failed.
LEMMA GroupFails ==
  ASSUME NEW q \in Queries, NEW rs \in Seq(Tuples(All(q))),
         NEW k \in group_keys(q, rs), Failed \in Range(group_row(q, rs, k))
  PROVE  \E i \in DOMAIN q.calls : blamed(q, i, image(q, Range(rs)))
<1> DEFINE result(i) == finalize(q.calls[i].func, accumulate(q.calls[i].func, args(q.calls[i], members(q, rs, k))))
           pos(c) == CHOOSE i \in DOMAIN q.group : q.group[i] = c
           call(c) == CHOOSE i \in DOMAIN q.calls : name(q, i) = c
           keyed == [c \in Range(q.group) |-> k[pos(c)]]
           called == [c \in {name(q, i) : i \in DOMAIN q.calls} |-> result(call(c))]
<1>1. group_row(q, rs, k) = merge_objs(keyed, called)
  BY DEF group_row, members
<1>2. ASSUME NEW c \in Range(q.group) PROVE keyed[c] # Failed
  <2>1. \E i \in DOMAIN q.group : q.group[i] = c
    BY DEF Range
  <2>2. pos(c) \in DOMAIN q.group
    BY <2>1
  <2>3. q.group # <<>>
    BY <2>1
  <2> HIDE DEF pos
  <2>4. PICK j \in DOMAIN rs : k = gb_vals(q, rs[j])
    BY <2>3 DEF group_keys
  <2>5. rs[j] \in Tuples(All(q))
    OBVIOUS
  <2>6. k[pos(c)] = eval(q.group[pos(c)], rs[j])
    BY <2>2, <2>4 DEF gb_vals
  <2>7. k[pos(c)] \in Values
    BY <2>5, <2>6, EvalType
  <2> QED
    BY <2>7 DEF Values, Null, Failed
<1>3. \A c \in {name(q, i) : i \in DOMAIN q.calls} : call(c) \in DOMAIN q.calls
  OBVIOUS
<1>4. DOMAIN keyed = Range(q.group) /\ DOMAIN called = {name(q, i) : i \in DOMAIN q.calls}
  OBVIOUS
<1>5. \A c \in DOMAIN called : called[c] = result(call(c))
  OBVIOUS
<1> HIDE DEF keyed, called, result, call
<1>6. \E c \in DOMAIN called : called[c] = Failed
  <2>1. PICK c \in DOMAIN keyed \cup DOMAIN called : merge_objs(keyed, called)[c] = Failed
    BY <1>1 DEF Range, merge_objs
  <2>2. (IF c \in DOMAIN called THEN called[c] ELSE keyed[c]) = Failed
    BY <2>1 DEF merge_objs
  <2> QED
    BY <1>2, <1>4, <2>1, <2>2
<1>7. PICK i \in DOMAIN q.calls : result(i) = Failed
  BY <1>3, <1>4, <1>5, <1>6
<1>8. /\ members(q, rs, k) \in Seq(Tuples(All(q)))
      /\ Range(members(q, rs, k)) \subseteq Range(rs)
  BY MembersFacts
<1>9. blamed(q, i, image(q, Range(rs)))
  BY <1>7, <1>8, CallFails DEF result
<1> QED
  BY <1>9
-----------------------------------------------------------------------------
(* The plan.                                                               *)

\* Halves.
LEMMA HalfFacts ==
  ASSUME NEW n \in Nat
  PROVE  /\ n \div 2 \in Nat
         /\ n % 2 = 0 => n = 2 * (n \div 2) /\ (n + 1) \div 2 = n \div 2
         /\ n % 2 # 0 => n = 2 * (n \div 2) + 1 /\ (n + 1) \div 2 = n \div 2 + 1
OBVIOUS

\* A node more or none.
Ops == {"scan", "join", "where", "aggregate", "having", "sort", "project", "limit"}
Nodes == [op : Ops, i : Nat]
extends(s, t, b, op) ==
  /\ t \in Seq(Nodes) /\ Len(t) = Len(s) + (IF b THEN 1 ELSE 0)
  /\ \A n \in 1..Len(s) : t[n] = s[n]
  /\ \A n \in 1..Len(t) : n > Len(s) => n = Len(s) + 1 /\ b /\ t[n].op = op

LEMMA PlannedFacts ==
  ASSUME NEW s \in Seq(Nodes), NEW b \in BOOLEAN, NEW op \in Ops
  PROVE  extends(s, s \o planned(b, op), b, op)
<1>1. CASE b = TRUE
  <2> DEFINE x == [op |-> op, i |-> 0]
             t == s \o <<x>>
  <2>1. planned(b, op) = <<x>>
    BY <1>1 DEF planned
  <2>2. x.op = op /\ x \in Nodes
    BY DEF Nodes
  <2> HIDE DEF x
  <2>3. /\ t \in Seq(Nodes) /\ Len(t) = Len(s) + 1 /\ Len(s) \in Nat
        /\ \A n \in 1..Len(s) : t[n] = s[n]
        /\ t[Len(s) + 1] = x
    BY <2>2
  <2> HIDE DEF t
  <2>4. \A n \in 1..Len(t) : n > Len(s) => n = Len(s) + 1
    BY <2>3
  <2> QED
    BY <1>1, <2>1, <2>2, <2>3, <2>4 DEF extends, t
<1>2. CASE b = FALSE
  <2>1. planned(b, op) = <<>> /\ s \o <<>> = s /\ Len(s) \in Nat
    BY <1>2 DEF planned
  <2> QED
    BY <1>2, <2>1 DEF extends
<1> QED
  BY <1>1, <1>2

\* The number of nodes that scan and join, and the place of the node after WHERE.
joins_end(q) == 2 * Len(q.from) - 1
filtered(q) == joins_end(q) + (IF q.where # NoPredicate THEN 2 ELSE 1)

\* The places of the later nodes, of which the next has the same if there is none.
having_at(q)  == filtered(q) + (IF needs_agg(q) THEN 1 ELSE 0)
sort_at(q)    == having_at(q) + (IF needs_agg(q) /\ q.having # NoPredicate THEN 1 ELSE 0)
project_at(q) == sort_at(q) + (IF q.order # <<>> THEN 1 ELSE 0)
limit_at(q)   == project_at(q) + 1

\* What node n of a plan is.
placed(q, n, op) ==
  \/ n <= joins_end(q) /\ op \in {"scan", "join"}
  \/ n = joins_end(q) + 1 /\ q.where # NoPredicate /\ op = "where"
  \/ n = filtered(q) /\ needs_agg(q) /\ op = "aggregate"
  \/ n = having_at(q) /\ needs_agg(q) /\ q.having # NoPredicate /\ op = "having"
  \/ n = sort_at(q) /\ q.order # <<>> /\ op = "sort"
  \/ n = project_at(q) /\ op = "project"
  \/ n = limit_at(q) /\ (q.limit # <<>> \/ q.offset # <<>>) /\ op = "limit"

\* The places as numbers.
LEMMA Places ==
  ASSUME NEW q \in Queries
  PROVE  /\ joins_end(q) \in Nat /\ filtered(q) \in Nat /\ having_at(q) \in Nat /\ sort_at(q) \in Nat
         /\ project_at(q) \in Nat /\ limit_at(q) \in Nat
         /\ 1 <= joins_end(q) /\ joins_end(q) < filtered(q)
         /\ filtered(q) <= having_at(q) /\ having_at(q) <= sort_at(q) /\ sort_at(q) <= project_at(q)
         /\ limit_at(q) = project_at(q) + 1
         /\ q.where # NoPredicate => filtered(q) = joins_end(q) + 2
         /\ having_at(q) = filtered(q) + (IF needs_agg(q) THEN 1 ELSE 0)
         /\ sort_at(q) = having_at(q) + (IF needs_agg(q) /\ q.having # NoPredicate THEN 1 ELSE 0)
         /\ project_at(q) = sort_at(q) + (IF q.order # <<>> THEN 1 ELSE 0)
<1>1. joins_end(q) \in Nat /\ 1 <= joins_end(q)
  <2>1. Len(q.from) \in Nat \ {0}
    BY QueryFacts
  <2> QED
    BY <2>1 DEF joins_end
<1>2. filtered(q) \in Nat /\ joins_end(q) < filtered(q) /\ (q.where # NoPredicate => filtered(q) = joins_end(q) + 2)
  BY <1>1 DEF filtered
<1>3. having_at(q) \in Nat /\ filtered(q) <= having_at(q)
  BY <1>2 DEF having_at
<1>4. sort_at(q) \in Nat /\ having_at(q) <= sort_at(q)
  BY <1>3 DEF sort_at
<1>5. project_at(q) \in Nat /\ sort_at(q) <= project_at(q) /\ limit_at(q) \in Nat /\ limit_at(q) = project_at(q) + 1
  BY <1>4 DEF project_at, limit_at
<1> QED
  BY <1>1, <1>2, <1>3, <1>4, <1>5 DEF having_at, sort_at, project_at

\* What comes where in a plan.
LEMMA PlanPlaces ==
  ASSUME NEW q \in Queries
  PROVE  /\ Len(from_analyzed(q)) = project_at(q) + (IF q.limit # <<>> \/ q.offset # <<>> THEN 1 ELSE 0)
         /\ \A n \in 1..joins_end(q) :
              from_analyzed(q)[n] = [op |-> IF n = 1 \/ n % 2 = 0 THEN "scan" ELSE "join", i |-> n \div 2 + 1]
         /\ \A n \in 1..Len(from_analyzed(q)) : placed(q, n, from_analyzed(q)[n].op)
<1> DEFINE e == joins_end(q)
           s0 == sources(q)
           s1 == s0 \o planned(q.where # NoPredicate, "where")
           s2 == s1 \o planned(needs_agg(q), "aggregate")
           s3 == s2 \o planned(needs_agg(q) /\ q.having # NoPredicate, "having")
           s4 == s3 \o planned(q.order # <<>>, "sort")
           s5 == s4 \o planned(TRUE, "project")
           s6 == s5 \o planned(q.limit # <<>> \/ q.offset # <<>>, "limit")
<1>1. Len(q.from) \in Nat \ {0}
  BY QueryFacts
<1>2. e \in Nat /\ e >= 1
  BY <1>1 DEF joins_end
<1>3. \A n \in 1..e : s0[n] = [op |-> IF n = 1 \/ n % 2 = 0 THEN "scan" ELSE "join", i |-> n \div 2 + 1]
  BY DEF sources, joins_end
<1>4. \A n \in 1..e : s0[n] \in Nodes /\ s0[n].op \in {"scan", "join"}
  <2> SUFFICES ASSUME NEW n \in 1..e PROVE s0[n] \in Nodes /\ s0[n].op \in {"scan", "join"}
    OBVIOUS
  <2>1. n \div 2 + 1 \in Nat
    BY <1>2, HalfFacts
  <2> DEFINE i == n \div 2 + 1
             op == IF n = 1 \/ n % 2 = 0 THEN "scan" ELSE "join"
  <2>2. s0[n] = [op |-> op, i |-> i]
    BY <1>3
  <2>3. op \in {"scan", "join"} /\ op \in Ops
    BY DEF Ops
  <2> HIDE DEF op, i, s0
  <2> QED
    BY <2>1, <2>2, <2>3 DEF Nodes, i
<1>5. s0 \in Seq(Nodes) /\ Len(s0) = e
  <2>1. DOMAIN s0 = 1..e /\ s0 = [n \in 1..e |-> s0[n]]
    BY DEF sources, joins_end
  <2> HIDE DEF s0, e
  <2> QED
    BY <1>2, <1>4, <2>1
<1>6. from_analyzed(q) = s6
  BY DEF from_analyzed
<1>7. needs_agg(q) \in BOOLEAN
  BY DEF needs_agg
<1> HIDE DEF s0, e
<1>8. extends(s0, s1, q.where # NoPredicate, "where")
  BY <1>5, PlannedFacts DEF Ops
<1> HIDE DEF s1
<1>9. extends(s1, s2, needs_agg(q), "aggregate")
  <2>1. s1 \in Seq(Nodes)
    BY <1>8 DEF extends
  <2> DEFINE given == needs_agg(q)
  <2>2. given \in BOOLEAN
    BY <1>7
  <2> HIDE DEF given
  <2>3. extends(s1, s1 \o planned(given, "aggregate"), given, "aggregate")
    BY <2>1, <2>2, PlannedFacts DEF Ops
  <2> QED
    BY <2>3 DEF given
<1> HIDE DEF s2
<1>10. extends(s2, s3, needs_agg(q) /\ q.having # NoPredicate, "having")
  <2>1. s2 \in Seq(Nodes)
    BY <1>9 DEF extends
  <2> DEFINE given == needs_agg(q) /\ q.having # NoPredicate
  <2>2. given \in BOOLEAN
    BY <1>7
  <2> HIDE DEF given
  <2>3. extends(s2, s2 \o planned(given, "having"), given, "having")
    BY <2>1, <2>2, PlannedFacts DEF Ops
  <2> QED
    BY <2>3 DEF given
<1> HIDE DEF s3
<1>11. extends(s3, s4, q.order # <<>>, "sort")
  <2>1. s3 \in Seq(Nodes)
    BY <1>10 DEF extends
  <2> DEFINE given == q.order # <<>>
  <2>2. given \in BOOLEAN
    BY <1>7
  <2> HIDE DEF given
  <2>3. extends(s3, s3 \o planned(given, "sort"), given, "sort")
    BY <2>1, <2>2, PlannedFacts DEF Ops
  <2> QED
    BY <2>3 DEF given
<1> HIDE DEF s4
<1>12. extends(s4, s5, TRUE, "project")
  BY <1>11, PlannedFacts DEF Ops, extends
<1> HIDE DEF s5
<1>13. extends(s5, s6, q.limit # <<>> \/ q.offset # <<>>, "limit")
  <2>1. s5 \in Seq(Nodes)
    BY <1>12 DEF extends
  <2> DEFINE given == q.limit # <<>> \/ q.offset # <<>>
  <2>2. given \in BOOLEAN
    BY <1>7
  <2> HIDE DEF given
  <2>3. extends(s5, s5 \o planned(given, "limit"), given, "limit")
    BY <2>1, <2>2, PlannedFacts DEF Ops
  <2> QED
    BY <2>3 DEF given
<1> HIDE DEF s6
<1>14. /\ Len(s1) = e + (IF q.where # NoPredicate THEN 1 ELSE 0)
       /\ Len(s2) = Len(s1) + (IF needs_agg(q) THEN 1 ELSE 0)
       /\ Len(s3) = Len(s2) + (IF needs_agg(q) /\ q.having # NoPredicate THEN 1 ELSE 0)
       /\ Len(s4) = Len(s3) + (IF q.order # <<>> THEN 1 ELSE 0)
       /\ Len(s5) = Len(s4) + 1
       /\ Len(s6) = Len(s5) + (IF q.limit # <<>> \/ q.offset # <<>> THEN 1 ELSE 0)
       /\ Len(s1) \in Nat /\ Len(s2) \in Nat /\ Len(s3) \in Nat /\ Len(s4) \in Nat /\ Len(s5) \in Nat /\ Len(s6) \in Nat
  BY <1>2, <1>5, <1>8, <1>9, <1>10, <1>11, <1>12, <1>13 DEF extends
<1>15. /\ \A n \in 1..e : s1[n] = s0[n]
       /\ \A n \in 1..Len(s1) : s2[n] = s1[n]
       /\ \A n \in 1..Len(s2) : s3[n] = s2[n]
       /\ \A n \in 1..Len(s3) : s4[n] = s3[n]
       /\ \A n \in 1..Len(s4) : s5[n] = s4[n]
       /\ \A n \in 1..Len(s5) : s6[n] = s5[n]
  BY <1>5, <1>8, <1>9, <1>10, <1>11, <1>12, <1>13 DEF extends
<1>16. /\ \A n \in 1..Len(s1) : n > e => n = e + 1 /\ q.where # NoPredicate /\ s1[n].op = "where"
       /\ \A n \in 1..Len(s2) : n > Len(s1) => n = Len(s1) + 1 /\ needs_agg(q) /\ s2[n].op = "aggregate"
       /\ \A n \in 1..Len(s3) : n > Len(s2) => /\ n = Len(s2) + 1 /\ needs_agg(q) /\ q.having # NoPredicate
                                               /\ s3[n].op = "having"
       /\ \A n \in 1..Len(s4) : n > Len(s3) => n = Len(s3) + 1 /\ q.order # <<>> /\ s4[n].op = "sort"
       /\ \A n \in 1..Len(s5) : n > Len(s4) => n = Len(s4) + 1 /\ s5[n].op = "project"
       /\ \A n \in 1..Len(s6) : n > Len(s5) => /\ n = Len(s5) + 1 /\ (q.limit # <<>> \/ q.offset # <<>>)
                                               /\ s6[n].op = "limit"
  BY <1>5, <1>8, <1>9, <1>10, <1>11, <1>12, <1>13 DEF extends
<1>17. /\ filtered(q) = Len(s1) + 1 /\ having_at(q) = Len(s2) + 1 /\ sort_at(q) = Len(s3) + 1
       /\ project_at(q) = Len(s4) + 1 /\ limit_at(q) = Len(s5) + 1 /\ e = joins_end(q)
  <2>1. filtered(q) = Len(s1) + 1 /\ e = joins_end(q)
    BY <1>2, <1>14 DEF filtered, e
  <2>2. having_at(q) = Len(s2) + 1
    BY <1>14, <2>1 DEF having_at
  <2>3. sort_at(q) = Len(s3) + 1
    BY <1>14, <2>2 DEF sort_at
  <2>4. project_at(q) = Len(s4) + 1
    BY <1>14, <2>3 DEF project_at
  <2>5. limit_at(q) = Len(s5) + 1
    BY <1>14, <2>4 DEF limit_at
  <2> QED
    BY <2>1, <2>2, <2>3, <2>4, <2>5
<1>18. /\ e <= Len(s1) /\ Len(s1) <= Len(s2) /\ Len(s2) <= Len(s3) /\ Len(s3) <= Len(s4) /\ Len(s4) <= Len(s5)
       /\ Len(s5) <= Len(s6)
  BY <1>2, <1>14
<1>19. ASSUME NEW n \in 1..e PROVE n \in 1..Len(s6) /\ s6[n] = s0[n]
  <2>1. n \in 1..Len(s1) /\ n \in 1..Len(s2) /\ n \in 1..Len(s3) /\ n \in 1..Len(s4) /\ n \in 1..Len(s5) /\ n \in 1..Len(s6)
    BY <1>2, <1>14, <1>18
  <2> QED
    BY <1>15, <2>1
<1>20. ASSUME NEW n \in 1..Len(s6) PROVE placed(q, n, s6[n].op)
  <2>1. CASE n > Len(s5)
    BY <1>14, <1>16, <1>17, <2>1 DEF placed
  <2>2. CASE n <= Len(s5) /\ n > Len(s4)
    <3>1. n \in 1..Len(s5) /\ s6[n] = s5[n]
      BY <1>14, <1>15, <2>2
    <3> QED
      BY <1>16, <1>17, <2>2, <3>1 DEF placed
  <2>3. CASE n <= Len(s4) /\ n > Len(s3)
    <3>1. n \in 1..Len(s5) /\ n \in 1..Len(s4)
      BY <1>14, <1>18, <2>3
    <3>2. s6[n] = s4[n]
      BY <1>15, <3>1
    <3> QED
      BY <1>16, <1>17, <2>3, <3>1, <3>2 DEF placed
  <2>4. CASE n <= Len(s3) /\ n > Len(s2)
    <3>1. n \in 1..Len(s5) /\ n \in 1..Len(s4) /\ n \in 1..Len(s3)
      BY <1>14, <1>18, <2>4
    <3>2. s6[n] = s3[n]
      BY <1>15, <3>1
    <3> QED
      BY <1>16, <1>17, <2>4, <3>1, <3>2 DEF placed
  <2>5. CASE n <= Len(s2) /\ n > Len(s1)
    <3>1. n \in 1..Len(s5) /\ n \in 1..Len(s4) /\ n \in 1..Len(s3) /\ n \in 1..Len(s2)
      BY <1>14, <1>18, <2>5
    <3>2. s6[n] = s2[n]
      BY <1>15, <3>1
    <3> QED
      BY <1>16, <1>17, <2>5, <3>1, <3>2 DEF placed
  <2>6. CASE n <= Len(s1)
    <3>1. n \in 1..Len(s5) /\ n \in 1..Len(s4) /\ n \in 1..Len(s3) /\ n \in 1..Len(s2) /\ n \in 1..Len(s1)
      BY <1>14, <1>18, <2>6
    <3>2. s6[n] = s1[n]
      BY <1>15, <3>1
    <3>3. CASE n > e
      BY <1>16, <1>17, <3>1, <3>2, <3>3 DEF placed
    <3>4. CASE n \in 1..e
      BY <1>4, <1>17, <1>19, <3>4 DEF placed
    <3> QED
      BY <1>2, <3>3, <3>4
  <2> QED
    BY <1>14, <2>1, <2>2, <2>3, <2>4, <2>5, <2>6
<1>21. \A n \in 1..e : s6[n] = [op |-> IF n = 1 \/ n % 2 = 0 THEN "scan" ELSE "join", i |-> n \div 2 + 1]
  BY <1>3, <1>19
<1>22. Len(s6) = project_at(q) + (IF q.limit # <<>> \/ q.offset # <<>> THEN 1 ELSE 0)
  BY <1>14, <1>17
<1> QED
  BY <1>6, <1>20, <1>21, <1>22 DEF e

\* So every node that is not a scan, a join or WHERE comes after the others.
LEMMA PlanFacts ==
  ASSUME NEW q \in Queries
  PROVE  /\ Len(from_analyzed(q)) \in Nat /\ Len(from_analyzed(q)) >= filtered(q)
         /\ \A n \in 1..joins_end(q) :
              from_analyzed(q)[n] = [op |-> IF n = 1 \/ n % 2 = 0 THEN "scan" ELSE "join", i |-> n \div 2 + 1]
         /\ \A n \in 1..Len(from_analyzed(q)) :
              /\ from_analyzed(q)[n].op \in {"scan", "join"} => n <= joins_end(q)
              /\ from_analyzed(q)[n].op = "where" => n = joins_end(q) + 1 /\ q.where # NoPredicate
              /\ from_analyzed(q)[n].op = "aggregate" => n = filtered(q)
              /\ from_analyzed(q)[n].op \notin {"scan", "join", "where"} => n >= filtered(q)
<1>1. /\ Len(from_analyzed(q)) = project_at(q) + (IF q.limit # <<>> \/ q.offset # <<>> THEN 1 ELSE 0)
      /\ \A n \in 1..joins_end(q) :
           from_analyzed(q)[n] = [op |-> IF n = 1 \/ n % 2 = 0 THEN "scan" ELSE "join", i |-> n \div 2 + 1]
      /\ \A n \in 1..Len(from_analyzed(q)) : placed(q, n, from_analyzed(q)[n].op)
  BY PlanPlaces
<1>2. Len(from_analyzed(q)) \in Nat /\ Len(from_analyzed(q)) >= filtered(q)
  BY <1>1, Places
<1>3. ASSUME NEW n \in 1..Len(from_analyzed(q))
      PROVE  /\ from_analyzed(q)[n].op \in {"scan", "join"} => n <= joins_end(q)
             /\ from_analyzed(q)[n].op = "where" => n = joins_end(q) + 1 /\ q.where # NoPredicate
             /\ from_analyzed(q)[n].op = "aggregate" => n = filtered(q)
             /\ from_analyzed(q)[n].op \notin {"scan", "join", "where"} => n >= filtered(q)
  <2> DEFINE op == from_analyzed(q)[n].op
  <2>1. placed(q, n, op) /\ n \in Nat
    BY <1>1, <1>2
  <2> HIDE DEF op
  <2>2. /\ op \in {"scan", "join"} => n <= joins_end(q)
        /\ op = "where" => n = joins_end(q) + 1 /\ q.where # NoPredicate
        /\ op = "aggregate" => n = filtered(q)
        /\ op \notin {"scan", "join", "where"} => n >= filtered(q)
    BY <2>1, Places DEF placed
  <2> QED
    BY <2>2 DEF op
<1> QED
  BY <1>1, <1>2, <1>3
-----------------------------------------------------------------------------
(* Scanning and joining.                                                   *)

\* What a scan of the i-th source finds: rows of its columns, each once, that have an id.
is_scan(q, i, f) ==
  /\ f \in Seq(Tuples({q.from[i].visible})) /\ distinct(Key(q), f)
  /\ \A j \in DOMAIN f : \E c \in Cols(q) : eval(c, f[j]) # Null

\* Every document has an id.
LEMMA DocFacts ==
  ASSUME NEW d \in Docs
  PROVE  /\ "id" \in DOMAIN d /\ d["id"] # Null /\ DOMAIN d \subseteq Fields
         /\ \A f \in DOMAIN d : d[f] \in Values
BY DocsAssumption DEF Fields

\* A document under the visible name of its collection.
LEMMA PrefixFacts ==
  ASSUME NEW d \in Docs, NEW v
  PROVE  /\ prefix(v, d) \in Tuples({v})
         /\ eval(<<v, "id">>, prefix(v, d)) = d["id"]
<1> DEFINE r == prefix(v, d)
           C == {<<v, f>> : f \in DOMAIN d}
<1>1. DOMAIN r = C /\ \A c \in C : r[c] = d[c[2]]
  BY DEF prefix
<1>2. r = [c \in DOMAIN r |-> r[c]]
  BY DEF prefix
<1>3. C \subseteq {v} \X Fields
  BY DocFacts
<1>4. \A c \in C : c[2] \in DOMAIN d /\ d[c[2]] \in Values
  BY DocFacts
<1>5. <<v, "id">> \in C /\ <<v, "id">>[2] = "id"
  BY DocFacts
<1> HIDE DEF r, C
<1>6. r \in [DOMAIN r -> Values]
  BY <1>1, <1>2, <1>4
<1>7. r \in Tuples({v})
  BY <1>1, <1>3, <1>6, TupleFacts
<1>8. eval(<<v, "id">>, r) = d["id"]
  BY <1>1, <1>5 DEF eval
<1> QED
  BY <1>7, <1>8 DEF r

\* The documents of a collection in any order are a scan of it: ids tell them apart.
LEMMA ScanFacts ==
  ASSUME NEW q \in Queries, NEW i \in 1..Len(q.from), NEW S \in SUBSET Docs,
         \A d, e \in S : d["id"] = e["id"] => d = e,
         NEW order \in SetToSeqs(S)
  PROVE  is_scan(q, i, [j \in DOMAIN order |-> prefix(q.from[i].visible, order[j])])
<1> DEFINE v == q.from[i].visible
           n == Cardinality(S)
           f == [j \in DOMAIN order |-> prefix(v, order[j])]
<1>1. n \in Nat
  BY DocsAssumption, FS_Subset, FS_CardinalityType
<1>2. order \in [1..n -> S] /\ \A j, k \in 1..n : j # k => order[j] # order[k]
  BY DEF SetToSeqs, IsInjective
<1>3. v \in All(q)
  BY DEF All, Visible
<1>4. <<v, "id">> \in Cols(q)
  <2>1. PICK d : d \in Docs
    BY DocsAssumption
  <2> QED
    BY <1>3, <2>1, DocFacts, QueryFacts
<1>5. DOMAIN f = 1..n /\ \A j \in 1..n : f[j] = prefix(v, order[j]) /\ order[j] \in S /\ order[j] \in Docs
  BY <1>2
<1>0. f = [j \in 1..n |-> f[j]]
  BY <1>2
<1> HIDE DEF f, n, v
<1>6. \A j \in 1..n : f[j] \in Tuples({v}) /\ eval(<<v, "id">>, f[j]) = order[j]["id"]
  BY <1>5, PrefixFacts
<1>7. f \in Seq(Tuples({v}))
  <2> DEFINE T == Tuples({v})
  <2>1. \A j \in 1..n : f[j] \in T
    BY <1>6
  <2> HIDE DEF T
  <2>2. f \in [1..n -> T]
    BY <1>0, <2>1
  <2>3. f \in Seq(T)
    BY <1>1, <2>2
  <2> QED
    BY <2>3 DEF T
<1>8. ASSUME NEW j \in 1..n PROVE f[j] \in Tuples(All(q)) /\ Key(q)[f[j]] = Complete(q, f[j])
  BY <1>3, <1>6, CompleteFacts
<1>9. distinct(Key(q), f)
  <2> SUFFICES ASSUME NEW j \in 1..n, NEW k \in 1..n, Key(q)[f[j]] = Key(q)[f[k]] PROVE j = k
    BY <1>5 DEF distinct
  <2>1. Complete(q, f[j]) = Complete(q, f[k])
    BY <1>8
  <2>2. eval(<<v, "id">>, f[j]) = eval(<<v, "id">>, f[k])
    BY <1>4, <2>1 DEF Complete
  <2>3. order[j] = order[k]
    BY <1>5, <1>6, <2>2
  <2> QED
    BY <1>2, <2>3
<1>10. ASSUME NEW j \in DOMAIN f PROVE \E c \in Cols(q) : eval(c, f[j]) # Null
  <2>1. eval(<<v, "id">>, f[j]) # Null
    BY <1>5, <1>6, DocFacts
  <2> QED
    BY <1>4, <2>1
<1> QED
  BY <1>7, <1>9, <1>10 DEF is_scan, f, v

\* A side is padded with columns of its own sources.
LEMMA KeysetFacts ==
  ASSUME NEW V, NEW S \in SUBSET DOMAIN query.from, V = {query.from[i].visible : i \in S},
         \A i \in DOMAIN query.from : columns[query.from[i].coll] \subseteq Fields,
         NEW rs \in Seq(Tuples(V))
  PROVE  keyset_for_side(S, rs) \in SUBSET (V \X Fields)
<1> DEFINE open_sources == {i \in S : query.from[i].coll \in open}
           derived == UNION {{<<query.from[i].visible, f>> : f \in columns[query.from[i].coll]} : i \in open_sources}
           present == UNION {DOMAIN rs[j] : j \in DOMAIN rs}
<1>1. keyset_for_side(S, rs) = IF derived # {} THEN derived ELSE present
  BY DEF keyset_for_side
<1>2. derived \subseteq V \X Fields
  OBVIOUS
<1>3. present \subseteq V \X Fields
  <2>1. \A j \in DOMAIN rs : DOMAIN rs[j] \subseteq V \X Fields
    BY TupleFacts
  <2> QED
    BY <2>1
<1> QED
  BY <1>1, <1>2, <1>3

\* Scanned rows, read in all columns.
LEMMA SourceFacts ==
  ASSUME NEW q, NEW sc, NEW i
  PROVE  Source(q, sc, i) = image(q, Range(sc[i]))
BY DEF Source, image, Range

\* Visible names up to the next source.
LEMMA VisibleFacts ==
  ASSUME NEW q \in Queries, NEW n \in 1..Len(q.from)
  PROVE  /\ Visible(q, n) \in SUBSET All(q) /\ Visible(q, 1) = {q.from[1].visible}
         /\ n + 1 <= Len(q.from) =>
              /\ q.from[n + 1].visible \in All(q) /\ q.from[n + 1].visible \notin Visible(q, n)
              /\ Visible(q, n + 1) = Visible(q, n) \cup {q.from[n + 1].visible}
<1>1. Len(q.from) \in Nat \ {0}
  BY QueryFacts
<1>2. Visible(q, n) \in SUBSET All(q)
  BY <1>1 DEF Visible, All
<1>3. Visible(q, 1) = {q.from[1].visible}
  <2>1. \A i : i \in 1..1 <=> i = 1
    OBVIOUS
  <2> QED
    BY <2>1 DEF Visible
<1>4. ASSUME n + 1 <= Len(q.from)
      PROVE  /\ q.from[n + 1].visible \in All(q) /\ q.from[n + 1].visible \notin Visible(q, n)
             /\ Visible(q, n + 1) = Visible(q, n) \cup {q.from[n + 1].visible}
  <2>1. n + 1 \in 1..Len(q.from) /\ n + 1 \notin 1..n
    BY <1>1, <1>4
  <2>2. \A i : i \in 1..(n + 1) <=> i \in 1..n \/ i = n + 1
    OBVIOUS
  <2>3. \A i \in 1..n : i \in 1..Len(q.from) /\ i # n + 1
    BY <1>1
  <2>4. q.from[n + 1].visible \in All(q)
    BY <2>1 DEF All, Visible
  <2>5. q.from[n + 1].visible \notin Visible(q, n)
    BY <2>1, <2>3, QueryFacts DEF Visible
  <2>6. Visible(q, n + 1) = Visible(q, n) \cup {q.from[n + 1].visible}
    BY <2>2 DEF Visible
  <2> QED
    BY <2>4, <2>5, <2>6
<1> QED
  BY <1>2, <1>3, <1>4
-----------------------------------------------------------------------------
(* The inductive invariant.                                                *)

\* The sources that are scanned before node n.
scanned(q, n) ==
  IF n > joins_end(q) THEN Len(q.from)
  ELSE IF n % 2 = 0 THEN n \div 2
  ELSE IF n = 1 THEN 0 ELSE n \div 2 + 1

Stores == tables \in [Colls -> SUBSET Docs] /\ columns \in [Colls -> SUBSET Fields]

\* As many sources are scanned as the plan has come past, each as it should be.
Scanned ==
  /\ scans \in Seq(Seq(Tuples(All(query)))) /\ Len(scans) = scanned(query, node)
  /\ \A i \in 1..Len(scans) : is_scan(query, i, scans[i])

\* Between the first scan and the last join, the rows are SQL's join of the sources so
\* far, each row once.
RowsJoined ==
  node \in 2..(joins_end(query) + 1) =>
    joined(query, Tuples(Visible(query, node \div 2)), rows, SqlJoins(query, scans)[node \div 2])

\* After WHERE they are SQL's.
RowsFiltered ==
  node = filtered(query) /\ query.where # NoPredicate =>
    joined(query, Tuples(All(query)), rows, SqlWhere(query, scans))

IInv == TypeOK /\ Stores /\ Scanned /\ RowsJoined /\ RowsFiltered /\ FailsForCause

\* The nodes before node n that scan.
scan_nodes(q, n) == {m \in 1..(n - 1) : from_analyzed(q)[m].op = "scan"}

LEMMA ScanNodes ==
  ASSUME NEW q, NEW n \in Nat \ {0}
  PROVE  /\ Cardinality(scan_nodes(q, n)) \in Nat
         /\ Cardinality(scan_nodes(q, n + 1)) =
              Cardinality(scan_nodes(q, n)) + (IF from_analyzed(q)[n].op = "scan" THEN 1 ELSE 0)
<1> DEFINE S == scan_nodes(q, n)
           T == scan_nodes(q, n + 1)
<1>1. S \subseteq 1..(n - 1) /\ IsFiniteSet(1..(n - 1))
  BY FS_Interval DEF scan_nodes
<1>2. IsFiniteSet(S) /\ n \notin S
  BY <1>1, FS_Subset
<1>3. \A m : m \in 1..((n + 1) - 1) <=> m \in 1..(n - 1) \/ m = n
  OBVIOUS
<1>4. T = IF from_analyzed(q)[n].op = "scan" THEN S \cup {n} ELSE S
  BY <1>3 DEF scan_nodes
<1>5. Cardinality(S \cup {n}) = Cardinality(S) + 1 /\ Cardinality(S) \in Nat
  BY <1>2, FS_AddElement, FS_CardinalityType
<1> HIDE DEF S, T
<1>6. Cardinality(S) \in Nat /\ Cardinality(T) = Cardinality(S) + (IF from_analyzed(q)[n].op = "scan" THEN 1 ELSE 0)
  BY <1>4, <1>5
<1> QED
  BY <1>6 DEF S, T

\* Where a plan has come at a node that scans the (h+1)-th source, or joins it.
before_scan(q, n, h) ==
  /\ h + 1 \in 1..Len(q.from) /\ n <= joins_end(q) /\ scanned(q, n) = h /\ scanned(q, n + 1) = h + 1
  /\ h = 0 <=> n = 1
  /\ h # 0 => (n + 1) \div 2 = h /\ n >= 2
before_join(q, n, h) ==
  /\ h + 1 \in 2..Len(q.from) /\ n <= joins_end(q) /\ n >= 2
  /\ scanned(q, n) = h + 1 /\ scanned(q, n + 1) = h + 1 /\ (n + 1) \div 2 = h + 1

\* So it is at every node.
LEMMA SourceNodes ==
  ASSUME NEW q \in Queries, NEW n \in 1..joins_end(q)
  PROVE  IF n = 1 \/ n % 2 = 0 THEN before_scan(q, n, n \div 2) ELSE before_join(q, n, n \div 2)
<1> DEFINE k == Len(q.from)
           h == n \div 2
           g == (n + 1) \div 2
           b == n % 2
           c == (n + 1) % 2
<1>1. k \in Nat \ {0} /\ joins_end(q) = 2 * k - 1
  BY QueryFacts DEF joins_end
<1>2. n \in Nat /\ n >= 1 /\ n <= 2 * k - 1
  BY <1>1
<1>3. /\ h \in Nat
      /\ b = 0 => n = 2 * h /\ g = h /\ c # 0
      /\ b # 0 => n = 2 * h + 1 /\ g = h + 1 /\ c = 0
  BY <1>2
<1>4. /\ scanned(q, n) = IF b = 0 THEN h ELSE IF n = 1 THEN 0 ELSE h + 1
      /\ scanned(q, n + 1) = IF n + 1 > 2 * k - 1 THEN k
                             ELSE IF c = 0 THEN g ELSE IF n + 1 = 1 THEN 0 ELSE g + 1
  BY <1>1, <1>2 DEF scanned
<1> HIDE DEF k, h, g, b, c
<1>5. CASE b = 0
  <2>1. n = 2 * h /\ g = h /\ c # 0 /\ h >= 1 /\ h + 1 <= k /\ n + 1 # 1 /\ n + 1 <= 2 * k - 1 /\ n # 1
    BY <1>1, <1>2, <1>3, <1>5
  <2>2. scanned(q, n) = h /\ scanned(q, n + 1) = h + 1
    <3>1. ~(n + 1 > 2 * k - 1)
      BY <1>1, <1>2, <2>1
    <3> QED
      BY <1>4, <1>5, <2>1, <3>1
  <2>3. before_scan(q, n, h)
    BY <1>1, <1>2, <1>3, <2>1, <2>2 DEF before_scan, g, k
  <2> QED
    BY <1>5, <2>3 DEF b, h
<1>6. CASE b # 0 /\ n = 1
  <2>1. h = 0 /\ g = 1 /\ c = 0
    BY <1>3, <1>6
  <2>2. scanned(q, n) = 0
    BY <1>4, <1>6
  <2>3. scanned(q, n + 1) = 1
    <3>1. n + 1 > 2 * k - 1 => k = 1
      BY <1>1, <1>6
    <3> QED
      BY <1>4, <2>1, <3>1
  <2>4. before_scan(q, n, h)
    BY <1>1, <1>2, <1>6, <2>1, <2>2, <2>3 DEF before_scan, k
  <2> QED
    BY <1>6, <2>4 DEF h
<1>7. CASE b # 0 /\ n # 1
  <2>1. n = 2 * h + 1 /\ g = h + 1 /\ c = 0 /\ h >= 1 /\ h + 1 <= k
    BY <1>1, <1>2, <1>3, <1>7
  <2>2. scanned(q, n) = h + 1
    BY <1>4, <1>7
  <2>3. scanned(q, n + 1) = h + 1
    <3>1. n + 1 > 2 * k - 1 => k = h + 1
      BY <1>1, <1>2, <1>3, <2>1
    <3> QED
      BY <1>4, <2>1, <3>1
  <2>4. before_join(q, n, h)
    BY <1>1, <1>2, <1>3, <2>1, <2>2, <2>3 DEF before_join, g, k
  <2> QED
    BY <1>7, <2>4 DEF b, h
<1> QED
  BY <1>5, <1>6, <1>7

\* What the plan tells of the node that runs.
LEMMA NodeFacts ==
  ASSUME NEW q \in Queries, NEW n \in 1..Len(from_analyzed(q))
  PROVE  /\ from_analyzed(q)[n].op = "scan" =>
              from_analyzed(q)[n].i = n \div 2 + 1 /\ before_scan(q, n, n \div 2)
         /\ from_analyzed(q)[n].op = "join" =>
              from_analyzed(q)[n].i = n \div 2 + 1 /\ before_join(q, n, n \div 2)
         /\ from_analyzed(q)[n].op \notin {"scan", "join"} =>
              /\ n > joins_end(q)
              /\ scanned(q, n) = Len(q.from) /\ scanned(q, n + 1) = Len(q.from)
<1> DEFINE P == from_analyzed(q)
           h == n \div 2
<1>1. Len(q.from) \in Nat \ {0} /\ joins_end(q) = 2 * Len(q.from) - 1 /\ Len(P) \in Nat
  BY QueryFacts, PlanFacts DEF joins_end
<1>2. CASE n <= joins_end(q)
  <2>1. n \in 1..joins_end(q)
    BY <1>1, <1>2
  <2>2. P[n] = [op |-> IF n = 1 \/ n % 2 = 0 THEN "scan" ELSE "join", i |-> h + 1]
    BY <2>1, PlanFacts
  <2>3. IF n = 1 \/ n % 2 = 0 THEN before_scan(q, n, h) ELSE before_join(q, n, h)
    BY <2>1, SourceNodes
  <2> HIDE DEF P, h
  <2>4. CASE n = 1 \/ n % 2 = 0
    <3>1. P[n].op = "scan" /\ P[n].i = h + 1 /\ before_scan(q, n, h)
      BY <2>2, <2>3, <2>4
    <3> QED
      BY <3>1 DEF P, h
  <2>5. CASE ~(n = 1 \/ n % 2 = 0)
    <3>1. P[n].op = "join" /\ P[n].i = h + 1 /\ before_join(q, n, h)
      BY <2>2, <2>3, <2>5
    <3> QED
      BY <3>1 DEF P, h
  <2> QED
    BY <2>4, <2>5
<1>3. CASE ~(n <= joins_end(q))
  <2>1. n > joins_end(q) /\ n + 1 > joins_end(q)
    BY <1>1, <1>3
  <2>2. P[n].op \notin {"scan", "join"}
    BY <1>3, PlanFacts
  <2> QED
    BY <2>1, <2>2 DEF scanned
<1> QED
  BY <1>2, <1>3

\* Without WHERE the joins are all there is.
LEMMA SqlWhereFacts ==
  ASSUME NEW q \in Queries, NEW sc, q.where = NoPredicate
  PROVE  SqlWhere(q, sc) = SqlJoins(q, sc)[Len(q.from)]
BY DEF SqlWhere

\* The rows that pass a test are as SQL's.
LEMMA FilterJoined ==
  ASSUME NEW q \in Queries, NEW rs, NEW M, NEW p, joined(q, Tuples(All(q)), rs, M)
  PROVE  joined(q, Tuples(All(q)), filter(p, rs), {r \in M : holds(p, r)})
<1> DEFINE T == Tuples(All(q))
           K == Key(q)
           F == filter(p, rs)
<1>1. rs \in Seq(T) /\ distinct(K, rs) /\ image(q, Range(rs)) = M
  BY DEF joined
<1>2. \A x \in T : holds(p, Complete(q, x)) = holds(p, x)
  BY HoldsComplete
<1>3. Range(rs) \subseteq T
  BY <1>1 DEF Range
<1> HIDE DEF T, K
<1>4. /\ F \in Seq(T) /\ Range(F) = {x \in Range(rs) : holds(p, x)}
      /\ distinct(K, rs) => distinct(K, F)
  BY <1>1, FilterFacts
<1> HIDE DEF F
<1>5. image(q, Range(F)) = {r \in M : holds(p, r)}
  BY <1>1, <1>2, <1>3, <1>4 DEF image
<1> QED
  BY <1>1, <1>4, <1>5 DEF joined, T, K, F

\* At the start.
LEMMA InitHolds == Init => IInv
<1> SUFFICES ASSUME Init PROVE IInv
  OBVIOUS
<1>1. query \in Queries /\ tables \in Tables /\ node = 1 /\ scans = <<>> /\ status = "running"
  BY DEF Init
<1>2. tables \in [Colls -> SUBSET Docs] /\ \A c \in Colls : \A d, e \in tables[c] : d["id"] = e["id"] => d = e
  BY <1>1, TablesAssumption
<1>3. columns = [c \in Colls |-> {"id"} \cup UNION {DOMAIN d : d \in tables[c]}]
  BY DEF Init
<1>4. Stores
  <2>1. "id" \in Fields
    BY DocsAssumption, DocFacts
  <2>2. \A c \in Colls : UNION {DOMAIN d : d \in tables[c]} \subseteq Fields
    BY <1>2, DocFacts
  <2> QED
    BY <1>2, <1>3, <2>1, <2>2 DEF Stores
<1>5. Len(query.from) \in Nat \ {0} /\ Len(plan) \in Nat /\ Len(plan) >= filtered(query)
      /\ joins_end(query) = 2 * Len(query.from) - 1 /\ filtered(query) >= joins_end(query) + 1
  <2>1. Len(query.from) \in Nat \ {0}
    BY <1>1, QueryFacts
  <2>2. Len(plan) \in Nat /\ Len(plan) >= filtered(query)
    BY <1>1, PlanFacts DEF plan
  <2>3. joins_end(query) = 2 * Len(query.from) - 1 /\ filtered(query) >= joins_end(query) + 1
    BY <2>1 DEF joins_end, filtered
  <2> QED
    BY <2>1, <2>2, <2>3
<1>6. TypeOK
  <2>1. {n \in 1..(node - 1) : plan[n].op = "scan"} = {} /\ Len(scans) = 0
    BY <1>1
  <2>2. Len(scans) = Cardinality({n \in 1..(node - 1) : plan[n].op = "scan"})
    BY <2>1, FS_EmptySet
  <2>3. \A c \in Colls : UNION {DOMAIN d : d \in tables[c]} \subseteq columns[c]
    BY <1>3
  <2>4. writes \in 0..MaxWrites /\ open \subseteq Colls
    BY BoundsAssumption DEF Init
  <2>5. node \in 1..(Len(plan) + 1) /\ (status = "done" <=> node = Len(plan) + 1)
    <3> DEFINE k == Len(query.from)
               f == filtered(query)
               p == Len(plan)
    <3>1. k \in Nat \ {0} /\ p \in Nat /\ p >= f
      BY <1>5
    <3>2. f = (2 * k - 1) + 1 \/ f = (2 * k - 1) + 2
      BY <1>5 DEF filtered
    <3> HIDE DEF k, f, p
    <3>3. p \in Nat /\ p >= 1
      BY <3>1, <3>2
    <3>4. Len(plan) \in Nat /\ Len(plan) >= 1
      BY <3>3 DEF p
    <3> HIDE DEF p
    <3> QED
      BY <1>1, <3>4
  <2> QED
    BY <1>1, <1>2, <2>2, <2>3, <2>4, <2>5 DEF TypeOK
<1>7. Scanned
  BY <1>1, <1>5 DEF Scanned, scanned
<1>8. RowsJoined /\ RowsFiltered /\ FailsForCause
  BY <1>1, <1>5 DEF RowsJoined, RowsFiltered, FailsForCause
<1> QED
  BY <1>4, <1>6, <1>7, <1>8 DEF IInv

\* What others do leaves a running query as it is.
LEMMA OthersHold ==
  ASSUME IInv, others_may, Stores', writes' = writes + 1, UNCHANGED execution, open' \subseteq Colls,
         \A c \in Colls : /\ tables[c]' \subseteq Docs
                          /\ \A d, e \in tables[c]' : d["id"] = e["id"] => d = e
                          /\ UNION {DOMAIN d : d \in tables[c]'} \subseteq columns[c]'
  PROVE  IInv'
<1>1. /\ query' = query /\ node' = node /\ scans' = scans /\ rows' = rows /\ status' = status
      /\ status = "running"
  BY DEF execution, others_may
<1>2. plan' = plan
  BY <1>1 DEF plan
<1>3. writes' \in 0..MaxWrites
  BY BoundsAssumption DEF IInv, TypeOK, others_may
<1>4. TypeOK'
  BY <1>1, <1>2, <1>3 DEF IInv, TypeOK
<1>5. Scanned' /\ RowsJoined' /\ RowsFiltered'
  BY <1>1 DEF IInv, Scanned, RowsJoined, RowsFiltered
<1>6. FailsForCause'
  BY <1>1 DEF FailsForCause
<1> QED
  BY <1>4, <1>5, <1>6 DEF IInv
\* Writing keeps the ids of a collection apart and its schema complete.
LEMMA WriteHolds ==
  ASSUME IInv, NEW c \in Colls, NEW d \in Docs, Write(c, d)
  PROVE  IInv'
<1>1. /\ tables \in [Colls -> SUBSET Docs] /\ columns \in [Colls -> SUBSET Fields] /\ open \subseteq Colls
      /\ \A x \in Colls : \A a, b \in tables[x] : a["id"] = b["id"] => a = b
      /\ \A x \in Colls : UNION {DOMAIN a : a \in tables[x]} \subseteq columns[x]
  BY DEF IInv, TypeOK, Stores
<1>2. DOMAIN d \subseteq Fields
  BY DocFacts
<1>3. /\ tables' = [tables EXCEPT ![c] = {e \in @ : e["id"] # d["id"]} \cup {d}]
      /\ columns' = [columns EXCEPT ![c] = @ \cup DOMAIN d]
      /\ open' = open
  BY DEF Write
<1>4. Stores'
  BY <1>1, <1>2, <1>3 DEF Stores
<1>5. ASSUME NEW x \in Colls
      PROVE  /\ tables[x]' \subseteq Docs
             /\ \A a, b \in tables[x]' : a["id"] = b["id"] => a = b
             /\ UNION {DOMAIN a : a \in tables[x]'} \subseteq columns[x]'
  <2>1. CASE x = c
    <3>1. /\ tables[x]' = {e \in tables[x] : e["id"] # d["id"]} \cup {d}
          /\ columns[x]' = columns[x] \cup DOMAIN d
      BY <1>1, <1>3, <2>1
    <3> QED
      BY <1>1, <3>1
  <2>2. CASE x # c
    <3>1. tables[x]' = tables[x] /\ columns[x]' = columns[x]
      BY <1>1, <1>3, <2>2
    <3> QED
      BY <1>1, <3>1
  <2> QED
    BY <2>1, <2>2
<1> QED
  BY <1>1, <1>3, <1>4, <1>5, OthersHold DEF Write

LEMMA DeleteHolds ==
  ASSUME IInv, NEW c \in Colls, NEW d \in Docs, Delete(c, d)
  PROVE  IInv'
<1>1. /\ tables \in [Colls -> SUBSET Docs] /\ columns \in [Colls -> SUBSET Fields] /\ open \subseteq Colls
      /\ \A x \in Colls : \A a, b \in tables[x] : a["id"] = b["id"] => a = b
      /\ \A x \in Colls : UNION {DOMAIN a : a \in tables[x]} \subseteq columns[x]
  BY DEF IInv, TypeOK, Stores
<1>2. tables' = [tables EXCEPT ![c] = @ \ {d}] /\ columns' = columns /\ open' = open
  BY DEF Delete
<1>3. Stores'
  BY <1>1, <1>2 DEF Stores
<1>4. \A x \in Colls : tables[x]' \subseteq tables[x] /\ columns[x]' = columns[x]
  BY <1>1, <1>2
<1>5. ASSUME NEW x \in Colls
      PROVE  /\ tables[x]' \subseteq Docs
             /\ \A a, b \in tables[x]' : a["id"] = b["id"] => a = b
             /\ UNION {DOMAIN a : a \in tables[x]'} \subseteq columns[x]'
  BY <1>1, <1>4
<1> QED
  BY <1>1, <1>2, <1>3, <1>5, OthersHold DEF Delete

LEMMA CreateHolds ==
  ASSUME IInv, NEW c \in Colls, Create(c)
  PROVE  IInv'
<1>1. /\ tables \in [Colls -> SUBSET Docs] /\ columns \in [Colls -> SUBSET Fields] /\ open \subseteq Colls
      /\ \A x \in Colls : \A a, b \in tables[x] : a["id"] = b["id"] => a = b
      /\ \A x \in Colls : UNION {DOMAIN a : a \in tables[x]} \subseteq columns[x]
  BY DEF IInv, TypeOK, Stores
<1>2. /\ tables' = [tables EXCEPT ![c] = {}] /\ columns' = [columns EXCEPT ![c] = {"id"}]
      /\ open' = open \cup {c}
  BY DEF Create
<1>3. "id" \in Fields
  BY DocsAssumption, DocFacts
<1>4. Stores'
  BY <1>1, <1>2, <1>3 DEF Stores
<1>5. ASSUME NEW x \in Colls
      PROVE  /\ tables[x]' \subseteq Docs
             /\ \A a, b \in tables[x]' : a["id"] = b["id"] => a = b
             /\ UNION {DOMAIN a : a \in tables[x]'} \subseteq columns[x]'
  <2>1. x = c => tables[x]' = {}
    BY <1>1, <1>2
  <2>2. x # c => tables[x]' = tables[x] /\ columns[x]' = columns[x]
    BY <1>1, <1>2
  <2> QED
    BY <1>1, <2>1, <2>2
<1> QED
  BY <1>1, <1>2, <1>4, <1>5, OthersHold DEF Create

LEMMA DropHolds ==
  ASSUME IInv, NEW c \in Colls, DropCollection(c)
  PROVE  IInv'
<1>1. /\ tables \in [Colls -> SUBSET Docs] /\ columns \in [Colls -> SUBSET Fields] /\ open \subseteq Colls
      /\ \A x \in Colls : /\ tables[x] \subseteq Docs
                          /\ \A a, b \in tables[x] : a["id"] = b["id"] => a = b
                          /\ UNION {DOMAIN a : a \in tables[x]} \subseteq columns[x]
  BY DEF IInv, TypeOK, Stores
<1>2. tables' = tables /\ columns' = columns /\ open' = open \ {c}
  BY DEF DropCollection
<1>3. Stores'
  BY <1>1, <1>2 DEF Stores
<1> QED
  BY <1>1, <1>2, <1>3, OthersHold DEF DropCollection

\* What holds while a node runs.
LEMMA Running ==
  ASSUME IInv, status = "running"
  PROVE  /\ query \in Queries /\ node \in 1..Len(plan) /\ Len(plan) \in Nat
         /\ Len(query.from) \in Nat \ {0} /\ joins_end(query) = 2 * Len(query.from) - 1
<1>1. query \in Queries /\ node \in 1..(Len(plan) + 1) /\ node # Len(plan) + 1
  BY DEF IInv, TypeOK
<1>2. Len(plan) \in Nat /\ Len(query.from) \in Nat \ {0}
  BY <1>1, PlanFacts, QueryFacts DEF plan
<1> QED
  BY <1>1, <1>2 DEF joins_end

\* Types after a node has returned.
LEMMA ReturnTyped ==
  ASSUME IInv, status = "running", NEW rs, returns(rs),
         \/ plan[node].op = "scan" /\ \E found : scans' = Append(scans, found)
         \/ plan[node].op # "scan" /\ scans' = scans
  PROVE  TypeOK' /\ Stores'
<1>1. /\ query' = query /\ tables' = tables /\ open' = open /\ columns' = columns /\ writes' = writes
      /\ node' = node + 1 /\ status' = IF node = Len(plan) THEN "done" ELSE "running"
  BY DEF returns
<1>2. /\ query \in Queries /\ node \in 1..Len(plan) /\ Len(plan) \in Nat
  BY Running
<1>3. plan' = plan
  BY <1>1 DEF plan
<1>4. Len(scans) = Cardinality(scan_nodes(query, node))
  BY DEF IInv, TypeOK, scan_nodes, plan
<1>5. Len(scans') = Len(scans) + (IF plan[node].op = "scan" THEN 1 ELSE 0)
  <2>1. \A found : Len(Append(scans, found)) = Len(scans) + 1
    <3> DEFINE S == Seq(Tuples(All(query)))
    <3>1. scans \in Seq(S)
      BY DEF IInv, Scanned
    <3> HIDE DEF S
    <3>2. scans \in [1..Len(scans) -> S] /\ Len(scans) \in Nat
      BY <3>1
    <3> SUFFICES ASSUME NEW found PROVE Len(Append(scans, found)) = Len(scans) + 1
      OBVIOUS
    <3>3. scans \in Seq(S \cup {found})
      BY <3>2
    <3> QED
      BY <3>3
  <2>2. Len(scans) \in Nat
    BY DEF IInv, Scanned
  <2> QED
    BY <2>1, <2>2
<1>6. Len(scans') = Cardinality({n \in 1..(node' - 1) : plan'[n].op = "scan"})
  <2>1. Len(scans') = Cardinality(scan_nodes(query, node + 1))
    BY <1>2, <1>4, <1>5, ScanNodes DEF plan
  <2> QED
    BY <1>1, <1>3, <2>1 DEF scan_nodes, plan
<1>7. node' \in 1..(Len(plan') + 1) /\ (status' = "done" <=> node' = Len(plan') + 1)
  BY <1>1, <1>2, <1>3
<1>8. TypeOK'
  BY <1>1, <1>6, <1>7 DEF IInv, TypeOK
<1>9. Stores'
  BY <1>1 DEF IInv, Stores
<1> QED
  BY <1>8, <1>9
\* Scanning.
LEMMA ScanHolds ==
  ASSUME IInv, Scan
  PROVE  IInv'
<1> DEFINE i == plan[node].i
           s == query.from[i]
<1>1. status = "running" /\ plan[node].op = "scan"
  BY DEF Scan, runs
<1>2. /\ query \in Queries /\ node \in 1..Len(plan)
      /\ Len(query.from) \in Nat \ {0} /\ joins_end(query) = 2 * Len(query.from) - 1
  BY <1>1, Running
<1>3. /\ i \in 1..Len(query.from) /\ node <= joins_end(query)
      /\ scanned(query, node) = i - 1 /\ scanned(query, node + 1) = i /\ (i = 1 <=> node = 1)
      /\ i = node \div 2 + 1
      /\ i # 1 => (node + 1) \div 2 = node \div 2 /\ node \div 2 \in 1..scanned(query, node)
  <2> DEFINE h == node \div 2
  <2>1. i = h + 1 /\ before_scan(query, node, h)
    BY <1>1, <1>2, NodeFacts DEF plan
  <2>2. h \in Int
    BY <1>2
  <2> HIDE DEF h, i
  <2>3. /\ i \in 1..Len(query.from) /\ node <= joins_end(query)
        /\ scanned(query, node) = i - 1 /\ scanned(query, node + 1) = i /\ (i = 1 <=> node = 1)
        /\ i # 1 => (node + 1) \div 2 = h /\ h \in 1..scanned(query, node)
    BY <1>2, <2>1, <2>2 DEF before_scan
  <2> QED
    BY <2>1, <2>3 DEF h
<1>4. s.coll \in Colls
  BY <1>2, <1>3, QueryFacts
<1> HIDE DEF i
<1>5. CASE s.coll \notin open /\ fails
  <2>1. /\ status' = "failed" /\ tables' = tables /\ open' = open /\ columns' = columns /\ query' = query
        /\ node' = node /\ scans' = scans /\ rows' = rows /\ writes' = writes
    BY <1>5 DEF fails
  <2>2. plan' = plan
    BY <2>1 DEF plan
  <2>3. TypeOK'
    BY <1>1, <1>2, <2>1, <2>2 DEF IInv, TypeOK
  <2>4. Stores' /\ Scanned' /\ RowsJoined' /\ RowsFiltered'
    BY <2>1 DEF IInv, Stores, Scanned, RowsJoined, RowsFiltered
  <2>5. FailsForCause'
    BY <1>1, <1>5, <2>1, <2>2 DEF FailsForCause, i
  <2> QED
    BY <2>3, <2>4, <2>5 DEF IInv
<1>6. CASE \E order \in SetToSeqs(tables[s.coll]) :
             LET found == [j \in DOMAIN order |-> prefix(s.visible, order[j])] IN
             scans' = Append(scans, found) /\ returns(IF i = 1 THEN found ELSE rows)
  <2>1. PICK order \in SetToSeqs(tables[s.coll]) :
             LET found == [j \in DOMAIN order |-> prefix(s.visible, order[j])] IN
             scans' = Append(scans, found) /\ returns(IF i = 1 THEN found ELSE rows)
    BY <1>6
  <2> DEFINE found == [j \in DOMAIN order |-> prefix(s.visible, order[j])]
             rs == IF i = 1 THEN found ELSE rows
  <2>2. scans' = Append(scans, found) /\ returns(rs)
    BY <2>1
  <2>3. is_scan(query, i, found)
    <3> DEFINE S == tables[s.coll]
    <3>1. S \in SUBSET Docs /\ \A d, e \in S : d["id"] = e["id"] => d = e
      BY <1>4 DEF IInv, TypeOK
    <3> HIDE DEF S
    <3>2. order \in SetToSeqs(S)
      BY DEF S
    <3>3. is_scan(query, i, [j \in DOMAIN order |-> prefix(query.from[i].visible, order[j])])
      BY <1>2, <1>3, <3>1, <3>2, ScanFacts
    <3> QED
      BY <3>3
  <2> HIDE DEF s, found
  <2>4. TypeOK' /\ Stores'
    BY <1>1, <2>2, ReturnTyped
  <2>5. query' = query /\ node' = node + 1 /\ rows' = rs
    BY <2>2 DEF returns
  <2>6. scans \in Seq(Seq(Tuples(All(query)))) /\ Len(scans) = i - 1
    BY <1>3 DEF IInv, Scanned
  <2>7. found \in Seq(Tuples(All(query))) /\ distinct(Key(query), found) /\ found \in Seq(Tuples({query.from[i].visible}))
    <3>1. query.from[i].visible \in All(query)
      BY <1>3 DEF All, Visible
    <3>2. Tuples({query.from[i].visible}) \subseteq Tuples(All(query))
      BY <3>1, TuplesGrow
    <3>3. found \in Seq(Tuples({query.from[i].visible})) /\ distinct(Key(query), found)
      BY <2>3 DEF is_scan
    <3> DEFINE S == Tuples({query.from[i].visible})
               T == Tuples(All(query))
    <3> HIDE DEF S, T
    <3>4. found \in Seq(S) /\ S \subseteq T
      BY <3>2, <3>3 DEF S, T
    <3>5. found \in Seq(T)
      BY <3>4
    <3> QED
      BY <3>3, <3>5 DEF T
  <2>8. /\ scans' \in Seq(Seq(Tuples(All(query)))) /\ Len(scans') = i /\ scans'[i] = found
        /\ \A j \in 1..(i - 1) : scans'[j] = scans[j]
    <3> DEFINE S == Seq(Tuples(All(query)))
    <3>1. scans \in Seq(S) /\ found \in S
      BY <2>6, <2>7
    <3> HIDE DEF S
    <3>2. /\ Append(scans, found) \in Seq(S) /\ Len(Append(scans, found)) = i /\ Append(scans, found)[i] = found
          /\ \A j \in 1..(i - 1) : Append(scans, found)[j] = scans[j]
      BY <1>3, <2>6, <3>1
    <3> QED
      BY <2>2, <3>2 DEF S
  <2>9. Scanned'
    <3>1. \A j \in 1..i : j \in 1..(i - 1) \/ j = i
      BY <1>3
    <3>2. \A j \in 1..(i - 1) : is_scan(query, j, scans'[j])
      BY <2>6, <2>8 DEF IInv, Scanned
    <3>3. is_scan(query, i, scans'[i])
      BY <2>3, <2>8
    <3> QED
      BY <1>3, <2>5, <2>8, <3>1, <3>2, <3>3 DEF Scanned
  <2>10. joined(query, Tuples(Visible(query, (node + 1) \div 2)), rs, SqlJoins(query, scans')[(node + 1) \div 2])
    <3>1. CASE i = 1
      <4>1. (node + 1) \div 2 = 1 /\ rs = found /\ Visible(query, 1) = {query.from[i].visible}
        BY <1>2, <1>3, <3>1, VisibleFacts
      <4>2. SqlJoins(query, scans')[1] = Source(query, scans', 1)
        BY <1>2, SqlJoinsDef
      <4>3. Source(query, scans', 1) = image(query, Range(found))
        BY <2>8, <3>1, SourceFacts
      <4> QED
        BY <2>7, <4>1, <4>2, <4>3 DEF joined
    <3>2. CASE i # 1
      <4> DEFINE m == node \div 2
      <4>1. m \in 1..Len(query.from) /\ m \in 1..(i - 1) /\ (node + 1) \div 2 = m /\ rs = rows
        BY <1>2, <1>3, <3>2
      <4>2. joined(query, Tuples(Visible(query, m)), rows, SqlJoins(query, scans)[m])
        <5>1. node \in 2..(joins_end(query) + 1)
          BY <1>2, <1>3, <3>2
        <5> QED
          BY <5>1 DEF IInv, RowsJoined
      <4> HIDE DEF m
      <4>3. \A j \in 1..m : scans[j] = scans'[j]
        BY <1>3, <2>8, <4>1
      <4>4. SqlJoins(query, scans)[m] = SqlJoins(query, scans')[m]
        BY <1>2, <4>1, <4>3, SqlJoinsSame
      <4> QED
        BY <4>1, <4>2, <4>4
    <3> QED
      BY <3>1, <3>2
  <2>11. RowsJoined'
    BY <2>5, <2>10 DEF RowsJoined
  <2>12. RowsFiltered'
    BY <1>2, <1>3, <2>5 DEF RowsFiltered, filtered
  <2>13. FailsForCause'
    BY <2>2 DEF returns, FailsForCause
  <2> QED
    BY <2>4, <2>9, <2>11, <2>12, <2>13 DEF IInv
<1> QED
  BY <1>5, <1>6 DEF Scan, i
\* Nodes after the scans leave them alone.
LEMMA ScansStay ==
  ASSUME IInv, status = "running", plan[node].op # "scan", NEW rs, returns(rs), scans' = scans
  PROVE  TypeOK' /\ Stores' /\ Scanned' /\ FailsForCause' /\ query' = query /\ node' = node + 1 /\ rows' = rs
<1>1. query \in Queries /\ node \in 1..Len(plan)
  BY Running
<1>2. query' = query /\ node' = node + 1 /\ rows' = rs
  BY DEF returns
<1>3. TypeOK' /\ Stores'
  BY ReturnTyped
<1>4. scanned(query, node + 1) = scanned(query, node)
  <2>1. plan[node].op = "join" => scanned(query, node + 1) = scanned(query, node)
    <3>1. plan[node].op = "join" => before_join(query, node, node \div 2)
      BY <1>1, NodeFacts DEF plan
    <3> QED
      BY <3>1 DEF before_join
  <2>2. plan[node].op \notin {"scan", "join"} => scanned(query, node + 1) = scanned(query, node)
    BY <1>1, NodeFacts DEF plan
  <2> QED
    BY <2>1, <2>2
<1>5. Scanned'
  BY <1>2, <1>4 DEF IInv, Scanned
<1>6. FailsForCause'
  BY DEF returns, FailsForCause
<1> QED
  BY <1>2, <1>3, <1>5, <1>6

\* Joining.
LEMMA JoinHolds ==
  ASSUME IInv, Join
  PROVE  IInv'
<1> DEFINE i == node \div 2 + 1
           m == node \div 2
           s == query.from[i]
           V == Visible(query, m)
           v == s.visible
           lkeys == keyset_for_side(1..(i - 1), rows)
           rkeys == keyset_for_side({i}, scans[i])
           rs == join(rows, scans[i], s, lkeys, rkeys)
<1>1. status = "running" /\ plan[node].op = "join"
  BY DEF Join, runs
<1>2. /\ query \in Queries /\ node \in 1..Len(plan)
      /\ Len(query.from) \in Nat \ {0} /\ joins_end(query) = 2 * Len(query.from) - 1
      /\ DOMAIN query.from = 1..Len(query.from)
  BY <1>1, Running, QueryFacts
<1>3. /\ plan[node].i = i /\ i \in 2..Len(query.from) /\ node <= joins_end(query) /\ node >= 2
      /\ scanned(query, node) = i /\ (node + 1) \div 2 = i
  <2>1. plan[node].i = i /\ before_join(query, node, m)
    BY <1>1, <1>2, NodeFacts DEF plan
  <2> QED
    BY <2>1 DEF before_join
<1>4. m \in 1..Len(query.from) /\ i = m + 1 /\ i \in 1..Len(query.from) /\ i - 1 = m
  <2> DEFINE k == Len(query.from)
  <2>1. k \in Nat \ {0} /\ i \in 2..k
    BY <1>2, <1>3
  <2>2. i = m + 1
    OBVIOUS
  <2>3. node \in Nat
    BY <1>2
  <2>4. m \in Nat
    BY <2>3
  <2> HIDE DEF i, m, k
  <2>5. m \in 1..k /\ i \in 1..k /\ i - 1 = m
    BY <2>1, <2>2, <2>4
  <2> QED
    BY <2>2, <2>5 DEF k
<1>5. returns(rs) /\ scans' = scans
  BY <1>3 DEF Join
<1>6. /\ TypeOK' /\ Stores' /\ Scanned' /\ FailsForCause'
      /\ query' = query /\ node' = node + 1 /\ rows' = rs
  BY <1>1, <1>5, ScansStay
<1>7. joined(query, Tuples(V), rows, SqlJoins(query, scans)[m])
  <2>1. node \in 2..(joins_end(query) + 1)
    BY <1>2, <1>3
  <2> QED
    BY <2>1 DEF IInv, RowsJoined
<1>8. is_scan(query, i, scans[i])
  <2>1. Len(scans) = i /\ \A j \in 1..Len(scans) : is_scan(query, j, scans[j])
    BY <1>3 DEF IInv, Scanned
  <2>2. i \in Nat /\ i >= 1
    BY <1>2, <1>4
  <2> HIDE DEF i
  <2> QED
    BY <2>1, <2>2
<1>9. V \in SUBSET All(query) /\ v \in All(query) /\ v \notin V /\ Visible(query, i) = V \cup {v}
  BY <1>2, <1>3, <1>4, VisibleFacts
<1>10. s.join \in Joins
  BY <1>2, <1>4, QueryFacts
<1>11. \A j \in DOMAIN query.from : columns[query.from[j].coll] \subseteq Fields
  <2>1. \A j \in DOMAIN query.from : query.from[j].coll \in Colls
    BY <1>2, QueryFacts
  <2> QED
    BY <2>1 DEF IInv, Stores
<1>12. lkeys \in SUBSET (V \X Fields)
  <2>1. 1..(i - 1) \in SUBSET DOMAIN query.from
    BY <1>2, <1>4
  <2>2. V = {query.from[j].visible : j \in 1..(i - 1)}
    BY <1>4 DEF Visible
  <2>3. rows \in Seq(Tuples(V))
    BY <1>7 DEF joined
  <2> HIDE DEF V, i
  <2> QED
    BY <1>11, <2>1, <2>2, <2>3, KeysetFacts
<1>13. rkeys \in SUBSET ({v} \X Fields)
  <2>1. {i} \in SUBSET DOMAIN query.from
    BY <1>2, <1>4
  <2>2. {v} = {query.from[j].visible : j \in {i}}
    OBVIOUS
  <2>3. scans[i] \in Seq(Tuples({v}))
    BY <1>8 DEF is_scan
  <2> HIDE DEF v, i
  <2> QED
    BY <1>11, <2>1, <2>2, <2>3, KeysetFacts
<1>14. joined(query, Tuples(V \cup {v}), rs,
              SqlJoin(query, image(query, Range(rows)), image(query, Range(scans[i])), s))
  <2> DEFINE R == scans[i]
  <2>1. rows \in Seq(Tuples(V)) /\ distinct(Key(query), rows)
    BY <1>7 DEF joined
  <2>2. R \in Seq(Tuples({v})) /\ distinct(Key(query), R) /\ \A j \in DOMAIN R : \E c \in Cols(query) : eval(c, R[j]) # Null
    BY <1>8 DEF is_scan
  <2>3. v = s.visible
    OBVIOUS
  <2> HIDE DEF V, v, s, R, lkeys, rkeys
  <2>4. joined(query, Tuples(V \cup {v}), join(rows, R, s, lkeys, rkeys),
               SqlJoin(query, image(query, Range(rows)), image(query, Range(R)), s))
    BY <1>2, <1>9, <1>10, <1>12, <1>13, <2>1, <2>2, <2>3, JoinFacts
  <2> QED
    BY <2>4 DEF R
<1>15. SqlJoin(query, image(query, Range(rows)), image(query, Range(scans[i])), s) = SqlJoins(query, scans)[i]
  <2>1. image(query, Range(rows)) = SqlJoins(query, scans)[m]
    BY <1>7 DEF joined
  <2>2. image(query, Range(scans[i])) = Source(query, scans, i)
    BY SourceFacts
  <2>3. SqlJoins(query, scans)[i] = SqlJoin(query, SqlJoins(query, scans)[i - 1], Source(query, scans, i), query.from[i])
    BY <1>2, <1>3, SqlJoinsDef
  <2> HIDE DEF i, m
  <2> QED
    BY <1>4, <2>1, <2>2, <2>3
<1>16. joined(query, Tuples(Visible(query, i)), rs, SqlJoins(query, scans)[i])
  BY <1>9, <1>14, <1>15
<1> HIDE DEF rs, i
<1>17. RowsJoined'
  BY <1>3, <1>5, <1>6, <1>16 DEF RowsJoined
<1>18. RowsFiltered'
  BY <1>2, <1>3, <1>6 DEF RowsFiltered, filtered
<1> QED
  BY <1>6, <1>17, <1>18 DEF IInv

\* The rows at the node after WHERE.
LEMMA AfterWhere ==
  ASSUME IInv, query \in Queries, node = filtered(query)
  PROVE  joined(query, Tuples(All(query)), rows, SqlWhere(query, scans))
<1>1. Len(query.from) \in Nat \ {0}
  BY QueryFacts
<1>2. CASE query.where # NoPredicate
  BY <1>2 DEF IInv, RowsFiltered
<1>3. CASE query.where = NoPredicate
  <2>1. node = 2 * Len(query.from) /\ node \in 2..(joins_end(query) + 1) /\ node \div 2 = Len(query.from)
    <3> DEFINE k == Len(query.from)
    <3>1. k \in Nat \ {0} /\ node = 2 * k /\ joins_end(query) = 2 * k - 1
      BY <1>1, <1>3 DEF filtered, joins_end
    <3> HIDE DEF k
    <3>2. (2 * k) \div 2 = k /\ 2 * k \in 2..((2 * k - 1) + 1)
      BY <3>1
    <3> QED
      BY <3>1, <3>2 DEF k
  <2>2. joined(query, Tuples(Visible(query, Len(query.from))), rows, SqlJoins(query, scans)[Len(query.from)])
    BY <2>1 DEF IInv, RowsJoined
  <2> QED
    BY <1>3, <2>2, SqlWhereFacts DEF All
<1> QED
  BY <1>2, <1>3

\* A node after the joins and WHERE.
LEMMA LaterHolds ==
  ASSUME IInv, status = "running", plan[node].op \notin {"scan", "join", "where"},
         NEW rs, returns(rs), scans' = scans
  PROVE  IInv'
<1>1. /\ query \in Queries /\ node \in 1..Len(plan) /\ Len(plan) \in Nat
      /\ Len(query.from) \in Nat \ {0} /\ joins_end(query) = 2 * Len(query.from) - 1
  BY Running
<1>2. node >= filtered(query)
  BY <1>1, PlanFacts DEF plan
<1>3. /\ TypeOK' /\ Stores' /\ Scanned' /\ FailsForCause'
      /\ query' = query /\ node' = node + 1 /\ rows' = rs
  BY ScansStay
<1>4. RowsJoined' /\ RowsFiltered'
  <2> DEFINE k == Len(query.from)
             f == filtered(query)
  <2>1. k \in Nat \ {0} /\ joins_end(query) = 2 * k - 1 /\ node >= f
    BY <1>1, <1>2
  <2>2. f = (2 * k - 1) + 1 \/ f = (2 * k - 1) + 2
    BY <1>1 DEF filtered
  <2>3. node \in Nat
    BY <1>1
  <2> HIDE DEF k, f
  <2>4. node + 1 \notin 2..(joins_end(query) + 1) /\ node + 1 # f
    BY <2>1, <2>2, <2>3
  <2>5. node' \notin 2..(joins_end(query)' + 1) /\ node' # filtered(query)'
    BY <1>3, <2>4 DEF f, filtered, joins_end
  <2> QED
    BY <2>5 DEF RowsJoined, RowsFiltered
<1> QED
  BY <1>3, <1>4 DEF IInv

LEMMA FilterHolds ==
  ASSUME IInv, Filter
  PROVE  IInv'
<1>1. CASE runs("where") /\ returns(filter(query.where, rows))
  <2> DEFINE rs == filter(query.where, rows)
             k == Len(query.from)
  <2>1. status = "running" /\ plan[node].op = "where" /\ returns(rs) /\ scans' = scans
    BY <1>1 DEF Filter, runs
  <2>2. /\ query \in Queries /\ node \in 1..Len(plan)
        /\ k \in Nat \ {0} /\ joins_end(query) = 2 * k - 1
    BY <2>1, Running
  <2>3. node = 2 * k /\ query.where # NoPredicate
    BY <2>1, <2>2, PlanFacts DEF plan
  <2> HIDE DEF rs
  <2>4. /\ TypeOK' /\ Stores' /\ Scanned' /\ FailsForCause'
        /\ query' = query /\ node' = node + 1 /\ rows' = rs
    BY <2>1, ScansStay
  <2>5. joined(query, Tuples(All(query)), rows, SqlJoins(query, scans)[k])
    <3> HIDE DEF k
    <3>1. (2 * k) \div 2 = k /\ 2 * k \in 2..((2 * k - 1) + 1)
      BY <2>2
    <3>2. node \in 2..(joins_end(query) + 1) /\ node \div 2 = k
      BY <2>2, <2>3, <3>1
    <3> QED
      BY <3>2 DEF IInv, RowsJoined, All, k
  <2>6. joined(query, Tuples(All(query)), rs, {r \in SqlJoins(query, scans)[k] : holds(query.where, r)})
    BY <2>2, <2>5, FilterJoined DEF rs
  <2>7. SqlWhere(query, scans) = {r \in SqlJoins(query, scans)[k] : holds(query.where, r)}
    BY <2>3 DEF SqlWhere
  <2>8. RowsFiltered'
    BY <2>1, <2>4, <2>6, <2>7 DEF RowsFiltered
  <2>9. RowsJoined'
    BY <2>2, <2>3, <2>4 DEF RowsJoined
  <2> QED
    BY <2>4, <2>8, <2>9 DEF IInv
<1>2. CASE runs("having") /\ returns(filter(query.having, rows))
  BY <1>2, LaterHolds DEF Filter, runs
<1> QED
  BY <1>1, <1>2 DEF Filter

\* Aggregating: a group fails for one of its calls.
LEMMA AggregateHolds ==
  ASSUME IInv, Aggregate
  PROVE  IInv'
<1> DEFINE groups == {group_row(query, rows, k) : k \in group_keys(query, rows)}
<1>1. status = "running" /\ plan[node].op = "aggregate"
  BY DEF Aggregate, runs
<1>2. query \in Queries /\ node \in 1..Len(plan)
  BY <1>1, Running
<1>3. CASE (\E g \in groups : Failed \in Range(g)) /\ fails
  <2>1. /\ status' = "failed" /\ tables' = tables /\ open' = open /\ columns' = columns /\ query' = query
        /\ node' = node /\ scans' = scans /\ rows' = rows /\ writes' = writes
    BY <1>3 DEF fails
  <2>2. plan' = plan
    BY <2>1 DEF plan
  <2>3. TypeOK'
    BY <1>1, <1>2, <2>1, <2>2 DEF IInv, TypeOK
  <2>4. Stores' /\ Scanned' /\ RowsJoined' /\ RowsFiltered'
    BY <2>1 DEF IInv, Stores, Scanned, RowsJoined, RowsFiltered
  <2>5. PICK k \in group_keys(query, rows) : Failed \in Range(group_row(query, rows, k))
    BY <1>3
  <2>6. node = filtered(query)
    BY <1>1, <1>2, PlanFacts DEF plan
  <2>7. joined(query, Tuples(All(query)), rows, SqlWhere(query, scans))
    BY <1>2, <2>6, AfterWhere
  <2>8. rows \in Seq(Tuples(All(query))) /\ image(query, Range(rows)) = SqlWhere(query, scans)
    BY <2>7 DEF joined
  <2>9. \E i \in DOMAIN query.calls : blamed(query, i, SqlWhere(query, scans))
    BY <1>2, <2>5, <2>8, GroupFails
  <2>10. FailsForCause'
    BY <1>1, <2>1, <2>2, <2>9 DEF FailsForCause
  <2> QED
    BY <2>3, <2>4, <2>10 DEF IInv
<1>4. CASE \E out \in SetToSeqs(groups) : returns(out) /\ UNCHANGED scans
  BY <1>1, <1>4, LaterHolds
<1> QED
  BY <1>3, <1>4 DEF Aggregate

\* Every step keeps the invariant.
LEMMA NextHolds == IInv /\ [Next]_vars => IInv'
<1> SUFFICES ASSUME IInv, [Next]_vars PROVE IInv'
  OBVIOUS
<1>1. ASSUME Scan \/ Join \/ Filter \/ Aggregate PROVE IInv'
  BY <1>1, ScanHolds, JoinHolds, FilterHolds, AggregateHolds
<1>2. ASSUME Sort \/ Project \/ Limit PROVE IInv'
  <2>1. CASE Sort
    BY <2>1, LaterHolds DEF Sort, runs
  <2>2. CASE Project
    BY <2>2, LaterHolds DEF Project, runs
  <2>3. CASE Limit
    BY <2>3, LaterHolds DEF Limit, runs
  <2> QED
    BY <1>2, <2>1, <2>2, <2>3
<1>3. ASSUME NEW c \in Colls,
             Create(c) \/ DropCollection(c) \/ \E d \in Docs : Write(c, d) \/ Delete(c, d)
      PROVE  IInv'
  BY <1>3, CreateHolds, DropHolds, WriteHolds, DeleteHolds
<1>4. ASSUME UNCHANGED vars PROVE IInv'
  <2>1. /\ tables' = tables /\ open' = open /\ columns' = columns /\ query' = query /\ node' = node
        /\ scans' = scans /\ rows' = rows /\ status' = status /\ writes' = writes
    BY <1>4 DEF vars
  <2>2. plan' = plan
    BY <2>1 DEF plan
  <2>3. TypeOK'
    BY <2>1, <2>2 DEF IInv, TypeOK
  <2>4. Stores' /\ Scanned' /\ RowsJoined' /\ RowsFiltered'
    BY <2>1 DEF IInv, Stores, Scanned, RowsJoined, RowsFiltered
  <2>5. FailsForCause'
    BY <2>1, <2>2 DEF IInv, FailsForCause
  <2> QED
    BY <2>3, <2>4, <2>5 DEF IInv
<1> QED
  BY <1>1, <1>2, <1>3, <1>4 DEF Next

LEMMA Invariance == Spec => []IInv
<1>1. Init => IInv
  BY InitHolds
<1>2. IInv /\ [Next]_vars => IInv'
  BY NextHolds
<1> QED
  BY <1>1, <1>2, PTL DEF Spec
-----------------------------------------------------------------------------
(* Sorted rows.                                                            *)

\* The values of rows, aggregated ones too.
Cells == Values \cup [ty : {"avg"}, v : Int, n : Nat \ {0}]

\* What is multiplied by a positive number keeps its order.
LEMMA CrossMultiply ==
  ASSUME NEW a \in Int, NEW b \in Int, NEW c \in Int,
         NEW p \in Nat \ {0}, NEW q \in Nat \ {0}, NEW r \in Nat \ {0},
         b * p <= a * q, c * q <= b * r
  PROVE  c * p <= a * r
<1>1. (b * p) * r <= (a * q) * r
  <2> DEFINE x == b * p
             y == a * q
  <2>1. x \in Int /\ y \in Int /\ x <= y
    OBVIOUS
  <2> HIDE DEF x, y
  <2>2. x * r <= y * r
    BY <2>1
  <2> QED
    BY <2>2 DEF x, y
<1>2. (c * q) * p <= (b * r) * p
  <2> DEFINE x == c * q
             y == b * r
  <2>1. x \in Int /\ y \in Int /\ x <= y
    OBVIOUS
  <2> HIDE DEF x, y
  <2>2. x * p <= y * p
    BY <2>1
  <2> QED
    BY <2>2 DEF x, y
<1>3. (b * p) * r = (b * r) * p /\ (a * q) * r = (a * r) * q /\ (c * q) * p = (c * p) * q
  OBVIOUS
<1> DEFINE x == c * p
           y == a * r
<1>4. x \in Int /\ y \in Int /\ x * q <= y * q
  <2>1. x \in Int /\ y \in Int /\ (b * r) * p \in Int
    OBVIOUS
  <2>2. x * q <= (b * r) * p /\ (b * r) * p <= y * q
    BY <1>1, <1>2, <1>3
  <2> HIDE DEF x, y
  <2>3. x * q \in Int /\ y * q \in Int
    BY <2>1
  <2> QED
    BY <2>1, <2>2, <2>3
<1> HIDE DEF x, y
<1>5. x <= y
  BY <1>4
<1> QED
  BY <1>5 DEF x, y

\* How many values a cell stands for.
number_of(v) == IF v.ty = "avg" THEN v.n ELSE 1

LEMMA CellFacts ==
  ASSUME NEW x \in Cells
  PROVE  /\ x.v \in Int /\ number_of(x) \in Nat \ {0} /\ type_rank(x) \in 0..3
         /\ x # Null => type_rank(x) # 0
<1>1. x = Null \/ x \in [ty : {"bool", "int", "float", "text"}, v : Int] \/ x \in [ty : {"avg"}, v : Int, n : Nat \ {0}]
  BY DEF Cells, Values
<1>2. x = Null => x.v = 0 /\ x.ty = "null"
  BY DEF Null
<1> QED
  BY <1>1, <1>2 DEF number_of, type_rank

LEMMA LessFacts ==
  ASSUME NEW x \in Cells, NEW y \in Cells, NEW z \in Cells
  PROVE  /\ ~(less(x, y) /\ less(y, x))
         /\ ~less(x, y) /\ ~less(y, z) => ~less(x, z)
<1> DEFINE ge(a, b) == b.v * number_of(a) <= a.v * number_of(b)
<1>1. \A a, b \in Cells : /\ a.v * number_of(b) \in Int
                          /\ less(a, b) <=> IF type_rank(a) = type_rank(b) THEN ~ge(a, b)
                                            ELSE type_rank(a) < type_rank(b)
  <2> SUFFICES ASSUME NEW a \in Cells, NEW b \in Cells
               PROVE  /\ a.v * number_of(b) \in Int
                      /\ less(a, b) <=> IF type_rank(a) = type_rank(b) THEN ~ge(a, b)
                                        ELSE type_rank(a) < type_rank(b)
    OBVIOUS
  <2> DEFINE l == a.v * number_of(b)
             r == b.v * number_of(a)
  <2>1. l \in Int /\ r \in Int
    BY CellFacts
  <2>2. less(a, b) <=> IF type_rank(a) = type_rank(b) THEN l < r ELSE type_rank(a) < type_rank(b)
    BY DEF less, number_of
  <2> HIDE DEF l, r
  <2>3. l < r <=> ~(r <= l)
    BY <2>1
  <2> QED
    BY <2>1, <2>2, <2>3 DEF l, r
<1>2. \A a, b, c \in Cells : ge(a, b) /\ ge(b, c) => ge(a, c)
  BY CellFacts, CrossMultiply
<1>3. \A a, b \in Cells : ge(a, b) \/ ge(b, a)
  <2> SUFFICES ASSUME NEW a \in Cells, NEW b \in Cells PROVE ge(a, b) \/ ge(b, a)
    OBVIOUS
  <2> DEFINE l == a.v * number_of(b)
             r == b.v * number_of(a)
  <2>1. l \in Int /\ r \in Int
    BY <1>1
  <2> HIDE DEF l, r
  <2>2. l <= r \/ r <= l
    BY <2>1
  <2> QED
    BY <2>2 DEF l, r
<1> HIDE DEF ge
<1>4. type_rank(x) \in 0..3 /\ type_rank(y) \in 0..3 /\ type_rank(z) \in 0..3
  BY CellFacts
<1> QED
  BY <1>1, <1>2, <1>3, <1>4

\* Whatever the direction, NULL is last.
LEMMA PrecedesFacts ==
  ASSUME NEW x \in Cells, NEW y \in Cells, NEW z \in Cells, NEW up \in BOOLEAN
  PROVE  /\ ~(precedes(x, y, up) /\ precedes(y, x, up))
         /\ ~precedes(x, y, up) /\ ~precedes(y, z, up) => ~precedes(x, z, up)
         /\ precedes(x, y, up) <=> SqlPrecedes(x, y, up)
<1> DEFINE lt(a, b) == IF up THEN less(a, b) ELSE less(b, a)
<1>1. /\ ~(lt(x, y) /\ lt(y, x))
      /\ ~lt(x, y) /\ ~lt(y, z) => ~lt(x, z)
  BY LessFacts
<1>2. \A a, b : precedes(a, b, up) <=> a # Null /\ (b # Null => lt(a, b))
  BY DEF precedes
<1>3. \A a, b : SqlPrecedes(a, b, up) <=> a # Null /\ (b # Null => lt(a, b))
  BY DEF SqlPrecedes
<1> HIDE DEF lt
<1> QED
  BY <1>1, <1>2, <1>3

\* The order of the rows of rs by the k-th key of the query.
key_order(q, rs, k) ==
  {p \in (1..Len(rs)) \X (1..Len(rs)) :
     precedes(eval(q.order[k].expr, rs[p[1]]), eval(q.order[k].expr, rs[p[2]]), q.order[k].ascending)}
sort_order(q, rs) ==
  {p \in (1..Len(rs)) \X (1..Len(rs)) :
     lexical([k \in 1..Len(q.order) |-> key_order(q, rs, k)], Len(q.order), p[1], p[2])}

\* Rows as a sequence, every value of which is a cell.
Celled(rs) ==
  /\ Len(rs) \in Nat /\ DOMAIN rs = 1..Len(rs)
  /\ \A j \in 1..Len(rs) : \A c : eval(c, rs[j]) \in Cells

LEMMA OrderIsWeak ==
  ASSUME NEW q \in Queries, NEW rs, Celled(rs)
  PROVE  /\ weak_order(sort_order(q, rs), Len(rs))
         /\ \A i, j \in 1..Len(rs) : <<i, j>> \in sort_order(q, rs) <=> before(q.order, rs[i], rs[j])
         /\ \A i, j \in 1..Len(rs) : before(q.order, rs[i], rs[j]) <=> SqlBefore(q, rs[i], rs[j])
<1> DEFINE n == Len(rs)
           m == Len(q.order)
           K(k) == key_order(q, rs, k)
           P == [k \in 1..m |-> K(k)]
           B == sort_order(q, rs)
           key(k, i) == eval(q.order[k].expr, rs[i])
           up(k) == q.order[k].ascending
<1>1. m \in Nat /\ DOMAIN q.order = 1..m /\ \A k \in 1..m : up(k) \in BOOLEAN
  <2>1. q.order \in Seq(Range(q.order)) /\ \A k \in DOMAIN q.order : q.order[k].ascending \in BOOLEAN
    BY QueriesAssumption
  <2>2. m \in Nat /\ DOMAIN q.order = 1..m
    BY <2>1
  <2> QED
    BY <2>1, <2>2
<1>2. n \in Nat /\ \A k \in 1..m, i \in 1..n : key(k, i) \in Cells
  BY DEF Celled
<1>3. ASSUME NEW k \in 1..m, NEW i \in 1..n, NEW j \in 1..n
      PROVE  /\ <<i, j>> \in P[k] <=> precedes(key(k, i), key(k, j), up(k))
             /\ <<i, j>> \in P[k] <=> SqlPrecedes(key(k, i), key(k, j), up(k))
  <2>1. <<i, j>> \in K(k) <=> precedes(key(k, i), key(k, j), up(k))
    BY DEF key_order
  <2>2. precedes(key(k, i), key(k, j), up(k)) <=> SqlPrecedes(key(k, i), key(k, j), up(k))
    BY <1>1, <1>2, PrecedesFacts
  <2> QED
    BY <2>1, <2>2
<1>4. \A i, j \in 1..n : <<i, j>> \in B <=> lexical(P, m, i, j)
  BY DEF sort_order
<1> HIDE DEF K
<1>5. \A k \in 1..m : weak_order(P[k], n)
  <2> SUFFICES ASSUME NEW k \in 1..m PROVE weak_order(P[k], n)
    OBVIOUS
  <2>1. ASSUME NEW i \in 1..n, NEW j \in 1..n, NEW l \in 1..n
        PROVE  /\ ~(<<i, j>> \in P[k] /\ <<j, i>> \in P[k])
               /\ <<i, j>> \notin P[k] /\ <<j, l>> \notin P[k] => <<i, l>> \notin P[k]
    <3>1. /\ ~(precedes(key(k, i), key(k, j), up(k)) /\ precedes(key(k, j), key(k, i), up(k)))
          /\ ~precedes(key(k, i), key(k, j), up(k)) /\ ~precedes(key(k, j), key(k, l), up(k))
               => ~precedes(key(k, i), key(k, l), up(k))
      BY <1>1, <1>2, PrecedesFacts
    <3> HIDE DEF P, key, up
    <3> QED
      BY <1>3, <3>1
  <2> HIDE DEF P
  <2> QED
    BY <2>1 DEF weak_order
<1>6. weak_order(B, n)
  <2>1. B = {p \in (1..n) \X (1..n) : lexical(P, m, p[1], p[2])}
    BY DEF sort_order, K
  <2> HIDE DEF B, P
  <2>2. weak_order({p \in (1..n) \X (1..n) : lexical(P, m, p[1], p[2])}, n)
    BY <1>1, <1>2, <1>5, LexicalOrder
  <2> QED
    BY <2>1, <2>2
<1>7. \A k \in 1..m : \A l \in 1..(k - 1) : l \in 1..m
  BY <1>1
<1> HIDE DEF P
<1>8. ASSUME NEW i \in 1..n, NEW j \in 1..n
      PROVE  lexical(P, m, i, j) <=> before(q.order, rs[i], rs[j])
  <2>1. before(q.order, rs[i], rs[j]) <=>
          \E k \in 1..m : /\ precedes(key(k, i), key(k, j), up(k))
                          /\ \A l \in 1..(k - 1) : ~precedes(key(l, j), key(l, i), up(l))
                                                   /\ ~precedes(key(l, i), key(l, j), up(l))
    BY <1>1 DEF before
  <2> HIDE DEF key, up
  <2> QED
    BY <1>3, <1>7, <2>1 DEF lexical
<1>9. ASSUME NEW i \in 1..n, NEW j \in 1..n
      PROVE  lexical(P, m, i, j) <=> SqlBefore(q, rs[i], rs[j])
  <2>1. SqlBefore(q, rs[i], rs[j]) <=>
          \E k \in 1..m : /\ SqlPrecedes(key(k, i), key(k, j), up(k))
                          /\ \A l \in 1..(k - 1) : ~SqlPrecedes(key(l, i), key(l, j), up(l))
                                                   /\ ~SqlPrecedes(key(l, j), key(l, i), up(l))
    BY <1>1 DEF SqlBefore
  <2> HIDE DEF key, up
  <2> QED
    BY <1>3, <1>7, <2>1 DEF lexical
<1> QED
  BY <1>4, <1>6, <1>8, <1>9

\* sort_by is a rearrangement that puts a row after those before it, and not further.
LEMMA SortFacts ==
  ASSUME NEW q \in Queries, NEW rs, Celled(rs)
  PROVE  \E p : /\ lists(p, Len(rs), 1..Len(rs))
                /\ sort_by(q.order, rs) = [m \in 1..Len(rs) |-> rs[p[m]]]
                /\ \A m \in 1..Len(rs) :
                     /\ Cardinality({j \in 1..Len(rs) : SqlBefore(q, rs[j], rs[p[m]])}) < m
                     /\ m <= Cardinality({j \in 1..Len(rs) : ~SqlBefore(q, rs[p[m]], rs[j])})
<1> DEFINE n == Len(rs)
           B == sort_order(q, rs)
           rank(i) == Cardinality(upto(B, n, i))
           p == [m \in 1..n |-> CHOOSE i \in 1..n : rank(i) = m]
<1>1. n \in Nat /\ DOMAIN rs = 1..n
  BY DEF Celled
<1>2. /\ weak_order(B, n)
      /\ \A i, j \in 1..n : <<i, j>> \in B <=> before(q.order, rs[i], rs[j])
      /\ \A i, j \in 1..n : <<i, j>> \in B <=> SqlBefore(q, rs[i], rs[j])
  BY OrderIsWeak
<1> HIDE DEF B
<1>3. /\ \A i \in 1..n :
           /\ rank(i) \in 1..n
           /\ Cardinality({j \in 1..n : <<j, i>> \in B}) < rank(i)
           /\ rank(i) <= Cardinality({j \in 1..n : <<i, j>> \notin B})
      /\ \A i, j \in 1..n : rank(i) = rank(j) => i = j
      /\ \A m \in 1..n : \E i \in 1..n : rank(i) = m
  BY <1>1, <1>2, RankFacts
<1> DEFINE position(i) == Cardinality({j \in DOMAIN rs : before(q.order, rs[j], rs[i]) \/ (j <= i /\ ~before(q.order, rs[i], rs[j]))})
<1>5. ASSUME NEW i \in 1..n PROVE position(i) = rank(i)
  <2>1. upto(B, n, i) = {j \in DOMAIN rs : before(q.order, rs[j], rs[i]) \/ (j <= i /\ ~before(q.order, rs[i], rs[j]))}
    BY <1>1, <1>2 DEF upto
  <2> QED
    BY <2>1
<1>6. sort_by(q.order, rs) = [m \in DOMAIN rs |-> rs[CHOOSE i \in DOMAIN rs : position(i) = m]]
  BY DEF sort_by
<1> HIDE DEF position, rank
<1>7. \A m \in 1..n : (CHOOSE i \in 1..n : position(i) = m) = p[m]
  BY <1>5
<1> HIDE DEF p
<1>8. sort_by(q.order, rs) = [m \in 1..n |-> rs[p[m]]]
  <2> DEFINE at(D, m) == CHOOSE i \in D : position(i) = m
  <2>1. sort_by(q.order, rs) = [m \in DOMAIN rs |-> rs[at(DOMAIN rs, m)]]
    BY <1>6
  <2>2. \A m \in 1..n : at(1..n, m) = p[m]
    BY <1>7
  <2> HIDE DEF at
  <2> QED
    BY <1>1, <2>1, <2>2
<1>9. \A m \in 1..n : p[m] \in 1..n /\ rank(p[m]) = m
  BY <1>3 DEF p
<1>10. p \in [1..n -> 1..n]
  BY <1>9 DEF p
<1>11. lists(p, n, 1..n)
  <2>1. \A i, j \in 1..n : p[i] = p[j] => i = j
    BY <1>9
  <2>2. ASSUME NEW a \in 1..n PROVE \E m \in 1..n : p[m] = a
    <3>1. PICK m \in 1..n : m = rank(a)
      BY <1>3
    <3>2. p[m] \in 1..n /\ rank(p[m]) = rank(a)
      BY <1>9, <3>1
    <3>3. p[m] = a
      BY <1>3, <3>2
    <3> QED
      BY <3>3
  <2> QED
    BY <1>1, <1>10, <2>1, <2>2 DEF lists
<1>12. ASSUME NEW m \in 1..n
       PROVE  /\ Cardinality({j \in 1..n : SqlBefore(q, rs[j], rs[p[m]])}) < m
              /\ m <= Cardinality({j \in 1..n : ~SqlBefore(q, rs[p[m]], rs[j])})
  <2>1. p[m] \in 1..n /\ rank(p[m]) = m
    BY <1>9
  <2>2. /\ {j \in 1..n : SqlBefore(q, rs[j], rs[p[m]])} = {j \in 1..n : <<j, p[m]>> \in B}
        /\ {j \in 1..n : ~SqlBefore(q, rs[p[m]], rs[j])} = {j \in 1..n : <<p[m], j>> \notin B}
    BY <1>2, <2>1
  <2>3. /\ Cardinality({j \in 1..n : <<j, p[m]>> \in B}) < rank(p[m])
        /\ rank(p[m]) <= Cardinality({j \in 1..n : <<p[m], j>> \notin B})
    BY <1>3, <2>1
  <2> QED
    BY <2>1, <2>2, <2>3
<1> QED
  BY <1>8, <1>11, <1>12

\* The rows rs read as b, in which each row of A has one place.
shows(rs, b, A) ==
  /\ DOMAIN rs = 1..Len(rs) /\ lists(b, Len(rs), A)
  /\ \A j \in 1..Len(rs) : \A c : eval(c, rs[j]) = eval(c, b[j])

\* The order b is one that ORDER BY allows.
ranked(q, b, n, A) ==
  \A j \in 1..n : /\ Cardinality({a \in A : SqlBefore(q, a, b[j])}) < j
                  /\ j <= Cardinality({a \in A : ~SqlBefore(q, b[j], a)})

\* SqlBefore and project see of a row what eval gives.
LEMMA BeforeSame ==
  ASSUME NEW q, NEW r, NEW s, NEW x, NEW y,
         \A c : eval(c, r) = eval(c, x), \A c : eval(c, s) = eval(c, y)
  PROVE  SqlBefore(q, r, s) <=> SqlBefore(q, x, y)
BY DEF SqlBefore

LEMMA ProjectSame ==
  ASSUME NEW q, NEW r, NEW x, \A c : eval(c, r) = eval(c, x)
  PROVE  project(q, r) = project(q, x)
BY DEF project

LEMMA Unsorted ==
  ASSUME NEW q \in Queries, q.order = <<>>, NEW b, NEW n, NEW A, lists(b, n, A)
  PROVE  ranked(q, b, n, A)
<1> SUFFICES ASSUME NEW j \in 1..n
             PROVE  /\ Cardinality({a \in A : SqlBefore(q, a, b[j])}) < j
                    /\ j <= Cardinality({a \in A : ~SqlBefore(q, b[j], a)})
  BY DEF ranked
<1>1. \A r, s : ~SqlBefore(q, r, s)
  BY DEF SqlBefore
<1> DEFINE S == {a \in A : SqlBefore(q, a, b[j])}
           T == {a \in A : ~SqlBefore(q, b[j], a)}
<1>2. S = {} /\ T = A
  BY <1>1
<1>3. Cardinality(A) = n /\ n \in Nat
  <2>1. A \in SUBSET A
    OBVIOUS
  <2>2. Cardinality(A) = n
    BY <2>1, CountByPosition
  <2> QED
    BY <2>2 DEF lists
<1> HIDE DEF S, T
<1>4. Cardinality(S) < j /\ j <= Cardinality(T)
  BY <1>2, <1>3, FS_EmptySet
<1> QED
  BY <1>4 DEF S, T

LEMMA SortShows ==
  ASSUME NEW q \in Queries, NEW rs, NEW b, NEW A, shows(rs, b, A),
         \A a \in A : \A c : eval(c, a) \in Cells
  PROVE  /\ Len(sort_by(q.order, rs)) = Len(rs)
         /\ \E d : shows(sort_by(q.order, rs), d, A) /\ ranked(q, d, Len(rs), A)
<1> DEFINE n == Len(rs)
           out == sort_by(q.order, rs)
<1>1. /\ n \in Nat /\ DOMAIN rs = 1..n /\ b \in [1..n -> A]
      /\ \A i, j \in 1..n : b[i] = b[j] => i = j
      /\ \A a \in A : \E i \in 1..n : b[i] = a
      /\ \A j \in 1..n : \A c : eval(c, rs[j]) = eval(c, b[j])
  BY DEF shows, lists
<1>2. Celled(rs)
  BY <1>1 DEF Celled
<1>3. PICK p : /\ lists(p, n, 1..n)
               /\ out = [m \in 1..n |-> rs[p[m]]]
               /\ \A m \in 1..n :
                    /\ Cardinality({j \in 1..n : SqlBefore(q, rs[j], rs[p[m]])}) < m
                    /\ m <= Cardinality({j \in 1..n : ~SqlBefore(q, rs[p[m]], rs[j])})
  BY <1>2, SortFacts
<1> DEFINE d == [m \in 1..n |-> b[p[m]]]
<1>4. /\ p \in [1..n -> 1..n] /\ \A i, j \in 1..n : p[i] = p[j] => i = j
      /\ \A a \in 1..n : \E i \in 1..n : p[i] = a
  BY <1>3 DEF lists
<1>5. DOMAIN out = 1..n /\ Len(out) = n
  <2> HIDE DEF n, out
  <2>1. DOMAIN out = 1..n
    BY <1>3
  <2> QED
    BY <1>1, <1>3
<1> HIDE DEF n, out
<1>6. lists(d, n, A)
  <2>1. d \in [1..n -> A] /\ \A i, j \in 1..n : d[i] = d[j] => i = j
    BY <1>1, <1>4
  <2>2. ASSUME NEW a \in A PROVE \E i \in 1..n : d[i] = a
    <3>1. PICK j \in 1..n : b[j] = a
      BY <1>1
    <3>2. PICK i \in 1..n : p[i] = j
      BY <1>4
    <3> QED
      BY <3>1, <3>2
  <2> HIDE DEF d
  <2> QED
    BY <1>1, <2>1, <2>2 DEF lists
<1>7. \A m \in 1..n : \A c : eval(c, out[m]) = eval(c, d[m])
  BY <1>1, <1>3, <1>4
<1>8. shows(out, d, A)
  BY <1>5, <1>6, <1>7 DEF shows
<1>9. ASSUME NEW m \in 1..n
      PROVE  /\ Cardinality({a \in A : SqlBefore(q, a, d[m])}) < m
             /\ m <= Cardinality({a \in A : ~SqlBefore(q, d[m], a)})
  <2> DEFINE S == {a \in A : SqlBefore(q, a, d[m])}
             T == {a \in A : ~SqlBefore(q, d[m], a)}
  <2>1. p[m] \in 1..n /\ d[m] = b[p[m]]
    BY <1>4
  <2>2. lists(b, n, A)
    BY DEF shows, n
  <2>3. \A j \in 1..n : SqlBefore(q, b[j], d[m]) <=> SqlBefore(q, rs[j], rs[p[m]])
    BY <1>1, <2>1, BeforeSame
  <2>4. \A j \in 1..n : SqlBefore(q, d[m], b[j]) <=> SqlBefore(q, rs[p[m]], rs[j])
    BY <1>1, <2>1, BeforeSame
  <2>5. {j \in 1..n : b[j] \in S} = {j \in 1..n : SqlBefore(q, rs[j], rs[p[m]])}
    BY <1>1, <2>3
  <2>6. {j \in 1..n : b[j] \in T} = {j \in 1..n : ~SqlBefore(q, rs[p[m]], rs[j])}
    BY <1>1, <2>4
  <2>7. S \in SUBSET A /\ T \in SUBSET A
    OBVIOUS
  <2> HIDE DEF S, T
  <2>8. /\ Cardinality(S) = Cardinality({j \in 1..n : b[j] \in S})
        /\ Cardinality(T) = Cardinality({j \in 1..n : b[j] \in T})
    BY <2>2, <2>7, CountByPosition
  <2>9. Cardinality(S) < m /\ m <= Cardinality(T)
    BY <1>3, <2>5, <2>6, <2>8
  <2> QED
    BY <2>9 DEF S, T
<1> HIDE DEF d
<1>10. ranked(q, d, n, A)
  BY <1>9 DEF ranked
<1> QED
  BY <1>5, <1>8, <1>10 DEF n, out
-----------------------------------------------------------------------------
(* The window.                                                             *)

\* The rows a window has of n.
window_size(q, n) ==
  LET left == IF start(q) < n THEN n - start(q) ELSE 0 IN
  IF q.limit = <<>> THEN left ELSE IF bound(q.limit) < left THEN bound(q.limit) ELSE left

LEMMA BoundFacts ==
  ASSUME NEW q \in Queries
  PROVE  start(q) \in Nat /\ (q.limit # <<>> => bound(q.limit) \in Nat)
<1>1. \A s \in Seq(Int) : s # <<>> => bound(s) \in Nat
  <2> SUFFICES ASSUME NEW s \in Seq(Int), s # <<>> PROVE bound(s) \in Nat
    OBVIOUS
  <2>1. s[1] \in Int
    OBVIOUS
  <2> QED
    BY <2>1 DEF bound
<1>2. q.limit \in Seq(Int) /\ q.offset \in Seq(Int)
  BY QueriesAssumption
<1> QED
  BY <1>1, <1>2 DEF start

LEMMA MinMaxFacts ==
  ASSUME NEW a \in Int, NEW b \in Int
  PROVE  Min({a, b}) = (IF b < a THEN b ELSE a) /\ Max({a, b}) = (IF a < b THEN b ELSE a)
<1>1. \E m \in {a, b} : \A y \in {a, b} : m <= y
  OBVIOUS
<1>2. \E m \in {a, b} : \A y \in {a, b} : m >= y
  OBVIOUS
<1>3. Min({a, b}) \in {a, b} /\ \A y \in {a, b} : Min({a, b}) <= y
  BY <1>1 DEF Min
<1>4. Max({a, b}) \in {a, b} /\ \A y \in {a, b} : Max({a, b}) >= y
  BY <1>2 DEF Max
<1> QED
  BY <1>3, <1>4

LEMMA WindowFacts ==
  ASSUME NEW q \in Queries, NEW n \in Nat, NEW X, NEW rs \in [1..n -> X]
  PROVE  /\ window_size(q, n) \in Nat
         /\ window(q, rs) = [j \in 1..window_size(q, n) |-> rs[start(q) + j]]
         /\ \A j \in 1..window_size(q, n) : start(q) + j \in 1..n
<1> DEFINE st == start(q)
           size == window_size(q, n)
           end == IF q.limit = <<>> THEN n ELSE st + bound(q.limit)
           last == Min({end, n})
<1>1. st \in Nat /\ (q.limit # <<>> => bound(q.limit) \in Nat)
  BY BoundFacts
<1>2. rs \in Seq(X) /\ Len(rs) = n
  OBVIOUS
<1>3. end \in Int
  BY <1>1
<1>4. window(q, rs) = SubSeq(rs, st + 1, last)
  BY <1>2 DEF window
<1>5. last = IF n < end THEN n ELSE end
  BY <1>3, MinMaxFacts
<1> HIDE DEF last
<1>6. size \in Nat /\ \A j \in 1..size : st + j \in 1..n
  <2> HIDE DEF st
  <2>1. CASE q.limit = <<>>
    BY <1>1, <2>1 DEF window_size, st
  <2>2. CASE q.limit # <<>>
    <3> DEFINE l == bound(q.limit)
    <3>1. l \in Nat
      BY <1>1, <2>2
    <3>2. size = IF l < (IF st < n THEN n - st ELSE 0) THEN l ELSE IF st < n THEN n - st ELSE 0
      BY <2>2 DEF window_size, st
    <3> HIDE DEF l, size
    <3> QED
      BY <1>1, <3>1, <3>2
  <2> QED
    BY <2>1, <2>2
<1>7. size = IF st + 1 <= last THEN last - st ELSE 0
  <2> HIDE DEF st
  <2>1. CASE q.limit = <<>>
    BY <1>1, <1>5, <2>1 DEF window_size, st
  <2>2. CASE q.limit # <<>>
    <3> DEFINE l == bound(q.limit)
    <3>1. l \in Nat
      BY <1>1, <2>2
    <3>2. size = IF l < (IF st < n THEN n - st ELSE 0) THEN l ELSE IF st < n THEN n - st ELSE 0
      BY <2>2 DEF window_size, st
    <3>3. last = IF n < st + l THEN n ELSE st + l
      BY <1>5, <2>2
    <3> HIDE DEF l, size
    <3> QED
      BY <1>1, <3>1, <3>2, <3>3
  <2> QED
    BY <2>1, <2>2
<1>8. last \in Int /\ last <= n
  BY <1>3, <1>5
<1> HIDE DEF st, size, end
<1>9. window(q, rs) = [j \in 1..size |-> rs[st + j]]
  <2> DEFINE out == SubSeq(rs, st + 1, last)
  <2>1. st + 1 \in Int /\ \A i \in (st + 1)..last : rs[i] \in X
    BY <1>1, <1>8
  <2>2. /\ out \in Seq(X) /\ Len(out) = (IF st + 1 <= last THEN last - (st + 1) + 1 ELSE 0)
        /\ \A i \in 1..(last - (st + 1) + 1) : out[i] = rs[(st + 1) + i - 1]
    BY <1>8, <2>1, SubSeqProperties
  <2>3. /\ last - (st + 1) + 1 = last - st
        /\ \A i \in 1..size : i \in 1..(last - st) /\ (st + 1) + i - 1 = st + i
    BY <1>1, <1>6, <1>7, <1>8
  <2> HIDE DEF out
  <2>4. Len(out) = size /\ \A i \in 1..size : out[i] = rs[st + i]
    BY <1>7, <2>2, <2>3
  <2>5. out = [j \in 1..size |-> rs[st + j]]
    BY <2>2, <2>4
  <2> QED
    BY <1>4, <2>5 DEF out
<1> QED
  BY <1>6, <1>9 DEF st, size

\* rs is what SQL answers from the rows A.
answers(q, rs, A) ==
  LET shown(a) == project(q, a)
      size == LET left == Max({0, Cardinality(A) - start(q)}) IN
              IF q.limit = <<>> THEN left ELSE Min({left, bound(q.limit)})
  IN  /\ Len(rs) = size
      /\ \A x \in Range(rs) :
           Cardinality({j \in DOMAIN rs : rs[j] = x}) <= Cardinality({a \in A : shown(a) = x})
      /\ \A j \in DOMAIN rs :
           \E a \in A :
             /\ shown(a) = rs[j]
             /\ Cardinality({b \in A : SqlBefore(q, b, a)}) < start(q) + j
             /\ Cardinality({b \in A : ~SqlBefore(q, a, b)}) >= start(q) + j

\* A window of the rows of A in an order that ORDER BY allows is.
LEMMA WindowAnswers ==
  ASSUME NEW q \in Queries, NEW b, NEW n, NEW A, lists(b, n, A), ranked(q, b, n, A), NEW rs,
         rs = [j \in 1..window_size(q, n) |-> project(q, b[start(q) + j])],
         window_size(q, n) \in Nat, \A j \in 1..window_size(q, n) : start(q) + j \in 1..n
  PROVE  answers(q, rs, A)
<1> DEFINE st == start(q)
           k == window_size(q, n)
<1>1. /\ st \in Nat /\ (q.limit # <<>> => bound(q.limit) \in Nat)
      /\ n \in Nat /\ b \in [1..n -> A] /\ \A i, j \in 1..n : b[i] = b[j] => i = j
  BY BoundFacts DEF lists
<1>2. IsFiniteSet(A) /\ Cardinality(A) = n
  <2>1. A \in SUBSET A
    OBVIOUS
  <2> QED
    BY <2>1, CountByPosition
<1>3. DOMAIN rs = 1..k /\ Len(rs) = k /\ \A j \in 1..k : rs[j] = project(q, b[st + j]) /\ st + j \in 1..n
  OBVIOUS
<1>4. k = LET left == Max({0, Cardinality(A) - st}) IN
          IF q.limit = <<>> THEN left ELSE Min({left, bound(q.limit)})
  <2> DEFINE left == Max({0, Cardinality(A) - st})
  <2>1. n - st \in Int /\ 0 \in Int
    BY <1>1
  <2>2. left = IF 0 < n - st THEN n - st ELSE 0
    BY <1>2, <2>1, MinMaxFacts
  <2>3. left = IF st < n THEN n - st ELSE 0
    <3> HIDE DEF left, st
    <3> QED
      BY <1>1, <2>2
  <2>4. left \in Int
    <3> HIDE DEF left, st
    <3> QED
      BY <1>1, <2>3
  <2> HIDE DEF left
  <2>5. CASE q.limit = <<>>
    BY <2>3, <2>5 DEF window_size, left
  <2>6. CASE q.limit # <<>>
    <3>1. Min({left, bound(q.limit)}) = IF bound(q.limit) < left THEN bound(q.limit) ELSE left
      BY <1>1, <2>4, <2>6, MinMaxFacts
    <3>2. k = IF bound(q.limit) < left THEN bound(q.limit) ELSE left
      BY <2>3, <2>6 DEF window_size
    <3> QED
      BY <2>6, <3>1, <3>2 DEF left
  <2> QED
    BY <2>5, <2>6
<1> HIDE DEF st, k
<1>5. ASSUME NEW x \in Range(rs)
      PROVE  Cardinality({j \in DOMAIN rs : rs[j] = x}) <= Cardinality({a \in A : project(q, a) = x})
  <2> DEFINE S == {j \in DOMAIN rs : rs[j] = x}
             T == {a \in A : project(q, a) = x}
             f == [j \in S |-> b[st + j]]
  <2>1. \A j \in S : b[st + j] \in T
    BY <1>1, <1>3
  <2>2. \A i, j \in S : b[st + i] = b[st + j] => i = j
    <3> SUFFICES ASSUME NEW i \in S, NEW j \in S, b[st + i] = b[st + j] PROVE i = j
      OBVIOUS
    <3>1. i \in Int /\ j \in Int /\ st + i \in 1..n /\ st + j \in 1..n
      BY <1>3
    <3>2. st + i = st + j
      BY <1>1, <3>1
    <3> QED
      BY <1>1, <3>1, <3>2
  <2>3. T \in SUBSET A
    OBVIOUS
  <2> HIDE DEF S, T
  <2>4. f \in Injection(S, T)
    BY <2>1, <2>2 DEF Injection, IsInjective
  <2>5. IsFiniteSet(T)
    BY <1>2, <2>3, FS_Subset
  <2>6. Cardinality(S) <= Cardinality(T)
    BY <2>4, <2>5, FS_Injection
  <2> QED
    BY <2>6 DEF S, T
<1>6. ASSUME NEW j \in DOMAIN rs
      PROVE  \E a \in A : /\ project(q, a) = rs[j]
                          /\ Cardinality({c \in A : SqlBefore(q, c, a)}) < st + j
                          /\ Cardinality({c \in A : ~SqlBefore(q, a, c)}) >= st + j
  <2> DEFINE a == b[st + j]
             below == Cardinality({c \in A : SqlBefore(q, c, a)})
             upper == Cardinality({c \in A : ~SqlBefore(q, a, c)})
  <2>1. st + j \in 1..n /\ rs[j] = project(q, a) /\ a \in A
    BY <1>1, <1>3
  <2>2. below < st + j /\ st + j <= upper
    BY <2>1 DEF ranked
  <2>3. upper \in Nat
    <3> DEFINE T == {c \in A : ~SqlBefore(q, a, c)}
    <3>1. T \in SUBSET A
      OBVIOUS
    <3> HIDE DEF T
    <3>2. Cardinality(T) \in Nat
      BY <1>2, <3>1, FS_Subset, FS_CardinalityType
    <3> QED
      BY <3>2 DEF T
  <2> HIDE DEF upper
  <2>4. upper >= st + j
    BY <1>1, <2>1, <2>2, <2>3
  <2> QED
    BY <2>1, <2>2, <2>4 DEF upper
<1> QED
  BY <1>3, <1>4, <1>5, <1>6 DEF answers, st
-----------------------------------------------------------------------------
(* Accumulators.                                                           *)

\* The values us that are not NULL are those of the elements of D, each at one place.
gives(us, n, d, D, val) ==
  /\ n \in Nat /\ us \in [1..n -> Values] /\ val \in [D -> Values \ {Null}]
  /\ \A j \in 1..n : us[j] # Null => d[j] \in D /\ us[j] = val[d[j]]
  /\ \A i, j \in 1..n : us[i] # Null /\ us[j] # Null /\ d[i] = d[j] => i = j
  /\ \A x \in D : \E j \in 1..n : us[j] # Null /\ d[j] = x

\* R holds of the first accumulator and no element, and is kept when another is added.
adds(func, A, R, D, val) ==
  /\ R \in SUBSET (A \X SUBSET D) /\ <<new_acc(func), {}>> \in R
  /\ \A a \in A, v \in Values : update(func, a, v) \in A
  /\ \A a \in A, S \in SUBSET D : <<a, S>> \in R =>
       \A x \in D \ S : <<update(func, a, val[x]), S \cup {x}>> \in R

\* Then it holds of the last one and all elements.
LEMMA AccumulateElements ==
  ASSUME NEW func, NEW us, NEW n, NEW d, NEW D, NEW val, gives(us, n, d, D, val),
         NEW A, NEW R, adds(func, A, R, D, val)
  PROVE  <<accumulate(func, us), D>> \in R
<1>9. /\ R \in SUBSET (A \X SUBSET D) /\ <<new_acc(func), {}>> \in R
      /\ \A a \in A, v \in Values : update(func, a, v) \in A
      /\ \A a \in A, S \in SUBSET D : <<a, S>> \in R =>
           \A x \in D \ S : <<update(func, a, val[x]), S \cup {x}>> \in R
  BY DEF adds
<1>1. /\ n \in Nat /\ us \in [1..n -> Values]
      /\ \A j \in 1..n : us[j] # Null => d[j] \in D /\ us[j] = val[d[j]]
      /\ \A i, j \in 1..n : us[i] # Null /\ us[j] # Null /\ d[i] = d[j] => i = j
      /\ \A x \in D : \E j \in 1..n : us[j] # Null /\ d[j] = x
  BY DEF gives
<1>2. new_acc(func) \in A
  BY <1>9
<1>0. PICK F : is_accumulation(F, func, n, A, us)
  BY <1>1, <1>2, <1>9, AccumulateFold
<1>3. /\ F \in [SUBSET (1..n) -> A] /\ F[{}] = new_acc(func)
      /\ \A X \in SUBSET (1..n) : X # {} => F[X] = update(func, F[X \ {Max(X)}], us[Max(X)])
      /\ F[1..n] = accumulate(func, us)
  BY <1>0 DEF is_accumulation
<1> DEFINE E(X) == {d[j] : j \in {j \in X : us[j] # Null}}
           T == {X \in SUBSET (1..n) : <<F[X], E(X)>> \in R}
<1>4. {} \in T
  BY <1>3, <1>9
<1>5. ASSUME NEW X \in SUBSET (1..n), X # {}, X \ {Max(X)} \in T PROVE X \in T
  <2>1. PICK m \in 1..n : m = Max(X) /\ m \in X
    BY <1>1, <1>5, MaxFacts
  <2> DEFINE Y == X \ {m}
  <2>2. F[X] = update(func, F[Y], us[m])
    BY <1>3, <1>5, <2>1
  <2>3. Y \in SUBSET (1..n) /\ <<F[Y], E(Y)>> \in R /\ F[Y] \in A /\ E(Y) \in SUBSET D
    BY <1>1, <1>3, <1>5, <2>1
  <2>4. CASE us[m] = Null
    <3>1. F[X] = F[Y]
      BY <2>2, <2>4 DEF update
    <3>2. E(X) = E(Y)
      BY <2>4
    <3> QED
      BY <2>3, <3>1, <3>2
  <2>5. CASE us[m] # Null
    <3>1. d[m] \in D /\ us[m] = val[d[m]]
      BY <1>1, <2>5
    <3>2. d[m] \notin E(Y)
      BY <1>1, <2>5
    <3>3. E(X) = E(Y) \cup {d[m]}
      BY <2>1, <2>5
    <3> HIDE DEF E, Y
    <3>4. <<update(func, F[Y], val[d[m]]), E(Y) \cup {d[m]}>> \in R
      BY <1>9, <2>3, <3>1, <3>2
    <3> QED
      BY <2>2, <3>1, <3>3, <3>4
  <2> QED
    BY <2>4, <2>5
<1>6. T = SUBSET (1..n)
  <2>1. T \in SUBSET SUBSET (1..n)
    OBVIOUS
  <2> HIDE DEF T
  <2> QED
    BY <1>1, <1>4, <1>5, <2>1, PositionsInduction
<1>7. E(1..n) = D
  BY <1>1
<1>8. <<F[1..n], E(1..n)>> \in R
  <2>1. 1..n \in T
    BY <1>6
  <2> QED
    BY <2>1
<1> QED
  BY <1>3, <1>7, <1>8

\* The elements are finitely many.
LEMMA GivesFinite ==
  ASSUME NEW us, NEW n, NEW d, NEW D, NEW val, gives(us, n, d, D, val)
  PROVE  IsFiniteSet(D)
<1> DEFINE P == {j \in 1..n : us[j] # Null}
<1>1. IsFiniteSet(P)
  <2>1. IsFiniteSet(1..n)
    BY FS_Interval DEF gives
  <2> QED
    BY <2>1, FS_Subset
<1> DEFINE f == [j \in P |-> d[j]]
<1>2. f \in Surjection(P, D)
  BY DEF gives, Surjection
<1> HIDE DEF P, f
<1> QED
  BY <1>1, <1>2, FS_Surjection
-----------------------------------------------------------------------------
(* What the accumulators give.                                             *)

\* Values that are not NULL.
LEMMA ValueFacts ==
  /\ \A x \in Values : x # Null => x.v \in Int /\ x.ty \in {"bool", "int", "float", "text"}
                                   /\ x = [ty |-> x.ty, v |-> x.v]
  /\ Failed \notin Values /\ Failed # Null /\ Null \in Values
BY DEF Values, Null, Failed

LEMMA CountIs ==
  ASSUME NEW us, NEW n, NEW d, NEW D, NEW val, gives(us, n, d, D, val)
  PROVE  accumulate("count", us) = [ty |-> "int", v |-> Cardinality(D)]
<1> DEFINE A == [ty : {"int"}, v : Int]
           is(a, S) == a.v = Cardinality(S)
           R == {p \in A \X SUBSET D : is(p[1], p[2])}
<1>0. IsFiniteSet(D)
  BY GivesFinite
<1>1. R \in SUBSET (A \X SUBSET D)
  OBVIOUS
<1>2. <<new_acc("count"), {}>> \in R
  BY FS_EmptySet DEF new_acc
<1>3. \A a \in A, v \in Values : update("count", a, v) \in A
  BY CountUpdates
<1>4. ASSUME NEW a \in A, NEW S \in SUBSET D, <<a, S>> \in R, NEW x \in D \ S
      PROVE  <<update("count", a, val[x]), S \cup {x}>> \in R
  <2>1. val[x] \in Values /\ val[x] # Null /\ a # Failed /\ a.v = Cardinality(S)
    BY <1>4 DEF gives, Failed
  <2>2. update("count", a, val[x]) = [a EXCEPT !.v = @ + 1]
    BY <2>1 DEF update
  <2>3. a = [ty |-> "int", v |-> a.v] /\ a.v + 1 \in Int
    OBVIOUS
  <2>4. update("count", a, val[x]).v = a.v + 1 /\ update("count", a, val[x]) \in A
    BY <2>2, <2>3
  <2>5. Cardinality(S \cup {x}) = Cardinality(S) + 1
    BY <1>0, FS_Subset, FS_AddElement
  <2> QED
    BY <2>1, <2>4, <2>5
<1> HIDE DEF R
<1>5. <<accumulate("count", us), D>> \in R
  <2>1. adds("count", A, R, D, val)
    <3> HIDE DEF A
    <3> QED
      BY <1>1, <1>2, <1>3, <1>4 DEF adds
  <2> QED
    BY <2>1, AccumulateElements
<1>6. accumulate("count", us) \in A /\ accumulate("count", us).v = Cardinality(D)
  BY <1>5 DEF R
<1> QED
  BY <1>6

\* The sum of the values.
sum_of(Sum, D, val) == is_sum(Sum, D, [x \in D |-> val[x].v])

adds_up(Sum, D, val) ==
  /\ Sum \in [SUBSET D -> Int] /\ Sum[{}] = 0
  /\ \A S \in SUBSET D : \A x \in D \ S : Sum[S \cup {x}] = Sum[S] + val[x].v

LEMMA SumOf ==
  ASSUME NEW D, NEW val \in [D -> Values \ {Null}], NEW Sum, sum_of(Sum, D, val)
  PROVE  adds_up(Sum, D, val)
<1> DEFINE f == [x \in D |-> val[x].v]
<1>1. Sum \in [SUBSET D -> Int] /\ Sum[{}] = 0
  BY DEF sum_of, is_sum
<1>2. ASSUME NEW S \in SUBSET D, NEW x \in D \ S PROVE Sum[S \cup {x}] = Sum[S] + val[x].v
  <2> DEFINE T == S \cup {x}
  <2>1. T \in SUBSET D /\ x \in T /\ T \ {x} = S
    OBVIOUS
  <2>2. is_sum(Sum, D, f)
    BY DEF sum_of
  <2>3. f[x] = val[x].v
    OBVIOUS
  <2> HIDE DEF T, f
  <2>4. Sum[T] = f[x] + Sum[T \ {x}]
    BY <2>1, <2>2 DEF is_sum
  <2>5. val[x].v \in Int /\ Sum[S] \in Int
    BY <1>1, ValueFacts
  <2>6. Sum[T] = f[x] + Sum[S] /\ f[x] \in Int
    BY <2>1, <2>3, <2>4, <2>5
  <2>7. Sum[T] = Sum[S] + f[x]
    BY <2>5, <2>6
  <2> QED
    BY <2>3, <2>7 DEF T
<1> QED
  BY <1>1, <1>2 DEF adds_up

LEMMA AvgIs ==
  ASSUME NEW us, NEW n, NEW d, NEW D, NEW val, gives(us, n, d, D, val), NEW Sum, sum_of(Sum, D, val)
  PROVE  \/ accumulate("avg", us) = Failed
         \/ accumulate("avg", us) = [ty |-> "avg", v |-> Sum[D], n |-> Cardinality(D)]
<1> DEFINE A == {Failed} \cup [ty : {"avg"}, v : Int, n : Nat]
           is(a, S) == a = Failed \/ a = [ty |-> "avg", v |-> Sum[S], n |-> Cardinality(S)]
           R == {p \in A \X SUBSET D : is(p[1], p[2])}
<1>0. IsFiniteSet(D)
  BY GivesFinite
<1>9. /\ Sum \in [SUBSET D -> Int] /\ Sum[{}] = 0
      /\ \A S \in SUBSET D : \A x \in D \ S : Sum[S \cup {x}] = Sum[S] + val[x].v
  <2>1. val \in [D -> Values \ {Null}]
    BY DEF gives
  <2>2. adds_up(Sum, D, val)
    BY <2>1, SumOf
  <2> QED
    BY <2>2 DEF adds_up
<1>1. R \in SUBSET (A \X SUBSET D)
  OBVIOUS
<1>2. <<new_acc("avg"), {}>> \in R
  BY <1>9, FS_EmptySet DEF new_acc
<1>3. ASSUME NEW a \in A, NEW v \in Values
      PROVE  /\ update("avg", a, v) \in A
             /\ v # Null /\ a # Failed => \/ update("avg", a, v) = Failed
                                          \/ update("avg", a, v) = [ty |-> "avg", v |-> a.v + v.v, n |-> a.n + 1]
             /\ a = Failed => update("avg", a, v) = Failed
  <2>1. CASE a = Failed \/ v = Null
    BY <2>1 DEF update
  <2>2. CASE a # Failed /\ v # Null
    <3>1. update("avg", a, v) = avg_update(a, v)
      BY <2>2 DEF update
    <3>2. a \in [ty : {"avg"}, v : Int, n : Nat] /\ v.v \in Int
      BY <2>2, ValueFacts
    <3>3. a = [ty |-> "avg", v |-> a.v, n |-> a.n] /\ a.v + v.v \in Int /\ a.n + 1 \in Nat
      BY <3>2
    <3>4. avg_update(a, v) = Failed \/ avg_update(a, v) = [ty |-> "avg", v |-> a.v + v.v, n |-> a.n + 1]
      <4> DEFINE w == v.v
                 x == a.v
                 y == a.n
      <4>1. a = [ty |-> "avg", v |-> x, n |-> y]
        BY <3>3
      <4>2. avg_update(a, v) = Failed \/ avg_update(a, v) = [a EXCEPT !.v = x + w, !.n = y + 1]
        BY DEF avg_update
      <4>4. x + w \in Int /\ y + 1 \in Nat
        BY <3>3
      <4> HIDE DEF w, x, y
      <4>5. ASSUME NEW s \in Int, NEW t \in Nat
            PROVE  [a EXCEPT !.v = s, !.n = t] = [ty |-> "avg", v |-> s, n |-> t]
        <5> DEFINE b == [a EXCEPT !.v = s, !.n = t]
        <5>1. b \in [ty : {"avg"}, v : Int, n : Nat] /\ b.v = s /\ b.n = t
          BY <3>2
        <5> HIDE DEF b
        <5>2. b = [ty |-> "avg", v |-> b.v, n |-> b.n]
          BY <5>1
        <5>3. b = [ty |-> "avg", v |-> s, n |-> t]
          BY <5>1, <5>2
        <5> QED
          BY <5>3 DEF b
      <4>3. [a EXCEPT !.v = x + w, !.n = y + 1] = [ty |-> "avg", v |-> x + w, n |-> y + 1]
        BY <4>4, <4>5
      <4> QED
        BY <4>2, <4>3 DEF w, x, y
    <3>5. [ty |-> "avg", v |-> a.v + v.v, n |-> a.n + 1] \in [ty : {"avg"}, v : Int, n : Nat]
      BY <3>3
    <3> QED
      BY <2>2, <3>1, <3>4, <3>5
  <2> QED
    BY <2>1, <2>2
<1>4. ASSUME NEW a \in A, NEW S \in SUBSET D, <<a, S>> \in R, NEW x \in D \ S
      PROVE  <<update("avg", a, val[x]), S \cup {x}>> \in R
  <2>1. val[x] \in Values /\ val[x] # Null /\ is(a, S)
    BY <1>4 DEF gives
  <2>2. Cardinality(S \cup {x}) = Cardinality(S) + 1
    BY <1>0, FS_Subset, FS_AddElement
  <2>3. Sum[S \cup {x}] = Sum[S] + val[x].v
    BY <1>9
  <2>4. is(update("avg", a, val[x]), S \cup {x})
    <3>1. CASE a = Failed
      BY <1>3, <2>1, <3>1
    <3>2. CASE a # Failed
      <4>1. a.v = Sum[S] /\ a.n = Cardinality(S)
        BY <2>1, <3>2
      <4> QED
        BY <1>3, <2>1, <2>2, <2>3, <3>2, <4>1
    <3> QED
      BY <3>1, <3>2
  <2>5. update("avg", a, val[x]) \in A
    BY <1>3, <2>1
  <2> HIDE DEF is, A
  <2> QED
    BY <2>4, <2>5
<1> HIDE DEF R
<1>5. <<accumulate("avg", us), D>> \in R
  <2>1. adds("avg", A, R, D, val)
    <3> HIDE DEF A
    <3> QED
      BY <1>1, <1>2, <1>3, <1>4 DEF adds
  <2> QED
    BY <2>1, AccumulateElements
<1> QED
  BY <1>5 DEF R

\* The type of a sum.
sum_type(S, val) == IF \A x \in S : val[x].ty = "int" THEN "int" ELSE "float"

LEMMA SumIs ==
  ASSUME NEW us, NEW n, NEW d, NEW D, NEW val, gives(us, n, d, D, val), NEW Sum, sum_of(Sum, D, val)
  PROVE  \/ accumulate("sum", us) = Failed
         \/ D = {} /\ accumulate("sum", us) = Null
         \/ D # {} /\ accumulate("sum", us) = [ty |-> sum_type(D, val), v |-> Sum[D]]
<1> DEFINE A == {Failed, Null} \cup [ty : {"int", "float"}, v : Int]
           is(a, S) == \/ a = Failed
                       \/ a = Null /\ S = {}
                       \/ S # {} /\ a = [ty |-> sum_type(S, val), v |-> Sum[S]]
           R == {p \in A \X SUBSET D : is(p[1], p[2])}
<1>9. /\ Sum \in [SUBSET D -> Int] /\ Sum[{}] = 0
      /\ \A S \in SUBSET D : \A x \in D \ S : Sum[S \cup {x}] = Sum[S] + val[x].v
  <2>1. val \in [D -> Values \ {Null}]
    BY DEF gives
  <2>2. adds_up(Sum, D, val)
    BY <2>1, SumOf
  <2> QED
    BY <2>2 DEF adds_up
<1>1. R \in SUBSET (A \X SUBSET D)
  OBVIOUS
<1>2. <<new_acc("sum"), {}>> \in R
  BY DEF new_acc
<1>3. ASSUME NEW a \in A, NEW v \in Values
      PROVE  /\ update("sum", a, v) \in A
             /\ v # Null /\ a = Null => \/ update("sum", a, v) = Failed
                                        \/ v.ty \in {"int", "float"} /\ update("sum", a, v) = [ty |-> v.ty, v |-> v.v]
             /\ v # Null /\ a # Null /\ a # Failed =>
                  \/ update("sum", a, v) = Failed
                  \/ /\ v.ty \in {"int", "float"} /\ a.ty \in {"int", "float"} /\ ~(a.ty = "int" /\ v.ty = "float")
                     /\ update("sum", a, v) = [ty |-> a.ty, v |-> a.v + v.v]
             /\ a = Failed => update("sum", a, v) = Failed
  <2>1. CASE a = Failed \/ v = Null
    BY <2>1 DEF update, Failed, Null
  <2>2. CASE a # Failed /\ v # Null
    <3>1. update("sum", a, v) = sum_update(a, v)
      BY <2>2 DEF update
    <3>2. v.v \in Int /\ v = [ty |-> v.ty, v |-> v.v] /\ (number(v) <=> v.ty \in {"int", "float"})
      BY <2>2, ValueFacts DEF number
    <3>3. CASE a = Null
      <4>1. sum_update(a, v) = Failed \/ (number(v) /\ sum_update(a, v) = v)
        BY <3>3 DEF sum_update
      <4>2. number(v) => v \in [ty : {"int", "float"}, v : Int]
        BY <3>2
      <4> QED
        BY <2>2, <3>1, <3>2, <3>3, <4>1, <4>2
    <3>4. CASE a # Null
      <4>1. a \in [ty : {"int", "float"}, v : Int]
        BY <2>2, <3>4
      <4>2. a = [ty |-> a.ty, v |-> a.v] /\ a.v + v.v \in Int
        BY <3>2, <4>1
      <4>3. \/ sum_update(a, v) = Failed
            \/ /\ number(v) /\ ~(a.ty = "int" /\ v.ty = "float")
               /\ sum_update(a, v) = [ty |-> a.ty, v |-> a.v + v.v]
        BY <3>4, <4>2 DEF sum_update
      <4>4. [ty |-> a.ty, v |-> a.v + v.v] \in [ty : {"int", "float"}, v : Int]
        BY <4>1, <4>2
      <4> QED
        BY <2>2, <3>1, <3>2, <3>4, <4>1, <4>3, <4>4
    <3> QED
      BY <3>3, <3>4
  <2> QED
    BY <2>1, <2>2
<1>4. ASSUME NEW a \in A, NEW S \in SUBSET D, <<a, S>> \in R, NEW x \in D \ S
      PROVE  <<update("sum", a, val[x]), S \cup {x}>> \in R
  <2> DEFINE new == update("sum", a, val[x])
             T == S \cup {x}
  <2>1. val[x] \in Values /\ val[x] # Null /\ is(a, S)
    BY <1>4 DEF gives
  <2>3. Sum[T] = Sum[S] + val[x].v /\ val[x].v \in Int
    BY <1>9, <2>1, ValueFacts
  <2>4. is(new, T)
    <3>1. CASE a = Failed
      BY <1>3, <2>1, <3>1
    <3>2. CASE a = Null /\ S = {}
      <4>1. new = Failed \/ (val[x].ty \in {"int", "float"} /\ new = [ty |-> val[x].ty, v |-> val[x].v])
        BY <1>3, <2>1, <3>2
      <4>2. T = {x} /\ Sum[T] = val[x].v
        BY <1>9, <2>3, <3>2
      <4>3. val[x].ty \in {"int", "float"} => sum_type(T, val) = val[x].ty
        BY <4>2 DEF sum_type
      <4> HIDE DEF new, T
      <4> QED
        BY <4>1, <4>2, <4>3
    <3>3. CASE a # Failed /\ S # {} /\ a = [ty |-> sum_type(S, val), v |-> Sum[S]]
      <4>1. a # Null /\ a.ty = sum_type(S, val) /\ a.v = Sum[S]
        BY <3>3 DEF sum_type, Null
      <4>2. \/ new = Failed
            \/ /\ val[x].ty \in {"int", "float"} /\ ~(a.ty = "int" /\ val[x].ty = "float")
               /\ new = [ty |-> a.ty, v |-> a.v + val[x].v]
        BY <1>3, <2>1, <3>3, <4>1
      <4>3. val[x].ty \in {"int", "float"} /\ ~(a.ty = "int" /\ val[x].ty = "float") => sum_type(T, val) = a.ty
        BY <4>1 DEF sum_type
      <4> HIDE DEF new
      <4> QED
        BY <2>3, <4>1, <4>2, <4>3
    <3> QED
      BY <2>1, <3>1, <3>2, <3>3
  <2>5. new \in A
    BY <1>3, <2>1
  <2> HIDE DEF is, A, new
  <2> QED
    BY <2>4, <2>5 DEF new
<1> HIDE DEF R
<1>5. <<accumulate("sum", us), D>> \in R
  <2>1. adds("sum", A, R, D, val)
    <3> HIDE DEF A
    <3> QED
      BY <1>1, <1>2, <1>3, <1>4 DEF adds
  <2> QED
    BY <2>1, AccumulateElements
<1> QED
  BY <1>5 DEF R

\* One of the values of S, all of one type, that is not above, or not below, any.
extreme_of(func, a, S, val) ==
  \E y \in S : a = val[y] /\ \A x \in S : /\ val[x].ty = a.ty
                                          /\ IF func = "min" THEN a.v <= val[x].v ELSE a.v >= val[x].v

LEMMA ExtremaIs ==
  ASSUME NEW us, NEW n, NEW d, NEW D, NEW val, gives(us, n, d, D, val), NEW func \in {"min", "max"}
  PROVE  \/ accumulate(func, us) = Failed
         \/ D = {} /\ accumulate(func, us) = Null
         \/ extreme_of(func, accumulate(func, us), D, val)
<1> DEFINE A == {Failed} \cup Values
           is(a, S) == a = Failed \/ (a = Null /\ S = {}) \/ (a # Null /\ a # Failed /\ extreme_of(func, a, S, val))
           R == {p \in A \X SUBSET D : is(p[1], p[2])}
<1>1. R \in SUBSET (A \X SUBSET D)
  OBVIOUS
<1>2. <<new_acc(func), {}>> \in R
  BY ValueFacts DEF new_acc
<1>3. ASSUME NEW a \in A, NEW v \in Values
      PROVE  /\ update(func, a, v) \in A
             /\ v # Null /\ a = Null => update(func, a, v) = v
             /\ v # Null /\ a # Null /\ a # Failed =>
                  \/ update(func, a, v) = Failed
                  \/ /\ a.ty = v.ty
                     /\ update(func, a, v) = IF IF func = "min" THEN v.v < a.v ELSE v.v > a.v THEN v ELSE a
             /\ a = Failed => update(func, a, v) = Failed
  <2>1. CASE a = Failed \/ v = Null
    BY <2>1 DEF update, Failed, Null
  <2>2. CASE a # Failed /\ v # Null
    <3>1. update(func, a, v) = extrema_update(func, a, v)
      BY <2>2 DEF update
    <3> QED
      BY <2>2, <3>1 DEF extrema_update
  <2> QED
    BY <2>1, <2>2
<1>4. ASSUME NEW a \in A, NEW S \in SUBSET D, <<a, S>> \in R, NEW x \in D \ S
      PROVE  <<update(func, a, val[x]), S \cup {x}>> \in R
  <2> DEFINE new == update(func, a, val[x])
             T == S \cup {x}
  <2>1. val[x] \in Values /\ val[x] # Null /\ val[x] # Failed /\ is(a, S) /\ val[x].v \in Int
    BY <1>4, ValueFacts DEF gives
  <2>4. is(new, T)
    <3>1. CASE a = Failed
      BY <1>3, <2>1, <3>1
    <3>2. CASE a = Null /\ S = {}
      <4>1. new = val[x] /\ T = {x}
        BY <1>3, <2>1, <3>2
      <4>2. extreme_of(func, new, T, val)
        BY <2>1, <4>1 DEF extreme_of
      <4> QED
        BY <2>1, <4>1, <4>2
    <3>3. CASE a # Null /\ a # Failed /\ extreme_of(func, a, S, val)
      <4>1. PICK y \in S : a = val[y] /\ \A z \in S : /\ val[z].ty = a.ty
                                                      /\ IF func = "min" THEN a.v <= val[z].v ELSE a.v >= val[z].v
        BY <3>3 DEF extreme_of
      <4>2. \A z \in S : val[z].v \in Int
        BY ValueFacts DEF gives
      <4>3. a.v \in Int
        BY <4>1, <4>2
      <4>4. \/ new = Failed
            \/ a.ty = val[x].ty /\ new = IF IF func = "min" THEN val[x].v < a.v ELSE val[x].v > a.v THEN val[x] ELSE a
        BY <1>3, <2>1, <3>3
      <4>5. ASSUME a.ty = val[x].ty, IF func = "min" THEN val[x].v < a.v ELSE val[x].v > a.v
            PROVE  extreme_of(func, val[x], T, val)
        <5>1. \A z \in T : /\ val[z].ty = val[x].ty
                           /\ IF func = "min" THEN val[x].v <= val[z].v ELSE val[x].v >= val[z].v
          BY <2>1, <4>1, <4>2, <4>3, <4>5
        <5> QED
          BY <5>1 DEF extreme_of
      <4>6. ASSUME a.ty = val[x].ty, ~IF func = "min" THEN val[x].v < a.v ELSE val[x].v > a.v
            PROVE  extreme_of(func, a, T, val)
        <5>1. \A z \in T : /\ val[z].ty = a.ty
                           /\ IF func = "min" THEN a.v <= val[z].v ELSE a.v >= val[z].v
          BY <2>1, <4>1, <4>2, <4>3, <4>6
        <5> QED
          BY <4>1, <5>1 DEF extreme_of
      <4> HIDE DEF new, T
      <4> QED
        BY <2>1, <3>3, <4>4, <4>5, <4>6
    <3> QED
      BY <2>1, <3>1, <3>2, <3>3
  <2>5. new \in A
    BY <1>3, <2>1
  <2> HIDE DEF is, A, new
  <2> QED
    BY <2>4, <2>5 DEF new
<1> HIDE DEF R
<1>5. <<accumulate(func, us), D>> \in R
  <2>1. adds(func, A, R, D, val)
    <3> HIDE DEF A
    <3> QED
      BY <1>1, <1>2, <1>3, <1>4 DEF adds
  <2> QED
    BY <2>1, AccumulateElements
<1> QED
  BY <1>5 DEF R
-----------------------------------------------------------------------------
(* Aggregate calls.                                                        *)

\* What a call over the rows G takes, and the value of each.
elements(call, G) ==
  LET given == {r \in G : call.star \/ eval(call.arg, r) # Null} IN
  IF call.distinct THEN {eval(call.arg, r) : r \in given} ELSE given
cell(call, x) == IF call.distinct THEN x ELSE eval(call.arg, x)
taken(call, G) ==
  [x \in elements(call, G) |-> IF call.star THEN [ty |-> "bool", v |-> 1] ELSE cell(call, x)]

\* SQL's sum is the sum in whatever order.
LEMMA TotalIs ==
  ASSUME NEW call, NEW D, IsFiniteSet(D), NEW Sum, is_sum(Sum, D, [x \in D |-> cell(call, x).v])
  PROVE  MapThenSumSet(LAMBDA x : (IF call.distinct THEN x ELSE eval(call.arg, x)).v, D) = Sum[D]
<1> DEFINE g(x) == (IF call.distinct THEN x ELSE eval(call.arg, x)).v
           c(s) == CHOOSE x \in s : TRUE
           is(H) == H = [s \in SUBSET D |-> IF s = {} THEN 0 ELSE g(c(s)) + H[s \ {c(s)}]]
           f == [x \in D |-> cell(call, x).v]
           T == CHOOSE H : is(H)
<1>1. MapThenSumSet(LAMBDA x : (IF call.distinct THEN x ELSE eval(call.arg, x)).v, D) = T[D]
  BY DEF MapThenSumSet, MapThenFoldSet
<1>2. \A x \in D : f[x] = g(x)
  BY DEF cell
<1>3. ASSUME NEW H PROVE is(H) <=> iterates(H, D, f)
  <2>1. \A s \in SUBSET D : s # {} => c(s) \in D
    OBVIOUS
  <2> HIDE DEF g, f
  <2>2. \A s \in SUBSET D : (IF s = {} THEN 0 ELSE g(c(s)) + H[s \ {c(s)}])
                            = IF s = {} THEN 0 ELSE f[c(s)] + H[s \ {c(s)}]
    BY <1>2, <2>1
  <2> HIDE DEF c
  <2>3. [s \in SUBSET D |-> IF s = {} THEN 0 ELSE g(c(s)) + H[s \ {c(s)}]]
        = [s \in SUBSET D |-> IF s = {} THEN 0 ELSE f[c(s)] + H[s \ {c(s)}]]
    BY <2>2
  <2> QED
    BY <2>3 DEF iterates, c
<1>4. iterates(Sum, D, f)
  BY SumIterates
<1>5. is(Sum)
  BY <1>3, <1>4
<1>6. is(T)
  BY <1>5
<1> HIDE DEF T, is, f
<1>7. iterates(T, D, f)
  BY <1>3, <1>6
<1>8. T[D] = Sum[D]
  BY <1>4, <1>7, IterationUnique
<1> QED
  BY <1>1, <1>8

\* The last accumulator of a call over what SQL's takes is SQL's value.
LEMMA GivenIsSql ==
  ASSUME NEW call, call.func \in Funcs, call.star => call.func = "count", NEW G, NEW us, NEW n, NEW d,
         gives(us, n, d, elements(call, G), taken(call, G)),
         finalize(call.func, accumulate(call.func, us)) # Failed
  PROVE  /\ finalize(call.func, accumulate(call.func, us)) = SqlValue(call, G)
         /\ SqlValue(call, G) \in Cells
<1> DEFINE D == elements(call, G)
           val(x) == IF call.distinct THEN x ELSE eval(call.arg, x)
           f == taken(call, G)
           acc == accumulate(call.func, us)
           kinds == {val(x).ty : x \in D}
           total == MapThenSumSet(LAMBDA x : val(x).v, D)
           extreme == IF call.func = "min" THEN CHOOSE v \in {val(x) : x \in D} : \A x \in D : v.v <= val(x).v
                      ELSE CHOOSE v \in {val(x) : x \in D} : \A x \in D : v.v >= val(x).v
<1>1. SqlValue(call, G) =
        IF call.func = "count" THEN [ty |-> "int", v |-> Cardinality(D)]
        ELSE IF D = {} THEN Null
        ELSE CASE call.func = "sum" -> IF kinds = {"int"} THEN [ty |-> "int", v |-> wrap(total)]
                                       ELSE [ty |-> "float", v |-> total]
               [] call.func = "avg" -> [ty |-> "avg", v |-> total, n |-> Cardinality(D)]
               [] OTHER -> IF Cardinality(kinds) > 1 THEN Failed ELSE extreme
  BY DEF SqlValue, elements
<1>2. IsFiniteSet(D) /\ Cardinality(D) \in Nat /\ (D # {} => Cardinality(D) # 0)
  BY GivesFinite, FS_CardinalityType, FS_EmptySet
<1>3. f \in [D -> Values \ {Null}] /\ (~call.star => \A x \in D : f[x] = val(x))
  BY DEF gives, taken, cell
<1>4. CASE call.func = "count"
  <2>1. acc = [ty |-> "int", v |-> Cardinality(D)]
    BY <1>4, CountIs
  <2>2. finalize("count", acc) = acc
    BY <2>1 DEF finalize
  <2> QED
    BY <1>1, <1>2, <1>4, <2>1, <2>2 DEF Cells, Values
<1>5. ASSUME call.func # "count"
      PROVE  ~call.star /\ \A x \in D : f[x] = val(x) /\ val(x) \in Values /\ val(x) # Null
  BY <1>3, <1>5
<1>6. ASSUME call.func \in {"sum", "avg"}
      PROVE  \E Sum : sum_of(Sum, D, f) /\ Sum[D] = total /\ total \in Int
  <2> DEFINE g == [x \in D |-> f[x].v]
             h == [x \in D |-> cell(call, x).v]
  <2>1. g \in [D -> Int] /\ g = h
    BY <1>5, <1>6, ValueFacts DEF cell
  <2> HIDE DEF g
  <2>2. PICK Sum : is_sum(Sum, D, g)
    BY <1>2, <2>1, SumExists
  <2>3. sum_of(Sum, D, f)
    BY <2>2 DEF sum_of, g
  <2>4. is_sum(Sum, D, h)
    BY <2>1, <2>2
  <2> HIDE DEF D
  <2>5. total = Sum[D]
    BY <1>2, <2>4, TotalIs
  <2>6. Sum[D] \in Int
    BY <2>2 DEF is_sum
  <2> HIDE DEF total
  <2> QED
    BY <2>3, <2>5, <2>6
<1> HIDE DEF total
<1>7. CASE call.func = "avg"
  <2>1. PICK Sum : sum_of(Sum, D, f) /\ Sum[D] = total /\ total \in Int
    BY <1>6, <1>7
  <2>2. acc = Failed \/ acc = [ty |-> "avg", v |-> total, n |-> Cardinality(D)]
    BY <1>7, <2>1, AvgIs
  <2>3. finalize("avg", Failed) = Failed
    BY DEF finalize, Failed
  <2>4. acc = [ty |-> "avg", v |-> total, n |-> Cardinality(D)]
    BY <1>7, <2>2, <2>3
  <2>5. finalize("avg", acc) = IF Cardinality(D) = 0 THEN Null ELSE acc
    BY <2>4 DEF finalize
  <2>6. D = {} <=> Cardinality(D) = 0
    BY <1>2, FS_EmptySet
  <2> HIDE DEF D, acc
  <2>7. finalize("avg", acc) = SqlValue(call, G)
    BY <1>1, <1>7, <2>4, <2>5, <2>6
  <2>8. D # {} => [ty |-> "avg", v |-> total, n |-> Cardinality(D)] \in Cells
    BY <1>2, <2>1, <2>6 DEF Cells
  <2>9. finalize("avg", acc) \in Cells
    BY <2>4, <2>5, <2>6, <2>8, ValueFacts DEF Cells
  <2> QED
    BY <1>7, <2>7, <2>9 DEF acc
<1>8. CASE call.func = "sum"
  <2>1. PICK Sum : sum_of(Sum, D, f) /\ Sum[D] = total /\ total \in Int
    BY <1>6, <1>8
  <2>2. \/ acc = Failed
        \/ D = {} /\ acc = Null
        \/ D # {} /\ acc = [ty |-> sum_type(D, f), v |-> total]
    BY <1>8, <2>1, SumIs
  <2>3. finalize("sum", Failed) = Failed /\ finalize("sum", Null) = Null
    BY DEF finalize, Failed, Null
  <2>4. CASE D = {} /\ acc = Null
    BY <1>1, <1>8, <2>3, <2>4, ValueFacts DEF Cells
  <2>5. CASE D # {} /\ acc = [ty |-> sum_type(D, f), v |-> total]
    <3>1. sum_type(D, f) = IF kinds = {"int"} THEN "int" ELSE "float"
      <4>1. (\A x \in D : f[x].ty = "int") <=> \A x \in D : val(x).ty = "int"
        BY <1>5, <1>8
      <4> HIDE DEF D, val
      <4>2. (\A x \in D : val(x).ty = "int") <=> kinds = {"int"}
        BY <2>5
      <4> QED
        BY <4>1, <4>2 DEF sum_type
    <3>2. wrap(total) \in Int
      BY <2>1, BoundsAssumption DEF wrap
    <3> DEFINE t == sum_type(D, f)
    <3>3. t \in {"int", "float"}
      BY DEF sum_type
    <3> HIDE DEF t, kinds, D
    <3>4. acc.ty = t /\ acc.v = total
      BY <2>5 DEF t
    <3>5. t = "int" => [acc EXCEPT !.v = wrap(total)] = [ty |-> "int", v |-> wrap(total)]
      BY <2>5 DEF t
    <3>6. finalize("sum", acc) = IF t = "int" THEN [ty |-> "int", v |-> wrap(total)] ELSE acc
      BY <3>3, <3>4, <3>5 DEF finalize
    <3>7. SqlValue(call, G) = IF t = "int" THEN [ty |-> "int", v |-> wrap(total)] ELSE [ty |-> "float", v |-> total]
      BY <1>1, <1>8, <2>5, <3>1 DEF t
    <3>8. t # "int" => acc = [ty |-> "float", v |-> total]
      BY <2>5, <3>3 DEF t
    <3>9. [ty |-> "int", v |-> wrap(total)] \in Cells /\ [ty |-> "float", v |-> total] \in Cells
      BY <2>1, <3>2 DEF Cells, Values
    <3> HIDE DEF acc
    <3> QED
      BY <1>8, <3>6, <3>7, <3>8, <3>9 DEF acc
  <2> QED
    BY <1>8, <2>2, <2>3, <2>4, <2>5
<1>9. CASE call.func \in {"min", "max"}
  <2>1. \/ acc = Failed
        \/ D = {} /\ acc = Null
        \/ extreme_of(call.func, acc, D, f)
    BY <1>9, ExtremaIs
  <2>2. finalize(call.func, Failed) = Failed /\ finalize(call.func, Null) = Null
    BY <1>9 DEF finalize, Failed, Null
  <2>3. CASE D = {} /\ acc = Null
    BY <1>1, <1>9, <2>2, <2>3, ValueFacts DEF Cells
  <2>4. CASE extreme_of(call.func, acc, D, f)
    <3>1. PICK y \in D : acc = val(y) /\ \A x \in D : /\ val(x).ty = acc.ty
                                                      /\ IF call.func = "min" THEN acc.v <= val(x).v ELSE acc.v >= val(x).v
      BY <1>5, <1>9, <2>4 DEF extreme_of
    <3>2. \A x \in D : val(x).v \in Int /\ val(x) = [ty |-> val(x).ty, v |-> val(x).v] /\ val(x).ty \in {"bool", "int", "float", "text"}
      BY <1>5, <1>9, ValueFacts
    <3>3. acc \in Values /\ acc.ty \in {"bool", "int", "float", "text"}
      BY <1>5, <1>9, <3>1, <3>2
    <3>4. finalize(call.func, acc) = acc
      BY <1>9, <3>3 DEF finalize
    <3> HIDE DEF D, val, acc
    <3>5. kinds = {acc.ty} /\ ~(Cardinality(kinds) > 1)
      <4>1. kinds = {acc.ty}
        BY <3>1
      <4>2. \A t : Cardinality({t}) = 1
        BY FS_Singleton
      <4>3. Cardinality(kinds) = 1
        BY <4>1, <4>2
      <4> QED
        BY <4>1, <4>3
    <3>6. ASSUME NEW v \in {val(x) : x \in D},
                 IF call.func = "min" THEN \A x \in D : v.v <= val(x).v ELSE \A x \in D : v.v >= val(x).v
          PROVE  v = acc
      <4>1. PICK z \in D : v = val(z)
        BY <3>6
      <4>2. v.v <= acc.v /\ acc.v <= v.v
        BY <3>1, <3>2, <3>6, <4>1
      <4>3. v.v = acc.v /\ v.ty = acc.ty
        BY <3>1, <3>2, <4>1, <4>2
      <4> QED
        BY <3>1, <3>2, <4>1, <4>3
    <3>7. extreme = acc
      <4>1. acc \in {val(x) : x \in D}
        BY <3>1
      <4>2. CASE call.func = "min"
        <5>1. \A x \in D : acc.v <= val(x).v
          BY <3>1, <4>2
        <5> QED
          BY <3>6, <4>1, <4>2, <5>1
      <4>3. CASE call.func # "min"
        <5>1. \A x \in D : acc.v >= val(x).v
          BY <3>1, <4>3
        <5> QED
          BY <3>6, <4>1, <4>3, <5>1
      <4> QED
        BY <4>2, <4>3
    <3>8. SqlValue(call, G) = acc
      <4> HIDE DEF extreme, kinds
      <4> QED
        BY <1>1, <1>9, <3>1, <3>5, <3>7
    <3> QED
      BY <3>3, <3>4, <3>8 DEF Cells, acc
  <2> QED
    BY <1>9, <2>1, <2>2, <2>3, <2>4
<1> QED
  BY <1>4, <1>7, <1>8, <1>9 DEF Funcs
-----------------------------------------------------------------------------
(* Values met once.                                                        *)

\* once takes every value that is there, and each at one place.
LEMMA OnceEach ==
  ASSUME NEW n \in Nat, NEW V, NEW vs \in [1..n -> V]
  PROVE  /\ once(vs) \in Seq(V) /\ Range(once(vs)) = Range(vs)
         /\ \A i, j \in 1..Len(once(vs)) : once(vs)[i] = once(vs)[j] => i = j
<1> DEFINE apart(s) == \A i, j \in 1..Len(s) : s[i] = s[j] => i = j
<1>1. PICK F : is_collection(F, n, V, vs)
  BY OnceFold
<1>2. /\ F \in [SUBSET (1..n) -> Seq(V)] /\ F[{}] = <<>> /\ F[1..n] = once(vs)
      /\ \A X \in SUBSET (1..n) : X # {} => F[X] = collected(F[X \ {Max(X)}], vs[Max(X)])
  BY <1>1 DEF is_collection
<1> DEFINE E(X) == {vs[j] : j \in X}
           T == {X \in SUBSET (1..n) : Range(F[X]) = E(X) /\ apart(F[X])}
<1>3. {} \in T
  BY <1>2 DEF Range
<1>4. ASSUME NEW s \in Seq(V), NEW v \in V, apart(s)
      PROVE  apart(collected(s, v)) /\ Range(collected(s, v)) = Range(s) \cup {v}
  <2>1. CASE v \in Range(s)
    BY <1>4, <2>1 DEF collected
  <2>2. CASE v \notin Range(s)
    <3> DEFINE t == Append(s, v)
    <3>1. collected(s, v) = t
      BY <2>2 DEF collected
    <3>2. /\ t \in Seq(V) /\ Len(t) = Len(s) + 1 /\ Len(s) \in Nat
          /\ (\A i \in 1..Len(s) : t[i] = s[i]) /\ t[Len(s) + 1] = v
          /\ DOMAIN t = 1..Len(t) /\ DOMAIN s = 1..Len(s)
      OBVIOUS
    <3> HIDE DEF t
    <3>3. \A i \in 1..Len(t) : (i \in 1..Len(s) /\ t[i] = s[i] /\ t[i] \in Range(s)) \/ (i = Len(s) + 1 /\ t[i] = v)
      BY <3>2 DEF Range
    <3>4. apart(t)
      BY <1>4, <2>2, <3>3
    <3>5. Range(t) = Range(s) \cup {v}
      <4>1. Range(t) \subseteq Range(s) \cup {v}
        BY <3>2, <3>3 DEF Range
      <4>2. \A i \in 1..Len(s) : i \in 1..Len(t)
        BY <3>2
      <4>3. Len(s) + 1 \in 1..Len(t)
        BY <3>2
      <4>4. Range(s) \cup {v} \subseteq Range(t)
        BY <3>2, <4>2, <4>3 DEF Range
      <4> QED
        BY <4>1, <4>4
    <3> QED
      BY <3>1, <3>4, <3>5
  <2> QED
    BY <2>1, <2>2
<1>5. ASSUME NEW X \in SUBSET (1..n), X # {}, X \ {Max(X)} \in T PROVE X \in T
  <2>1. PICK m \in 1..n : m = Max(X) /\ m \in X
    BY <1>5, MaxFacts
  <2> DEFINE Y == X \ {m}
  <2>2. F[X] = collected(F[Y], vs[m])
    BY <1>2, <1>5, <2>1
  <2>3. F[Y] \in Seq(V) /\ Range(F[Y]) = E(Y) /\ apart(F[Y])
    BY <1>2, <1>5, <2>1
  <2>4. E(X) = E(Y) \cup {vs[m]}
    BY <2>1
  <2> HIDE DEF apart, E, Y
  <2>5. apart(F[X]) /\ Range(F[X]) = E(X)
    BY <1>4, <2>2, <2>3, <2>4
  <2> QED
    BY <2>5
<1>6. T = SUBSET (1..n)
  <2>1. T \in SUBSET SUBSET (1..n)
    OBVIOUS
  <2> HIDE DEF T
  <2> QED
    BY <1>3, <1>5, <2>1, PositionsInduction
<1>7. Range(once(vs)) = E(1..n) /\ apart(once(vs))
  <2>1. 1..n \in T
    BY <1>6
  <2> HIDE DEF E, apart
  <2> QED
    BY <1>2, <2>1
<1>8. E(1..n) = Range(vs)
  BY DEF Range
<1>9. once(vs) \in Seq(V)
  BY <1>2
<1> QED
  BY <1>7, <1>8, <1>9

\* The values a call is given over the rows ms are those that SQL's takes.
LEMMA ArgsFacts ==
  ASSUME NEW q \in Queries, NEW k \in DOMAIN q.calls, NEW ms \in Seq(Tuples(All(q))), distinct(Key(q), ms),
         NEW G, G = image(q, Range(ms))
  PROVE  \E n, d : gives(args(q.calls[k], ms), n, d, elements(q.calls[k], G), taken(q.calls[k], G))
<1> DEFINE call == q.calls[k]
           n == Len(ms)
           one == [ty |-> "bool", v |-> 1]
           vs == [j \in DOMAIN ms |-> IF call.star THEN one ELSE eval(call.arg, ms[j])]
           D == elements(call, G)
           f == taken(call, G)
           c(j) == Complete(q, ms[j])
<1>1. call.star => call.arg = <<>>
  BY QueriesAssumption
<1>2. n \in Nat /\ DOMAIN ms = 1..n /\ \A j \in 1..n : ms[j] \in Tuples(All(q)) /\ ms[j] \in Range(ms)
  <2>1. n \in Nat /\ DOMAIN ms = 1..n /\ \A j \in 1..n : ms[j] \in Tuples(All(q))
    OBVIOUS
  <2>2. \A j \in DOMAIN ms : ms[j] \in Range(ms)
    BY DEF Range
  <2> QED
    BY <2>1, <2>2
<1>3. \A i, j \in 1..n : c(i) = c(j) => i = j
  <2>1. \A j \in 1..n : Key(q)[ms[j]] = c(j)
    BY <1>2 DEF Key
  <2> QED
    BY <1>2, <2>1 DEF distinct
<1>4. G = {c(j) : j \in 1..n}
  BY <1>2 DEF image, Range
<1>5. \A j \in 1..n : eval(call.arg, c(j)) = eval(call.arg, ms[j]) /\ eval(call.arg, ms[j]) \in Values
  BY <1>2, EvalComplete, EvalType
<1>6. one \in Values /\ one # Null
  BY DEF Values, Null
<1>7. call.star => \A j \in 1..n : eval(call.arg, ms[j]) = Null
  <2> SUFFICES ASSUME call.star, NEW j \in 1..n PROVE eval(call.arg, ms[j]) = Null
    OBVIOUS
  <2>1. DOMAIN ms[j] \subseteq All(q) \X Fields
    BY <1>2, TupleFacts
  <2>2. <<>> \notin All(q) \X Fields
    OBVIOUS
  <2> QED
    BY <1>1, <2>1, <2>2 DEF eval
<1>8. args(call, ms) = IF call.distinct THEN once(vs) ELSE vs
  BY DEF args
<1> DEFINE given == {r \in G : call.star \/ eval(call.arg, r) # Null}
<1>9. D = (IF call.distinct THEN {eval(call.arg, r) : r \in given} ELSE given) /\ f = [x \in D |-> IF call.star THEN one ELSE cell(call, x)]
  BY DEF elements, taken
<1>10. \A j \in 1..n : vs[j] = IF call.star THEN one ELSE eval(call.arg, ms[j])
  BY <1>2
<1>11. vs \in [1..n -> Values]
  BY <1>2, <1>5, <1>6
<1> HIDE DEF call, one, D, f, vs, n
<1>12. CASE ~call.distinct
  <2> DEFINE d == [j \in 1..n |-> c(j)]
  <2>1. D = {c(j) : j \in {j \in 1..n : vs[j] # Null}}
    BY <1>4, <1>5, <1>6, <1>9, <1>10, <1>12
  <2>2. \A j \in 1..n : vs[j] # Null => d[j] \in D /\ vs[j] = f[d[j]]
    <3> SUFFICES ASSUME NEW j \in 1..n, vs[j] # Null PROVE c(j) \in D /\ vs[j] = f[c(j)]
      OBVIOUS
    <3>1. c(j) \in D
      BY <2>1
    <3> QED
      BY <1>5, <1>9, <1>10, <1>12, <3>1 DEF cell
  <2>3. \A x \in D : \E j \in 1..n : vs[j] # Null /\ d[j] = x
    BY <2>1
  <2>4. \A i, j \in 1..n : vs[i] # Null /\ vs[j] # Null /\ d[i] = d[j] => i = j
    BY <1>3
  <2>5. f \in [D -> Values \ {Null}]
    <3>1. \A x \in D : f[x] \in Values \ {Null}
      <4> SUFFICES ASSUME NEW x \in D PROVE f[x] \in Values \ {Null}
        OBVIOUS
      <4>1. PICK j \in 1..n : vs[j] # Null /\ d[j] = x
        BY <2>3
      <4> QED
        BY <1>11, <2>2, <4>1
    <3> QED
      BY <1>9, <3>1
  <2>6. gives(vs, n, d, D, f)
    <3> HIDE DEF d
    <3> QED
      BY <1>2, <1>11, <2>2, <2>3, <2>4, <2>5 DEF gives
  <2>7. gives(args(call, ms), n, d, D, f)
    BY <1>8, <1>12, <2>6
  <2> QED
    BY <2>7 DEF call, D, f
<1>13. CASE call.distinct /\ ~call.star
  <2> DEFINE us == once(vs)
             d == us
             m == Len(us)
  <2>1. us \in Seq(Values) /\ Range(us) = Range(vs) /\ \A i, j \in 1..Len(us) : us[i] = us[j] => i = j
    BY <1>2, <1>11, OnceEach
  <2>2. D = Range(vs) \ {Null}
    <3>1. D = {eval(call.arg, ms[j]) : j \in {j \in 1..n : eval(call.arg, ms[j]) # Null}}
      BY <1>4, <1>5, <1>9, <1>13
    <3>2. Range(vs) = {eval(call.arg, ms[j]) : j \in 1..n}
      BY <1>10, <1>11, <1>13 DEF Range
    <3> QED
      BY <3>1, <3>2
  <2>3. f = [x \in D |-> x]
    BY <1>9, <1>13 DEF cell
  <2> HIDE DEF us
  <2>4. us \in [1..m -> Values] /\ m \in Nat /\ Range(us) = {us[j] : j \in 1..m}
    BY <2>1 DEF Range
  <2>5. \A j \in 1..m : us[j] \in Range(us)
    BY <2>4
  <2>6. f \in [D -> Values \ {Null}]
    BY <1>11, <2>2, <2>3 DEF Range
  <2>7. gives(us, m, us, D, f)
    <3> HIDE DEF m
    <3>1. \A j \in 1..m : us[j] # Null => us[j] \in D /\ us[j] = f[us[j]]
      BY <2>1, <2>2, <2>3, <2>5
    <3>2. \A x \in D : \E j \in 1..m : us[j] # Null /\ us[j] = x
      BY <2>1, <2>2, <2>4
    <3> QED
      BY <2>1, <2>4, <2>6, <3>1, <3>2 DEF gives, m
  <2>8. gives(args(call, ms), m, us, D, f)
    BY <1>8, <1>13, <2>7 DEF us
  <2> QED
    BY <2>8 DEF call, D, f
<1>14. CASE call.distinct /\ call.star
  <2> DEFINE us == once(vs)
             m == Len(us)
             d == [j \in 1..m |-> Null]
  <2>1. us \in Seq(Values) /\ Range(us) = Range(vs) /\ \A i, j \in 1..Len(us) : us[i] = us[j] => i = j
    BY <1>2, <1>11, OnceEach
  <2> HIDE DEF us
  <2>2. us \in [1..m -> Values] /\ m \in Nat /\ Range(us) = {us[j] : j \in 1..m}
    BY <2>1 DEF Range
  <2> HIDE DEF m
  <2>3. Range(vs) = {one : j \in 1..n}
    BY <1>10, <1>11, <1>14 DEF Range
  <2>4. D = {Null : j \in 1..n}
    BY <1>4, <1>5, <1>7, <1>9, <1>14
  <2>5. \A j \in 1..m : us[j] = one
    BY <2>1, <2>2, <2>3
  <2>6. f = [x \in D |-> one]
    BY <1>9, <1>14
  <2>7. \A i, j \in 1..m : i = j
    BY <2>1, <2>5 DEF m
  <2>8. \A j \in 1..m : d[j] = Null /\ Null \in D
    <3> SUFFICES ASSUME NEW j \in 1..m PROVE d[j] = Null /\ Null \in D
      OBVIOUS
    <3>1. d[j] = Null
      OBVIOUS
    <3>2. us[j] \in Range(vs)
      BY <2>1, <2>2
    <3>3. \E i \in 1..n : TRUE
      BY <2>3, <3>2
    <3> QED
      BY <2>4, <3>1, <3>3
  <2>9. \A x \in D : \E j \in 1..m : us[j] # Null /\ d[j] = x
    <3> SUFFICES ASSUME NEW x \in D PROVE \E j \in 1..m : us[j] # Null /\ d[j] = x
      OBVIOUS
    <3>1. x = Null /\ one \in Range(us)
      BY <2>1, <2>3, <2>4
    <3> QED
      BY <1>6, <2>2, <2>5, <3>1
  <2>10. f \in [D -> Values \ {Null}]
    BY <1>6, <2>6
  <2> HIDE DEF d
  <2>11. gives(us, m, d, D, f)
    BY <2>2, <2>5, <2>6, <2>7, <2>8, <2>9, <2>10 DEF gives
  <2>12. gives(args(call, ms), m, d, D, f)
    BY <1>8, <1>14, <2>11 DEF us
  <2> QED
    BY <2>12 DEF call, D, f
<1> QED
  BY <1>12, <1>13, <1>14
-----------------------------------------------------------------------------
(* Groups.                                                                 *)

\* The rows of a group, each as often as before.
LEMMA MembersEach ==
  ASSUME NEW q, NEW X, NEW rs \in Seq(X), NEW k, NEW K, distinct(K, rs)
  PROVE  /\ members(q, rs, k) \in Seq(X) /\ distinct(K, members(q, rs, k))
         /\ Range(members(q, rs, k)) = {x \in Range(rs) : gb_vals(q, x) = k}
<1> DEFINE T == {x \in Range(rs) : gb_vals(q, x) = k}
           ss == [j \in DOMAIN rs |-> IF gb_vals(q, rs[j]) = k THEN <<rs[j]>> ELSE <<>>]
<1>1. \A j \in 1..Len(rs) : ss[j] = IF rs[j] \in T THEN <<rs[j]>> ELSE <<>>
  BY DEF Range
<1>2. ss \in [1..Len(rs) -> Seq(X)]
  <2>1. \A x \in X : <<x>> \in Seq(X)
    OBVIOUS
  <2>2. \A j \in 1..Len(rs) : (IF gb_vals(q, rs[j]) = k THEN <<rs[j]>> ELSE <<>>) \in Seq(X)
    BY <2>1
  <2>3. DOMAIN rs = 1..Len(rs)
    OBVIOUS
  <2> QED
    BY <2>2, <2>3
<1>3. members(q, rs, k) = FlattenSeq(ss)
  BY DEF members, retain
<1>4. Range(rs) \cap T = T
  OBVIOUS
<1> HIDE DEF T, ss
<1>5. /\ FlattenSeq(ss) \in Seq(X) /\ Range(FlattenSeq(ss)) = Range(rs) \cap T
      /\ distinct(K, rs) => distinct(K, FlattenSeq(ss))
  BY <1>1, <1>2, RetainFacts
<1> QED
  BY <1>3, <1>4, <1>5 DEF T

LEMMA KeysSame ==
  ASSUME NEW q \in Queries, NEW r \in Tuples(All(q))
  PROVE  gb_vals(q, Complete(q, r)) = gb_vals(q, r)
BY EvalComplete DEF gb_vals

\* The rows of W that have the values k in the GROUP BY columns.
group_of(q, W, k) == {r \in W : gb_vals(q, r) = k}

\* A group whose calls have not failed is as SQL's.
LEMMA GroupRowIsSql ==
  ASSUME NEW q \in Queries, NEW rs \in Seq(Tuples(All(q))), distinct(Key(q), rs),
         NEW k \in group_keys(q, rs), Failed \notin Range(group_row(q, rs, k))
  PROVE  /\ group_row(q, rs, k) = SqlGroupRow(q, group_of(q, image(q, Range(rs)), k))
         /\ \A c : eval(c, group_row(q, rs, k)) \in Cells
<1> DEFINE ms == members(q, rs, k)
           result(i) == finalize(q.calls[i].func, accumulate(q.calls[i].func, args(q.calls[i], ms)))
           pos(c) == CHOOSE i \in DOMAIN q.group : q.group[i] = c
           call(c) == CHOOSE i \in DOMAIN q.calls : name(q, i) = c
           keyed == [c \in Range(q.group) |-> k[pos(c)]]
           called == [c \in {name(q, i) : i \in DOMAIN q.calls} |-> result(call(c))]
           G == group_of(q, image(q, Range(rs)), k)
           row == group_row(q, rs, k)
<1>1. row = merge_objs(keyed, called)
  BY DEF group_row, members
<1>2. /\ ms \in Seq(Tuples(All(q))) /\ distinct(Key(q), ms)
      /\ Range(ms) = {x \in Range(rs) : gb_vals(q, x) = k}
  <2> DEFINE X == Tuples(All(q))
             K == Key(q)
  <2>1. rs \in Seq(X) /\ distinct(K, rs)
    OBVIOUS
  <2> HIDE DEF X, K
  <2>2. /\ members(q, rs, k) \in Seq(X) /\ distinct(K, members(q, rs, k))
        /\ Range(members(q, rs, k)) = {x \in Range(rs) : gb_vals(q, x) = k}
    BY <2>1, MembersEach
  <2> QED
    BY <2>2 DEF X, K
<1>3. G = image(q, Range(ms))
  <2>1. \A x \in Range(rs) : gb_vals(q, Complete(q, x)) = gb_vals(q, x)
    <3>1. Range(rs) \subseteq Tuples(All(q))
      BY DEF Range
    <3> QED
      BY <3>1, KeysSame
  <2> QED
    BY <1>2, <2>1 DEF group_of, image
<1>4. /\ DOMAIN keyed = Range(q.group) /\ DOMAIN called = {name(q, i) : i \in DOMAIN q.calls}
      /\ \A c \in DOMAIN called : called[c] = result(call(c)) /\ call(c) \in DOMAIN q.calls
      /\ \A c \in DOMAIN keyed : keyed[c] = k[pos(c)] /\ pos(c) \in DOMAIN q.group /\ q.group[pos(c)] = c
  BY DEF Range
<1> HIDE DEF keyed, called, pos, call
<1>5. \A c \in DOMAIN called : called[c] \in Range(row)
  BY <1>1 DEF merge_objs, Range
<1>6. ASSUME NEW c \in DOMAIN called
      PROVE  called[c] = SqlValue(q.calls[call(c)], G) /\ called[c] \in Cells
  <2> DEFINE i == call(c)
  <2>1. i \in DOMAIN q.calls /\ called[c] = result(i) /\ result(i) # Failed
    BY <1>4, <1>5
  <2> HIDE DEF ms, i, G
  <2>2. PICK n, d : gives(args(q.calls[i], ms), n, d, elements(q.calls[i], G), taken(q.calls[i], G))
    BY <1>2, <1>3, <2>1, ArgsFacts
  <2>3. q.calls[i].func \in Funcs /\ (q.calls[i].star => q.calls[i].func = "count")
    BY <2>1, QueriesAssumption
  <2>4. result(i) = SqlValue(q.calls[i], G) /\ SqlValue(q.calls[i], G) \in Cells
    BY <2>1, <2>2, <2>3, GivenIsSql
  <2> QED
    BY <2>1, <2>4 DEF i
<1>7. ASSUME NEW c \in DOMAIN keyed
      PROVE  keyed[c] = eval(c, CHOOSE r \in G : TRUE) /\ keyed[c] \in Cells
  <2>1. pos(c) \in DOMAIN q.group /\ q.group[pos(c)] = c /\ keyed[c] = k[pos(c)] /\ q.group # <<>>
    BY <1>4, <1>7
  <2>2. PICK j \in DOMAIN rs : k = gb_vals(q, rs[j])
    BY <2>1 DEF group_keys
  <2>3. rs[j] \in Tuples(All(q)) /\ rs[j] \in Range(rs)
    BY DEF Range
  <2>4. Complete(q, rs[j]) \in G
    BY <2>2, <2>3, KeysSame DEF group_of, image
  <2> DEFINE r == CHOOSE r \in G : TRUE
  <2>5. r \in G
    BY <2>4
  <2> HIDE DEF r
  <2>6. gb_vals(q, r) = k
    BY <2>5 DEF group_of
  <2>7. k[pos(c)] = eval(c, r)
    BY <2>1, <2>6 DEF gb_vals
  <2>8. k[pos(c)] = eval(c, rs[j])
    BY <2>1, <2>2 DEF gb_vals
  <2>9. k[pos(c)] \in Values
    BY <2>3, <2>8, EvalType
  <2> QED
    BY <2>1, <2>7, <2>9 DEF r, Cells
<1>8. row = SqlGroupRow(q, G)
  <2> DEFINE skeyed == [c \in Range(q.group) |-> eval(c, CHOOSE r \in G : TRUE)]
             scalled == [c \in {name(q, i) : i \in DOMAIN q.calls} |->
                           SqlValue(q.calls[CHOOSE i \in DOMAIN q.calls : name(q, i) = c], G)]
  <2>1. SqlGroupRow(q, G) = merge_objs(skeyed, scalled)
    BY DEF SqlGroupRow
  <2>2. keyed = skeyed
    BY <1>4, <1>7 DEF keyed
  <2>3. called = scalled
    <3>1. DOMAIN called = {name(q, i) : i \in DOMAIN q.calls}
      BY <1>4
    <3>2. \A c \in DOMAIN called : called[c] = scalled[c]
      BY <1>4, <1>6 DEF call
    <3>3. called = [c \in {name(q, i) : i \in DOMAIN q.calls} |-> called[c]]
      BY DEF called
    <3> QED
      BY <3>1, <3>2, <3>3
  <2> QED
    BY <1>1, <2>1, <2>2, <2>3
<1>9. ASSUME NEW c PROVE eval(c, row) \in Cells
  <2>1. Null \in Cells
    BY ValueFacts DEF Cells
  <2>2. DOMAIN row = DOMAIN keyed \cup DOMAIN called
        /\ \A x \in DOMAIN row : row[x] = IF x \in DOMAIN called THEN called[x] ELSE keyed[x]
    BY <1>1 DEF merge_objs
  <2> HIDE DEF row
  <2> QED
    BY <1>6, <1>7, <2>1, <2>2 DEF eval
<1> QED
  BY <1>8, <1>9

\* The groups of what is joined and filtered are SQL's.
groups_of(q, rs) == {group_row(q, rs, k) : k \in group_keys(q, rs)}
sql_groups(q, W) == {SqlGroupRow(q, G) : G \in SqlGroups(q, W)}

LEMMA KeysFinite ==
  ASSUME NEW q, NEW X, NEW rs \in Seq(X)
  PROVE  IsFiniteSet(groups_of(q, rs))
<1>1. IsFiniteSet(DOMAIN rs)
  <2>1. DOMAIN rs = 1..Len(rs) /\ Len(rs) \in Nat
    OBVIOUS
  <2> QED
    BY <2>1, FS_Interval
<1>2. IsFiniteSet(group_keys(q, rs))
  <2>1. CASE q.group = <<>>
    <3>1. group_keys(q, rs) = {<<>>}
      BY <2>1 DEF group_keys
    <3>2. \A x : IsFiniteSet({x})
      BY FS_Singleton
    <3> QED
      BY <3>1, <3>2
  <2>2. CASE q.group # <<>>
    <3> DEFINE D == DOMAIN rs
               S == group_keys(q, rs)
               f == [j \in D |-> gb_vals(q, rs[j])]
    <3>1. S = {gb_vals(q, rs[j]) : j \in D}
      BY <2>2 DEF group_keys
    <3>2. f \in Surjection(D, S)
      BY <3>1 DEF Surjection
    <3> HIDE DEF f, D, S
    <3>3. IsFiniteSet(S)
      BY <1>1, <3>2, FS_Surjection DEF D
    <3> QED
      BY <3>3 DEF S
  <2> QED
    BY <2>1, <2>2
<1> DEFINE D == group_keys(q, rs)
           S == groups_of(q, rs)
           f == [k \in D |-> group_row(q, rs, k)]
<1>3. f \in Surjection(D, S)
  BY DEF Surjection, groups_of
<1> HIDE DEF f, D, S
<1>4. IsFiniteSet(S)
  BY <1>2, <1>3, FS_Surjection DEF D
<1> QED
  BY <1>4 DEF S

LEMMA GroupsAreSql ==
  ASSUME NEW q \in Queries, NEW rs \in Seq(Tuples(All(q))), distinct(Key(q), rs),
         ~ \E g \in groups_of(q, rs) : Failed \in Range(g)
  PROVE  /\ groups_of(q, rs) = sql_groups(q, image(q, Range(rs)))
         /\ \A g \in groups_of(q, rs) : \A c : eval(c, g) \in Cells
<1> DEFINE W == image(q, Range(rs))
           KS == group_keys(q, rs)
<1>1. \A k \in KS : /\ group_row(q, rs, k) = SqlGroupRow(q, group_of(q, W, k))
                    /\ \A c : eval(c, group_row(q, rs, k)) \in Cells
  BY GroupRowIsSql DEF groups_of
<1>2. SqlGroups(q, W) = {group_of(q, W, k) : k \in KS}
  <2>1. CASE q.group = <<>>
    <3>1. KS = {<<>>} /\ SqlGroups(q, W) = {W}
      BY <2>1 DEF group_keys, SqlGroups
    <3>2. \A r : gb_vals(q, r) = <<>>
      BY <2>1 DEF gb_vals
    <3>3. group_of(q, W, <<>>) = W
      BY <3>2 DEF group_of
    <3> QED
      BY <3>1, <3>3
  <2>2. CASE q.group # <<>>
    <3>1. KS = {gb_vals(q, rs[j]) : j \in DOMAIN rs}
      BY <2>2 DEF group_keys
    <3>2. \A j \in DOMAIN rs : /\ gb_vals(q, Complete(q, rs[j])) = gb_vals(q, rs[j])
                               /\ Complete(q, rs[j]) \in W
      BY KeysSame DEF image, Range
    <3>3. W = {Complete(q, rs[j]) : j \in DOMAIN rs}
      BY DEF image, Range
    <3>4. SqlGroups(q, W) = {group_of(q, W, gb_vals(q, s)) : s \in W}
      BY <2>2 DEF SqlGroups, group_of
    <3> HIDE DEF W, KS
    <3>5. ASSUME NEW s \in W PROVE \E k \in KS : group_of(q, W, gb_vals(q, s)) = group_of(q, W, k)
      <4>1. PICK j \in DOMAIN rs : s = Complete(q, rs[j])
        BY <3>3
      <4> QED
        BY <3>1, <3>2, <4>1
    <3>6. ASSUME NEW k \in KS PROVE \E s \in W : group_of(q, W, gb_vals(q, s)) = group_of(q, W, k)
      <4>1. PICK j \in DOMAIN rs : k = gb_vals(q, rs[j])
        BY <3>1
      <4> QED
        BY <3>2, <4>1
    <3> QED
      BY <3>4, <3>5, <3>6
  <2> QED
    BY <2>1, <2>2
<1> HIDE DEF W, KS
<1>3. groups_of(q, rs) = {group_row(q, rs, k) : k \in KS}
  BY DEF groups_of, KS
<1>4. groups_of(q, rs) = sql_groups(q, W)
  BY <1>1, <1>2, <1>3 DEF sql_groups
<1> QED
  BY <1>1, <1>3, <1>4 DEF W

\* In whatever order they come out.
LEMMA OrderShows ==
  ASSUME NEW S, IsFiniteSet(S), NEW out \in SetToSeqs(S)
  PROVE  shows(out, out, S) /\ out \in Seq(S)
<1> DEFINE n == Cardinality(S)
<1>1. /\ n \in Nat /\ out \in [1..n -> S] /\ \A i, j \in 1..n : out[i] = out[j] => i = j
      /\ \A x \in S : \E i \in 1..n : out[i] = x
  BY OrderFacts
<1> HIDE DEF n
<1>2. out \in Seq(S) /\ Len(out) = n
  BY <1>1
<1> QED
  BY <1>1, <1>2 DEF shows, lists

\* Those a predicate keeps.
LEMMA FilterShows ==
  ASSUME NEW A, NEW rs \in Seq(A), shows(rs, rs, A), NEW p
  PROVE  /\ shows(filter(p, rs), filter(p, rs), {a \in A : holds(p, a)})
         /\ filter(p, rs) \in Seq({a \in A : holds(p, a)})
<1> DEFINE K == [a \in A |-> a]
           F == filter(p, rs)
           B == {a \in A : holds(p, a)}
<1>1. distinct(K, rs)
  BY DEF distinct, shows, lists
<1>2. F \in Seq(A) /\ Range(F) = {x \in Range(rs) : holds(p, x)} /\ distinct(K, F)
  <2> HIDE DEF K
  <2> QED
    BY <1>1, FilterFacts
<1>3. Range(rs) = A
  BY DEF shows, lists, Range
<1> HIDE DEF F
<1>4. Range(F) = B
  BY <1>2, <1>3
<1>5. DOMAIN F = 1..Len(F) /\ Len(F) \in Nat /\ \A j \in 1..Len(F) : F[j] \in A /\ F[j] \in B
  <2>1. DOMAIN F = 1..Len(F) /\ Len(F) \in Nat /\ \A j \in 1..Len(F) : F[j] \in A
    BY <1>2
  <2>2. \A j \in DOMAIN F : F[j] \in Range(F)
    BY DEF Range
  <2> QED
    BY <1>4, <2>1, <2>2
<1>6. \A i, j \in 1..Len(F) : F[i] = F[j] => i = j
  BY <1>2, <1>5 DEF distinct
<1>7. \A x \in B : \E i \in 1..Len(F) : F[i] = x
  BY <1>4, <1>5 DEF Range
<1> HIDE DEF B
<1>8. F \in [1..Len(F) -> B]
  <2>1. F = [j \in 1..Len(F) |-> F[j]]
    BY <1>2, <1>5
  <2> QED
    BY <1>5, <2>1
<1>9. F \in Seq(B)
  BY <1>5, <1>8
<1> QED
  BY <1>5, <1>6, <1>7, <1>8, <1>9 DEF shows, lists, F, B

\* What is joined and filtered shows SQL's rows.
LEMMA JoinedShows ==
  ASSUME NEW q \in Queries, NEW rs, NEW M, joined(q, Tuples(All(q)), rs, M)
  PROVE  /\ \E b : shows(rs, b, M)
         /\ \A a \in M : \A c : eval(c, a) \in Cells
<1> DEFINE n == Len(rs)
           b == [j \in 1..n |-> Complete(q, rs[j])]
<1>1. rs \in Seq(Tuples(All(q))) /\ distinct(Key(q), rs) /\ image(q, Range(rs)) = M
  BY DEF joined
<1>2. n \in Nat /\ DOMAIN rs = 1..n /\ \A j \in 1..n : rs[j] \in Tuples(All(q)) /\ Key(q)[rs[j]] = Complete(q, rs[j])
  BY <1>1 DEF Key
<1>3. M = {Complete(q, rs[j]) : j \in 1..n}
  BY <1>1, <1>2 DEF image, Range
<1>4. \A j \in 1..n : \A c : eval(c, rs[j]) = eval(c, Complete(q, rs[j])) /\ eval(c, rs[j]) \in Values
  BY <1>2, EvalComplete, EvalType
<1>5. \A i, j \in 1..n : b[i] = b[j] => i = j
  BY <1>1, <1>2 DEF distinct
<1>6. shows(rs, b, M)
  <2>1. b \in [1..n -> M] /\ \A x \in M : \E j \in 1..n : b[j] = x
    BY <1>3
  <2>2. \A j \in 1..n : \A c : eval(c, rs[j]) = eval(c, b[j])
    BY <1>4
  <2> HIDE DEF b
  <2> QED
    BY <1>2, <1>5, <2>1, <2>2 DEF shows, lists
<1>7. \A a \in M : \A c : eval(c, a) \in Cells
  BY <1>3, <1>4 DEF Cells
<1> QED
  BY <1>6, <1>7
-----------------------------------------------------------------------------
(* The stages of a query.                                                  *)

\* The cells of the rows A.
Read(A) == \A a \in A : \A c : eval(c, a) \in Cells

\* After the groups, HAVING, ORDER BY, the projection and the window the rows are SQL's
\* so far.
RowsGrouped ==
  node = having_at(query) /\ needs_agg(query) =>
    LET S == sql_groups(query, SqlWhere(query, scans)) IN
    rows \in Seq(S) /\ shows(rows, rows, S) /\ Read(S)

RowsKept ==
  node = sort_at(query) /\ needs_agg(query) /\ query.having # NoPredicate =>
    (\E b : shows(rows, b, SqlRows(query, scans))) /\ Read(SqlRows(query, scans))

RowsSorted ==
  node = project_at(query) /\ query.order # <<>> /\ ~having_dropped =>
    \E b : shows(rows, b, SqlRows(query, scans)) /\ ranked(query, b, Len(rows), SqlRows(query, scans))

RowsProjected ==
  node = limit_at(query) /\ ~having_dropped =>
    \E b, n : /\ lists(b, n, SqlRows(query, scans)) /\ ranked(query, b, n, SqlRows(query, scans))
              /\ rows = [j \in 1..n |-> project(query, b[j])]

RowsReturned ==
  node = limit_at(query) + 1 /\ ~having_dropped => answers(query, rows, SqlRows(query, scans))

Stages == RowsGrouped /\ RowsKept /\ RowsSorted /\ RowsProjected /\ RowsReturned
AInv == IInv /\ Stages

\* Before the groups none of this has come.
LEMMA StagesLater ==
  ASSUME query \in Queries, node <= filtered(query), node \in Nat
  PROVE  Stages
BY Places DEF Stages, RowsGrouped, RowsKept, RowsSorted, RowsProjected, RowsReturned

LEMMA StagesLaterStill ==
  ASSUME query' \in Queries, node' <= filtered(query'), node' \in Nat
  PROVE  Stages'
BY Places DEF Stages, RowsGrouped, RowsKept, RowsSorted, RowsProjected, RowsReturned

\* What leaves the rows alone leaves them as they are.
LEMMA StagesStay ==
  ASSUME Stages, query' = query, node' = node, scans' = scans, rows' = rows
  PROVE  Stages'
<1>1. RowsGrouped' /\ RowsKept'
  BY DEF Stages, RowsGrouped, RowsKept
<1>2. RowsSorted' /\ RowsProjected' /\ RowsReturned'
  BY DEF Stages, RowsSorted, RowsProjected, RowsReturned, having_dropped
<1> QED
  BY <1>1, <1>2 DEF Stages

\* SQL's rows with groups and without.
LEMMA SqlRowsFacts ==
  ASSUME NEW q, NEW sc
  PROVE  /\ ~needs_agg(q) => SqlRows(q, sc) = SqlWhere(q, sc)
         /\ needs_agg(q) /\ q.having = NoPredicate => SqlRows(q, sc) = sql_groups(q, SqlWhere(q, sc))
         /\ needs_agg(q) /\ q.having # NoPredicate =>
              SqlRows(q, sc) = {g \in sql_groups(q, SqlWhere(q, sc)) : holds(q.having, g)}
<1> DEFINE S == sql_groups(q, SqlWhere(q, sc))
<1>1. SqlRows(q, sc) = IF needs_agg(q) THEN {g \in S : q.having # NoPredicate => holds(q.having, g)}
                       ELSE SqlWhere(q, sc)
  BY DEF SqlRows, sql_groups
<1> HIDE DEF S
<1> QED
  BY <1>1 DEF S

\* Where ORDER BY starts.
LEMMA AtSort ==
  ASSUME AInv, query \in Queries, node = sort_at(query), ~having_dropped
  PROVE  (\E b : shows(rows, b, SqlRows(query, scans))) /\ Read(SqlRows(query, scans))
<1>1. CASE ~needs_agg(query)
  <2>1. node = filtered(query)
    BY <1>1, Places
  <2>2. joined(query, Tuples(All(query)), rows, SqlWhere(query, scans))
    BY <2>1, AfterWhere DEF AInv
  <2> QED
    BY <1>1, <2>2, JoinedShows, SqlRowsFacts DEF Read
<1>2. CASE needs_agg(query) /\ query.having = NoPredicate
  <2>1. node = having_at(query)
    BY <1>2, Places DEF sort_at
  <2> QED
    BY <1>2, <2>1, SqlRowsFacts DEF AInv, Stages, RowsGrouped
<1>3. CASE needs_agg(query) /\ query.having # NoPredicate
  BY <1>3 DEF AInv, Stages, RowsKept
<1> QED
  BY <1>1, <1>2, <1>3

\* Where the projection starts.
LEMMA AtProject ==
  ASSUME AInv, query \in Queries, node = project_at(query), ~having_dropped
  PROVE  \E b : shows(rows, b, SqlRows(query, scans)) /\ ranked(query, b, Len(rows), SqlRows(query, scans))
<1>1. CASE query.order = <<>>
  <2>1. node = sort_at(query)
    BY <1>1, Places DEF project_at
  <2>2. PICK b : shows(rows, b, SqlRows(query, scans))
    BY <2>1, AtSort
  <2>3. ranked(query, b, Len(rows), SqlRows(query, scans))
    BY <1>1, <2>2, Unsorted DEF shows
  <2> QED
    BY <2>2, <2>3
<1>2. CASE query.order # <<>>
  BY <1>2 DEF AInv, Stages, RowsSorted
<1> QED
  BY <1>1, <1>2

\* Where a node after WHERE takes the query.
LEMMA LaterNode ==
  ASSUME AInv, status = "running", plan[node].op \notin {"scan", "join", "where"},
         NEW rs, returns(rs), scans' = scans
  PROVE  /\ query \in Queries /\ node \in Nat /\ placed(query, node, plan[node].op) /\ IInv'
         /\ query' = query /\ node' = node + 1 /\ rows' = rs /\ having_dropped' = having_dropped
<1>1. query \in Queries /\ node \in 1..Len(plan) /\ Len(plan) \in Nat
  BY Running DEF AInv
<1>2. placed(query, node, plan[node].op)
  BY <1>1, PlanPlaces DEF plan
<1>3. IInv'
  BY LaterHolds DEF AInv
<1>4. query' = query /\ node' = node + 1 /\ rows' = rs
  BY DEF returns
<1> QED
  BY <1>1, <1>2, <1>3, <1>4 DEF having_dropped

LEMMA AggregateStage ==
  ASSUME AInv, Aggregate
  PROVE  Stages'
<1> DEFINE groups == {group_row(query, rows, k) : k \in group_keys(query, rows)}
           W == SqlWhere(query, scans)
           S == sql_groups(query, W)
<1>1. status = "running" /\ plan[node].op = "aggregate"
  BY DEF Aggregate, runs
<1>2. CASE (\E g \in groups : Failed \in Range(g)) /\ fails
  BY <1>2, StagesStay DEF fails, AInv
<1>3. CASE (~ \E g \in groups : Failed \in Range(g)) /\ \E out \in SetToSeqs(groups) : returns(out) /\ UNCHANGED scans
  <2>1. PICK out \in SetToSeqs(groups) : returns(out) /\ scans' = scans
    BY <1>3
  <2>2. /\ query \in Queries /\ node \in Nat /\ placed(query, node, "aggregate")
        /\ query' = query /\ node' = node + 1 /\ rows' = out
    BY <1>1, <2>1, LaterNode
  <2>3. node = filtered(query) /\ needs_agg(query)
    BY <2>2 DEF placed
  <2>4. joined(query, Tuples(All(query)), rows, W)
    BY <2>2, <2>3, AfterWhere DEF AInv
  <2>5. rows \in Seq(Tuples(All(query))) /\ distinct(Key(query), rows) /\ image(query, Range(rows)) = W
    BY <2>4 DEF joined
  <2>6. groups = groups_of(query, rows)
    BY DEF groups_of
  <2> HIDE DEF groups
  <2>7. groups = S /\ Read(groups)
    BY <1>3, <2>2, <2>5, <2>6, GroupsAreSql DEF Read
  <2>8. IsFiniteSet(groups)
    BY <2>5, <2>6, KeysFinite
  <2>9. shows(out, out, S) /\ out \in Seq(S) /\ Read(S)
    BY <2>1, <2>7, <2>8, OrderShows
  <2>10. RowsGrouped'
    BY <2>1, <2>2, <2>9 DEF RowsGrouped
  <2>11. node' = filtered(query) + 1 /\ query' = query
    BY <2>2, <2>3
  <2>12. RowsKept' /\ RowsSorted' /\ RowsProjected' /\ RowsReturned'
    BY <2>2, <2>3, <2>11, Places DEF RowsKept, RowsSorted, RowsProjected, RowsReturned
  <2> QED
    BY <2>10, <2>12 DEF Stages
<1> QED
  BY <1>2, <1>3 DEF Aggregate

LEMMA FilterStage ==
  ASSUME AInv, Filter
  PROVE  Stages'
<1>1. CASE runs("where") /\ returns(filter(query.where, rows))
  <2>1. status = "running" /\ plan[node].op = "where" /\ query' = query /\ node' = node + 1
    BY <1>1 DEF runs, returns
  <2>2. query \in Queries /\ node \in 1..Len(plan) /\ Len(plan) \in Nat
    BY <2>1, Running DEF AInv
  <2>3. node = joins_end(query) + 1 /\ query.where # NoPredicate
    BY <2>1, <2>2, PlanFacts DEF plan
  <2>4. query' \in Queries /\ node' <= filtered(query') /\ node' \in Nat
    BY <2>1, <2>2, <2>3, Places
  <2> QED
    BY <2>4, StagesLaterStill
<1>2. CASE runs("having") /\ returns(filter(query.having, rows))
  <2> DEFINE S == sql_groups(query, SqlWhere(query, scans))
             rs == filter(query.having, rows)
  <2>1. status = "running" /\ plan[node].op = "having" /\ scans' = scans
    BY <1>2 DEF Filter, runs
  <2>2. /\ query \in Queries /\ node \in Nat /\ placed(query, node, "having")
        /\ query' = query /\ node' = node + 1 /\ rows' = rs
    BY <1>2, <2>1, LaterNode
  <2>3. node = having_at(query) /\ needs_agg(query) /\ query.having # NoPredicate
    BY <2>2 DEF placed
  <2>4. rows \in Seq(S) /\ shows(rows, rows, S) /\ Read(S)
    BY <2>3 DEF AInv, Stages, RowsGrouped
  <2>5. shows(rs, rs, {g \in S : holds(query.having, g)})
    BY <2>4, FilterShows
  <2>6. SqlRows(query, scans) = {g \in S : holds(query.having, g)}
    BY <2>3, SqlRowsFacts
  <2> HIDE DEF S, rs
  <2>7. shows(rs, rs, SqlRows(query, scans)) /\ Read(SqlRows(query, scans))
    BY <2>4, <2>5, <2>6 DEF Read
  <2>8. RowsKept'
    BY <2>1, <2>2, <2>7 DEF RowsKept
  <2>9. RowsGrouped' /\ RowsSorted' /\ RowsProjected' /\ RowsReturned'
    BY <2>2, <2>3, Places DEF RowsGrouped, RowsSorted, RowsProjected, RowsReturned
  <2> QED
    BY <2>8, <2>9 DEF Stages
<1> QED
  BY <1>1, <1>2 DEF Filter

LEMMA SortStage ==
  ASSUME AInv, Sort
  PROVE  Stages'
<1> DEFINE A == SqlRows(query, scans)
           rs == sort_by(query.order, rows)
<1>1. status = "running" /\ plan[node].op = "sort" /\ scans' = scans /\ returns(rs)
  BY DEF Sort, runs
<1>2. /\ query \in Queries /\ node \in Nat /\ placed(query, node, "sort")
      /\ query' = query /\ node' = node + 1 /\ rows' = rs /\ having_dropped' = having_dropped
  BY <1>1, LaterNode
<1>3. node = sort_at(query) /\ query.order # <<>>
  BY <1>2 DEF placed
<1>4. ASSUME ~having_dropped PROVE \E d : shows(rs, d, A) /\ ranked(query, d, Len(rs), A)
  <2>1. PICK b : shows(rows, b, A)
    BY <1>2, <1>3, <1>4, AtSort
  <2>2. \A a \in A : \A c : eval(c, a) \in Cells
    BY <1>2, <1>3, <1>4, AtSort DEF Read
  <2> HIDE DEF A
  <2> QED
    BY <1>2, <2>1, <2>2, SortShows
<1> HIDE DEF rs
<1>5. RowsSorted'
  BY <1>1, <1>2, <1>4 DEF RowsSorted
<1>6. RowsGrouped' /\ RowsKept' /\ RowsProjected' /\ RowsReturned'
  BY <1>2, <1>3, Places DEF RowsGrouped, RowsKept, RowsProjected, RowsReturned
<1> QED
  BY <1>5, <1>6 DEF Stages

LEMMA ProjectStage ==
  ASSUME AInv, Project
  PROVE  Stages'
<1> DEFINE A == SqlRows(query, scans)
           rs == [j \in DOMAIN rows |-> project(query, rows[j])]
<1>1. status = "running" /\ plan[node].op = "project" /\ scans' = scans /\ returns(rs)
  BY DEF Project, runs
<1>2. /\ query \in Queries /\ node \in Nat /\ placed(query, node, "project")
      /\ query' = query /\ node' = node + 1 /\ rows' = rs /\ having_dropped' = having_dropped
  BY <1>1, LaterNode
<1>3. node = project_at(query)
  BY <1>2 DEF placed
<1>4. ASSUME ~having_dropped
      PROVE  \E b, n : lists(b, n, A) /\ ranked(query, b, n, A) /\ rs = [j \in 1..n |-> project(query, b[j])]
  <2> DEFINE n == Len(rows)
  <2>1. PICK b : shows(rows, b, A) /\ ranked(query, b, n, A)
    BY <1>2, <1>3, <1>4, AtProject
  <2>2. /\ DOMAIN rows = 1..n /\ lists(b, n, A)
        /\ \A j \in 1..n : \A c : eval(c, rows[j]) = eval(c, b[j])
    BY <2>1 DEF shows
  <2>3. \A j \in 1..n : project(query, rows[j]) = project(query, b[j])
    BY <2>2, ProjectSame
  <2>4. rs = [j \in 1..n |-> project(query, b[j])]
    BY <2>2, <2>3
  <2> HIDE DEF n, A, rs
  <2> QED
    BY <2>1, <2>2, <2>4
<1> HIDE DEF rs
<1>5. RowsProjected'
  BY <1>1, <1>2, <1>4 DEF RowsProjected
<1>6. RowsGrouped' /\ RowsKept' /\ RowsSorted' /\ RowsReturned'
  BY <1>2, <1>3, Places DEF RowsGrouped, RowsKept, RowsSorted, RowsReturned
<1> QED
  BY <1>5, <1>6 DEF Stages

LEMMA LimitStage ==
  ASSUME AInv, Limit
  PROVE  Stages'
<1> DEFINE A == SqlRows(query, scans)
           rs == window(query, rows)
<1>1. status = "running" /\ plan[node].op = "limit" /\ scans' = scans /\ returns(rs)
  BY DEF Limit, runs
<1>2. /\ query \in Queries /\ node \in Nat /\ placed(query, node, "limit")
      /\ query' = query /\ node' = node + 1 /\ rows' = rs /\ having_dropped' = having_dropped
  BY <1>1, LaterNode
<1>3. node = limit_at(query)
  BY <1>2 DEF placed
<1>4. ASSUME ~having_dropped PROVE answers(query, rs, A)
  <2>1. PICK b, n : lists(b, n, A) /\ ranked(query, b, n, A) /\ rows = [j \in 1..n |-> project(query, b[j])]
    BY <1>3, <1>4 DEF AInv, Stages, RowsProjected
  <2> DEFINE X == {project(query, b[j]) : j \in 1..n}
             k == window_size(query, n)
             st == start(query)
  <2>2. n \in Nat /\ rows \in [1..n -> X]
    BY <2>1 DEF lists
  <2> HIDE DEF X
  <2>3. /\ k \in Nat /\ rs = [j \in 1..k |-> rows[st + j]]
        /\ \A j \in 1..k : st + j \in 1..n
    <3>1. /\ window_size(query, n) \in Nat
          /\ window(query, rows) = [j \in 1..window_size(query, n) |-> rows[start(query) + j]]
          /\ \A j \in 1..window_size(query, n) : start(query) + j \in 1..n
      BY <1>2, <2>2, WindowFacts
    <3> QED
      BY <3>1
  <2>4. rs = [j \in 1..k |-> project(query, b[st + j])]
    BY <2>1, <2>3
  <2> HIDE DEF A, rs
  <2> QED
    BY <1>2, <2>1, <2>3, <2>4, WindowAnswers
<1> HIDE DEF rs
<1>5. RowsReturned'
  BY <1>1, <1>2, <1>4 DEF RowsReturned
<1>6. RowsGrouped' /\ RowsKept' /\ RowsSorted' /\ RowsProjected'
  BY <1>2, <1>3, Places DEF RowsGrouped, RowsKept, RowsSorted, RowsProjected
<1> QED
  BY <1>5, <1>6 DEF Stages

\* Scanning and joining come before.
LEMMA SourceStage ==
  ASSUME AInv, Scan \/ Join
  PROVE  Stages'
<1>1. status = "running" /\ plan[node].op \in {"scan", "join"}
  BY DEF Scan, Join, runs
<1>2. query \in Queries /\ node \in 1..Len(plan) /\ Len(plan) \in Nat
  BY <1>1, Running DEF AInv
<1>3. node <= joins_end(query)
  BY <1>1, <1>2, PlanFacts DEF plan
<1>4. query' = query /\ (node' = node \/ node' = node + 1)
  BY DEF Scan, Join, fails, returns
<1>5. query' \in Queries /\ node' <= filtered(query') /\ node' \in Nat
  BY <1>2, <1>3, <1>4, Places
<1> QED
  BY <1>5, StagesLaterStill

LEMMA StagesNext == AInv /\ [Next]_vars => AInv'
<1> SUFFICES ASSUME AInv, [Next]_vars PROVE Stages'
  BY NextHolds DEF AInv
<1>1. ASSUME Scan \/ Join PROVE Stages'
  BY <1>1, SourceStage
<1>2. ASSUME Filter \/ Aggregate PROVE Stages'
  BY <1>2, FilterStage, AggregateStage
<1>3. ASSUME Sort \/ Project \/ Limit PROVE Stages'
  BY <1>3, SortStage, ProjectStage, LimitStage
<1>4. ASSUME UNCHANGED execution PROVE Stages'
  BY <1>4, StagesStay DEF execution, AInv
<1>5. ASSUME NEW c \in Colls,
             Create(c) \/ DropCollection(c) \/ \E d \in Docs : Write(c, d) \/ Delete(c, d)
      PROVE  Stages'
  BY <1>4, <1>5 DEF Create, DropCollection, Write, Delete, execution
<1>6. ASSUME UNCHANGED vars PROVE Stages'
  BY <1>4, <1>6 DEF vars, execution
<1> QED
  BY <1>1, <1>2, <1>3, <1>5, <1>6 DEF Next

\* The rows at the end.
LEMMA StagesResult == AInv => ResultIsSql
<1> SUFFICES ASSUME AInv, status = "done", ~having_dropped
             PROVE  answers(query, rows, SqlRows(query, scans))
  BY DEF ResultIsSql, answers
<1>1. query \in Queries /\ node = Len(plan) + 1
  BY DEF AInv, IInv, TypeOK
<1>2. Len(plan) = project_at(query) + (IF query.limit # <<>> \/ query.offset # <<>> THEN 1 ELSE 0)
  BY <1>1, PlanPlaces DEF plan
<1>3. CASE query.limit # <<>> \/ query.offset # <<>>
  <2>1. node = limit_at(query) + 1
    BY <1>1, <1>2, <1>3, Places
  <2> QED
    BY <2>1 DEF AInv, Stages, RowsReturned
<1>4. CASE query.limit = <<>> /\ query.offset = <<>>
  <2> DEFINE A == SqlRows(query, scans)
  <2>1. node = limit_at(query)
    BY <1>1, <1>2, <1>4, Places
  <2>2. PICK b, n : lists(b, n, A) /\ ranked(query, b, n, A) /\ rows = [j \in 1..n |-> project(query, b[j])]
    BY <2>1 DEF AInv, Stages, RowsProjected
  <2>3. n \in Nat
    BY <2>2 DEF lists
  <2>4. start(query) = 0
    BY <1>4 DEF start
  <2>5. window_size(query, n) = n
    <3>1. window_size(query, n) = IF start(query) < n THEN n - start(query) ELSE 0
      BY <1>4 DEF window_size
    <3> QED
      BY <2>3, <2>4, <3>1
  <2>6. \A j \in 1..n : start(query) + j = j
    BY <2>3, <2>4
  <2>7. rows = [j \in 1..n |-> project(query, b[start(query) + j])]
    BY <2>2, <2>6
  <2> HIDE DEF A
  <2> QED
    BY <1>1, <2>2, <2>3, <2>5, <2>6, <2>7, WindowAnswers DEF A
<1> QED
  BY <1>3, <1>4
-----------------------------------------------------------------------------
(* What holds of every query.                                              *)

\* Whatever is written between two nodes, ids stay unique, schemas name every stored
\* field, and as many sources are scanned as the plan has come past.
THEOREM QueryTypeCorrect == Spec => []TypeOK
<1>1. IInv => TypeOK
  BY DEF IInv
<1> QED
  BY <1>1, Invariance, PTL

\* Whatever order the collections came in and whatever was written between the nodes:
\* after each join the rows are SQL's join of what was scanned, outer joins padded with
\* NULL, and after WHERE its filter; no row is lost and none comes twice.
THEOREM JoinsAreSql == Spec => [](RowsJoined /\ RowsFiltered)
<1>1. IInv => RowsJoined /\ RowsFiltered
  BY DEF IInv
<1> QED
  BY <1>1, Invariance, PTL

\* A query fails only for a collection that was dropped or a column an aggregate
\* cannot take.
THEOREM FailuresHaveCause == Spec => []FailsForCause
<1>1. IInv => FailsForCause
  BY DEF IInv
<1> QED
  BY <1>1, Invariance, PTL

\* What a query returns is a window of SQL's answer from the rows it scanned, in an order
\* that ORDER BY allows, whatever orders collections and groups came in, whatever was
\* written between the nodes.
THEOREM ResultsAreSql == Spec => []ResultIsSql
<1>1. Init => AInv
  <2> SUFFICES ASSUME Init PROVE AInv
    OBVIOUS
  <2>1. query \in Queries /\ node = 1 /\ IInv
    BY InitHolds DEF Init
  <2>2. node <= filtered(query) /\ node \in Nat
    BY <2>1, Places
  <2> QED
    BY <2>1, <2>2, StagesLater DEF AInv
<1>2. AInv /\ [Next]_vars => AInv'
  BY StagesNext
<1>3. AInv => ResultIsSql
  BY StagesResult
<1> QED
  BY <1>1, <1>2, <1>3, PTL DEF Spec
===============================================================================
