------------------------------ MODULE FoskLemmas ------------------------------
(***************************************************************************)
(* What the proofs of the other modules need of the operators of the       *)
(* community modules: induction over the natural numbers stated for a set  *)
(* of them, the maximum of a set of positions, left folds, sums, and the   *)
(* sequence in which a weak order sorts a set.                             *)
(***************************************************************************)
EXTENDS SequencesExt, Integers, FiniteSetTheorems, TLAPS

\* A set of natural numbers that has 0 and every successor has them all.
LEMMA SetInduction ==
  ASSUME NEW S, 0 \in S, \A n \in Nat : n \in S => n + 1 \in S
  PROVE  Nat \subseteq S
<1> DEFINE T == {n \in Nat : n \notin S}
<1> SUFFICES ASSUME T # {} PROVE FALSE
  OBVIOUS
<1>1. PICK m \in T : \A k \in T : ~(<<k, m>> \in OpToRel(<, Nat))
  BY WFMin, NatLessThanWellFounded
<1>2. m \in Nat /\ m \notin S
  BY DEF T
<1>3. m - 1 \in Nat /\ m - 1 < m /\ (m - 1) + 1 = m
  BY <1>2
<1>4. <<m - 1, m>> \in OpToRel(<, Nat)
  BY <1>2, <1>3 DEF OpToRel
<1>5. m - 1 \in S
  BY <1>1, <1>3, <1>4
<1> QED
  BY <1>2, <1>3, <1>5

\* A set of positions that is not empty has a maximum.
LEMMA MaxFacts ==
  ASSUME NEW n \in Nat, NEW X \in SUBSET (1..n), X # {}
  PROVE  Max(X) \in X /\ Max(X) \in 1..n /\ \A y \in X : y <= Max(X)
<1> DEFINE HasMax(Y) == \E x \in Y : \A y \in Y : x >= y
           S == {k \in Nat : \A Y \in SUBSET (1..k) : Y # {} => HasMax(Y)}
<1>1. 0 \in S
  <2>1. 1..0 = {}
    OBVIOUS
  <2> QED
    BY <2>1
<1>2. ASSUME NEW k \in Nat, k \in S PROVE k + 1 \in S
  <2> SUFFICES ASSUME NEW Y \in SUBSET (1..(k + 1)), Y # {} PROVE HasMax(Y)
    OBVIOUS
  <2>1. CASE k + 1 \in Y
    <3>1. \A y \in Y : k + 1 >= y
      OBVIOUS
    <3> QED
      BY <2>1, <3>1
  <2>2. CASE k + 1 \notin Y
    <3>1. Y \in SUBSET (1..k)
      BY <2>2
    <3> QED
      BY <1>2, <3>1
  <2> QED
    BY <2>1, <2>2
<1> HIDE DEF S
<1>3. Nat \subseteq S
  BY <1>1, <1>2, SetInduction
<1>4. HasMax(X)
  BY <1>3 DEF S
<1> HIDE DEF HasMax
<1>5. Max(X) \in X /\ \A y \in X : Max(X) >= y
  BY <1>4 DEF HasMax, Max
<1>6. \A y \in X : y \in Int
  OBVIOUS
<1> QED
  BY <1>5, <1>6

\* Two functions of sets of positions that agree on the empty set, and on a set
\* whenever they agree on the set without its maximum, agree.
LEMMA FoldsAgree ==
  ASSUME NEW n \in Nat, NEW G, NEW H, G[{}] = H[{}],
         \A X \in SUBSET (1..n) :
           X # {} /\ G[X \ {Max(X)}] = H[X \ {Max(X)}] => G[X] = H[X]
  PROVE  G[1..n] = H[1..n]
<1> DEFINE S == {k \in Nat : \A X \in SUBSET (1..n) : X \subseteq 1..k => G[X] = H[X]}
<1>1. 0 \in S
  <2>1. 1..0 = {}
    OBVIOUS
  <2> QED
    BY <2>1
<1>2. ASSUME NEW k \in Nat, k \in S PROVE k + 1 \in S
  <2> SUFFICES ASSUME NEW X \in SUBSET (1..n), X \subseteq 1..(k + 1) PROVE G[X] = H[X]
    <3>1. k + 1 \in Nat
      OBVIOUS
    <3> QED
      BY <3>1
  <2>1. CASE X = {}
    BY <2>1
  <2>2. CASE X # {}
    <3> DEFINE m == Max(X)
    <3>1. m \in X /\ \A y \in X : y <= m
      BY <2>2, MaxFacts
    <3>2. X \ {m} \in SUBSET (1..n)
      OBVIOUS
    <3>3. ASSUME NEW y \in X \ {m} PROVE y \in 1..k
      <4>1. m \in 1..(k + 1) /\ y \in 1..(k + 1) /\ y <= m /\ y # m
        BY <3>1
      <4> HIDE DEF m
      <4> QED
        BY <4>1
    <3>4. G[X \ {m}] = H[X \ {m}]
      BY <1>2, <3>2, <3>3
    <3> QED
      BY <2>2, <3>4
  <2> QED
    BY <2>1, <2>2
<1> HIDE DEF S
<1>3. Nat \subseteq S
  BY <1>1, <1>2, SetInduction
<1>4. n \in S
  BY <1>3
<1> QED
  BY <1>4 DEF S
-----------------------------------------------------------------------------
(* FlattenSeq.                                                             *)

\* The elements at different positions of s are different under the function K.
distinct(K, s) == \A p, q \in DOMAIN s : K[s[p]] = K[s[q]] => p = q

\* The elements of a concatenation.
LEMMA RangeConcat ==
  ASSUME NEW X, NEW s \in Seq(X), NEW t \in Seq(X)
  PROVE  s \o t \in Seq(X) /\ Range(s \o t) = Range(s) \cup Range(t)
<1>1. /\ s \o t \in Seq(X) /\ DOMAIN (s \o t) = 1..(Len(s) + Len(t))
      /\ \A i \in 1..Len(s) : (s \o t)[i] = s[i]
      /\ \A i \in 1..Len(t) : (s \o t)[Len(s) + i] = t[i]
  OBVIOUS
<1>2. \A i \in 1..(Len(s) + Len(t)) :
        i \in 1..Len(s) \/ \E j \in 1..Len(t) : i = Len(s) + j
  <2>1. ASSUME NEW i \in 1..(Len(s) + Len(t)), i \notin 1..Len(s)
        PROVE  i - Len(s) \in 1..Len(t) /\ i = Len(s) + (i - Len(s))
    BY <2>1
  <2> QED
    BY <2>1
<1>3. /\ \A i \in 1..Len(s) : i \in 1..(Len(s) + Len(t))
      /\ \A i \in 1..Len(t) : Len(s) + i \in 1..(Len(s) + Len(t))
  OBVIOUS
<1> DEFINE u == s \o t
<1> HIDE DEF u
<1>4. \A i \in DOMAIN u : u[i] \in Range(s) \cup Range(t)
  <2> SUFFICES ASSUME NEW i \in 1..(Len(s) + Len(t)) PROVE u[i] \in Range(s) \cup Range(t)
    BY <1>1 DEF u
  <2>1. CASE i \in 1..Len(s)
    <3>1. u[i] = s[i] /\ i \in DOMAIN s
      BY <1>1, <2>1 DEF u
    <3> QED
      BY <3>1 DEF Range
  <2>2. ASSUME NEW j \in 1..Len(t), i = Len(s) + j PROVE u[i] \in Range(t)
    <3>1. u[i] = t[j] /\ j \in DOMAIN t
      BY <1>1, <2>2 DEF u
    <3> QED
      BY <3>1 DEF Range
  <2> QED
    BY <1>2, <2>1, <2>2
<1>5. \A i \in DOMAIN s : s[i] \in Range(u)
  BY <1>1, <1>3 DEF Range, u
<1>6. \A i \in DOMAIN t : t[i] \in Range(u)
  <2> SUFFICES ASSUME NEW i \in 1..Len(t) PROVE t[i] \in Range(u)
    OBVIOUS
  <2>1. t[i] = u[Len(s) + i] /\ Len(s) + i \in DOMAIN u
    BY <1>1, <1>3 DEF u
  <2> QED
    BY <2>1 DEF Range
<1>7. Range(u) = Range(s) \cup Range(t)
  BY <1>4, <1>5, <1>6 DEF Range
<1> QED
  BY <1>1, <1>7 DEF u

\* A concatenation of what is distinct and has nothing in common is distinct.
LEMMA DistinctConcat ==
  ASSUME NEW X, NEW s \in Seq(X), NEW t \in Seq(X), NEW K, distinct(K, s), distinct(K, t),
         \A x \in Range(s), y \in Range(t) : K[x] # K[y]
  PROVE  distinct(K, s \o t)
<1> DEFINE u == s \o t
<1>1. /\ DOMAIN u = 1..(Len(s) + Len(t))
      /\ \A i \in 1..Len(s) : u[i] = s[i]
      /\ \A i \in 1..Len(t) : u[Len(s) + i] = t[i]
  OBVIOUS
<1>2. \A i \in DOMAIN u :
        \/ i \in 1..Len(s) /\ u[i] = s[i] /\ u[i] \in Range(s)
        \/ \E j \in 1..Len(t) : i = Len(s) + j /\ u[i] = t[j] /\ u[i] \in Range(t)
  <2>1. ASSUME NEW i \in 1..(Len(s) + Len(t)), i \notin 1..Len(s)
        PROVE  i - Len(s) \in 1..Len(t) /\ i = Len(s) + (i - Len(s))
    BY <2>1
  <2> QED
    BY <1>1, <2>1 DEF Range
<1> HIDE DEF u
<1>3. ASSUME NEW p \in DOMAIN u, NEW q \in DOMAIN u, K[u[p]] = K[u[q]] PROVE p = q
  <2>1. CASE p \in 1..Len(s) /\ u[p] = s[p] /\ u[p] \in Range(s)
    BY <1>2, <1>3, <2>1 DEF distinct
  <2>2. CASE q \in 1..Len(s) /\ u[q] = s[q] /\ u[q] \in Range(s)
    BY <1>2, <1>3, <2>2 DEF distinct
  <2>3. CASE /\ \E j \in 1..Len(t) : p = Len(s) + j /\ u[p] = t[j]
             /\ \E j \in 1..Len(t) : q = Len(s) + j /\ u[q] = t[j]
    BY <1>3, <2>3 DEF distinct
  <2> QED
    BY <1>2, <2>1, <2>2, <2>3
<1> QED
  BY <1>3 DEF distinct, u

\* g[i] is the concatenation of the first i sequences of ss.
is_flatten(g, ss, n) ==
  g = [i \in 1..n |-> IF i = 1 THEN ss[i] ELSE g[i - 1] \o ss[i]]

\* There is such a function.
LEMMA FlattenExists ==
  ASSUME NEW ss
  PROVE  \A n \in Nat : \E g : is_flatten(g, ss, n)
<1> DEFINE S == {n \in Nat : \E g : is_flatten(g, ss, n)}
<1>1. 0 \in S
  <2>1. is_flatten(<<>>, ss, 0)
    BY DEF is_flatten
  <2> QED
    BY <2>1
<1>2. ASSUME NEW n \in Nat, n \in S PROVE n + 1 \in S
  <2>1. PICK g : is_flatten(g, ss, n)
    BY <1>2
  <2> DEFINE last == IF n = 0 THEN ss[1] ELSE g[n] \o ss[n + 1]
             h == [i \in 1..(n + 1) |-> IF i = n + 1 THEN last ELSE g[i]]
  <2>2. ASSUME NEW i \in 1..(n + 1)
        PROVE  h[i] = IF i = 1 THEN ss[i] ELSE h[i - 1] \o ss[i]
    <3>1. CASE i = n + 1 /\ n = 0
      BY <3>1
    <3>2. CASE i = n + 1 /\ n # 0
      <4>1. i - 1 = n /\ n \in 1..(n + 1) /\ n # n + 1 /\ i # 1
        BY <3>2
      <4>2. h[i] = g[n] \o ss[n + 1]
        BY <3>2
      <4>3. h[n] = g[n]
        BY <4>1
      <4> HIDE DEF h
      <4> QED
        BY <3>2, <4>1, <4>2, <4>3
    <3>3. CASE i # n + 1
      <4>1. i \in 1..n
        BY <3>3
      <4>2. h[i] = IF i = 1 THEN ss[i] ELSE g[i - 1] \o ss[i]
        BY <2>1, <4>1, <3>3 DEF is_flatten
      <4>3. i # 1 => i - 1 \in 1..(n + 1) /\ i - 1 # n + 1
        BY <4>1
      <4> QED
        BY <4>2, <4>3
    <3> QED
      BY <3>1, <3>2, <3>3
  <2>3. is_flatten(h, ss, n + 1)
    BY <2>2 DEF is_flatten
  <2> QED
    BY <2>3
<1> HIDE DEF S
<1>3. Nat \subseteq S
  BY <1>1, <1>2, SetInduction
<1> QED
  BY <1>3 DEF S

\* FlattenSeq concatenates sequences from left to right.
LEMMA FlattenDef ==
  ASSUME NEW X, NEW n \in Nat, NEW ss \in [1..n -> Seq(X)]
  PROVE  /\ n = 0 => FlattenSeq(ss) = <<>>
         /\ n # 0 => \E g : /\ FlattenSeq(ss) = g[n] /\ g[1] = ss[1]
                            /\ \A i \in 2..n : g[i] = g[i - 1] \o ss[i]
<1>1. ss \in Seq(Seq(X)) /\ Len(ss) = n
  OBVIOUS
<1>2. CASE n = 0
  BY <1>1, <1>2 DEF FlattenSeq
<1>3. CASE n # 0
  <2> DEFINE g == CHOOSE g : g = [i \in 1..Len(ss) |-> IF i = 1 THEN ss[i] ELSE g[i - 1] \o ss[i]]
  <2>1. is_flatten(g, ss, n)
    BY <1>1, FlattenExists DEF is_flatten
  <2>2. FlattenSeq(ss) = g[n]
    BY <1>1, <1>3 DEF FlattenSeq
  <2> HIDE DEF g
  <2>3. \A i \in 1..n : g[i] = IF i = 1 THEN ss[i] ELSE g[i - 1] \o ss[i]
    BY <2>1 DEF is_flatten
  <2>4. 1 \in 1..n /\ \A i \in 2..n : i \in 1..n /\ i # 1
    BY <1>3
  <2>5. g[1] = ss[1] /\ \A i \in 2..n : g[i] = g[i - 1] \o ss[i]
    BY <2>3, <2>4
  <2> QED
    BY <1>3, <2>2, <2>5
<1> QED
  BY <1>2, <1>3

\* Its elements are those of the sequences, and they differ under K if K tells apart
\* the elements of each sequence and those of different sequences.
LEMMA FlattenDistinct ==
  ASSUME NEW X, NEW n \in Nat, NEW ss \in [1..n -> Seq(X)], NEW K
  PROVE  /\ FlattenSeq(ss) \in Seq(X)
         /\ Range(FlattenSeq(ss)) = UNION {Range(ss[i]) : i \in 1..n}
         /\ /\ \A i \in 1..n : distinct(K, ss[i])
            /\ \A i, j \in 1..n : i # j => \A x \in Range(ss[i]), y \in Range(ss[j]) : K[x] # K[y]
            => distinct(K, FlattenSeq(ss))
<1> DEFINE Apart(i) == /\ \A j \in 1..i : distinct(K, ss[j])
                       /\ \A j, k \in 1..i : j # k =>
                            \A x \in Range(ss[j]), y \in Range(ss[k]) : K[x] # K[y]
           P(s, i) == /\ s \in Seq(X)
                      /\ Range(s) = UNION {Range(ss[j]) : j \in 1..i}
                      /\ Apart(i) => distinct(K, s)
<1>1. CASE n = 0
  <2>1. FlattenSeq(ss) = <<>>
    BY <1>1, FlattenDef
  <2> QED
    BY <1>1, <2>1 DEF distinct, Range
<1>2. CASE n # 0
  <2>1. PICK g : /\ FlattenSeq(ss) = g[n] /\ g[1] = ss[1]
                 /\ \A i \in 2..n : g[i] = g[i - 1] \o ss[i]
    BY <1>2, FlattenDef
  <2> DEFINE S == {i \in Nat : i + 1 \in 1..n => P(g[i + 1], i + 1)}
  <2>2. 0 \in S
    BY <1>2, <2>1
  <2>3. ASSUME NEW m \in Nat, m \in S, m + 2 \in 1..n PROVE P(g[m + 2], m + 2)
    <3> DEFINE i == m + 2
               s == g[m + 1]
               t == ss[i]
    <3>1. i \in 2..n /\ i \in 1..n /\ m + 1 \in 1..n /\ i - 1 = m + 1 /\ 1..i = (1..(m + 1)) \cup {i} /\ i \notin 1..(m + 1)
      BY <2>3
    <3>2. P(s, m + 1)
      BY <2>3, <3>1
    <3>3. g[i] = s \o t /\ t \in Seq(X)
      BY <2>1, <3>1
    <3> HIDE DEF i, s, t
    <3>4. g[i] \in Seq(X) /\ Range(g[i]) = Range(s) \cup Range(t)
      BY <3>2, <3>3, RangeConcat
    <3>5. Range(g[i]) = UNION {Range(ss[j]) : j \in 1..i}
      BY <3>1, <3>2, <3>4 DEF t
    <3>6. ASSUME Apart(i) PROVE distinct(K, g[i])
      <4>1. Apart(m + 1) /\ distinct(K, t)
        BY <3>1, <3>6 DEF t
      <4>2. \A x \in Range(s), y \in Range(t) : K[x] # K[y]
        BY <3>1, <3>2, <3>6 DEF t
      <4>3. s \in Seq(X) /\ distinct(K, s)
        BY <3>2, <4>1
      <4> QED
        BY <3>3, <4>1, <4>2, <4>3, DistinctConcat
    <3> QED
      BY <3>4, <3>5, <3>6 DEF i
  <2>4. ASSUME NEW m \in Nat, m \in S PROVE m + 1 \in S
    <3>1. (m + 1) + 1 = m + 2
      OBVIOUS
    <3>2. m + 2 \in 1..n => P(g[m + 2], m + 2)
      BY <2>3, <2>4
    <3> HIDE DEF P
    <3> QED
      BY <3>1, <3>2
  <2> HIDE DEF S, P
  <2>5. Nat \subseteq S
    BY <2>2, <2>4, SetInduction
  <2>6. n - 1 \in S /\ (n - 1) + 1 = n
    BY <1>2, <2>5
  <2>7. P(g[n], n)
    BY <1>2, <2>6 DEF S
  <2> QED
    BY <2>1, <2>7 DEF P
<1> QED
  BY <1>1, <1>2

\* The first half on its own.
LEMMA FlattenFacts ==
  ASSUME NEW X, NEW n \in Nat, NEW ss \in [1..n -> Seq(X)]
  PROVE  /\ FlattenSeq(ss) \in Seq(X)
         /\ Range(FlattenSeq(ss)) = UNION {Range(ss[i]) : i \in 1..n}
<1> DEFINE P(K) == /\ FlattenSeq(ss) \in Seq(X)
                   /\ Range(FlattenSeq(ss)) = UNION {Range(ss[i]) : i \in 1..n}
<1>1. \A K : P(K)
  BY FlattenDistinct
<1> QED
  BY <1>1
-----------------------------------------------------------------------------
(* Left folds of a function, by sets of positions.                         *)

\* F[X] is the fold of G over the positions X of t.
is_left_fold(F, n, D, base, G, t) ==
  /\ F \in [SUBSET (1..n) -> D] /\ F[{}] = base
  /\ \A X \in SUBSET (1..n) : X # {} => F[X] = G[F[X \ {Max(X)}]][t[Max(X)]]

LEMMA FoldExists ==
  ASSUME NEW n \in Nat, NEW D, NEW V, NEW base \in D,
         NEW G \in [D -> [V -> D]], NEW t \in [1..n -> V]
  PROVE  \E F : is_left_fold(F, n, D, base, G, t)
<1> DEFINE S == {k \in Nat : k <= n => \E F : is_left_fold(F, k, D, base, G, t)}
<1>1. 0 \in S
  <2> DEFINE F == [X \in SUBSET (1..0) |-> base]
  <2>1. 1..0 = {}
    OBVIOUS
  <2>2. is_left_fold(F, 0, D, base, G, t)
    BY <2>1 DEF is_left_fold
  <2> QED
    BY <2>2
<1>2. ASSUME NEW k \in Nat, k \in S PROVE k + 1 \in S
  <2> SUFFICES ASSUME k + 1 <= n PROVE \E F : is_left_fold(F, k + 1, D, base, G, t)
    OBVIOUS
  <2>1. PICK F : is_left_fold(F, k, D, base, G, t)
    BY <1>2
  <2>2. /\ F \in [SUBSET (1..k) -> D] /\ F[{}] = base
        /\ \A X \in SUBSET (1..k) : X # {} => F[X] = G[F[X \ {Max(X)}]][t[Max(X)]]
    BY <2>1 DEF is_left_fold
  <2> DEFINE H == [X \in SUBSET (1..(k + 1)) |->
                     IF k + 1 \in X THEN G[F[X \ {k + 1}]][t[k + 1]] ELSE F[X]]
  <2>3. ASSUME NEW X \in SUBSET (1..(k + 1)) PROVE (k + 1 \notin X => X \in SUBSET (1..k)) /\ X \ {k + 1} \in SUBSET (1..k)
    <3>1. \A y \in 1..(k + 1) : y # k + 1 => y \in 1..k
      OBVIOUS
    <3> QED
      BY <3>1
  <2>4. k + 1 \in 1..n /\ t[k + 1] \in V
    OBVIOUS
  <2>5. ASSUME NEW X \in SUBSET (1..(k + 1)) PROVE H[X] \in D
    <3>1. CASE k + 1 \in X
      <4>1. F[X \ {k + 1}] \in D
        BY <2>2, <2>3
      <4> QED
        BY <2>4, <3>1, <4>1
    <3>2. CASE k + 1 \notin X
      BY <2>2, <2>3, <3>2
    <3> QED
      BY <3>1, <3>2
  <2>6. H[{}] = base
    BY <2>2
  <2>7. ASSUME NEW X \in SUBSET (1..(k + 1)), X # {}
        PROVE  H[X] = G[H[X \ {Max(X)}]][t[Max(X)]]
    <3>0. k + 1 \in Nat
      OBVIOUS
    <3>1. PICK m : m = Max(X) /\ m \in X /\ m \in 1..(k + 1) /\ \A y \in X : y <= m
      BY <2>7, <3>0, MaxFacts
    <3>2. CASE k + 1 \in X
      <4>1. m = k + 1
        BY <3>1, <3>2
      <4>2. X \ {k + 1} \in SUBSET (1..(k + 1)) /\ k + 1 \notin X \ {k + 1}
        OBVIOUS
      <4>3. H[X \ {k + 1}] = F[X \ {k + 1}]
        BY <4>2
      <4>4. H[X] = G[F[X \ {k + 1}]][t[k + 1]]
        BY <3>2
      <4> HIDE DEF H
      <4> QED
        BY <3>1, <4>1, <4>3, <4>4
    <3>3. CASE k + 1 \notin X
      <4>1. X \in SUBSET (1..k) /\ X \ {m} \in SUBSET (1..(k + 1)) /\ k + 1 \notin X \ {m}
        BY <2>3, <3>3
      <4>2. H[X] = F[X] /\ H[X \ {m}] = F[X \ {m}]
        BY <3>3, <4>1
      <4>3. F[X] = G[F[X \ {m}]][t[m]]
        BY <2>2, <2>7, <3>1, <4>1
      <4> HIDE DEF H
      <4> QED
        BY <3>1, <4>2, <4>3
    <3> QED
      BY <3>2, <3>3
  <2>8. H \in [SUBSET (1..(k + 1)) -> D]
    BY <2>5
  <2> HIDE DEF H
  <2>9. is_left_fold(H, k + 1, D, base, G, t)
    BY <2>6, <2>7, <2>8 DEF is_left_fold
  <2> QED
    BY <2>9
<1> HIDE DEF S
<1>3. Nat \subseteq S
  BY <1>1, <1>2, SetInduction
<1> QED
  BY <1>3 DEF S

\* A fold that an element of T takes to P, and that never leaves P, ends in P if there
\* is such an element.
reaching(D, V, G, P, T) ==
  /\ \A a \in D : \A v \in T : G[a][v] \in P
  /\ \A a \in D \cap P : \A v \in V : G[a][v] \in P

LEMMA FoldReaches ==
  ASSUME NEW n \in Nat, NEW D, NEW V, NEW base, NEW G, NEW t \in [1..n -> V],
         NEW F, is_left_fold(F, n, D, base, G, t),
         NEW P, NEW T, reaching(D, V, G, P, T), NEW i \in 1..n, t[i] \in T
  PROVE  F[1..n] \in P
<1> DEFINE S == {k \in Nat : \A X \in SUBSET (1..n) : X \subseteq 1..k /\ i \in X => F[X] \in P}
<1>0. /\ F \in [SUBSET (1..n) -> D]
      /\ \A X \in SUBSET (1..n) : X # {} => F[X] = G[F[X \ {Max(X)}]][t[Max(X)]]
      /\ \A a \in D : \A v \in T : G[a][v] \in P
      /\ \A a \in D \cap P : \A v \in V : G[a][v] \in P
  BY DEF is_left_fold, reaching
<1>1. 0 \in S
  <2>1. 1..0 = {}
    OBVIOUS
  <2> QED
    BY <2>1
<1>2. ASSUME NEW k \in Nat, k \in S PROVE k + 1 \in S
  <2> SUFFICES ASSUME NEW X \in SUBSET (1..n), X \subseteq 1..(k + 1), i \in X PROVE F[X] \in P
    <3>1. k + 1 \in Nat
      OBVIOUS
    <3> QED
      BY <3>1
  <2>1. PICK m : m = Max(X) /\ m \in X /\ m \in 1..n /\ \A y \in X : y <= m
    BY MaxFacts
  <2>2. X \ {m} \in SUBSET (1..n) /\ F[X \ {m}] \in D /\ t[m] \in V
    BY <1>0, <2>1
  <2>3. F[X] = G[F[X \ {m}]][t[m]]
    BY <1>0, <2>1
  <2>4. CASE m = i
    BY <1>0, <2>2, <2>3, <2>4
  <2>5. CASE m # i
    <3>1. ASSUME NEW y \in X \ {m} PROVE y \in 1..k
      <4>1. m \in 1..(k + 1) /\ y \in 1..(k + 1) /\ y <= m /\ y # m
        BY <2>1
      <4> QED
        BY <4>1
    <3>2. F[X \ {m}] \in P
      BY <1>2, <2>2, <2>5, <3>1
    <3> QED
      BY <1>0, <2>2, <2>3, <3>2
  <2> QED
    BY <2>4, <2>5
<1> HIDE DEF S
<1>3. n \in S
  BY <1>1, <1>2, SetInduction
<1> QED
  BY <1>3 DEF S
-----------------------------------------------------------------------------
(* The orders of a finite set.                                             *)

LEMMA OrderFacts ==
  ASSUME NEW S, IsFiniteSet(S)
  PROVE  /\ Cardinality(S) \in Nat
         /\ SetToSeqs(S) # {}
         /\ \A s \in SetToSeqs(S) : /\ s \in [1..Cardinality(S) -> S]
                                    /\ \A i, j \in 1..Cardinality(S) : s[i] = s[j] => i = j
                                    /\ \A x \in S : \E i \in 1..Cardinality(S) : s[i] = x
<1> DEFINE n == Cardinality(S)
<1>1. n \in Nat /\ ExistsBijection(1..n, S)
  BY FS_CardinalityType
<1>2. SetToSeqs(S) = {f \in [1..n -> S] : \A i, j \in 1..n : i # j => f[i] # f[j]}
  BY DEF SetToSeqs
<1>3. IsFiniteSet(1..n) /\ Cardinality(1..n) = n
  <2> HIDE DEF n
  <2>1. 1 \in Int /\ n \in Int /\ (IF 1 > n THEN 0 ELSE n - 1 + 1) = n
    BY <1>1
  <2> QED
    BY <2>1, FS_Interval
<1> HIDE DEF n
<1>4. PICK f : f \in Injection(1..n, S)
  BY <1>1 DEF ExistsBijection, Bijection
<1>5. f \in SetToSeqs(S)
  BY <1>2, <1>4 DEF Injection, IsInjective
<1>6. ASSUME NEW s \in SetToSeqs(S)
      PROVE  /\ s \in [1..n -> S] /\ \A i, j \in 1..n : s[i] = s[j] => i = j
             /\ \A x \in S : \E i \in 1..n : s[i] = x
  <2>1. s \in [1..n -> S] /\ \A i, j \in 1..n : s[i] = s[j] => i = j
    BY <1>2
  <2>2. s \in Injection(1..n, S)
    BY <2>1 DEF Injection, IsInjective
  <2>3. s \in Surjection(1..n, S)
    <3>1. Cardinality(1..n) = Cardinality(S)
      BY <1>3 DEF n
    <3> QED
      BY <2>2, <3>1, FS_Injection
  <2> QED
    BY <2>1, <2>3 DEF Surjection
<1> QED
  BY <1>1, <1>5, <1>6 DEF n

\* A set of natural numbers that is not empty has a least one.
LEMMA LeastFacts ==
  ASSUME NEW T \in SUBSET Nat, T # {}
  PROVE  \E m \in T : \A k \in T : m <= k
<1>1. PICK m \in T : \A k \in T : ~(<<k, m>> \in OpToRel(<, Nat))
  BY WFMin, NatLessThanWellFounded
<1>2. ASSUME NEW k \in T PROVE m <= k
  <2>1. k \in Nat /\ m \in Nat
    OBVIOUS
  <2>2. k < m => <<k, m>> \in OpToRel(<, Nat)
    BY <2>1 DEF OpToRel
  <2>3. ~(k < m)
    BY <1>1, <2>2
  <2> QED
    BY <2>1, <2>3
<1> QED
  BY <1>2

\* What holds of no position, and of a set of positions whenever it does of the set
\* without its maximum, holds of all.
LEMMA PositionsInduction ==
  ASSUME NEW n \in Nat, NEW T \in SUBSET SUBSET (1..n), {} \in T,
         \A X \in SUBSET (1..n) : X # {} /\ X \ {Max(X)} \in T => X \in T
  PROVE  T = SUBSET (1..n)
<1> DEFINE S == {k \in Nat : \A X \in SUBSET (1..n) : X \subseteq 1..k => X \in T}
<1>1. 0 \in S
  <2>1. \A X : X \subseteq 1..0 => X = {}
    OBVIOUS
  <2> QED
    BY <2>1
<1>2. ASSUME NEW k \in Nat, k \in S PROVE k + 1 \in S
  <2> SUFFICES ASSUME NEW X \in SUBSET (1..n), X \subseteq 1..(k + 1) PROVE X \in T
    <3>1. k + 1 \in Nat
      OBVIOUS
    <3> QED
      BY <3>1
  <2>1. CASE X = {}
    BY <2>1
  <2>2. CASE X # {}
    <3> DEFINE m == Max(X)
    <3>1. m \in X /\ \A y \in X : y <= m
      BY <2>2, MaxFacts
    <3>2. X \ {m} \in SUBSET (1..n)
      OBVIOUS
    <3>3. ASSUME NEW y \in X \ {m} PROVE y \in 1..k
      <4>1. m \in 1..(k + 1) /\ y \in 1..(k + 1) /\ y <= m /\ y # m
        BY <3>1
      <4> HIDE DEF m
      <4> QED
        BY <4>1
    <3>4. X \ {m} \in T
      BY <1>2, <3>2, <3>3
    <3> QED
      BY <2>2, <3>4
  <2> QED
    BY <2>1, <2>2
<1> HIDE DEF S
<1>3. n \in S
  BY <1>1, <1>2, SetInduction
<1>4. \A X \in SUBSET (1..n) : X \in T
  BY <1>3 DEF S
<1> QED
  BY <1>4

\* Sums over a finite set: s and x, with x taken from s at will.
is_sum(Sum, D, f) ==
  /\ Sum \in [SUBSET D -> Int] /\ Sum[{}] = 0
  /\ \A s \in SUBSET D : \A x \in s : Sum[s] = f[x] + Sum[s \ {x}]

\* Over positions.
LEMMA PositionsSum ==
  ASSUME NEW n \in Nat, NEW g \in [1..n -> Int]
  PROVE  \E F : is_sum(F, 1..n, g)
<1> DEFINE G == [a \in Int |-> [v \in Int |-> a + v]]
<1>1. G \in [Int -> [Int -> Int]] /\ \A a, v \in Int : G[a][v] = a + v
  OBVIOUS
<1> HIDE DEF G
<1>0. 0 \in Int
  OBVIOUS
<1>2. PICK F : is_left_fold(F, n, Int, 0, G, g)
  BY <1>0, <1>1, FoldExists
<1>3. /\ F \in [SUBSET (1..n) -> Int] /\ F[{}] = 0
      /\ \A X \in SUBSET (1..n) : X # {} => F[X] = F[X \ {Max(X)}] + g[Max(X)]
  <2>1. F \in [SUBSET (1..n) -> Int] /\ F[{}] = 0
    BY <1>2 DEF is_left_fold
  <2>2. ASSUME NEW X \in SUBSET (1..n), X # {} PROVE F[X] = F[X \ {Max(X)}] + g[Max(X)]
    <3>1. PICK m \in 1..n : m = Max(X)
      BY <2>2, MaxFacts
    <3>2. F[X] = G[F[X \ {m}]][g[m]]
      BY <1>2, <2>2, <3>1 DEF is_left_fold
    <3>3. F[X \ {m}] \in Int /\ g[m] \in Int
      BY <2>1
    <3> QED
      BY <1>1, <3>1, <3>2, <3>3
  <2> QED
    BY <2>1, <2>2
<1> DEFINE T == {X \in SUBSET (1..n) : \A i \in X : F[X] = g[i] + F[X \ {i}]}
<1>4. {} \in T
  OBVIOUS
<1>5. ASSUME NEW X \in SUBSET (1..n), X # {}, X \ {Max(X)} \in T PROVE X \in T
  <2>1. PICK m \in 1..n : m = Max(X) /\ m \in X /\ \A y \in X : y <= m
    BY <1>5, MaxFacts
  <2> SUFFICES ASSUME NEW i \in X PROVE F[X] = g[i] + F[X \ {i}]
    OBVIOUS
  <2>2. F[X] = F[X \ {m}] + g[m]
    BY <1>3, <2>1
  <2>3. g[m] \in Int /\ g[i] \in Int /\ F[X \ {m}] \in Int /\ F[X \ {i}] \in Int
    BY <1>3
  <2>4. CASE i = m
    BY <2>2, <2>3, <2>4
  <2>5. CASE i # m
    <3>1. F[X \ {m}] = g[i] + F[(X \ {m}) \ {i}]
      BY <1>5, <2>1, <2>5
    <3>2. m \in X \ {i} /\ X \ {i} \in SUBSET (1..n)
      BY <2>1, <2>5
    <3>3. Max(X \ {i}) = m
      <4>1. Max(X \ {i}) \in X \ {i} /\ m <= Max(X \ {i}) /\ Max(X \ {i}) \in 1..n
        BY <3>2, MaxFacts
      <4>2. Max(X \ {i}) <= m
        BY <2>1, <4>1
      <4> QED
        BY <4>1, <4>2
    <3>4. F[X \ {i}] = F[(X \ {i}) \ {m}] + g[m]
      BY <1>3, <3>2, <3>3
    <3>5. (X \ {i}) \ {m} = (X \ {m}) \ {i}
      OBVIOUS
    <3>6. F[(X \ {m}) \ {i}] \in Int
      BY <1>3
    <3> DEFINE rest == F[(X \ {m}) \ {i}]
               a == g[i]
               b == g[m]
    <3>7. F[X] = (a + rest) + b /\ F[X \ {i}] = rest + b
      BY <2>2, <3>1, <3>4, <3>5
    <3>8. rest \in Int /\ a \in Int /\ b \in Int
      BY <2>3, <3>6
    <3> HIDE DEF rest, a, b
    <3>9. (a + rest) + b = a + (rest + b)
      BY <3>8
    <3> QED
      BY <3>7, <3>9 DEF a
  <2> QED
    BY <2>4, <2>5
<1> HIDE DEF T
<1>6. T = SUBSET (1..n)
  <2>1. T \in SUBSET SUBSET (1..n)
    BY DEF T
  <2> QED
    BY <1>4, <1>5, <2>1, PositionsInduction
<1>7. is_sum(F, 1..n, g)
  BY <1>3, <1>6 DEF T, is_sum
<1> QED
  BY <1>7

LEMMA SumExists ==
  ASSUME NEW D, IsFiniteSet(D), NEW f \in [D -> Int]
  PROVE  \E Sum : is_sum(Sum, D, f)
<1> DEFINE n == Cardinality(D)
<1>1. n \in Nat /\ ExistsBijection(1..n, D)
  BY FS_CardinalityType
<1> HIDE DEF n
<1>2. PICK b \in [1..n -> D] : (\A i, j \in 1..n : b[i] = b[j] => i = j) /\ \A x \in D : \E i \in 1..n : b[i] = x
  BY <1>1 DEF ExistsBijection, Bijection, Injection, IsInjective, Surjection
<1> DEFINE g == [i \in 1..n |-> f[b[i]]]
           at(s) == {i \in 1..n : b[i] \in s}
<1>3. g \in [1..n -> Int]
  OBVIOUS
<1>4. PICK F : is_sum(F, 1..n, g)
  BY <1>1, <1>3, PositionsSum
<1> DEFINE H == [s \in SUBSET D |-> F[at(s)]]
<1>5. \A s \in SUBSET D : at(s) \in SUBSET (1..n)
  OBVIOUS
<1>6. H \in [SUBSET D -> Int] /\ H[{}] = 0
  BY <1>4, <1>5 DEF is_sum
<1>7. ASSUME NEW s \in SUBSET D, NEW x \in s PROVE H[s] = f[x] + H[s \ {x}]
  <2>1. PICK i \in 1..n : b[i] = x
    BY <1>2
  <2>2. at(s \ {x}) = at(s) \ {i} /\ i \in at(s)
    BY <1>2, <2>1
  <2>3. F[at(s)] = g[i] + F[at(s) \ {i}]
    BY <1>4, <1>5, <2>2 DEF is_sum
  <2> QED
    BY <2>1, <2>2, <2>3
<1>8. is_sum(H, D, f)
  BY <1>6, <1>7 DEF is_sum
<1> QED
  BY <1>8

\* Iterating with any choice gives the sum.
iterates(H, D, f) ==
  H = [s \in SUBSET D |-> IF s = {} THEN 0 ELSE f[CHOOSE x \in s : TRUE] + H[s \ {CHOOSE x \in s : TRUE}]]

LEMMA SumIterates ==
  ASSUME NEW D, NEW f, NEW Sum, is_sum(Sum, D, f)
  PROVE  iterates(Sum, D, f)
<1> DEFINE c(s) == CHOOSE x \in s : TRUE
           E == [s \in SUBSET D |-> IF s = {} THEN 0 ELSE f[c(s)] + Sum[s \ {c(s)}]]
<1>1. ASSUME NEW s \in SUBSET D, s # {} PROVE c(s) \in s
  BY <1>1
<1> HIDE DEF c
<1>2. \A s \in SUBSET D : Sum[s] = E[s]
  BY <1>1 DEF is_sum
<1>3. Sum = E
  <2>1. Sum = [s \in SUBSET D |-> Sum[s]]
    BY DEF is_sum
  <2> QED
    BY <1>2, <2>1
<1> QED
  BY <1>3 DEF iterates, c

LEMMA IterationUnique ==
  ASSUME NEW D, IsFiniteSet(D), NEW f, NEW G, NEW H, iterates(G, D, f), iterates(H, D, f)
  PROVE  G[D] = H[D]
<1> DEFINE c(s) == CHOOSE x \in s : TRUE
           S == {k \in Nat : \A s \in SUBSET D : Cardinality(s) = k => G[s] = H[s]}
<1>0. ASSUME NEW s \in SUBSET D
      PROVE  /\ s = {} => G[s] = 0 /\ H[s] = 0
             /\ s # {} => /\ c(s) \in s
                          /\ G[s] = f[c(s)] + G[s \ {c(s)}] /\ H[s] = f[c(s)] + H[s \ {c(s)}]
  <2>1. s # {} => c(s) \in s
    OBVIOUS
  <2>2. /\ G[s] = IF s = {} THEN 0 ELSE f[c(s)] + G[s \ {c(s)}]
        /\ H[s] = IF s = {} THEN 0 ELSE f[c(s)] + H[s \ {c(s)}]
    BY DEF iterates
  <2> HIDE DEF c
  <2> QED
    BY <2>1, <2>2
<1> HIDE DEF c
<1>1. 0 \in S
  <2> SUFFICES ASSUME NEW s \in SUBSET D, Cardinality(s) = 0 PROVE G[s] = H[s]
    OBVIOUS
  <2>1. s = {}
    BY FS_Subset, FS_EmptySet
  <2> QED
    BY <1>0, <2>1
<1>2. ASSUME NEW k \in Nat, k \in S PROVE k + 1 \in S
  <2> SUFFICES ASSUME NEW s \in SUBSET D, Cardinality(s) = k + 1 PROVE G[s] = H[s]
    <3>1. k + 1 \in Nat
      OBVIOUS
    <3> QED
      BY <3>1
  <2>1. IsFiniteSet(s)
    BY FS_Subset
  <2>2. s # {}
    <3>1. k + 1 # 0
      OBVIOUS
    <3> QED
      BY <3>1, FS_EmptySet
  <2>3. c(s) \in s
    BY <1>0, <2>2
  <2>4. Cardinality(s \ {c(s)}) = k
    <3>1. Cardinality(s \ {c(s)}) = Cardinality(s) - 1
      BY <2>1, <2>3, FS_RemoveElement
    <3> QED
      BY <3>1
  <2>5. G[s \ {c(s)}] = H[s \ {c(s)}]
    BY <1>2, <2>4
  <2> QED
    BY <1>0, <2>2, <2>5
<1> HIDE DEF S
<1>3. Nat \subseteq S
  BY <1>1, <1>2, SetInduction
<1>4. Cardinality(D) \in S
  BY <1>3, FS_CardinalityType
<1> QED
  BY <1>4 DEF S
-----------------------------------------------------------------------------
(* Sorting.                                                                *)

\* The pairs of B are what comes before what: of two positions one at most, and if
\* neither of i, j nor of j, k then not of i, k.
weak_order(B, n) ==
  /\ \A i, j \in 1..n : <<i, j>> \in B => <<j, i>> \notin B
  /\ \A i, j, k \in 1..n : <<i, j>> \notin B /\ <<j, k>> \notin B => <<i, k>> \notin B

\* The positions up to i when equals stay in their order.
upto(B, n, i) == {j \in 1..n : <<j, i>> \in B \/ (j <= i /\ <<i, j>> \notin B)}

LEMMA UptoFacts ==
  ASSUME NEW n \in Nat, NEW B, weak_order(B, n), NEW i \in 1..n, NEW j \in 1..n
  PROVE  /\ i \in upto(B, n, i)
         /\ j \in upto(B, n, i) \/ i \in upto(B, n, j)
         /\ j \in upto(B, n, i) => upto(B, n, j) \subseteq upto(B, n, i)
         /\ j \in upto(B, n, i) /\ i \in upto(B, n, j) => i = j
<1>1. i <= i /\ (i <= j \/ j <= i) /\ (i <= j /\ j <= i => i = j)
  OBVIOUS
<1>2. <<i, i>> \notin B
  BY DEF weak_order
<1>3. /\ <<i, j>> \in B => <<j, i>> \notin B
      /\ <<j, i>> \in B => <<i, j>> \notin B
  BY DEF weak_order
<1>4. ASSUME j \in upto(B, n, i), NEW k \in 1..n, k \in upto(B, n, j) PROVE k \in upto(B, n, i)
  <2>1. <<j, i>> \in B \/ (j <= i /\ <<i, j>> \notin B)
    BY <1>4 DEF upto
  <2>2. <<k, j>> \in B \/ (k <= j /\ <<j, k>> \notin B)
    BY <1>4 DEF upto
  <2>3. k <= j /\ j <= i => k <= i
    OBVIOUS
  <2>4. /\ \A a, b \in {i, j, k} : <<a, b>> \in B => <<b, a>> \notin B
        /\ \A a, b, c \in {i, j, k} : <<a, b>> \notin B /\ <<b, c>> \notin B => <<a, c>> \notin B
    BY DEF weak_order
  <2>5. <<k, i>> \in B \/ (k <= i /\ <<i, k>> \notin B)
    BY <2>1, <2>2, <2>3, <2>4
  <2> QED
    BY <2>5 DEF upto
<1>5. \A k \in upto(B, n, j) : k \in 1..n
  BY DEF upto
<1> QED
  BY <1>1, <1>2, <1>3, <1>4, <1>5 DEF upto

\* The number of positions up to a position is another one for each, and every number
\* up to n is that of one; it lies between the number of those before the position
\* and of those it is not before.
LEMMA RankFacts ==
  ASSUME NEW n \in Nat, NEW B, weak_order(B, n)
  PROVE  /\ \A i \in 1..n :
              /\ Cardinality(upto(B, n, i)) \in 1..n
              /\ Cardinality({j \in 1..n : <<j, i>> \in B}) < Cardinality(upto(B, n, i))
              /\ Cardinality(upto(B, n, i)) <= Cardinality({j \in 1..n : <<i, j>> \notin B})
         /\ \A i, j \in 1..n : Cardinality(upto(B, n, i)) = Cardinality(upto(B, n, j)) => i = j
         /\ \A m \in 1..n : \E i \in 1..n : Cardinality(upto(B, n, i)) = m
<1> DEFINE rank(i) == Cardinality(upto(B, n, i))
<1>1. IsFiniteSet(1..n) /\ Cardinality(1..n) = n
  <2>1. 1 \in Int /\ n \in Int /\ (IF 1 > n THEN 0 ELSE n - 1 + 1) = n
    OBVIOUS
  <2> QED
    BY <2>1, FS_Interval
<1>2. ASSUME NEW i \in 1..n
      PROVE  IsFiniteSet(upto(B, n, i)) /\ rank(i) \in 1..n
  <2>1. upto(B, n, i) \in SUBSET (1..n)
    BY DEF upto
  <2>2. IsFiniteSet(upto(B, n, i)) /\ rank(i) <= n /\ rank(i) \in Nat
    BY <1>1, <2>1, FS_Subset, FS_CardinalityType
  <2>3. rank(i) # 0
    <3>1. upto(B, n, i) # {}
      BY UptoFacts
    <3> QED
      BY <2>2, <3>1, FS_EmptySet
  <2> HIDE DEF rank
  <2> QED
    BY <2>2, <2>3
<1>3. ASSUME NEW i \in 1..n, NEW j \in 1..n, rank(i) = rank(j) PROVE i = j
  <2>1. ASSUME NEW a \in 1..n, NEW b \in 1..n, rank(a) = rank(b), a \in upto(B, n, b) PROVE b \in upto(B, n, a)
    <3>1. upto(B, n, a) \in SUBSET upto(B, n, b)
      BY <2>1, UptoFacts
    <3>2. upto(B, n, a) = upto(B, n, b)
      BY <1>2, <2>1, <3>1, FS_Subset
    <3> QED
      BY <3>2, UptoFacts
  <2>2. i \in upto(B, n, j) /\ j \in upto(B, n, i)
    <3>1. i \in upto(B, n, j) \/ j \in upto(B, n, i)
      BY UptoFacts
    <3> QED
      BY <1>3, <2>1, <3>1
  <2> QED
    BY <2>2, UptoFacts
<1>4. ASSUME NEW m \in 1..n PROVE \E i \in 1..n : rank(i) = m
  <2> DEFINE f == [i \in 1..n |-> rank(i)]
  <2>1. f \in Injection(1..n, 1..n)
    BY <1>2, <1>3 DEF Injection, IsInjective
  <2>2. f \in Surjection(1..n, 1..n)
    BY <1>1, <2>1, FS_Injection
  <2> QED
    BY <2>2 DEF Surjection
<1>5. ASSUME NEW i \in 1..n
      PROVE  Cardinality({j \in 1..n : <<j, i>> \in B}) < rank(i)
  <2> DEFINE S == {j \in 1..n : <<j, i>> \in B}
  <2>1. S \subseteq upto(B, n, i) /\ i \in upto(B, n, i) /\ i \notin S
    BY UptoFacts DEF weak_order, upto
  <2>2. Cardinality(S) <= rank(i) /\ Cardinality(S) # rank(i)
    BY <1>2, <2>1, FS_Subset
  <2>3. IsFiniteSet(S)
    BY <1>2, <2>1, FS_Subset
  <2>4. Cardinality(S) \in Nat /\ rank(i) \in Nat
    BY <1>2, <2>3, FS_CardinalityType
  <2> HIDE DEF S, rank
  <2>5. Cardinality(S) < rank(i)
    BY <2>2, <2>4
  <2> QED
    BY <2>5 DEF S
<1>6. ASSUME NEW i \in 1..n
      PROVE  rank(i) <= Cardinality({j \in 1..n : <<i, j>> \notin B})
  <2> DEFINE S == {j \in 1..n : <<i, j>> \notin B}
  <2>1. upto(B, n, i) \in SUBSET S
    BY DEF weak_order, upto
  <2>2. IsFiniteSet(S)
    <3>1. S \in SUBSET (1..n)
      OBVIOUS
    <3> QED
      BY <1>1, <3>1, FS_Subset
  <2> HIDE DEF S
  <2>3. rank(i) <= Cardinality(S)
    BY <2>1, <2>2, FS_Subset
  <2> QED
    BY <2>3 DEF S
<1> QED
  BY <1>2, <1>3, <1>4, <1>5, <1>6

\* The first key on which i and j differ decides; P[k] is the order by the k-th key.
lexical(P, m, i, j) ==
  \E k \in 1..m : <<i, j>> \in P[k] /\ \A l \in 1..(k - 1) : <<i, j>> \notin P[l] /\ <<j, i>> \notin P[l]

\* Orders of the keys make an order by all of them.
LEMMA LexicalOrder ==
  ASSUME NEW n \in Nat, NEW m \in Nat, NEW P, \A k \in 1..m : weak_order(P[k], n)
  PROVE  weak_order({p \in (1..n) \X (1..n) : lexical(P, m, p[1], p[2])}, n)
<1> DEFINE B == {p \in (1..n) \X (1..n) : lexical(P, m, p[1], p[2])}
<1>1. \A i, j \in 1..n : <<i, j>> \in B <=> lexical(P, m, i, j)
  OBVIOUS
<1> HIDE DEF B
<1>2. ASSUME NEW i \in 1..n, NEW j \in 1..n, lexical(P, m, i, j), lexical(P, m, j, i) PROVE FALSE
  <2>1. PICK k \in 1..m : <<i, j>> \in P[k] /\ \A l \in 1..(k - 1) : <<i, j>> \notin P[l] /\ <<j, i>> \notin P[l]
    BY <1>2 DEF lexical
  <2>2. PICK h \in 1..m : <<j, i>> \in P[h] /\ \A l \in 1..(h - 1) : <<j, i>> \notin P[l] /\ <<i, j>> \notin P[l]
    BY <1>2 DEF lexical
  <2>3. k = h \/ k \in 1..(h - 1) \/ h \in 1..(k - 1)
    OBVIOUS
  <2> QED
    BY <2>1, <2>2, <2>3 DEF weak_order
<1>3. ASSUME NEW i \in 1..n, NEW j \in 1..n, NEW k \in 1..n, lexical(P, m, i, k)
      PROVE  lexical(P, m, i, j) \/ lexical(P, m, j, k)
  <2>1. PICK h \in 1..m : <<i, k>> \in P[h] /\ \A l \in 1..(h - 1) : <<i, k>> \notin P[l] /\ <<k, i>> \notin P[l]
    BY <1>3 DEF lexical
  <2> DEFINE differs(l) == \E a, b \in {i, j, k} : <<a, b>> \in P[l]
             M == {l \in 1..m : differs(l)}
  <2>2. h \in M /\ M \in SUBSET Nat
    BY <2>1
  <2>3. PICK l \in M : \A x \in M : l <= x
    BY <2>2, LeastFacts
  <2>4. l \in 1..m /\ l <= h
    BY <2>2, <2>3
  <2>5. \A x \in 1..(l - 1) : \A a, b \in {i, j, k} : <<a, b>> \notin P[x]
    <3> SUFFICES ASSUME NEW x \in 1..(l - 1), differs(x) PROVE FALSE
      OBVIOUS
    <3>1. x \in M /\ x < l
      BY <2>4
    <3> QED
      BY <2>3, <3>1
  <2>6. l = h \/ l \in 1..(h - 1)
    BY <2>4
  <2>7. <<k, i>> \notin P[l]
    <3>1. l = h => <<k, i>> \notin P[l]
      BY <2>1, <2>4 DEF weak_order
    <3> QED
      BY <2>1, <2>6, <3>1
  <2>8. <<i, j>> \in P[l] \/ <<j, k>> \in P[l]
    <3>1. /\ \A a, b \in {i, j, k} : <<a, b>> \in P[l] => <<b, a>> \notin P[l]
          /\ \A a, b, c \in {i, j, k} : <<a, b>> \notin P[l] /\ <<b, c>> \notin P[l] => <<a, c>> \notin P[l]
      BY <2>4 DEF weak_order
    <3>2. \E a, b \in {i, j, k} : <<a, b>> \in P[l]
      BY <2>3
    <3> QED
      BY <2>7, <3>1, <3>2
  <2> QED
    BY <2>4, <2>5, <2>8 DEF lexical
<1> QED
  BY <1>1, <1>2, <1>3 DEF weak_order, B

\* One position for each element.
lists(b, n, A) ==
  /\ n \in Nat /\ b \in [1..n -> A]
  /\ \A i, j \in 1..n : b[i] = b[j] => i = j
  /\ \A a \in A : \E i \in 1..n : b[i] = a

\* Counting the elements of a set by their positions.
LEMMA CountByPosition ==
  ASSUME NEW A, NEW n, NEW b, lists(b, n, A), NEW S \in SUBSET A
  PROVE  /\ IsFiniteSet(A) /\ Cardinality(A) = n
         /\ IsFiniteSet(S) /\ Cardinality(S) = Cardinality({j \in 1..n : b[j] \in S})
<1>0. n \in Nat /\ b \in [1..n -> A]
  BY DEF lists
<1>1. IsFiniteSet(1..n) /\ Cardinality(1..n) = n
  <2>1. 1 \in Int /\ n \in Int /\ (IF 1 > n THEN 0 ELSE n - 1 + 1) = n
    BY <1>0
  <2> QED
    BY <2>1, FS_Interval
<1>2. ASSUME NEW T \in SUBSET A
      PROVE  IsFiniteSet(T) /\ Cardinality(T) = Cardinality({j \in 1..n : b[j] \in T})
  <2> DEFINE J == {j \in 1..n : b[j] \in T}
             f == [j \in J |-> b[j]]
  <2>1. IsFiniteSet(J)
    <3>1. J \in SUBSET (1..n)
      OBVIOUS
    <3> QED
      BY <1>1, <3>1, FS_Subset
  <2>2. f \in [J -> T] /\ \A x, y \in J : f[x] = f[y] => x = y
    BY DEF lists
  <2>3. \A a \in T : \E j \in J : f[j] = a
    BY DEF lists
  <2> HIDE DEF f, J
  <2>4. ExistsBijection(J, T)
    BY <2>2, <2>3 DEF ExistsBijection, Bijection, Injection, IsInjective, Surjection
  <2>5. IsFiniteSet(T) /\ Cardinality(T) = Cardinality(J)
    BY <2>1, <2>4, FS_Bijection
  <2> QED
    BY <2>5 DEF J
<1>3. IsFiniteSet(A) /\ Cardinality(A) = n
  <2>1. {j \in 1..n : b[j] \in A} = 1..n
    BY <1>0
  <2>2. A \in SUBSET A
    OBVIOUS
  <2>3. IsFiniteSet(A) /\ Cardinality(A) = Cardinality({j \in 1..n : b[j] \in A})
    BY <1>2, <2>2
  <2> QED
    BY <1>1, <2>1, <2>3
<1> QED
  BY <1>2, <1>3
===============================================================================
