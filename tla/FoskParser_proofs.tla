-------------------------- MODULE FoskParser_proofs --------------------------
(***************************************************************************)
(* Proofs about FoskParser, for any texts.                                 *)
(*                                                                         *)
(* Reading never goes back: an operator that reads a word, an expression,  *)
(* a test or a collection ends no earlier than it begins.  So a turn of a  *)
(* loop uses up a token, enters a later phase, or ends something that had  *)
(* begun; and a subquery takes the text in its parentheses from the parser *)
(* that asks for it.  The invariant says of the stack of parsers what the  *)
(* turns need: the innermost is anywhere in its query (Fit), the others    *)
(* wait for a collection (Asks).                                           *)
(***************************************************************************)
EXTENDS FoskParser, FoskLemmas, SequenceTheorems

IsSeq(s) == \E S : s \in Seq(S)

\* The fields of a parser.
shaped(p) ==
  p = [text |-> p.text, before |-> p.before, position |-> p.position, phase |-> p.phase,
       query |-> p.query, clause |-> p.clause, can_consume |-> p.can_consume,
       join |-> p.join, groups |-> p.groups]

IsParser(p) ==
  /\ shaped(p)
  /\ p.text \in Seq(Tokens)
  /\ p.position \in 1..(Len(p.text) + 1)
  /\ p.phase \in Projection..Phase_EOF
  /\ p.clause \in {NoClause} \cup Projection..LimitAndOffset
  /\ p.can_consume \in BOOLEAN
  /\ IsSeq(p.join) /\ IsSeq(p.groups)

\* A sequence, one element longer or one shorter.
LEMMA SeqFacts ==
  ASSUME NEW s, IsSeq(s), NEW e
  PROVE  /\ Len(s) \in Nat /\ DOMAIN s = 1..Len(s) /\ (s = <<>> <=> Len(s) = 0)
         /\ IsSeq(Append(s, e)) /\ Len(Append(s, e)) = Len(s) + 1 /\ Append(s, e) # <<>>
         /\ s # <<>> => IsSeq(Front(s)) /\ Len(Front(s)) = Len(s) - 1
<1>1. PICK S : s \in Seq(S)
  BY DEF IsSeq
<1>2. s \in Seq(S \cup {e}) /\ Append(s, e) \in Seq(S \cup {e})
  BY <1>1
<1>3. s # <<>> => Front(s) \in Seq(S) /\ Len(Front(s)) = Len(s) - 1
  <2> SUFFICES ASSUME s # <<>> PROVE Front(s) \in Seq(S) /\ Len(Front(s)) = Len(s) - 1
    OBVIOUS
  <2>0. Len(s) \in Nat /\ Len(s) > 0 /\ DOMAIN s = 1..Len(s)
    BY <1>1
  <2>1. Len(s) - 1 \in Nat /\ \A i \in 1..(Len(s) - 1) : s[i] \in S
    BY <1>1, <2>0
  <2>2. SubSeq(s, 1, Len(s) - 1) \in Seq(S)
        /\ Len(SubSeq(s, 1, Len(s) - 1)) = IF 1 <= Len(s) - 1 THEN Len(s) - 1 - 1 + 1 ELSE 0
    BY <2>1, SubSeqProperties
  <2> QED
    BY <2>0, <2>1, <2>2 DEF Front
<1> QED
  BY <1>1, <1>2, <1>3 DEF IsSeq

\* q is p further on in its text.
ahead(p, q) == \E i \in p.position..(Len(p.text) + 1) : q = at(p, i)

\* A parser that is moved keeps its other fields.
LEMMA AtFacts ==
  ASSUME NEW p, IsParser(p), NEW i \in Int
  PROVE  /\ at(p, i) = [text |-> p.text, before |-> p.before, position |-> i, phase |-> p.phase,
                        query |-> p.query, clause |-> p.clause, can_consume |-> p.can_consume,
                        join |-> p.join, groups |-> p.groups]
         /\ at(p, p.position) = p
         /\ \A j : at(at(p, i), j) = at(p, j)
         /\ i \in 1..(Len(p.text) + 1) => IsParser(at(p, i))
<1>1. at(p, i) = [text |-> p.text, before |-> p.before, position |-> i, phase |-> p.phase,
                        query |-> p.query, clause |-> p.clause, can_consume |-> p.can_consume,
                        join |-> p.join, groups |-> p.groups]
  BY DEF IsParser, shaped, at
<1>2. at(p, p.position) = p
  BY DEF IsParser, shaped, at
<1>3. \A j : at(at(p, i), j) = at(p, j)
  BY DEF IsParser, shaped, at
<1>4. i \in 1..(Len(p.text) + 1) => IsParser(at(p, i))
  BY <1>1 DEF IsParser, shaped
<1> QED
  BY <1>1, <1>2, <1>3, <1>4

\* A parser further on is a parser, and being further on is transitive.
LEMMA AheadFacts ==
  ASSUME NEW p, IsParser(p), NEW q, ahead(p, q)
  PROVE  /\ IsParser(q) /\ q = at(p, q.position)
         /\ q.position \in p.position..(Len(p.text) + 1)
         /\ q.text = p.text /\ q.before = p.before /\ q.phase = p.phase /\ q.query = p.query
         /\ q.clause = p.clause /\ q.can_consume = p.can_consume
         /\ q.join = p.join /\ q.groups = p.groups
         /\ \A r : ahead(q, r) => ahead(p, r)
<1>1. PICK i \in p.position..(Len(p.text) + 1) : q = at(p, i)
  BY DEF ahead
<1>2. i \in 1..(Len(p.text) + 1) /\ i \in Int /\ p.position \in Int /\ Len(p.text) \in Nat
  BY <1>1 DEF IsParser
<1>3. /\ q = [text |-> p.text, before |-> p.before, position |-> i, phase |-> p.phase,
              query |-> p.query, clause |-> p.clause, can_consume |-> p.can_consume,
              join |-> p.join, groups |-> p.groups]
      /\ IsParser(q)
  BY <1>1, <1>2, AtFacts
<1>4. \A j : at(q, j) = at(p, j)
  BY <1>1, <1>2, AtFacts
<1>5. \A r : ahead(q, r) => ahead(p, r)
  BY <1>1, <1>2, <1>3, <1>4 DEF ahead
<1>6. /\ q.position = i /\ q.text = p.text /\ q.before = p.before /\ q.phase = p.phase
      /\ q.query = p.query /\ q.clause = p.clause /\ q.can_consume = p.can_consume
      /\ q.join = p.join /\ q.groups = p.groups
  BY <1>3
<1> QED
  BY <1>1, <1>3, <1>5, <1>6

\* A parser at a later position is further on.
LEMMA AheadAt ==
  ASSUME NEW p, IsParser(p), NEW i \in p.position..(Len(p.text) + 1)
  PROVE  ahead(p, at(p, i)) /\ ahead(p, p)
<1>1. at(p, p.position) = p /\ p.position \in p.position..(Len(p.text) + 1)
  BY AtFacts DEF IsParser
<1> QED
  BY <1>1 DEF ahead

\* In front of the end there is a token, and the parser can go behind it.
LEMMA CurrentFacts ==
  ASSUME NEW p, IsParser(p), current(p) # Eof
  PROVE  p.position \in 1..Len(p.text) /\ ahead(p, next(p)) /\ next(p).position = p.position + 1
<1>1. p.position \in 1..Len(p.text) /\ Len(p.text) \in Nat
  BY DEF IsParser, current
<1>2. p.position + 1 \in p.position..(Len(p.text) + 1) /\ p.position + 1 \in Int
  BY <1>1
<1> QED
  BY <1>1, <1>2, AheadAt, AtFacts DEF next

\* The first position that is not blank, or the end.
first_solid(t, n, start, i) ==
  /\ i = n \/ t[i] # " "
  /\ \A j \in start..n :
       (j = n \/ t[j] # " ") /\ (\A k \in start..(j - 1) : k # n /\ t[k] = " ") <=> j = i

\* The first token of a text that is no blank, from a position on.
LEMMA FirstSolid ==
  ASSUME NEW t, NEW n \in Nat, NEW start \in 1..n
  PROVE  \E i \in start..n : first_solid(t, n, start, i)
<1> DEFINE solid == {i \in start..n : i = n \/ t[i] # " "}
<1>0. \A i \in start..n : i \in Nat
  OBVIOUS
<1>1. solid \in SUBSET Nat /\ n \in solid /\ \A i : i \in solid <=> i \in start..n /\ (i = n \/ t[i] # " ")
  <2>1. n \in start..n
    OBVIOUS
  <2> QED
    BY <1>0, <2>1, Zenon
<1> HIDE DEF solid
<1>2. PICK i \in solid : \A j \in solid : i <= j
  BY <1>1, LeastFacts
<1>3. i \in start..n /\ (i = n \/ t[i] # " ")
  BY <1>1
<1>4. ASSUME NEW k \in start..(i - 1) PROVE k # n /\ t[k] = " "
  <2>0. i \in start..n
    BY <1>3
  <2>1. k \in start..n /\ ~(i <= k)
    BY <2>0
  <2> QED
    BY <1>1, <1>2, <2>1, Zenon
<1>5. ASSUME NEW j \in start..n, j = n \/ t[j] # " ", \A k \in start..(j - 1) : k # n /\ t[k] = " "
      PROVE  j = i
  <2>1. i <= j
    BY <1>1, <1>2, <1>5
  <2>2. i \notin start..(j - 1)
    BY <1>3, <1>5, Zenon
  <2>3. i \in start..n /\ j \in start..n
    BY <1>3
  <2> QED
    BY <2>1, <2>2, <2>3
<1> QED
  BY <1>3, <1>4, <1>5, Zenon DEF first_solid

\* next_non_whitespace stops at that token or at the end.
LEMMA Solid ==
  ASSUME NEW p, IsParser(p)
  PROVE  LET q == next_non_whitespace(p) IN
         /\ ahead(p, q) /\ current(q) # " "
         /\ current(p) # " " => q = p
         /\ current(p) = " " => q.position > p.position
<1> DEFINE n == Len(p.text) + 1
           start == p.position
           t == p.text
           is(q) == /\ current(q) # " "
                    /\ \A i \in p.position..(q.position - 1) : p.text[i] = " "
           Reach == {at(p, i) : i \in p.position..(Len(p.text) + 1)}
           q == next_non_whitespace(p)
<1>0. n \in Nat /\ start \in 1..n
  <2>1. Len(p.text) \in Nat
    BY DEF IsParser
  <2> QED
    BY <2>1 DEF IsParser
<1>1. ASSUME NEW i \in start..n
      PROVE  /\ at(p, i).position = i
             /\ current(at(p, i)) # " " <=> i = n \/ t[i] # " "
  <2>1. at(p, i).position = i /\ at(p, i).text = p.text /\ i \in Int
    BY <1>0, AtFacts
  <2>2. i > Len(p.text) <=> i = n
    BY <1>0
  <2> QED
    BY <2>1, <2>2 DEF current, Eof
<1>11. PICK i \in start..n : first_solid(t, n, start, i)
  BY <1>0, FirstSolid
<1>2. /\ i = n \/ t[i] # " "
      /\ \A j \in start..n :
           (j = n \/ t[j] # " ") /\ (\A k \in start..(j - 1) : k # n /\ t[k] = " ") <=> j = i
  BY <1>11 DEF first_solid
<1>3. ASSUME NEW j \in start..n PROVE is(at(p, j)) <=> j = i
  <2>1. \A k \in start..(j - 1) : k # n
    <3> HIDE DEF n, start
    <3> QED
      BY <1>0
  <2>2. is(at(p, j)) <=> (j = n \/ t[j] # " ") /\ \A k \in start..(j - 1) : t[k] = " "
    BY <1>1
  <2> HIDE DEF is, n, start, t
  <2> QED
    BY <1>2, <2>1, <2>2
<1>4. q = at(p, i)
  <2>1. at(p, i) \in Reach /\ is(at(p, i)) /\ \A r \in Reach : is(r) => r = at(p, i)
    <3> HIDE DEF is
    <3> QED
      BY <1>3
  <2>2. q = CHOOSE r \in Reach : is(r)
    BY DEF next_non_whitespace
  <2> HIDE DEF is, Reach, q
  <2> QED
    BY <2>1, <2>2
<1> HIDE DEF q, is
<1>5. ahead(p, q) /\ q.position = i /\ current(q) # " "
  BY <1>1, <1>2, <1>4 DEF ahead
<1>6. current(p) # " " <=> i = start
  <2>1. at(p, start) = p /\ start \in start..n
    <3>1. start \in Int
      BY <1>0
    <3>2. start \in start..n
      <4> HIDE DEF n, start
      <4> QED
        BY <1>0
    <3> QED
      BY <3>1, <3>2, AtFacts
  <2>2. current(p) # " " <=> start = n \/ t[start] # " "
    BY <1>1, <2>1
  <2>3. \A k \in start..(start - 1) : FALSE
    <3> HIDE DEF start, n
    <3> QED
      BY <1>0
  <2> HIDE DEF start, t, n
  <2> QED
    BY <1>2, <2>1, <2>2, <2>3
<1>7. i = start \/ i > start
  <2>1. i \in start..n
    OBVIOUS
  <2> HIDE DEF start, n
  <2> QED
    BY <1>0, <2>1
<1>8. i = start => q = p
  BY <1>0, <1>4, AtFacts
<1>9. current(p) # " " => q = p
  BY <1>6, <1>8
<1>10. current(p) = " " => q.position > p.position
  BY <1>5, <1>6, <1>7
<1> QED
  BY <1>5, <1>9, <1>10 DEF q

\* next_non_whitespace only moves the parser further on.
LEMMA NextNonWhitespace ==
  ASSUME NEW p, IsParser(p)
  PROVE  LET q == next_non_whitespace(p) IN
         /\ ahead(p, q) /\ current(q) # " "
         /\ current(p) # " " => q = p
         /\ current(p) = " " => q.position > p.position
         /\ next_non_whitespace(q) = q
BY Solid, AheadFacts

-----------------------------------------------------------------------------
(* Keywords and phases.                                                    *)

is_comparer(c) == Len(c.words) \in Nat \ {0} /\ c.words[1] # ")"

\* Each keyword has a word, and none begins with a closing parenthesis.
LEMMA Keywords ==
  /\ \A c \in {Select, Distinct, As, From, On, Where, GroupBy, HavingWord, OrderByWords, Limit,
               Offset, And, Or, Like, NotLike, Asc, Desc, IsNull, IsNotNull, In, NotIn} :
       is_comparer(c)
  /\ \A type \in DOMAIN JoinType : \A c \in JoinType[type] : is_comparer(c)
  /\ \A c \in ComparatorOps : is_comparer(c)
<1>1. ASSUME NEW word, word # ")" PROVE is_comparer(spaced(<<word>>))
  BY <1>1 DEF spaced, is_comparer
<1>2. /\ is_comparer(Select) /\ is_comparer(Distinct) /\ is_comparer(As) /\ is_comparer(From)
      /\ is_comparer(On) /\ is_comparer(Where) /\ is_comparer(HavingWord) /\ is_comparer(Limit)
      /\ is_comparer(Offset) /\ is_comparer(And) /\ is_comparer(Or) /\ is_comparer(Like)
  BY <1>1 DEF Select, Distinct, As, From, On, Where, HavingWord, Limit, Offset, And, Or, Like
<1>3. ASSUME NEW first, NEW second, first # ")"
      PROVE  is_comparer(spaced(<<first, " ", second>>))
  BY <1>3 DEF spaced, is_comparer
<1>4. /\ is_comparer(GroupBy) /\ is_comparer(OrderByWords) /\ is_comparer(NotLike)
  BY <1>3 DEF GroupBy, OrderByWords, NotLike
<1>5. is_comparer(Asc) /\ is_comparer(Desc)
  BY DEF Asc, Desc, is_comparer
<1>6. is_comparer(IsNull) /\ is_comparer(IsNotNull)
  BY DEF IsNull, IsNotNull, is_comparer
<1>7. is_comparer(In) /\ is_comparer(NotIn)
  BY DEF In, NotIn, is_comparer
<1>8. ASSUME NEW type \in DOMAIN JoinType, NEW c \in JoinType[type] PROVE is_comparer(c)
  <2>1. \/ c = spaced(<<"JOIN">>)
        \/ \E first \in {"INNER", "LEFT", "RIGHT", "FULL"} : c = spaced(<<first, " ", "JOIN">>)
    <3>1. DOMAIN JoinType = {"Inner", "Left", "Right", "Full"}
      BY DEF JoinType
    <3>2. /\ JoinType["Inner"] = {spaced(<<"JOIN">>), spaced(<<"INNER", " ", "JOIN">>)}
          /\ JoinType["Left"] = {spaced(<<"LEFT", " ", "JOIN">>)}
          /\ JoinType["Right"] = {spaced(<<"RIGHT", " ", "JOIN">>)}
          /\ JoinType["Full"] = {spaced(<<"FULL", " ", "JOIN">>)}
      BY DEF JoinType
    <3> QED
      BY <3>1, <3>2
  <2> QED
    BY <1>1, <1>3, <2>1
<1>9. ASSUME NEW c \in ComparatorOps PROVE is_comparer(c)
  <2>1. PICK op \in Operators : c = spaced(<<op>>)
    BY DEF ComparatorOps
  <2>2. op # ")"
    BY DEF Operators
  <2> QED
    BY <1>1, <2>1, <2>2
<1> QED
  BY <1>2, <1>4, <1>5, <1>6, <1>7, <1>8, <1>9

\* So have the keywords that open a clause.
LEMMA OpenersFacts ==
  /\ DOMAIN Openers = 1..7
  /\ \A ph \in 1..7 : \A c \in Openers[ph] : is_comparer(c)
<1>1. DOMAIN Openers = 1..7
  BY DEF Openers
<1>2. ASSUME NEW ph \in 1..7, NEW c \in Openers[ph] PROVE is_comparer(c)
  <2>1. \/ c \in {From, Where, GroupBy, HavingWord, OrderByWords, Limit, Offset}
        \/ \E type \in DOMAIN JoinType : c \in JoinType[type]
    BY <1>2 DEF Openers
  <2> QED
    BY <2>1, Keywords
<1> QED
  BY <1>1, <1>2

\* A keyword that is found lies in the text: the parser can jump behind it.
LEMMA CompareFacts ==
  ASSUME NEW p, IsParser(p), NEW c, is_comparer(c), compare(p, c)
  PROVE  /\ ahead(p, jump(p, c)) /\ jump(p, c).position > p.position
         /\ current(p) # ")"
<1> DEFINE n == Len(c.words)
           last == p.position + n - 1
<1>1. n \in Nat /\ n > 0 /\ p.position \in Nat /\ p.position > 0 /\ Len(p.text) \in Nat
  <2>1. Len(p.text) \in Nat
    BY DEF IsParser
  <2> QED
    BY <2>1 DEF IsParser, is_comparer
<1>2. jump(p, c) = at(p, p.position + n) /\ jump(p, c).position = p.position + n
  BY <1>1, AtFacts DEF jump
<1>3. p.position + n <= Len(p.text) + 1 /\ SubSeq(p.text, p.position, last) = c.words
  <2>1. jump(p, c).position <= Len(p.text) + 1
        /\ SubSeq(p.text, p.position, jump(p, c).position - 1) = c.words
    BY DEF compare
  <2>2. jump(p, c).position - 1 = last
    BY <1>1, <1>2
  <2> HIDE DEF last, n
  <2> QED
    BY <1>2, <2>1, <2>2
<1>4. ahead(p, jump(p, c)) /\ jump(p, c).position > p.position
  <2>1. p.position + n \in p.position..(Len(p.text) + 1) /\ p.position + n > p.position
    BY <1>1, <1>3
  <2> QED
    BY <1>2, <2>1 DEF ahead
<1>5. current(p) # ")"
  <2>1. \A i \in p.position..last : p.text[i] \in Tokens
    <3>1. \A i \in p.position..last : i \in 1..Len(p.text)
      BY <1>1, <1>3
    <3> QED
      BY <3>1 DEF IsParser
  <2>2. SubSeq(p.text, p.position, last)[1] = p.text[p.position + 1 - 1]
    <3>1. p.position \in Int /\ last \in Int /\ 1 \in 1..(last - p.position + 1)
      BY <1>1
    <3> HIDE DEF last
    <3> QED
      BY <2>1, <3>1, SubSeqProperties
  <2>3. current(p) = p.text[p.position] /\ p.position + 1 - 1 = p.position
    <3>1. ~(p.position > Len(p.text))
      BY <1>1, <1>3
    <3> QED
      BY <1>1, <3>1 DEF current
  <2> QED
    BY <1>3, <2>2, <2>3 DEF is_comparer
<1> QED
  BY <1>4, <1>5

\* r is p further on, and perhaps at a later phase.
onward(p, r) ==
  /\ IsParser(r) /\ r.text = p.text /\ r.position >= p.position /\ r.phase >= p.phase
  /\ r.clause = p.clause /\ r.can_consume = p.can_consume /\ r.join = p.join
  /\ r.groups = p.groups

\* The phase that check_next_phase enters is a later one, the joins again, or the end again.
LEMMA OpenedFacts ==
  ASSUME NEW p, IsParser(p)
  PROVE  /\ \A ph \in opened(p) :
              /\ ph \in 1..8 /\ ph >= p.phase
              /\ ph = p.phase => ph \in {Joins, Phase_EOF}
         /\ current(next_non_whitespace(p)) = ")" => ~opens(p)
         /\ opened(next_non_whitespace(p)) = opened(p)
<1> DEFINE q == next_non_whitespace(p)
           Of(r) == IF eof(r) THEN {Phase_EOF}
                    ELSE {ph \in DOMAIN Openers : may_open(p, ph) /\ \E c \in Openers[ph] : compare(r, c)}
<1>1. opened(p) = Of(q)
  BY DEF opened
<1>2. ahead(p, q) /\ IsParser(q) /\ q.phase = p.phase /\ next_non_whitespace(q) = q
  BY NextNonWhitespace, AheadFacts
<1>3. ASSUME NEW ph \in opened(p)
      PROVE  ph \in 1..8 /\ ph >= p.phase /\ (ph = p.phase => ph \in {Joins, Phase_EOF})
  <2>1. p.phase \in 0..8
    BY DEF IsParser, Projection, Phase_EOF
  <2>2. ph = 8 \/ (ph \in 1..7 /\ (ph > p.phase \/ (ph = 2 /\ p.phase = 2)))
    BY <1>1, OpenersFacts DEF Phase_EOF, may_open, Joins
  <2> QED
    BY <2>1, <2>2 DEF Phase_EOF, Joins
<1>4. ASSUME current(q) = ")" PROVE ~opens(p)
  <2>1. ~eof(q)
    BY <1>4 DEF eof, Eof
  <2>2. \A ph \in DOMAIN Openers : \A c \in Openers[ph] : ~compare(q, c)
    BY <1>2, <1>4, OpenersFacts, CompareFacts
  <2> QED
    BY <1>1, <2>1, <2>2 DEF opens
<1>5. opened(q) = opened(p)
  <2>1. \A ph : may_open(q, ph) <=> may_open(p, ph)
    BY <1>2 DEF may_open
  <2>2. opened(q) = IF eof(q) THEN {Phase_EOF}
                    ELSE {ph \in DOMAIN Openers : may_open(q, ph) /\ \E c \in Openers[ph] : compare(q, c)}
    BY <1>2 DEF opened
  <2> HIDE DEF q
  <2> QED
    BY <1>1, <2>1, <2>2
<1> QED
  BY <1>3, <1>4, <1>5

\* check_next_phase moves further on and enters no earlier phase.
LEMMA CheckNextPhase ==
  ASSUME NEW p, IsParser(p)
  PROVE  LET r == check_next_phase(p) IN
         /\ onward(p, r) /\ r.position = next_non_whitespace(p).position
         /\ ~opens(p) => r = next_non_whitespace(p)
         /\ opens(p) => r.phase > p.phase \/ (r.phase = p.phase /\ p.phase \in {Joins, Phase_EOF})
<1> DEFINE q == next_non_whitespace(p)
           r == check_next_phase(p)
           ph == CHOOSE x \in opened(p) : TRUE
<1>1. /\ ahead(p, q) /\ IsParser(q) /\ q.phase = p.phase /\ q.text = p.text /\ q.clause = p.clause
      /\ q.can_consume = p.can_consume /\ q.join = p.join /\ q.groups = p.groups
      /\ q.position \in p.position..(Len(p.text) + 1)
  BY NextNonWhitespace, AheadFacts
<1>2. q.position >= p.position /\ p.phase \in 0..8 /\ p.position \in Nat
  <2>1. p.position \in 1..(Len(p.text) + 1)
    BY DEF IsParser
  <2>2. p.position \in Nat
    <3>1. Len(p.text) \in Nat
      BY DEF IsParser
    <3> QED
      BY <2>1, <3>1
  <2> QED
    BY <1>1, <2>2 DEF IsParser, Projection, Phase_EOF
<1>3. CASE ~opens(p)
  BY <1>1, <1>2, <1>3 DEF check_next_phase, onward
<1>4. CASE opens(p)
  <2>1. ph \in opened(p)
    BY <1>4 DEF opens
  <2>2. ph \in 1..8 /\ ph >= p.phase /\ (ph = p.phase => ph \in {Joins, Phase_EOF})
    BY <2>1, OpenedFacts
  <2>3. r = [q EXCEPT !.phase = ph]
    BY <1>4 DEF check_next_phase
  <2> HIDE DEF q, ph, r
  <2>4. r = [text |-> q.text, before |-> q.before, position |-> q.position, phase |-> ph,
             query |-> q.query, clause |-> q.clause, can_consume |-> q.can_consume,
             join |-> q.join, groups |-> q.groups]
    BY <1>1, <2>3 DEF IsParser, shaped
  <2>5. IsParser(r)
    BY <1>1, <2>2, <2>4 DEF IsParser, shaped, Projection, Phase_EOF
  <2>6. onward(p, r) /\ r.position = q.position /\ r.phase = ph
    BY <1>1, <1>2, <2>2, <2>4, <2>5 DEF onward
  <2> QED
    BY <1>2, <1>4, <2>2, <2>6 DEF q, r
<1> QED
  BY <1>3, <1>4

\* A word ends in the text, no earlier than it begins.
LEMMA TextCollectorFacts ==
  ASSUME NEW p, IsParser(p), NEW stoppers, NEW w \in TextCollector(p, stoppers)
  PROVE  w.position \in p.position..(Len(p.text) + 1)
<1> DEFINE q == next_non_whitespace(p)
<1>1. /\ IsParser(q) /\ q.position \in p.position..(Len(p.text) + 1) /\ q.text = p.text
  BY NextNonWhitespace, AheadFacts
<1>2. w.position = q.position \/ (w.position = q.position + 1 /\ is_word(current(q)))
  <2> DEFINE stop(r) == is_any_delimiter(r) \/ current(r) \in stoppers
             after == q.position + 1
             word == [text |-> current(q), position |-> after]
  <2>1. w \in IF stop(q) THEN {[text |-> "", position |-> q.position]}
              ELSE IF is_word(current(q)) /\ stop(next(q)) THEN {word} ELSE {}
    BY DEF TextCollector, given
  <2>2. w = [text |-> "", position |-> q.position] \/ (is_word(current(q)) /\ w = word)
    <3> HIDE DEF stop, q, word
    <3> QED
      BY <2>1
  <2> HIDE DEF after, q
  <2> DEFINE empty == [text |-> "", position |-> q.position]
  <2>4. empty.position = q.position /\ word.position = after
    OBVIOUS
  <2> HIDE DEF word, empty
  <2>5. w = empty \/ (is_word(current(q)) /\ w = word)
    BY <2>2 DEF empty
  <2>3. w.position = q.position \/ (w.position = after /\ is_word(current(q)))
    BY <2>4, <2>5
  <2> QED
    BY <2>3 DEF after
<1>3. ASSUME is_word(current(q)) PROVE q.position + 1 \in p.position..(Len(p.text) + 1)
  <2>1. current(q) # Eof
    BY <1>3 DEF is_word, Delimiters
  <2>2. q.position \in 1..Len(q.text)
    BY <1>1, <2>1, CurrentFacts
  <2>3. Len(p.text) \in Nat /\ p.position \in 1..(Len(p.text) + 1)
    BY DEF IsParser
  <2> HIDE DEF q
  <2> QED
    BY <1>1, <2>2, <2>3
<1> QED
  BY <1>1, <1>2, <1>3

-----------------------------------------------------------------------------
(* Scalar expressions.                                                     *)

\* The results end between the position they start at and the end of the text.
within(p, i, results) == \A s \in results : s.position \in i..(Len(p.text) + 1)

good_lists(p, lists_) ==
  \A i \in 1..(Len(p.text) + 1), can_consume \in BOOLEAN :
    within(p, i, lists_[i][can_consume])

\* What lies behind a later position lies behind an earlier one.
LEMMA WithinLess ==
  ASSUME NEW p, IsParser(p), NEW i \in Nat, NEW j \in i..(Len(p.text) + 1), NEW results,
         within(p, j, results)
  PROVE  within(p, i, results)
<1>1. Len(p.text) \in Nat
  BY DEF IsParser
<1>2. \A k : k \in j..(Len(p.text) + 1) => k \in i..(Len(p.text) + 1)
  BY <1>1
<1> QED
  BY <1>2 DEF within

\* Positions and lengths are natural numbers.
LEMMA ParserNumbers ==
  ASSUME NEW p, IsParser(p)
  PROVE  /\ Len(p.text) \in Nat /\ p.position \in Nat /\ p.position \in 1..(Len(p.text) + 1)
         /\ p.position \in p.position..(Len(p.text) + 1)
         /\ p.phase \in 0..8 /\ p.clause \in -1..7 /\ p.clause \in Int /\ p.phase \in Int
<1>1. Len(p.text) \in Nat /\ p.position \in 1..(Len(p.text) + 1)
  BY DEF IsParser
<1>2. p.phase \in 0..8 /\ p.clause \in -1..7
  BY DEF IsParser, Projection, Phase_EOF, NoClause, LimitAndOffset
<1> QED
  BY <1>1, <1>2

\* A list of arguments ends behind its parenthesis.
LEMMA ArgsFacts ==
  ASSUME NEW p, IsParser(p), NEW wild, NEW lists_, good_lists(p, lists_)
  PROVE  within(p, p.position, ArgsExpr(p, wild, lists_))
<1> SUFFICES ASSUME NEW s \in ArgsExpr(p, wild, lists_)
             PROVE  s.position \in p.position..(Len(p.text) + 1)
  BY DEF within
<1> DEFINE q == next(p)
           start == IF compare(q, Distinct) THEN jump(q, Distinct) ELSE q
<1>1. current(p) = "(" /\ \E a \in lists_[start.position][TRUE] : s.position = a.position
  <2> DEFINE args(a) == [args |-> a.args, distinct |-> compare(q, Distinct), position |-> a.position]
  <2>1. s \in IF current(p) # "(" \/ (compare(q, Distinct) /\ ~wild) THEN {}
              ELSE {args(a) : a \in lists_[start.position][TRUE]}
    BY DEF ArgsExpr
  <2>2. current(p) = "(" /\ s \in {args(a) : a \in lists_[start.position][TRUE]}
    <3> HIDE DEF args, start, q
    <3> QED
      BY <2>1
  <2>3. PICK a \in lists_[start.position][TRUE] : s = args(a)
    BY <2>2
  <2> QED
    BY <2>2, <2>3
<1>2. ahead(p, q)
  BY <1>1, CurrentFacts DEF Eof
<1>3. ahead(p, start)
  <2>1. CASE compare(q, Distinct)
    BY <1>2, <2>1, AheadFacts, CompareFacts, Keywords
  <2>2. CASE ~compare(q, Distinct)
    BY <1>2, <2>2
  <2> QED
    BY <2>1, <2>2
<1>4. start.position \in p.position..(Len(p.text) + 1)
  BY <1>3, AheadFacts
<1>5. start.position \in 1..(Len(p.text) + 1)
  <2> HIDE DEF start
  <2> QED
    BY <1>4, ParserNumbers
<1>6. within(p, start.position, lists_[start.position][TRUE])
  BY <1>5 DEF good_lists
<1>7. within(p, p.position, lists_[start.position][TRUE])
  BY <1>4, <1>6, ParserNumbers, WithinLess
<1> QED
  BY <1>1, <1>7 DEF within

\* A name, function or wildcard ends no earlier than its word.
LEMMA AfterWord ==
  ASSUME NEW p, IsParser(p), NEW collection, NEW word, NEW wild, NEW lists_, good_lists(p, lists_)
  PROVE  within(p, p.position, after_word(p, collection, word, wild, lists_))
<1> SUFFICES ASSUME NEW s \in after_word(p, collection, word, wild, lists_)
             PROVE  s.position \in p.position..(Len(p.text) + 1)
  BY DEF within
<1>1. CASE current(p) = "("
  <2>1. after_word(p, collection, word, wild, lists_) =
          {result(Function(collection, word, a.args, a.distinct), at(p, a.position))
           : a \in {a \in ArgsExpr(p, wild, lists_) : is_any_delimiter(at(p, a.position))}}
    BY <1>1 DEF after_word
  <2>2. PICK a \in ArgsExpr(p, wild, lists_) : s.position = at(p, a.position).position
    BY <2>1 DEF result
  <2>3. a.position \in p.position..(Len(p.text) + 1)
    BY ArgsFacts DEF within
  <2>4. at(p, a.position).position = a.position
    BY <2>3, AtFacts
  <2> QED
    BY <2>2, <2>3, <2>4
<1>2. CASE current(p) = "*"
  <2>1. after_word(p, collection, word, wild, lists_) =
          given(wild /\ is_any_delimiter(next(p)), result(WildCard(collection), next(p)))
    BY <1>2 DEF after_word, Delimiters, Eof
  <2>2. s.position = next(p).position
    BY <2>1 DEF given, result
  <2>3. ahead(p, next(p))
    BY <1>2, CurrentFacts DEF Eof
  <2> QED
    BY <2>2, <2>3, AheadFacts
<1>3. CASE current(p) \in Delimiters \ {".", "("}
  <2>1. after_word(p, collection, word, wild, lists_) = {result(Column(collection, word), p)}
    BY <1>3 DEF after_word, Delimiters, Eof
  <2> QED
    BY <2>1, ParserNumbers DEF result
<1>4. CASE current(p) \notin {"(", "*"} \cup (Delimiters \ {".", "("})
  BY <1>4 DEF after_word
<1> QED
  BY <1>1, <1>2, <1>3, <1>4

\* parse_general_scalar goes on no earlier than where its word ends.
LEMMA GeneralScalar ==
  ASSUME NEW p, IsParser(p), NEW wild, NEW lists_, good_lists(p, lists_)
  PROVE  within(p, p.position, parse_general_scalar(p, wild, lists_))
<1> DEFINE q(w) == at(p, w.position)
           r(w) == next(q(w))
           of(w) == IF current(q(w)) # "." THEN after_word(q(w), None, w.text, wild, lists_)
                    ELSE IF is_any_delimiter(r(w)) THEN {result(Column(w.text, w.text), r(w))}
                    ELSE UNION {after_word(at(r(w), v.position), w.text, v.text, wild, lists_)
                                : v \in TextCollector(r(w), {"*"})}
<1>1. parse_general_scalar(p, wild, lists_) = UNION {of(w) : w \in TextCollector(p, {"*"})}
  BY DEF parse_general_scalar
<1>2. ASSUME NEW z, ahead(p, z), NEW collection, NEW word
      PROVE  within(p, p.position, after_word(z, collection, word, wild, lists_))
  <2>1. IsParser(z) /\ z.text = p.text /\ z.position \in p.position..(Len(p.text) + 1)
    BY <1>2, AheadFacts
  <2>2. good_lists(z, lists_)
    BY <2>1 DEF good_lists, within
  <2>3. within(z, z.position, after_word(z, collection, word, wild, lists_))
    BY <2>1, <2>2, AfterWord
  <2>4. within(p, z.position, after_word(z, collection, word, wild, lists_))
    BY <2>1, <2>3 DEF within
  <2> QED
    BY <2>1, <2>4, WithinLess, ParserNumbers
<1>3. ASSUME NEW w \in TextCollector(p, {"*"}) PROVE within(p, p.position, of(w))
  <2>1. ahead(p, q(w))
    BY TextCollectorFacts, AheadAt
  <2>2. IsParser(q(w)) /\ q(w).text = p.text
    BY <2>1, AheadFacts
  <2>3. CASE current(q(w)) # "."
    BY <1>2, <2>1, <2>3
  <2>4. CASE current(q(w)) = "."
    <3>1. ahead(q(w), r(w))
      BY <2>2, <2>4, CurrentFacts DEF Eof
    <3>2. ahead(p, r(w))
      BY <2>1, <3>1, AheadFacts
    <3> HIDE DEF q, r
    <3>3. CASE is_any_delimiter(r(w))
      <4>1. of(w) = {result(Column(w.text, w.text), r(w))}
        BY <2>4, <3>3
      <4> QED
        BY <3>2, <4>1, AheadFacts DEF within, result
    <3>4. CASE ~is_any_delimiter(r(w))
      <4>1. of(w) = UNION {after_word(at(r(w), v.position), w.text, v.text, wild, lists_)
                           : v \in TextCollector(r(w), {"*"})}
        BY <2>4, <3>4
      <4>2. ASSUME NEW v \in TextCollector(r(w), {"*"}) PROVE ahead(p, at(r(w), v.position))
        <5>1. IsParser(r(w)) /\ r(w).text = p.text
          BY <3>2, AheadFacts
        <5>2. ahead(r(w), at(r(w), v.position))
          BY <5>1, TextCollectorFacts, AheadAt
        <5> QED
          BY <3>2, <5>2, AheadFacts
      <4>3. \A v \in TextCollector(r(w), {"*"}) :
              within(p, p.position, after_word(at(r(w), v.position), w.text, v.text, wild, lists_))
        BY <1>2, <4>2
      <4> QED
        BY <4>1, <4>3 DEF within
    <3> QED
      BY <3>3, <3>4
  <2> QED
    BY <2>3, <2>4
<1> HIDE DEF of
<1> QED
  BY <1>1, <1>3 DEF within

\* ScalarExpr::parse goes on in the text, whatever the lists of arguments are.
LEMMA ScalarExprFacts ==
  ASSUME NEW p, IsParser(p), NEW wild, NEW lists_, good_lists(p, lists_)
  PROVE  within(p, p.position, ScalarExpr(p, wild, lists_))
<1> DEFINE q == next_non_whitespace(p)
           t == current(q)
<1>1. ahead(p, q) /\ IsParser(q) /\ q.text = p.text
  BY NextNonWhitespace, AheadFacts
<1>2. good_lists(q, lists_)
  BY <1>1 DEF good_lists, within
<1>3. within(p, p.position, parse_general_scalar(q, wild, lists_))
  <2>1. within(q, q.position, parse_general_scalar(q, wild, lists_))
    BY <1>1, <1>2, GeneralScalar
  <2>2. within(p, q.position, parse_general_scalar(q, wild, lists_))
    BY <1>1, <2>1 DEF within
  <2> QED
    BY <1>1, <2>2, AheadFacts, ParserNumbers, WithinLess
<1>4. t # Eof => ahead(p, next(q))
  BY <1>1, CurrentFacts, AheadFacts
<1>5. \A z, e : ahead(p, z) => within(p, p.position, {result(e, z)})
  BY AheadFacts DEF within, result
<1>6. \A z, e, b : ahead(p, z) => within(p, p.position, given(b, result(e, z)))
  BY AheadFacts DEF within, result, given
<1>7. t # Eof => /\ within(p, p.position, NumberParser(q)) /\ within(p, p.position, StringParser(q))
                 /\ within(p, p.position, BoolParser(q)) /\ within(p, p.position, NullParser(q))
                 /\ within(p, p.position, ParamParser(q))
  BY <1>4, <1>5, <1>6 DEF NumberParser, StringParser, BoolParser, NullParser, ParamParser
<1>8. within(p, p.position, {result(Column(None, ""), q)})
  BY <1>1, <1>5
<1> DEFINE S == ScalarExpr(p, wild, lists_)
           blank == {result(Column(None, ""), q)}
<1>9. CASE t = Eof
  <2>1. t \notin Ints /\ t \notin Strings /\ t \notin {"TRUE", "FALSE", "NULL", "?"}
    BY <1>9, LiteralsAssumption DEF Eof
  <2>2. S = {}
    BY <1>9, <2>1, Zenon DEF ScalarExpr, eof
  <2> QED
    BY <2>2 DEF within
<1>10. CASE t # Eof
  <2>1. S = {} \/ S = NumberParser(q) \/ S = StringParser(q) \/ S = BoolParser(q) \/ S = NullParser(q)
        \/ S = ParamParser(q) \/ S = blank \/ S = parse_general_scalar(q, wild, lists_)
    <3>1. S = CASE eof(q) -> {}
                [] t \in Ints -> NumberParser(q)
                [] t \in Strings -> StringParser(q)
                [] t \in {"TRUE", "FALSE"} /\ ends_token(q) -> BoolParser(q)
                [] t = "NULL" /\ ends_token(q) -> NullParser(q)
                [] t = "?" /\ ends_token(q) -> ParamParser(q)
                [] ~eof(q) /\ is_any_delimiter(q) -> blank
                [] OTHER -> parse_general_scalar(q, wild, lists_)
      BY DEF ScalarExpr
    <3> HIDE DEF S, t, q, blank
    <3> QED
      BY <3>1
  <2> HIDE DEF S
  <2>2. within(p, p.position, S)
    BY <1>3, <1>7, <1>8, <1>10, <2>1 DEF within
  <2> QED
    BY <2>2 DEF S
<1> QED
  BY <1>9, <1>10

\* A turn of the loop of ArgsExpr::parse goes on further in the text.
LEMMA ArgsTurn ==
  ASSUME NEW p, IsParser(p), NEW wild, NEW lists_, good_lists(p, lists_)
  PROVE  good_lists(p, args_turn(p, wild, lists_))
<1> SUFFICES ASSUME NEW i \in 1..(Len(p.text) + 1), NEW can_consume \in BOOLEAN
             PROVE  within(p, i, args_turn(p, wild, lists_)[i][can_consume])
  BY DEF good_lists
<1> DEFINE x == at(p, i)
           q == next_non_whitespace(x)
           ending == {[args |-> <<>>, position |-> q.position + 1]}
           rests(s) == {[args |-> <<s.expr>> \o rest.args, position |-> rest.position]
                        : rest \in lists_[s.position][FALSE]}
           items == UNION {rests(s) : s \in {s \in ScalarExpr(q, wild, lists_) : can_consume}}
           S == args_turn(p, wild, lists_)[i][can_consume]
<1>0. i \in Nat /\ i \in Int /\ Len(p.text) \in Nat
  BY ParserNumbers
<1>1. IsParser(x) /\ x.text = p.text /\ x.position = i
  BY <1>0, AtFacts
<1>2. ahead(x, q) /\ IsParser(q) /\ q.text = p.text /\ q.position \in i..(Len(p.text) + 1)
  BY <1>1, NextNonWhitespace, AheadFacts
<1>3. good_lists(q, lists_)
  BY <1>2 DEF good_lists, within
<1>4. ASSUME NEW j \in i..(Len(p.text) + 1), NEW c \in BOOLEAN PROVE within(p, i, lists_[j][c])
  <2>1. j \in 1..(Len(p.text) + 1)
    BY <1>0
  <2>2. within(p, j, lists_[j][c])
    BY <2>1 DEF good_lists
  <2> QED
    BY <1>0, <2>2, WithinLess
<1>5. current(q) # Eof => q.position + 1 \in i..(Len(p.text) + 1)
  <2> SUFFICES ASSUME current(q) # Eof PROVE q.position + 1 \in i..(Len(p.text) + 1)
    OBVIOUS
  <2>1. q.position \in 1..Len(p.text)
    BY <1>2, CurrentFacts
  <2> HIDE DEF q
  <2> QED
    BY <1>0, <1>2, <2>1
<1>6. S = CASE eof(q) -> {}
            [] current(q) = ")" -> ending
            [] current(q) = "," -> (IF can_consume THEN {} ELSE lists_[q.position + 1][TRUE])
            [] OTHER -> items
  BY DEF args_turn
<1>7. within(p, i, items)
  <2> SUFFICES ASSUME NEW s \in ScalarExpr(q, wild, lists_) PROVE within(p, i, rests(s))
    BY DEF within
  <2>1. s.position \in q.position..(Len(q.text) + 1)
    BY <1>2, <1>3, ScalarExprFacts DEF within
  <2>2. s.position \in i..(Len(p.text) + 1)
    <3> HIDE DEF q
    <3> QED
      BY <1>0, <1>2, <2>1
  <2>3. within(p, i, lists_[s.position][FALSE])
    BY <1>4, <2>2
  <2>4. ASSUME NEW rest \in lists_[s.position][FALSE]
        PROVE  [args |-> <<s.expr>> \o rest.args, position |-> rest.position].position
                 \in i..(Len(p.text) + 1)
    BY <2>3, Zenon DEF within
  <2> HIDE DEF q
  <2> QED
    BY <2>4, Zenon DEF within
<1>8. current(q) # Eof => within(p, i, ending)
  BY <1>5 DEF within
<1>9. current(q) # Eof => within(p, i, IF can_consume THEN {} ELSE lists_[q.position + 1][TRUE])
  BY <1>4, <1>5 DEF within
<1>10. within(p, i, {})
  BY DEF within
<1> DEFINE again == IF can_consume THEN {} ELSE lists_[q.position + 1][TRUE]
<1>11. CASE current(q) = Eof
  <2>1. current(q) # ")" /\ current(q) # "," /\ eof(q)
    BY <1>11 DEF Eof, eof
  <2>2. S = {}
    <3> HIDE DEF S, items, ending, q
    <3> QED
      BY <1>6, <2>1
  <2> QED
    BY <1>10, <2>2
<1>12. CASE current(q) # Eof
  <2>1. S = CASE eof(q) -> {} [] current(q) = ")" -> ending [] current(q) = "," -> again [] OTHER -> items
    BY <1>6
  <2>2. S = {} \/ S = ending \/ S = again \/ S = items
    <3>1. ~eof(q)
      BY <1>12 DEF eof
    <3> HIDE DEF S, items, ending, q, again
    <3>2. CASE current(q) = ")"
      BY <2>1, <3>1, <3>2
    <3>3. CASE current(q) = ","
      BY <2>1, <3>1, <3>3
    <3>4. CASE current(q) # ")" /\ current(q) # ","
      BY <2>1, <3>1, <3>4
    <3> QED
      BY <3>2, <3>3, <3>4
  <2> HIDE DEF S, items, ending, q, again
  <2>3. within(p, i, S)
    BY <1>7, <1>8, <1>9, <1>10, <1>12, <2>2 DEF again
  <2> QED
    BY <2>3 DEF S
<1> QED
  BY <1>11, <1>12

\* As many turns as wanted.
LEMMA ArgsLists ==
  ASSUME NEW p, IsParser(p), NEW wild
  PROVE  good_lists(p, args_lists(p, wild))
<1> DEFINE none == [i \in 1..(Len(p.text) + 1) |-> [can_consume \in BOOLEAN |-> {}]]
           turns_upto(g, n) == g = [k \in 0..n |-> IF k = 0 THEN none ELSE args_turn(p, wild, g[k - 1])]
           all_turns(g) == g = [k \in Nat |-> IF k = 0 THEN none ELSE args_turn(p, wild, g[k - 1])]
           after == CHOOSE g : all_turns(g)
<1>1. args_lists(p, wild) = after[Len(p.text) + 1]
  BY DEF args_lists
<1>2. Len(p.text) + 1 \in Nat
  BY ParserNumbers
<1>3. good_lists(p, none)
  BY DEF good_lists, within
<1> HIDE DEF none
<1>4. ASSUME NEW g, NEW n \in Nat
      PROVE  turns_upto(g, n) =>
               /\ g[0] = none
               /\ \A k \in 1..n : g[k] = args_turn(p, wild, g[k - 1])
  OBVIOUS
<1>5. \A n \in Nat : \E g : turns_upto(g, n)
  <2> DEFINE S == {n \in Nat : \E g : turns_upto(g, n)}
  <2>1. 0 \in S
    <3> DEFINE g == [k \in 0..0 |-> none]
    <3>1. turns_upto(g, 0)
      <4>1. \A k \in 0..0 : k = 0
        OBVIOUS
      <4> QED
        BY <4>1
    <3> QED
      BY <3>1
  <2>2. ASSUME NEW n \in Nat, n \in S PROVE n + 1 \in S
    <3>1. PICK g : turns_upto(g, n)
      BY <2>2
    <3> DEFINE h == [k \in 0..(n + 1) |-> IF k = n + 1 THEN args_turn(p, wild, g[n]) ELSE g[k]]
               H == [k \in 0..(n + 1) |-> IF k = 0 THEN none ELSE args_turn(p, wild, h[k - 1])]
    <3>2. g[0] = none /\ \A k \in 1..n : g[k] = args_turn(p, wild, g[k - 1])
      BY <1>4, <3>1
    <3> HIDE DEF turns_upto
    <3>3. ASSUME NEW k \in 0..(n + 1) PROVE h[k] = H[k]
      <4>1. CASE k = 0
        <5>1. 0 # n + 1 /\ 0 \in 0..(n + 1)
          OBVIOUS
        <5> QED
          BY <3>2, <4>1, <5>1
      <4>2. CASE k = n + 1
        <5>1. k # 0 /\ k - 1 = n /\ n \in 0..(n + 1) /\ n # n + 1
          BY <4>2
        <5>2. h[n] = g[n]
          BY <5>1
        <5> QED
          BY <4>2, <5>1, <5>2
      <4>3. CASE k # 0 /\ k # n + 1
        <5>1. k \in 1..n /\ k - 1 \in 0..(n + 1) /\ k - 1 # n + 1
          BY <4>3
        <5>2. h[k - 1] = g[k - 1]
          BY <5>1
        <5>3. h[k] = g[k]
          BY <4>3
        <5>4. g[k] = args_turn(p, wild, g[k - 1])
          BY <3>2, <5>1
        <5> QED
          BY <4>3, <5>2, <5>3, <5>4
      <4> QED
        BY <4>1, <4>2, <4>3
    <3>4. h = H
      BY <3>3
    <3>5. turns_upto(h, n + 1)
      <4> HIDE DEF h
      <4> QED
        BY <3>4 DEF turns_upto
    <3> QED
      BY <3>5
  <2> HIDE DEF S
  <2>3. Nat \subseteq S
    BY <2>1, <2>2, SetInduction
  <2> QED
    BY <2>3 DEF S
<1> HIDE DEF turns_upto
<1>6. ASSUME NEW n \in Nat, NEW m \in Nat, NEW g, NEW h, turns_upto(g, n), turns_upto(h, m)
      PROVE  \A k \in Nat : k <= n /\ k <= m => g[k] = h[k]
  <2> DEFINE S == {k \in Nat : k <= n /\ k <= m => g[k] = h[k]}
  <2>1. 0 \in S
    BY <1>4, <1>6
  <2>2. ASSUME NEW k \in Nat, k \in S PROVE k + 1 \in S
    <3> SUFFICES ASSUME k + 1 <= n, k + 1 <= m PROVE g[k + 1] = h[k + 1]
      OBVIOUS
    <3>1. k + 1 \in 1..n /\ k + 1 \in 1..m /\ k + 1 - 1 = k /\ k <= n /\ k <= m
      OBVIOUS
    <3>2. g[k] = h[k]
      BY <2>2, <3>1
    <3>3. g[k + 1] = args_turn(p, wild, g[k + 1 - 1]) /\ h[k + 1] = args_turn(p, wild, h[k + 1 - 1])
      BY <1>4, <1>6, <3>1
    <3> QED
      BY <3>1, <3>2, <3>3
  <2> HIDE DEF S
  <2>3. Nat \subseteq S
    BY <2>1, <2>2, SetInduction
  <2> QED
    BY <2>3 DEF S
<1>7. \E g : all_turns(g)
  <2> DEFINE G(n) == CHOOSE g : turns_upto(g, n)
             F == [n \in Nat |-> G(n)[n]]
             E == [k \in Nat |-> IF k = 0 THEN none ELSE args_turn(p, wild, F[k - 1])]
  <2>1. \A n \in Nat : turns_upto(G(n), n)
    BY <1>5
  <2> HIDE DEF G
  <2>2. ASSUME NEW k \in Nat PROVE F[k] = E[k]
    <3>1. CASE k = 0
      BY <1>4, <2>1, <3>1
    <3>2. CASE k # 0
      <4>1. k \in 1..k /\ k - 1 \in Nat /\ k - 1 <= k /\ k - 1 <= k - 1
        BY <3>2
      <4>2. G(k)[k] = args_turn(p, wild, G(k)[k - 1])
        BY <1>4, <2>1, <4>1
      <4>3. G(k)[k - 1] = G(k - 1)[k - 1]
        BY <1>6, <2>1, <4>1
      <4> QED
        BY <3>2, <4>1, <4>2, <4>3
    <3> QED
      BY <3>1, <3>2
  <2>3. F = E
    BY <2>2
  <2>4. all_turns(F)
    <3> HIDE DEF F
    <3> QED
      BY <2>3
  <2> QED
    BY <2>4
<1>8. all_turns(after)
  <2> HIDE DEF all_turns
  <2> QED
    BY <1>7
<1> HIDE DEF after
<1>9. after[0] = none /\ \A k \in Nat : k # 0 => after[k] = args_turn(p, wild, after[k - 1])
  BY <1>8
<1> HIDE DEF all_turns
<1> DEFINE S == {n \in Nat : good_lists(p, after[n])}
<1>10. 0 \in S
  BY <1>3, <1>9
<1>11. ASSUME NEW n \in Nat, n \in S PROVE n + 1 \in S
  <2>1. n + 1 \in Nat /\ n + 1 # 0 /\ n + 1 - 1 = n
    OBVIOUS
  <2>2. after[n + 1] = args_turn(p, wild, after[n])
    BY <1>9, <2>1
  <2> QED
    BY <1>11, <2>1, <2>2, ArgsTurn
<1> HIDE DEF S
<1>12. Nat \subseteq S
  BY <1>10, <1>11, SetInduction
<1> QED
  BY <1>1, <1>2, <1>12 DEF S

\* An expression ends in the text, no earlier than it begins.
LEMMA ScalarFacts ==
  ASSUME NEW p, IsParser(p), NEW wild
  PROVE  within(p, p.position, scalar(p, wild))
BY ArgsLists, ScalarExprFacts DEF scalar

-----------------------------------------------------------------------------
(* Predicates.                                                             *)

\* What is within the rest of the text behind a keyword is behind its first token.
LEMMA BehindKeyword ==
  ASSUME NEW p, IsParser(p), NEW q, ahead(p, q), NEW c, is_comparer(c), compare(q, c)
  PROVE  LET z == jump(q, c) IN
         /\ IsParser(z) /\ z.text = p.text /\ ahead(p, z)
         /\ z.position \in (p.position + 1)..(Len(p.text) + 1)
         /\ \A i : i \in z.position..(Len(p.text) + 1) => i \in (p.position + 1)..(Len(p.text) + 1)
<1> DEFINE z == jump(q, c)
<1>1. IsParser(q) /\ q.text = p.text /\ q.position \in p.position..(Len(p.text) + 1)
  BY AheadFacts
<1>2. ahead(q, z) /\ z.position > q.position
  BY <1>1, CompareFacts
<1>3. IsParser(z) /\ z.text = p.text /\ ahead(p, z) /\ z.position \in q.position..(Len(p.text) + 1)
  BY <1>1, <1>2, AheadFacts
<1>4. p.position \in Nat /\ Len(p.text) \in Nat
  BY ParserNumbers
<1> HIDE DEF z
<1>5. z.position \in (p.position + 1)..(Len(p.text) + 1)
  BY <1>1, <1>2, <1>3, <1>4
<1>6. \A i : i \in z.position..(Len(p.text) + 1) => i \in (p.position + 1)..(Len(p.text) + 1)
  BY <1>4, <1>5
<1> QED
  BY <1>3, <1>5, <1>6 DEF z

\* A test of a predicate ends behind its first token.
LEMMA ParseSingle ==
  ASSUME NEW p, IsParser(p), NEW wild
  PROVE  within(p, p.position + 1, parse_single(p, wild))
<1> DEFINE q(l) == next_non_whitespace(at(p, l.position))
           one(l, test, negated, comparer) ==
             {[test |-> Test(test, negated, <<l.expr>>), position |-> jump(q(l), comparer).position]}
           two(l, test, comparer, star) ==
             {[test |-> Test(test, FALSE, <<l.expr, r.expr>>), position |-> r.position]
              : r \in scalar(jump(q(l), comparer), star)}
           list_(l, negated, comparer) ==
             {[test |-> Test("IN", negated, <<l.expr>> \o a.args), position |-> a.position]
              : a \in ArgsExpr(next_non_whitespace(jump(q(l), comparer)), wild, args_lists(q(l), wild))}
           op(l) == CHOOSE c \in ComparatorOps : compare(q(l), c)
           of(l) == CASE \E c \in ComparatorOps : compare(q(l), c) -> two(l, op(l).words[1], op(l), FALSE)
                      [] compare(q(l), IsNull)    -> one(l, "IS NULL", FALSE, IsNull)
                      [] compare(q(l), IsNotNull) -> one(l, "IS NULL", TRUE, IsNotNull)
                      [] compare(q(l), In)        -> list_(l, FALSE, In)
                      [] compare(q(l), NotIn)     -> list_(l, TRUE, NotIn)
                      [] compare(q(l), Like)      -> two(l, "LIKE", Like, FALSE)
                      [] compare(q(l), NotLike)   -> two(l, "LIKE", NotLike, TRUE)
                      [] OTHER -> {}
<1>1. parse_single(p, wild) = UNION {of(l) : l \in scalar(p, wild)}
  BY DEF parse_single
<1>2. ASSUME NEW l \in scalar(p, wild) PROVE within(p, p.position + 1, of(l))
  <2>1. l.position \in p.position..(Len(p.text) + 1)
    BY ScalarFacts DEF within
  <2>2. ahead(p, at(p, l.position)) /\ IsParser(at(p, l.position))
    BY <2>1, AheadAt, AheadFacts
  <2>3. ahead(p, q(l)) /\ IsParser(q(l)) /\ q(l).text = p.text
    <3>1. ahead(at(p, l.position), q(l))
      BY <2>2, NextNonWhitespace
    <3> HIDE DEF q
    <3>2. ahead(p, q(l))
      BY <2>2, <3>1, AheadFacts
    <3> QED
      BY <3>2, AheadFacts
  <2> HIDE DEF q
  <2>4. ASSUME NEW c, is_comparer(c), compare(q(l), c), NEW test, NEW negated
        PROVE  within(p, p.position + 1, one(l, test, negated, c))
    BY <2>3, <2>4, BehindKeyword DEF within
  <2>5. ASSUME NEW c, is_comparer(c), compare(q(l), c), NEW test, NEW star
        PROVE  within(p, p.position + 1, two(l, test, c, star))
    <3>1. IsParser(jump(q(l), c)) /\ jump(q(l), c).text = p.text
      BY <2>3, <2>5, BehindKeyword
    <3>2. within(p, jump(q(l), c).position, scalar(jump(q(l), c), star))
      BY <3>1, ScalarFacts DEF within
    <3>3. ASSUME NEW r \in scalar(jump(q(l), c), star) PROVE r.position \in (p.position + 1)..(Len(p.text) + 1)
      BY <2>3, <2>5, <3>2, BehindKeyword DEF within
    <3>4. \A r \in scalar(jump(q(l), c), star) :
            [test |-> Test(test, FALSE, <<l.expr, r.expr>>), position |-> r.position].position
              \in (p.position + 1)..(Len(p.text) + 1)
      BY <3>3, Zenon
    <3> QED
      BY <3>4, Zenon DEF within
  <2>6. ASSUME NEW c, is_comparer(c), compare(q(l), c), NEW negated
        PROVE  within(p, p.position + 1, list_(l, negated, c))
    <3> DEFINE z == jump(q(l), c)
               y == next_non_whitespace(z)
               A == ArgsExpr(y, wild, args_lists(q(l), wild))
    <3>1. IsParser(z) /\ z.text = p.text
      BY <2>3, <2>6, BehindKeyword
    <3>2. ahead(z, y) /\ IsParser(y) /\ y.text = p.text /\ y.position \in z.position..(Len(p.text) + 1)
      BY <3>1, NextNonWhitespace, AheadFacts
    <3>3. good_lists(y, args_lists(q(l), wild))
      BY <2>3, <3>2, ArgsLists DEF good_lists, within
    <3>4. within(p, y.position, A)
      BY <3>2, <3>3, ArgsFacts DEF within
    <3>5. within(p, z.position, A)
      <4>1. z.position \in Nat
        BY <3>1, ParserNumbers
      <4> HIDE DEF z, y, A
      <4> QED
        BY <3>2, <3>4, <4>1, WithinLess
    <3>6. ASSUME NEW a \in A PROVE a.position \in (p.position + 1)..(Len(p.text) + 1)
      BY <2>3, <2>6, <3>5, BehindKeyword DEF within
    <3>7. \A a \in A :
            [test |-> Test("IN", negated, <<l.expr>> \o a.args), position |-> a.position].position
              \in (p.position + 1)..(Len(p.text) + 1)
      BY <3>6, Zenon
    <3> QED
      BY <3>7, Zenon DEF within
  <2>7. (\E c \in ComparatorOps : compare(q(l), c)) =>
          within(p, p.position + 1, two(l, op(l).words[1], op(l), FALSE))
    <3> SUFFICES ASSUME \E c \in ComparatorOps : compare(q(l), c)
                 PROVE  within(p, p.position + 1, two(l, op(l).words[1], op(l), FALSE))
      OBVIOUS
    <3>1. op(l) \in ComparatorOps /\ compare(q(l), op(l))
      OBVIOUS
    <3> HIDE DEF op
    <3> QED
      BY <2>5, <3>1, Keywords
  <2>8. within(p, p.position + 1, {})
    BY DEF within
  <2> DEFINE a1 == two(l, op(l).words[1], op(l), FALSE)
             a2 == one(l, "IS NULL", FALSE, IsNull)
             a3 == one(l, "IS NULL", TRUE, IsNotNull)
             a4 == list_(l, FALSE, In)
             a5 == list_(l, TRUE, NotIn)
             a6 == two(l, "LIKE", Like, FALSE)
             a7 == two(l, "LIKE", NotLike, TRUE)
             S == of(l)
  <2>9. S = CASE \E c \in ComparatorOps : compare(q(l), c) -> a1
              [] compare(q(l), IsNull) -> a2 [] compare(q(l), IsNotNull) -> a3
              [] compare(q(l), In) -> a4 [] compare(q(l), NotIn) -> a5
              [] compare(q(l), Like) -> a6 [] compare(q(l), NotLike) -> a7 [] OTHER -> {}
    OBVIOUS
  <2>10. /\ compare(q(l), IsNull) => within(p, p.position + 1, a2)
         /\ compare(q(l), IsNotNull) => within(p, p.position + 1, a3)
    BY <2>4, Keywords
  <2>11. /\ compare(q(l), In) => within(p, p.position + 1, a4)
         /\ compare(q(l), NotIn) => within(p, p.position + 1, a5)
    BY <2>6, Keywords
  <2>12. /\ compare(q(l), Like) => within(p, p.position + 1, a6)
         /\ compare(q(l), NotLike) => within(p, p.position + 1, a7)
    BY <2>5, Keywords
  <2> HIDE DEF a1, a2, a3, a4, a5, a6, a7, S, of
  <2>13. within(p, p.position + 1, S)
    BY <2>7, <2>8, <2>9, <2>10, <2>11, <2>12 DEF a1
  <2> QED
    BY <2>13 DEF S
<1> HIDE DEF of
<1> QED
  BY <1>1, <1>2 DEF within

-----------------------------------------------------------------------------
(* What is left to do.                                                     *)

Fit(p) == IsParser(p) /\ InClause(p) /\ AtEnd(p)

\* r has less to do than p.
lower(p, r) ==
  /\ r.text = p.text
  /\ \/ r.position > p.position
     \/ r.position >= p.position /\ r.phase > p.phase
     \/ r.position >= p.position /\ r.phase >= p.phase /\ begun(r) < begun(p)

\* The weights of what has begun are below that of a phase.
LEMMA ToDo ==
  ASSUME NEW p, IsParser(p)
  PROVE  begun(p) \in 0..15 /\ to_do(p) \in Nat
<1>1. begun(p) \in 0..15
  <2>1. /\ flag(p.groups # <<>>, 8) \in {0, 8} /\ flag(p.clause = NoClause, 4) \in {0, 4}
        /\ flag(p.can_consume, 2) \in {0, 2} /\ flag(Len(p.join) = 1, 1) \in {0, 1}
    BY DEF flag
  <2> QED
    BY <2>1 DEF begun
<1>2. /\ Len(p.text) \in Nat /\ p.position \in 1..(Len(p.text) + 1) /\ p.phase \in 0..8
  BY ParserNumbers
<1>3. Len(p.text) + 1 - p.position \in Nat /\ Phase_EOF - p.phase \in Nat
  BY <1>2 DEF Phase_EOF
<1> DEFINE u == Len(p.text) + 1 - p.position
           v == Phase_EOF - p.phase
           x == begun(p)
<1>4. to_do(p) = 160 * u + 16 * v + x
  BY DEF to_do
<1>5. u \in Nat /\ v \in Nat /\ x \in 0..15
  BY <1>1, <1>3
<1> HIDE DEF u, v, x
<1>6. 160 * u + 16 * v + x \in Nat
  BY <1>5
<1> QED
  BY <1>4, <1>5, <1>6 DEF x

\* The order of position, phase and beginnings is that of to_do.
LEMMA LowerIsLess ==
  ASSUME NEW p, IsParser(p), NEW r, IsParser(r), lower(p, r)
  PROVE  to_do(r) < to_do(p)
<1> DEFINE n == Len(p.text)
           a == p.position
           b == r.position
           f == p.phase
           g == r.phase
           x == begun(p)
           y == begun(r)
<1>1. n \in Nat /\ a \in 1..(n + 1) /\ b \in 1..(n + 1) /\ f \in 0..8 /\ g \in 0..8
  BY ParserNumbers DEF lower
<1>2. x \in 0..15 /\ y \in 0..15
  BY ToDo
<1>3. b > a \/ (b >= a /\ g > f) \/ (b >= a /\ g >= f /\ y < x)
  BY DEF lower
<1>4. /\ to_do(p) = 160 * (n + 1 - a) + 16 * (8 - f) + x
      /\ to_do(r) = 160 * (n + 1 - b) + 16 * (8 - g) + y
  BY DEF to_do, lower, Phase_EOF
<1> HIDE DEF n, a, b, f, g, x, y
<1>5. 160 * (n + 1 - b) + 16 * (8 - g) + y < 160 * (n + 1 - a) + 16 * (8 - f) + x
  BY <1>1, <1>2, <1>3
<1> QED
  BY <1>4, <1>5

\* A parser that has moved on has less to do.
LEMMA Lowered ==
  ASSUME NEW p, NEW q, NEW r, IsParser(p), IsParser(q), IsParser(r), lower(q, r),
         q.text = p.text, q.position >= p.position, q.phase = p.phase,
         q.position > p.position \/ begun(q) <= begun(p)
  PROVE  lower(p, r)
<1>1. /\ p.position \in Nat /\ q.position \in Nat /\ r.position \in Nat
      /\ p.phase \in Int /\ q.phase \in Int /\ r.phase \in Int
  BY ParserNumbers
<1>2. begun(p) \in 0..15 /\ begun(q) \in 0..15 /\ begun(r) \in 0..15
  BY ToDo
<1> QED
  BY <1>1, <1>2 DEF lower

\* What has begun depends on four fields, and is less when one of them ends.
LEMMA BegunFacts ==
  ASSUME NEW p, IsParser(p), NEW r, IsParser(r)
  PROVE  /\ r.groups = p.groups /\ r.clause = p.clause /\ r.can_consume = p.can_consume
            /\ r.join = p.join => begun(r) = begun(p)
         /\ r.groups = p.groups /\ r.clause = p.clause /\ r.join = p.join
            /\ ~r.can_consume /\ p.can_consume => begun(r) < begun(p)
         /\ r.groups = p.groups /\ r.clause # NoClause /\ r.join = p.join
            /\ r.can_consume = p.can_consume /\ p.clause = NoClause => begun(r) < begun(p)
         /\ r.groups = p.groups /\ r.clause = p.clause /\ r.can_consume = p.can_consume
            /\ Len(p.join) = 1 /\ Len(r.join) # 1 => begun(r) < begun(p)
         /\ r.groups = <<>> /\ p.groups # <<>> /\ r.join = <<>> /\ r.can_consume = p.can_consume
            => begun(r) < begun(p)
BY DEF begun, flag, IsParser

-----------------------------------------------------------------------------
(* What a turn makes of a parser.                                          *)

\* after_clause ends a clause once its phase is over, and changes nothing else.
LEMMA AfterClause ==
  ASSUME NEW p, IsParser(p)
  PROVE  LET r == after_clause(p) IN
         /\ IsParser(r) /\ r.text = p.text /\ r.position = p.position /\ r.phase = p.phase
         /\ r.clause = (IF p.phase = p.clause THEN p.clause ELSE NoClause)
         /\ r.can_consume = p.can_consume /\ r.join = p.join /\ r.groups = p.groups
<1> DEFINE r == after_clause(p)
           c == IF p.phase = p.clause THEN p.clause ELSE NoClause
<1>1. c \in {NoClause} \cup Projection..LimitAndOffset
  BY DEF IsParser
<1> HIDE DEF c
<1>2. r = [p EXCEPT !.clause = c]
  BY DEF after_clause, c
<1>3. /\ shaped(r) /\ r.text = p.text /\ r.position = p.position /\ r.phase = p.phase
      /\ r.clause = c /\ r.can_consume = p.can_consume /\ r.join = p.join /\ r.groups = p.groups
  BY <1>2 DEF IsParser, shaped
<1> HIDE DEF r
<1>4. IsParser(r)
  BY <1>1, <1>3 DEF IsParser
<1> QED
  BY <1>3, <1>4 DEF r, c

\* after_comma takes a comma if there is one.
LEMMA AfterComma ==
  ASSUME NEW p, IsParser(p)
  PROVE  LET q == after_comma(p) IN
         /\ IsParser(q) /\ q.text = p.text /\ q.phase = p.phase /\ q.clause = p.clause
         /\ q.join = p.join /\ q.groups = p.groups /\ q.position >= p.position
         /\ \/ q = p
            \/ q.can_consume /\ q.position > p.position /\ current(p) = ","
<1> DEFINE q == after_comma(p)
<1>1. CASE current(p) = ","
  <2>1. ahead(p, next(p)) /\ next(p).position = p.position + 1
    BY <1>1, CurrentFacts DEF Eof
  <2>2. /\ IsParser(next(p)) /\ next(p).text = p.text /\ next(p).phase = p.phase
        /\ next(p).clause = p.clause /\ next(p).join = p.join /\ next(p).groups = p.groups
        /\ next(p).before = p.before
    BY <2>1, AheadFacts
  <2>3. q = [next(p) EXCEPT !.can_consume = TRUE]
    BY <1>1 DEF after_comma
  <2>4. /\ shaped(q) /\ q.text = p.text /\ q.phase = p.phase /\ q.clause = p.clause
        /\ q.join = p.join /\ q.groups = p.groups /\ q.position = next(p).position /\ q.can_consume = TRUE
    BY <2>2, <2>3 DEF IsParser, shaped
  <2> HIDE DEF q
  <2>6. IsParser(q)
    BY <2>2, <2>4 DEF IsParser
  <2>7. p.position \in Nat
    BY ParserNumbers
  <2>8. q.position >= p.position /\ q.position > p.position
    BY <2>1, <2>4, <2>7
  <2> QED
    BY <1>1, <2>4, <2>6, <2>8, Zenon DEF q
<1>2. CASE current(p) # ","
  <2>1. q = p
    BY <1>2 DEF after_comma
  <2> QED
    BY <2>1, ParserNumbers
<1> QED
  BY <1>1, <1>2

\* A parser that is left at a clause's end, or in a clause that cannot be cut short.
LEMMA FitAfterClause ==
  ASSUME NEW p, IsParser(p), p.groups = <<>>, p.join = <<>>, p.clause # Collections
  PROVE  Fit(after_clause(p))
<1> DEFINE r == after_clause(p)
<1>1. /\ IsParser(r) /\ r.phase = p.phase /\ r.join = <<>> /\ r.groups = <<>>
      /\ r.clause = (IF p.phase = p.clause THEN p.clause ELSE NoClause)
  BY AfterClause
<1>2. r.phase \in Int
  BY <1>1, ParserNumbers
<1> HIDE DEF r
<1>3. InClause(r)
  BY <1>1, <1>2 DEF InClause, NoClause, Joins
<1>4. AtEnd(r)
  <2>1. NoClause # Collections
    BY DEF NoClause, Collections
  <2>2. r.clause # Collections
    BY <1>1, <2>1
  <2> QED
    BY <2>2 DEF AtEnd
<1> QED
  BY <1>1, <1>3, <1>4 DEF Fit, r

\* A column of SELECT ends in the text, no earlier than it begins.
LEMMA IdentifierFacts ==
  ASSUME NEW p, IsParser(p)
  PROVE  within(p, p.position, Identifier(p))
<1> DEFINE q(s) == at(p, s.position)
           r(s) == next_non_whitespace(q(s))
           item(s, alias, i) == [item |-> [expression |-> s.expr, alias |-> alias], position |-> i]
           of(s) == IF current(q(s)) # " " \/ compare(r(s), From) THEN {item(s, None, r(s).position)}
                    ELSE IF compare(r(s), As)
                    THEN {item(s, w.text, w.position) : w \in TextCollector(jump(r(s), As), {})}
                    ELSE {}
<1>1. Identifier(p) = UNION {of(s) : s \in scalar(p, TRUE)}
  BY DEF Identifier
<1>2. ASSUME NEW s \in scalar(p, TRUE) PROVE within(p, p.position, of(s))
  <2>1. s.position \in p.position..(Len(p.text) + 1)
    BY ScalarFacts DEF within
  <2>2. ahead(p, q(s)) /\ IsParser(q(s))
    BY <2>1, AheadAt, AheadFacts
  <2>3. ahead(q(s), r(s))
    BY <2>2, NextNonWhitespace
  <2> HIDE DEF q, r
  <2>4. ahead(p, r(s)) /\ IsParser(r(s)) /\ r(s).position \in p.position..(Len(p.text) + 1)
    BY <2>2, <2>3, AheadFacts
  <2>5. ASSUME NEW e PROVE within(p, p.position, {item(s, e, r(s).position)})
    BY <2>4 DEF within
  <2>6. ASSUME compare(r(s), As), NEW w \in TextCollector(jump(r(s), As), {})
        PROVE  w.position \in p.position..(Len(p.text) + 1)
    <3> DEFINE z == jump(r(s), As)
    <3>1. IsParser(z) /\ z.text = p.text /\ z.position \in (p.position + 1)..(Len(p.text) + 1)
      BY <2>4, <2>6, BehindKeyword, Keywords
    <3>2. w.position \in z.position..(Len(p.text) + 1)
      BY <2>6, <3>1, TextCollectorFacts
    <3>3. p.position \in Nat /\ Len(p.text) \in Nat
      BY ParserNumbers
    <3> HIDE DEF z
    <3> QED
      BY <3>1, <3>2, <3>3
  <2>7. compare(r(s), As) =>
          within(p, p.position, {item(s, w.text, w.position) : w \in TextCollector(jump(r(s), As), {})})
    <3>1. ASSUME NEW w PROVE item(s, w.text, w.position).position = w.position
      OBVIOUS
    <3> HIDE DEF item
    <3> QED
      BY <2>6, <3>1, Zenon DEF within
  <2>8. within(p, p.position, {})
    BY DEF within
  <2> DEFINE a == {item(s, None, r(s).position)}
             b == {item(s, w.text, w.position) : w \in TextCollector(jump(r(s), As), {})}
             S == of(s)
  <2>9. S = IF current(q(s)) # " " \/ compare(r(s), From) THEN a
            ELSE IF compare(r(s), As) THEN b ELSE {}
    OBVIOUS
  <2>10. within(p, p.position, a)
    BY <2>5
  <2> HIDE DEF a, S, of
  <2>11. within(p, p.position, S)
    BY <2>7, <2>8, <2>9, <2>10
  <2> QED
    BY <2>11 DEF S
<1> HIDE DEF of
<1> QED
  BY <1>1, <1>2 DEF within

\* The clause asks for a collection.
Asks(p) == Fit(p) /\ Waiting(p)

\* A parser that asks for a collection is in FROM or in a join.
LEMMA AsksFacts ==
  ASSUME NEW p, Asks(p)
  PROVE  /\ IsParser(p) /\ p.groups = <<>> /\ p.clause \in {Collections, Joins}
         /\ p.clause = Collections => p.join = <<>> /\ p.phase = Collections /\ p.can_consume
         /\ p.clause = Joins => Len(p.join) = 1 /\ p.phase >= Joins
<1>1. Collections # Joins /\ Collections # NoClause
  BY DEF Collections, Joins, NoClause
<1> QED
  BY <1>1 DEF Asks, Fit, Waiting, InClause

\* The collection is part of the join, or an item of FROM.
LEMMA WithCollection ==
  ASSUME NEW p, Asks(p), NEW z, ahead(p, z), NEW e, collection_ends(next_non_whitespace(z))
  PROVE  Fit(with_collection(z, e)) /\ lower(p, with_collection(z, e))
<1> DEFINE y == next_non_whitespace(z)
           q == check_next_phase(z)
           r == with_collection(z, e)
<1>1. /\ IsParser(p) /\ p.groups = <<>> /\ p.clause \in {Collections, Joins}
      /\ p.clause = Collections => p.join = <<>> /\ p.phase = Collections /\ p.can_consume
      /\ p.clause = Joins => Len(p.join) = 1 /\ p.phase >= Joins
  BY AsksFacts
<1>2. /\ IsParser(z) /\ z.text = p.text /\ z.phase = p.phase /\ z.clause = p.clause
      /\ z.can_consume = p.can_consume /\ z.join = p.join /\ z.groups = p.groups
      /\ z.position \in p.position..(Len(p.text) + 1)
  BY <1>1, AheadFacts
<1>3. /\ onward(z, q) /\ q.position = y.position
      /\ ~opens(z) => q = y
      /\ opens(z) => q.phase > z.phase \/ (q.phase = z.phase /\ z.phase \in {Joins, Phase_EOF})
  BY <1>2, CheckNextPhase
<1>4. opens(y) <=> opens(z)
  BY <1>2, OpenedFacts DEF opens
<1>5. next_non_whitespace(y) = y
  BY <1>2, NextNonWhitespace
<1>6. /\ IsParser(q) /\ q.text = p.text /\ q.position >= p.position /\ q.phase >= p.phase
      /\ q.clause = p.clause /\ q.can_consume = p.can_consume /\ q.join = p.join
      /\ q.groups = p.groups
  <2>1. z.position \in Nat /\ p.position \in Nat /\ q.position \in Nat /\ z.position >= p.position
    BY <1>1, <1>2, <1>3, ParserNumbers DEF onward
  <2> QED
    BY <1>2, <1>3, <2>1 DEF onward
<1>7. CASE p.clause = Joins
  <2>1. r = [q EXCEPT !.join = Append(@, e)]
    BY <1>2, <1>7 DEF with_collection
  <2>2. /\ shaped(r) /\ r.text = q.text /\ r.position = q.position /\ r.phase = q.phase
        /\ r.clause = q.clause /\ r.can_consume = q.can_consume /\ r.join = Append(q.join, e)
        /\ r.groups = q.groups
    <3> HIDE DEF q, r
    <3> QED
      BY <1>6, <2>1 DEF IsParser, shaped
  <2> HIDE DEF q, r
  <2>3. IsSeq(r.join) /\ Len(r.join) = 2
    <3>1. IsSeq(q.join) /\ Len(q.join) = 1
      BY <1>1, <1>6, <1>7 DEF IsParser
    <3>2. IsSeq(Append(q.join, e)) /\ Len(Append(q.join, e)) = Len(q.join) + 1
      BY <3>1, SeqFacts
    <3> QED
      BY <2>2, <3>1, <3>2
  <2>4. IsParser(r)
    BY <1>6, <2>2, <2>3 DEF IsParser
  <2>5. InClause(r) /\ AtEnd(r)
    <3>1. r.clause = Joins /\ r.groups = <<>> /\ r.phase >= Joins
      <4>1. q.phase \in Int /\ p.phase \in Int
        BY <1>1, <1>6, ParserNumbers
      <4> QED
        BY <1>1, <1>6, <1>7, <2>2, <4>1 DEF Joins
    <3> QED
      BY <2>3, <3>1 DEF InClause, AtEnd, Joins, Collections
  <2>6. begun(r) < begun(p)
    BY <1>1, <1>6, <1>7, <2>2, <2>3, <2>4, BegunFacts
  <2> QED
    BY <1>6, <2>2, <2>4, <2>5, <2>6 DEF Fit, lower, r
<1>8. CASE p.clause = Collections
  <2> DEFINE x == [q EXCEPT !.query.collections = Append(@, e), !.can_consume = FALSE]
  <2>0. p.clause # Joins
    BY <1>8 DEF Joins, Collections
  <2>1. r = after_clause(x)
    BY <1>2, <2>0 DEF with_collection
  <2>2. /\ shaped(x) /\ x.text = q.text /\ x.position = q.position /\ x.phase = q.phase
        /\ x.clause = q.clause /\ x.can_consume = FALSE /\ x.join = q.join
        /\ x.groups = q.groups
    <3> DEFINE v == [q.query EXCEPT !.collections = Append(@, e)]
    <3>1. x = [q EXCEPT !.query = v, !.can_consume = FALSE]
      OBVIOUS
    <3> HIDE DEF q, v, x
    <3> QED
      BY <1>6, <3>1 DEF IsParser, shaped
  <2> HIDE DEF q, x
  <2>3. IsParser(x)
    BY <1>6, <2>2 DEF IsParser
  <2>4. /\ IsParser(r) /\ r.text = x.text /\ r.position = x.position /\ r.phase = x.phase
        /\ r.clause = (IF x.phase = x.clause THEN x.clause ELSE NoClause)
        /\ r.can_consume = FALSE /\ r.join = <<>> /\ r.groups = <<>>
    BY <1>1, <1>6, <1>8, <2>1, <2>2, <2>3, AfterClause
  <2> HIDE DEF r
  <2>5. InClause(r)
    <3>1. r.clause = NoClause \/ (r.clause = Collections /\ r.phase = Collections)
      BY <1>6, <1>8, <2>2, <2>4
    <3> QED
      BY <2>4, <3>1 DEF InClause, NoClause, Joins, Collections
  <2>6. AtEnd(r)
    <3>1. CASE opens(z)
      <4>1. q.phase # Collections
        <5>1. q.phase \in Int /\ p.phase \in Int
          BY <1>1, <1>6, ParserNumbers
        <5> QED
          BY <1>1, <1>2, <1>3, <1>8, <3>1, <5>1 DEF Collections, Joins, Phase_EOF
      <4>2. r.clause = NoClause
        BY <1>6, <1>8, <2>2, <2>4, <4>1
      <4> QED
        <5>1. r.clause # Collections
          BY <4>2 DEF NoClause, Collections
        <5> QED
          BY <5>1 DEF AtEnd
    <3>2. CASE ~opens(z)
      <4>1. r.text = y.text /\ r.position = y.position
        BY <1>3, <2>2, <2>4, <3>2
      <4>2. current(y) = "," \/ compare(y, On)
        BY <1>4, <1>5, <3>2 DEF collection_ends
      <4>3. IsParser(y)
        BY <1>2, NextNonWhitespace, AheadFacts
      <4> HIDE DEF y
      <4>4. current(r) = current(y)
        BY <4>1 DEF current
      <4>5. current(y) # " "
        BY <1>2, NextNonWhitespace DEF y
      <4>6. next_non_whitespace(r) = r
        BY <2>4, <4>4, <4>5, NextNonWhitespace
      <4>7. compare(r, On) <=> compare(y, On)
        <5>1. jump(r, On).position = jump(y, On).position /\ jump(r, On).text = jump(y, On).text
          BY <2>4, <4>1, <4>3 DEF jump, at, IsParser, shaped
        <5>2. current(jump(r, On)) = current(jump(y, On))
          BY <5>1 DEF current
        <5> QED
          BY <4>1, <5>1, <5>2, Zenon DEF compare
      <4> QED
        BY <4>2, <4>4, <4>6, <4>7, Zenon DEF AtEnd
    <3> QED
      BY <3>1, <3>2
  <2>7. begun(r) < begun(p) \/ r.phase > p.phase
    <3>1. CASE r.clause = Collections
      BY <1>1, <1>8, <2>4, <3>1, BegunFacts
    <3>2. CASE r.clause # Collections
      <4>1. r.phase # Collections
        BY <1>6, <1>8, <2>2, <2>4, <3>2
      <4>2. q.phase \in Int /\ p.phase \in Int
        BY <1>1, <1>6, ParserNumbers
      <4> QED
        BY <1>1, <1>6, <1>8, <2>2, <2>4, <4>1, <4>2
    <3> QED
      BY <3>1, <3>2
  <2>8. lower(p, r)
    BY <1>6, <2>2, <2>4, <2>7 DEF lower
  <2> QED
    BY <2>4, <2>5, <2>6, <2>8 DEF Fit, r
<1> QED
  BY <1>1, <1>7, <1>8

\* skip_as only moves the parser further on.
LEMMA SkipAs ==
  ASSUME NEW p, IsParser(p)
  PROVE  ahead(p, skip_as(p)) /\ IsParser(skip_as(p))
<1> DEFINE q == next_non_whitespace(p)
           z == IF compare(q, As) THEN jump(q, As) ELSE q
<1>1. ahead(p, q) /\ IsParser(q)
  BY NextNonWhitespace, AheadFacts
<1>2. compare(q, As) => ahead(p, jump(q, As))
  BY <1>1, BehindKeyword, Keywords
<1> HIDE DEF q
<1>3. ahead(p, z) /\ IsParser(z)
  BY <1>1, <1>2, AheadFacts
<1>4. skip_as(p) = next_non_whitespace(z)
  BY DEF skip_as, q
<1> HIDE DEF z
<1>5. ahead(z, skip_as(p))
  BY <1>3, <1>4, NextNonWhitespace
<1>6. ahead(p, skip_as(p))
  BY <1>3, <1>5, AheadFacts
<1> QED
  BY <1>6, AheadFacts

\* An alias of a collection, and what follows it.
LEMMA AliasFacts ==
  ASSUME NEW p, IsParser(p), NEW q, ahead(p, q), NEW s, ahead(q, s),
         NEW stoppers, NEW w \in TextCollector(s, stoppers)
  PROVE  ahead(p, at(q, w.position))
<1>1. IsParser(q) /\ q.text = p.text /\ q.position \in p.position..(Len(p.text) + 1)
  BY AheadFacts
<1>2. IsParser(s) /\ s.text = p.text /\ s.position \in q.position..(Len(p.text) + 1)
  BY <1>1, AheadFacts
<1>3. w.position \in s.position..(Len(p.text) + 1)
  BY <1>2, TextCollectorFacts
<1>4. w.position \in q.position..(Len(q.text) + 1)
  <2>1. Len(p.text) \in Nat /\ q.position \in Nat
    BY <1>1, ParserNumbers
  <2> QED
    BY <1>1, <1>2, <1>3, <2>1
<1>5. ahead(q, at(q, w.position))
  BY <1>1, <1>4, AheadAt
<1> QED
  BY <1>5, AheadFacts

\* A collection is read further on, and the parser that asked for it is served.
LEMMA CollectionFacts ==
  ASSUME NEW p, Asks(p), NEW r \in Collection(p)
  PROVE  Fit(r) /\ lower(p, r)
<1>0. IsParser(p)
  BY AsksFacts
<1> DEFINE q(n) == next_non_whitespace(at(p, n.position))
           words(n) == {w \in TextCollector(skip_as(q(n)), {}) :
                          collection_ends(next_non_whitespace(at(q(n), w.position)))}
           of(n) == IF collection_ends(q(n)) THEN {with_collection(q(n), Table(n.text, None))}
                    ELSE {with_collection(at(q(n), w.position), Table(n.text, w.text)) : w \in words(n)}
<1>1. PICK n \in TextCollector(p, {"."}) : r \in of(n)
  <2>1. Collection(p) = UNION {of(n) : n \in TextCollector(p, {"."})}
    BY DEF Collection
  <2> HIDE DEF of
  <2> QED
    BY <2>1
<1>2. ahead(p, q(n)) /\ IsParser(q(n)) /\ next_non_whitespace(q(n)) = q(n)
  <2>1. n.position \in p.position..(Len(p.text) + 1)
    BY <1>0, TextCollectorFacts
  <2>2. ahead(p, at(p, n.position)) /\ IsParser(at(p, n.position))
    BY <1>0, <2>1, AheadAt, AheadFacts
  <2>3. ahead(at(p, n.position), q(n)) /\ next_non_whitespace(q(n)) = q(n)
    BY <2>2, NextNonWhitespace
  <2> HIDE DEF q
  <2>4. ahead(p, q(n))
    BY <1>0, <2>2, <2>3, AheadFacts
  <2> QED
    BY <1>0, <2>3, <2>4, AheadFacts
<1> HIDE DEF q
<1>3. CASE collection_ends(q(n))
  <2>1. r = with_collection(q(n), Table(n.text, None))
    BY <1>1, <1>3
  <2> QED
    BY <1>2, <1>3, <2>1, WithCollection
<1>4. CASE ~collection_ends(q(n))
  <2>1. PICK w \in words(n) : r = with_collection(at(q(n), w.position), Table(n.text, w.text))
    <3> HIDE DEF words
    <3> QED
      BY <1>1, <1>4
  <2>2. /\ w \in TextCollector(skip_as(q(n)), {})
        /\ collection_ends(next_non_whitespace(at(q(n), w.position)))
    BY <2>1
  <2>3. ahead(p, at(q(n), w.position))
    BY <1>0, <1>2, <2>2, SkipAs, AliasFacts
  <2> QED
    BY <2>1, <2>2, <2>3, WithCollection
<1> QED
  BY <1>3, <1>4

\* So is a subquery with its alias.
LEMMA NamedFacts ==
  ASSUME NEW p, Asks(p), NEW query, NEW r \in named(p, query)
  PROVE  Fit(r) /\ lower(p, r)
<1>0. IsParser(p)
  BY AsksFacts
<1> DEFINE q == skip_as(p)
           words == {w \in TextCollector(q, {}) : collection_ends(next_non_whitespace(at(q, w.position)))}
<1>1. PICK w \in words : r = with_collection(at(q, w.position), Subquery(query, w.text))
  <2>1. r \in IF collection_ends(q) THEN {}
              ELSE {with_collection(at(q, w.position), Subquery(query, w.text)) : w \in words}
    BY DEF named
  <2> HIDE DEF words, q
  <2> QED
    BY <2>1
<1>2. ahead(p, q) /\ ahead(q, q)
  BY <1>0, SkipAs, AheadAt, ParserNumbers
<1>3. ahead(p, at(q, w.position))
  <2> HIDE DEF q
  <2> QED
    BY <1>0, <1>1, <1>2, AliasFacts DEF words
<1> QED
  BY <1>1, <1>3, WithCollection

\* Blanks change nothing.
LEMMA FitAhead ==
  ASSUME NEW x, Fit(x), x.clause # Collections, NEW p, ahead(x, p)
  PROVE  Fit(p) /\ \A r : IsParser(r) /\ lower(p, r) => lower(x, r)
<1>1. /\ IsParser(x) /\ IsParser(p) /\ p.text = x.text /\ p.phase = x.phase /\ p.clause = x.clause
      /\ p.can_consume = x.can_consume /\ p.join = x.join /\ p.groups = x.groups
      /\ p.position \in x.position..(Len(x.text) + 1)
  BY AheadFacts DEF Fit
<1>2. InClause(p) /\ AtEnd(p)
  BY <1>1 DEF Fit, InClause, AtEnd
<1>3. begun(p) = begun(x) /\ begun(p) \in 0..15
  BY <1>1, BegunFacts, ToDo
<1>4. p.position >= x.position /\ begun(p) <= begun(x)
  BY <1>1, <1>3, ParserNumbers
<1>5. ASSUME NEW r, IsParser(r), lower(p, r) PROVE lower(x, r)
  BY <1>1, <1>4, <1>5, Lowered
<1> QED
  BY <1>1, <1>2, <1>5 DEF Fit

\* A turn that goes on behind what it has read, with an item more in the query.
LEMMA ItemFacts ==
  ASSUME NEW p, Fit(p), NEW i \in p.position..(Len(p.text) + 1), NEW query, NEW b,
         b \in BOOLEAN, p.clause # Collections \/ b = TRUE,
         NEW r, r = [[at(p, i) EXCEPT !.query = query] EXCEPT !.can_consume = b]
  PROVE  /\ Fit(r)
         /\ i > p.position \/ (p.can_consume /\ b = FALSE) => lower(p, r)
<1> DEFINE q == at(p, i)
<1>0. IsParser(p) /\ ahead(p, q)
  BY AheadAt DEF Fit
<1>1. /\ IsParser(q) /\ q.text = p.text /\ q.phase = p.phase /\ q.clause = p.clause
      /\ q.can_consume = p.can_consume /\ q.join = p.join /\ q.groups = p.groups
      /\ q.before = p.before
  BY <1>0, AheadFacts
<1>2. q.position = i /\ i >= p.position
  <2>1. i \in Int /\ p.position \in Nat
    BY <1>0, ParserNumbers
  <2> QED
    BY <1>0, <2>1, AtFacts
<1>9. r = [[q EXCEPT !.query = query] EXCEPT !.can_consume = b]
  OBVIOUS
<1> HIDE DEF q
<1>3. /\ shaped(r) /\ r.text = q.text /\ r.position = q.position /\ r.phase = q.phase
      /\ r.clause = q.clause /\ r.can_consume = b /\ r.join = q.join /\ r.groups = q.groups
  <2>1. shaped(q)
    BY <1>1 DEF IsParser
  <2> DEFINE w == [text |-> q.text, before |-> q.before, position |-> q.position,
                   phase |-> q.phase, query |-> q.query, clause |-> q.clause,
                   can_consume |-> q.can_consume, join |-> q.join, groups |-> q.groups]
  <2>2. r = [[w EXCEPT !.query = query] EXCEPT !.can_consume = b]
    BY <1>9, <2>1 DEF shaped
  <2> DEFINE v == [text |-> q.text, before |-> q.before, position |-> q.position,
                   phase |-> q.phase, query |-> query, clause |-> q.clause,
                   can_consume |-> b, join |-> q.join, groups |-> q.groups]
  <2>3. r = v
    BY <2>2
  <2>4. /\ shaped(v) /\ v.text = q.text /\ v.position = q.position /\ v.phase = q.phase
        /\ v.clause = q.clause /\ v.can_consume = b /\ v.join = q.join /\ v.groups = q.groups
    BY DEF shaped
  <2> HIDE DEF v
  <2> QED
    BY <2>3, <2>4, Zenon
<1>4. IsParser(r)
  BY <1>1, <1>3 DEF IsParser
<1>5. InClause(r)
  BY <1>1, <1>3 DEF Fit, InClause
<1>6. AtEnd(r)
  <2>1. r.clause # Collections \/ r.can_consume
    BY <1>1, <1>3
  <2> QED
    BY <2>1 DEF AtEnd
<1>7. ASSUME i > p.position \/ (p.can_consume /\ b = FALSE) PROVE lower(p, r)
  <2>1. p.can_consume /\ b = FALSE => begun(r) < begun(p)
    BY <1>0, <1>1, <1>3, <1>4, BegunFacts
  <2>2. r.phase >= p.phase
    BY <1>0, <1>1, <1>3, ParserNumbers
  <2> QED
    BY <1>1, <1>2, <1>3, <1>7, <2>1, <2>2 DEF lower
<1> QED
  BY <1>4, <1>5, <1>6, <1>7 DEF Fit


\* Query::parse gives the parser to the clause of its phase.
LEMMA ClauseStarts ==
  ASSUME NEW x, Fit(x), x.clause = NoClause, x.groups = <<>>, x.join = <<>>,
         NEW p, p = next_non_whitespace(x)
  PROVE  /\ \A comparers, q : (\A c \in comparers : is_comparer(c)) /\ p.phase # Phase_EOF
                            /\ q \in started(p, p.phase, comparers) =>
              /\ Fit(q) /\ lower(x, q)
              /\ p.phase \in {Criteria, Having} =>
                   Fit([q EXCEPT !.groups = <<Level>>]) /\ lower(x, [q EXCEPT !.groups = <<Level>>])
         /\ p.phase \in {Joins, LimitAndOffset} =>
              Fit([p EXCEPT !.clause = p.phase]) /\ lower(x, [p EXCEPT !.clause = p.phase])
<1>1. IsParser(x) /\ x.clause # Collections
  <2>1. NoClause # Collections
    BY DEF NoClause, Collections
  <2> QED
    BY <2>1 DEF Fit
<1>2. ahead(x, p)
  BY <1>1, NextNonWhitespace
<1>3. /\ Fit(p) /\ IsParser(p) /\ p.text = x.text /\ p.clause = NoClause /\ p.phase = x.phase
      /\ p.join = <<>> /\ p.groups = <<>> /\ p.can_consume = x.can_consume
  BY <1>1, <1>2, FitAhead, AheadFacts
<1>4. \A r : IsParser(r) /\ lower(p, r) => lower(x, r)
  BY <1>1, <1>2, FitAhead
<1>5. ASSUME NEW comparers, \A c \in comparers : is_comparer(c), p.phase # Phase_EOF,
             NEW q \in started(p, p.phase, comparers)
      PROVE  /\ Fit(q) /\ lower(x, q)
             /\ p.phase \in {Criteria, Having} =>
                  Fit([q EXCEPT !.groups = <<Level>>]) /\ lower(x, [q EXCEPT !.groups = <<Level>>])
  <2>1. PICK c \in comparers : compare(p, c) /\ q = [jump(p, c) EXCEPT !.clause = p.phase, !.can_consume = TRUE]
    BY <1>5 DEF started
  <2> DEFINE z == jump(p, c)
             s == [q EXCEPT !.groups = <<Level>>]
  <2>2. ahead(p, z) /\ z.position > p.position
    BY <1>3, <1>5, <2>1, CompareFacts
  <2>3. /\ IsParser(z) /\ z.text = p.text /\ z.phase = p.phase /\ z.join = <<>> /\ z.groups = <<>>
        /\ z.before = p.before
    BY <1>3, <2>2, AheadFacts
  <2> HIDE DEF z
  <2>4. /\ shaped(q) /\ q.text = z.text /\ q.position = z.position /\ q.phase = z.phase
        /\ q.clause = p.phase /\ q.can_consume = TRUE /\ q.join = z.join /\ q.groups = z.groups
    BY <2>1, <2>3 DEF IsParser, shaped, z
  <2>5. p.phase \in Projection..LimitAndOffset
    BY <1>3, <1>5, ParserNumbers DEF Projection, LimitAndOffset, Phase_EOF
  <2>6. IsParser(q)
    BY <2>3, <2>4, <2>5 DEF IsParser
  <2>7. InClause(q) /\ AtEnd(q)
    <3>1. InClause(q)
      BY <2>3, <2>4 DEF InClause, Joins
    <3>2. q.can_consume
      BY <2>4
    <3> QED
      BY <3>1, <3>2 DEF AtEnd
  <2>8. q.position >= p.position
    BY <1>3, <2>2, <2>4, <2>6, ParserNumbers
  <2>9. lower(x, q)
    BY <1>4, <2>2, <2>3, <2>4, <2>6 DEF lower
  <2>10. ASSUME p.phase \in {Criteria, Having} PROVE Fit(s) /\ lower(x, s)
    <3>1. /\ shaped(s) /\ s.text = q.text /\ s.position = q.position /\ s.phase = q.phase
          /\ s.clause = q.clause /\ s.can_consume = q.can_consume /\ s.join = q.join
          /\ s.groups = <<Level>>
      BY <2>4 DEF shaped
    <3>2. IsSeq(<<Level>>)
      BY <<Level>> \in Seq({Level}) DEF IsSeq
    <3> HIDE DEF s
    <3>3. IsParser(s)
      BY <2>6, <3>1, <3>2 DEF IsParser
    <3>4. InClause(s) /\ AtEnd(s)
      <4>1. InClause(s)
        BY <2>3, <2>4, <2>10, <3>1 DEF InClause, Joins
      <4>2. s.can_consume
        BY <2>4, <3>1
      <4> QED
        BY <4>1, <4>2 DEF AtEnd
    <3>5. lower(x, s)
      BY <1>4, <2>2, <2>3, <2>4, <3>1, <3>3 DEF lower
    <3> QED
      BY <3>3, <3>4, <3>5 DEF Fit
  <2> QED
    BY <2>6, <2>7, <2>9, <2>10 DEF Fit
<1>6. ASSUME p.phase \in {Joins, LimitAndOffset}
      PROVE  Fit([p EXCEPT !.clause = p.phase]) /\ lower(x, [p EXCEPT !.clause = p.phase])
  <2> DEFINE r == [p EXCEPT !.clause = p.phase]
  <2>1. /\ shaped(r) /\ r.text = p.text /\ r.position = p.position /\ r.phase = p.phase
        /\ r.clause = p.phase /\ r.can_consume = p.can_consume /\ r.join = p.join
        /\ r.groups = p.groups
    BY <1>3 DEF IsParser, shaped
  <2> HIDE DEF r
  <2>2. IsParser(r)
    BY <1>3, <1>6, <2>1 DEF IsParser, Joins, LimitAndOffset, Projection
  <2>3. InClause(r)
    BY <1>3, <1>6, <2>1 DEF InClause, Joins, LimitAndOffset
  <2>4. AtEnd(r)
    <3>1. r.clause # Collections
      BY <1>6, <2>1 DEF Joins, LimitAndOffset, Collections
    <3> QED
      BY <3>1 DEF AtEnd
  <2>5. lower(p, r)
    <3>1. r.clause # NoClause
      BY <1>6, <2>1 DEF NoClause, Joins, LimitAndOffset
    <3>2. begun(r) < begun(p)
      BY <1>3, <2>1, <2>2, <3>1, BegunFacts
    <3>3. r.position >= p.position /\ r.phase >= p.phase
      BY <1>3, <2>1, ParserNumbers
    <3> QED
      BY <2>1, <3>2, <3>3 DEF lower
  <2>6. lower(x, r)
    BY <1>4, <2>2, <2>5
  <2> QED
    BY <2>2, <2>3, <2>4, <2>6 DEF Fit, r
<1> QED
  BY <1>5, <1>6

\* These clauses are none of the others.
LEMMA ClausesDiffer ==
  {Projection, Criteria, Aggregates, Having, OrderBy, LimitAndOffset}
    \cap {NoClause, Collections, Joins} = {}
BY DEF Projection, Criteria, Aggregates, Having, OrderBy, LimitAndOffset, NoClause, Collections, Joins

\* A clause's loop goes on, or ends because a later phase has begun.
LEMMA ClauseTurn ==
  ASSUME NEW p, Fit(p), p.clause \notin {NoClause, Collections, Joins}, p.groups = <<>>,
         NEW z, IsParser(z), z.text = p.text, z.position >= p.position, z.phase >= p.phase,
         z.clause = p.clause, z.join = p.join, z.groups = p.groups,
         \/ z.position > p.position
         \/ z.phase > p.phase
         \/ p.can_consume /\ ~z.can_consume
  PROVE  Fit(after_clause(z)) /\ lower(p, after_clause(z))
<1> DEFINE r == after_clause(z)
<1>1. IsParser(p) /\ p.join = <<>> /\ p.phase = p.clause
  BY DEF Fit, InClause
<1>2. Fit(r)
  BY <1>1, FitAfterClause
<1>3. /\ IsParser(r) /\ r.text = z.text /\ r.position = z.position /\ r.phase = z.phase
      /\ r.clause = (IF z.phase = z.clause THEN z.clause ELSE NoClause)
      /\ r.can_consume = z.can_consume /\ r.join = z.join /\ r.groups = z.groups
  BY AfterClause
<1> HIDE DEF r
<1>4. p.phase \in Int /\ z.phase \in Int
  BY <1>1, ParserNumbers
<1>5. \/ z.position > p.position
      \/ z.phase > p.phase
      \/ z.phase = p.phase /\ p.can_consume /\ ~z.can_consume
  BY <1>4
<1>6. ASSUME z.phase = p.phase, p.can_consume, ~z.can_consume PROVE lower(p, r)
  <2>1. r.clause = p.clause
    BY <1>1, <1>3, <1>6
  <2>2. begun(r) < begun(p)
    BY <1>1, <1>3, <1>6, <2>1, BegunFacts
  <2> QED
    BY <1>3, <1>6, <2>2 DEF lower
<1>7. ASSUME z.position > p.position \/ z.phase > p.phase PROVE lower(p, r)
  BY <1>3, <1>7 DEF lower
<1> QED
  BY <1>2, <1>5, <1>6, <1>7 DEF r

\* A later phase has begun.
LEMMA ClauseEnds ==
  ASSUME NEW p, Fit(p), p.clause \notin {NoClause, Collections, Joins}, p.groups = <<>>, opens(p)
  PROVE  LET r == after_clause(check_next_phase(p)) IN Fit(r) /\ lower(p, r)
<1> DEFINE z == check_next_phase(p)
<1>1. IsParser(p) /\ p.phase = p.clause
  BY DEF Fit, InClause
<1>2. onward(p, z) /\ (z.phase > p.phase \/ (z.phase = p.phase /\ p.phase \in {Joins, Phase_EOF}))
  BY <1>1, CheckNextPhase
<1>3. p.phase \notin {Joins, Phase_EOF}
  BY <1>1 DEF IsParser, Phase_EOF, NoClause, Projection, LimitAndOffset
<1> HIDE DEF z
<1>4. Fit(after_clause(z)) /\ lower(p, after_clause(z))
  BY <1>2, <1>3, ClauseTurn DEF onward
<1> QED
  BY <1>4 DEF z

\* A comma between two items is taken.
LEMMA CommaFacts ==
  ASSUME NEW p, Fit(p), NEW r \in comma(p)
  PROVE  Fit(r) /\ lower(p, r)
<1>1. current(p) = "," /\ r = [next(p) EXCEPT !.can_consume = TRUE]
  BY DEF comma, given
<1>2. p.position + 1 \in p.position..(Len(p.text) + 1) /\ p.position + 1 > p.position
  <2>1. current(p) # Eof /\ IsParser(p)
    BY <1>1 DEF Eof, Fit
  <2>2. p.position \in 1..Len(p.text) /\ Len(p.text) \in Nat
    BY <2>1, CurrentFacts, ParserNumbers
  <2> QED
    BY <2>2
<1> DEFINE q == at(p, p.position + 1)
<1>3. shaped(q)
  BY <1>2, AtFacts DEF IsParser, Fit
<1>4. r = [q EXCEPT !.can_consume = TRUE]
  BY <1>1 DEF next
<1> HIDE DEF q
<1>5. q = [q EXCEPT !.query = q.query]
  BY <1>3 DEF shaped
<1>6. r = [[q EXCEPT !.query = q.query] EXCEPT !.can_consume = TRUE]
  BY <1>4, <1>5
<1> QED
  BY <1>2, <1>6, ItemFacts DEF q

\* A turn of SELECT takes a comma, gives a column, or ends the clause.
LEMMA ProjectionFacts ==
  ASSUME NEW x, Fit(x), x.clause = Projection, x.groups = <<>>,
         NEW p, p = next_non_whitespace(x),
         NEW r, \/ r \in comma(p)
                \/ opens(p) /\ r = after_clause(check_next_phase(p))
                \/ \E i \in Identifier(p) :
                     /\ p.can_consume
                     /\ r = [at(p, i.position) EXCEPT !.query.projection = Append(@, i.item),
                                                      !.can_consume = FALSE]
  PROVE  Fit(r) /\ lower(x, r)
<1>1. IsParser(x) /\ x.clause \notin {NoClause, Collections, Joins}
  BY ClausesDiffer DEF Fit
<1>2. ahead(x, p)
  BY <1>1, NextNonWhitespace
<1>3. Fit(p) /\ IsParser(p) /\ p.clause = x.clause /\ p.groups = <<>>
  BY <1>1, <1>2, FitAhead, AheadFacts
<1>4. Fit(r) /\ lower(p, r)
  <2>1. CASE r \in comma(p)
    BY <1>3, <2>1, CommaFacts
  <2>2. CASE opens(p) /\ r = after_clause(check_next_phase(p))
    BY <1>1, <1>3, <2>2, ClauseEnds
  <2>3. ASSUME NEW i \in Identifier(p), p.can_consume,
               r = [at(p, i.position) EXCEPT !.query.projection = Append(@, i.item),
                                             !.can_consume = FALSE]
        PROVE  Fit(r) /\ lower(p, r)
    <3>1. \E query : r = [[at(p, i.position) EXCEPT !.query = query] EXCEPT !.can_consume = FALSE]
      <4> DEFINE q == at(p, i.position)
      <4>1. r = [q EXCEPT !.query.projection = Append(@, i.item), !.can_consume = FALSE]
        BY <2>3
      <4> HIDE DEF q
      <4>2. r = [[q EXCEPT !.query = [q.query EXCEPT !.projection = Append(q.query.projection, i.item)]]
                    EXCEPT !.can_consume = FALSE]
        BY <4>1
      <4>3. \E query : r = [[q EXCEPT !.query = query] EXCEPT !.can_consume = FALSE]
        BY <4>2, Zenon
      <4> QED
        BY <4>3 DEF q
    <3>2. i.position \in p.position..(Len(p.text) + 1)
      BY <1>3, <2>3, IdentifierFacts DEF within
    <3>3. p.clause # Collections
      BY <1>1, <1>3
    <3> QED
      BY <1>3, <2>3, <3>1, <3>2, <3>3, ItemFacts
  <2> QED
    BY <2>1, <2>2, <2>3
<1> QED
  BY <1>1, <1>2, <1>4, FitAhead DEF Fit

\* A parser behind a comma is as it should be.
LEMMA FitAfterComma ==
  ASSUME NEW p, Fit(p)
  PROVE  LET q == after_comma(p) IN
         /\ Fit(q) /\ \A r : IsParser(r) /\ lower(q, r) => lower(p, r)
<1> DEFINE q == after_comma(p)
<1>1. /\ IsParser(p) /\ IsParser(q) /\ q.text = p.text /\ q.phase = p.phase /\ q.clause = p.clause
      /\ q.join = p.join /\ q.groups = p.groups /\ q.position >= p.position
      /\ q = p \/ (q.can_consume /\ q.position > p.position)
  BY AfterComma DEF Fit
<1> HIDE DEF q
<1>2. Fit(q)
  <2>1. InClause(q)
    BY <1>1 DEF Fit, InClause
  <2>2. AtEnd(q)
    <3>1. CASE q = p
      BY <3>1 DEF Fit
    <3>2. CASE q.can_consume
      BY <3>2 DEF AtEnd
    <3> QED
      BY <1>1, <3>1, <3>2
  <2> QED
    BY <1>1, <2>1, <2>2 DEF Fit
<1>3. ASSUME NEW r, IsParser(r), lower(q, r) PROVE lower(p, r)
  <2>1. CASE q = p
    BY <1>3, <2>1
  <2>2. CASE q.position > p.position
    BY <1>1, <1>3, <2>2, Lowered
  <2> QED
    BY <1>1, <2>1, <2>2
<1> QED
  BY <1>2, <1>3 DEF q

\* A turn of GROUP BY gives a column, or ends the clause.
LEMMA GroupByFacts ==
  ASSUME NEW x, Fit(x), x.clause = Aggregates, x.groups = <<>>,
         NEW p, p = next_non_whitespace(x), NEW q, q = after_comma(p),
         NEW r, \/ opens(p) /\ r = after_clause(check_next_phase(p))
                \/ \E s \in scalar(q, FALSE) :
                     /\ q.can_consume
                     /\ r = [at(q, s.position) EXCEPT !.query.group_by = Append(@, s.expr),
                                                      !.can_consume = FALSE]
  PROVE  Fit(r) /\ lower(x, r)
<1>1. IsParser(x) /\ x.clause \notin {NoClause, Collections, Joins}
  BY ClausesDiffer DEF Fit
<1>2. ahead(x, p)
  BY <1>1, NextNonWhitespace
<1>3. Fit(p) /\ IsParser(p) /\ p.clause = x.clause /\ p.groups = <<>>
  BY <1>1, <1>2, FitAhead, AheadFacts
<1>4. /\ Fit(q) /\ IsParser(q) /\ q.clause = x.clause
      /\ \A s : IsParser(s) /\ lower(q, s) => lower(p, s)
  BY <1>3, FitAfterComma, AfterComma
<1>5. Fit(r) /\ lower(p, r)
  <2>1. CASE opens(p) /\ r = after_clause(check_next_phase(p))
    BY <1>1, <1>3, <2>1, ClauseEnds
  <2>2. ASSUME NEW s \in scalar(q, FALSE), q.can_consume,
               r = [at(q, s.position) EXCEPT !.query.group_by = Append(@, s.expr),
                                             !.can_consume = FALSE]
        PROVE  Fit(r) /\ lower(p, r)
    <3>1. \E query : r = [[at(q, s.position) EXCEPT !.query = query] EXCEPT !.can_consume = FALSE]
      <4> DEFINE z == at(q, s.position)
      <4>1. r = [z EXCEPT !.query.group_by = Append(@, s.expr), !.can_consume = FALSE]
        BY <2>2
      <4> HIDE DEF z
      <4>2. r = [[z EXCEPT !.query = [z.query EXCEPT !.group_by = Append(z.query.group_by, s.expr)]]
                    EXCEPT !.can_consume = FALSE]
        BY <4>1
      <4>3. \E query : r = [[z EXCEPT !.query = query] EXCEPT !.can_consume = FALSE]
        BY <4>2, Zenon
      <4> QED
        BY <4>3 DEF z
    <3>2. s.position \in q.position..(Len(q.text) + 1)
      BY <1>4, <2>2, ScalarFacts DEF within
    <3>3. q.clause # Collections
      BY <1>1, <1>4
    <3>4. Fit(r) /\ lower(q, r)
      BY <1>4, <2>2, <3>1, <3>2, <3>3, ItemFacts
    <3> QED
      BY <1>4, <3>4 DEF Fit
  <2> QED
    BY <2>1, <2>2
<1> QED
  BY <1>1, <1>2, <1>5, FitAhead DEF Fit

\* Being further on in text and phase is transitive.
LEMMA OnwardOn ==
  ASSUME NEW p, IsParser(p), NEW q, ahead(p, q)
  PROVE  /\ onward(p, q) /\ onward(p, check_next_phase(q))
<1>1. /\ IsParser(q) /\ q.text = p.text /\ q.phase = p.phase /\ q.clause = p.clause
      /\ q.can_consume = p.can_consume /\ q.join = p.join /\ q.groups = p.groups
      /\ q.position \in p.position..(Len(p.text) + 1)
  BY AheadFacts
<1>2. p.position \in Nat /\ q.position \in Nat /\ p.phase \in Int
  BY <1>1, ParserNumbers
<1>3. onward(p, q)
  BY <1>1, <1>2 DEF onward
<1>4. onward(q, check_next_phase(q)) /\ IsParser(check_next_phase(q))
  BY <1>1, CheckNextPhase DEF onward
<1>5. check_next_phase(q).position \in Nat
  BY <1>4, ParserNumbers
<1>6. onward(p, check_next_phase(q))
  BY <1>1, <1>2, <1>4, <1>5 DEF onward
<1> QED
  BY <1>3, <1>6

\* A key of ORDER BY goes back neither in the text nor in the phases.
LEMMA SortKey ==
  ASSUME NEW p, IsParser(p), NEW k \in sort_key(p)
  PROVE  onward(p, k.parser)
<1> DEFINE q(s) == next_non_whitespace(at(p, s.position))
           key(s, r, ascending) ==
             {[item |-> [expr |-> s.expr, ascending |-> ascending], parser |-> r]}
           comma_(s) == key(s, IF current(q(s)) = "," THEN q(s) ELSE check_next_phase(q(s)), TRUE)
           asc(s) == key(s, check_next_phase(jump(q(s), Asc)), TRUE)
           desc(s) == key(s, check_next_phase(jump(q(s), Desc)), FALSE)
           of(s) == CASE current(q(s)) = "," \/ opens(q(s)) -> comma_(s)
                      [] compare(q(s), Asc) -> asc(s)
                      [] compare(q(s), Desc) -> desc(s)
                      [] OTHER -> {}
<1>1. PICK s \in scalar(p, FALSE) : k \in of(s)
  <2>1. sort_key(p) = UNION {of(s) : s \in scalar(p, FALSE)}
    BY DEF sort_key
  <2> HIDE DEF of
  <2> QED
    BY <2>1
<1>2. ahead(p, q(s)) /\ IsParser(q(s))
  <2>1. s.position \in p.position..(Len(p.text) + 1)
    BY ScalarFacts DEF within
  <2>2. ahead(p, at(p, s.position)) /\ IsParser(at(p, s.position))
    BY <2>1, AheadAt, AheadFacts
  <2>3. ahead(at(p, s.position), q(s))
    BY <2>2, NextNonWhitespace
  <2> HIDE DEF q
  <2>4. ahead(p, q(s))
    BY <2>2, <2>3, AheadFacts
  <2> QED
    BY <2>4, AheadFacts
<1> HIDE DEF q
<1>3. \/ k \in comma_(s)
      \/ compare(q(s), Asc) /\ k \in asc(s)
      \/ compare(q(s), Desc) /\ k \in desc(s)
  <2> DEFINE a == current(q(s)) = ","  \/ opens(q(s))
             S == of(s)
  <2>1. S = CASE a -> comma_(s) [] compare(q(s), Asc) -> asc(s)
              [] compare(q(s), Desc) -> desc(s) [] OTHER -> {}
    OBVIOUS
  <2>2. k \in S
    BY <1>1
  <2> HIDE DEF a, S, of, comma_, asc, desc
  <2> QED
    BY <2>1, <2>2
<1>4. CASE k \in comma_(s)
  <2>1. k.parser = q(s) \/ k.parser = check_next_phase(q(s))
    <3> DEFINE z == IF current(q(s)) = "," THEN q(s) ELSE check_next_phase(q(s))
    <3>1. z = q(s) \/ z = check_next_phase(q(s))
      OBVIOUS
    <3>2. k \in key(s, z, TRUE)
      BY <1>4
    <3> HIDE DEF z
    <3>3. k.parser = z
      BY <3>2
    <3> QED
      BY <3>1, <3>3
  <2> QED
    BY <1>2, <2>1, OnwardOn
<1>5. ASSUME NEW c \in {Asc, Desc}, compare(q(s), c), NEW b, k \in key(s, check_next_phase(jump(q(s), c)), b)
      PROVE  onward(p, k.parser)
  <2>1. k.parser = check_next_phase(jump(q(s), c))
    <3> DEFINE z == check_next_phase(jump(q(s), c))
    <3>1. k \in key(s, z, b)
      BY <1>5
    <3> HIDE DEF z
    <3>2. k.parser = z
      BY <3>1
    <3> QED
      BY <3>2 DEF z
  <2>2. ahead(p, jump(q(s), c))
    BY <1>2, <1>5, Keywords, BehindKeyword
  <2> QED
    BY <2>1, <2>2, OnwardOn
<1> HIDE DEF key
<1>6. compare(q(s), Asc) /\ k \in asc(s) => onward(p, k.parser)
  BY <1>5
<1>7. compare(q(s), Desc) /\ k \in desc(s) => onward(p, k.parser)
  BY <1>5
<1> QED
  BY <1>3, <1>4, <1>6, <1>7, Zenon

\* A turn of ORDER BY gives a key, and may end the clause.
LEMMA OrderByFacts ==
  ASSUME NEW x, Fit(x), x.clause = OrderBy, x.groups = <<>>,
         NEW p, p = after_comma(x), NEW k \in sort_key(p), p.can_consume,
         NEW r, r = after_clause([k.parser EXCEPT !.query.order_by = Append(@, k.item),
                                                  !.can_consume = FALSE])
  PROVE  Fit(r) /\ lower(x, r)
<1>1. IsParser(x) /\ x.clause \notin {NoClause, Collections, Joins}
  BY ClausesDiffer DEF Fit
<1>2. /\ Fit(p) /\ IsParser(p) /\ p.clause = x.clause /\ p.groups = <<>>
      /\ \A s : IsParser(s) /\ lower(p, s) => lower(x, s)
  BY <1>1, FitAfterComma, AfterComma
<1> DEFINE q == k.parser
           z == [q EXCEPT !.query.order_by = Append(@, k.item), !.can_consume = FALSE]
<1>3. onward(p, q)
  BY <1>2, SortKey
<1> HIDE DEF q
<1>4. /\ shaped(z) /\ z.text = q.text /\ z.position = q.position /\ z.phase = q.phase
      /\ z.clause = q.clause /\ z.can_consume = FALSE /\ z.join = q.join /\ z.groups = q.groups
  <2>1. shaped(q)
    BY <1>3 DEF onward, IsParser
  <2> DEFINE v == [q.query EXCEPT !.order_by = Append(@, k.item)]
  <2>2. z = [q EXCEPT !.query = v, !.can_consume = FALSE]
    OBVIOUS
  <2> HIDE DEF v, z
  <2> QED
    BY <2>1, <2>2 DEF shaped
<1> HIDE DEF z
<1>5. IsParser(z)
  BY <1>3, <1>4 DEF onward, IsParser
<1>6. Fit(after_clause(z)) /\ lower(p, after_clause(z))
  BY <1>1, <1>2, <1>3, <1>4, <1>5, ClauseTurn DEF onward
<1>7. r = after_clause(z)
  BY DEF z, q
<1> QED
  BY <1>2, <1>6, <1>7 DEF Fit

\* A turn of LIMIT and OFFSET gives one of them, or ends the clause.
LEMMA LimitFacts ==
  ASSUME NEW x, Fit(x), x.clause = LimitAndOffset, x.groups = <<>>,
         NEW p, p = next_non_whitespace(x),
         NEW r, \/ opens(p) /\ r = after_clause(check_next_phase(p))
                \/ \E c \in {Limit, Offset} : \E s \in scalar(jump(p, c), FALSE) :
                     /\ compare(p, c)
                     /\ \/ r = [at(p, s.position) EXCEPT !.query.limit = s.expr]
                        \/ r = [at(p, s.position) EXCEPT !.query.offset = s.expr]
  PROVE  Fit(r) /\ lower(x, r)
<1>1. IsParser(x) /\ x.clause \notin {NoClause, Collections, Joins}
  BY ClausesDiffer DEF Fit
<1>2. ahead(x, p)
  BY <1>1, NextNonWhitespace
<1>3. Fit(p) /\ IsParser(p) /\ p.clause = x.clause /\ p.groups = <<>>
  BY <1>1, <1>2, FitAhead, AheadFacts
<1>4. Fit(r) /\ lower(p, r)
  <2>1. CASE opens(p) /\ r = after_clause(check_next_phase(p))
    BY <1>1, <1>3, <2>1, ClauseEnds
  <2>2. ASSUME NEW c \in {Limit, Offset}, NEW s \in scalar(jump(p, c), FALSE), compare(p, c),
               \/ r = [at(p, s.position) EXCEPT !.query.limit = s.expr]
               \/ r = [at(p, s.position) EXCEPT !.query.offset = s.expr]
        PROVE  Fit(r) /\ lower(p, r)
    <3>1. s.position \in (p.position + 1)..(Len(p.text) + 1)
      <4>1. ahead(p, p) /\ is_comparer(c)
        BY <1>3, AheadAt, ParserNumbers, Keywords
      <4>2. IsParser(jump(p, c)) /\ jump(p, c).text = p.text
        BY <1>3, <2>2, <4>1, BehindKeyword
      <4>3. s.position \in jump(p, c).position..(Len(p.text) + 1)
        BY <4>2, ScalarFacts DEF within
      <4> QED
        BY <1>3, <2>2, <4>1, <4>3, BehindKeyword
    <3>2. s.position \in p.position..(Len(p.text) + 1) /\ s.position > p.position
      <4>1. p.position \in Nat /\ Len(p.text) \in Nat
        BY <1>3, ParserNumbers
      <4> QED
        BY <3>1, <4>1
    <3> DEFINE q == at(p, s.position)
    <3>3. shaped(q) /\ q.can_consume = p.can_consume
      <4>1. ahead(p, q)
        BY <1>3, <3>2, AheadAt
      <4> HIDE DEF q
      <4> QED
        BY <1>3, <4>1, AheadFacts DEF IsParser
    <3>4. r = [q EXCEPT !.query.limit = s.expr] \/ r = [q EXCEPT !.query.offset = s.expr]
      BY <2>2
    <3> HIDE DEF q
    <3>5. \E query : r = [q EXCEPT !.query = query]
      <4>1. \/ r = [q EXCEPT !.query = [q.query EXCEPT !.limit = s.expr]]
            \/ r = [q EXCEPT !.query = [q.query EXCEPT !.offset = s.expr]]
        BY <3>4
      <4> QED
        BY <4>1, Zenon
    <3>6. PICK query : r = [q EXCEPT !.query = query]
      BY <3>5
    <3>7. r = [[q EXCEPT !.query = query] EXCEPT !.can_consume = p.can_consume]
      BY <3>3, <3>6 DEF shaped
    <3>8. p.can_consume \in BOOLEAN /\ p.clause # Collections
      BY <1>1, <1>3 DEF IsParser
    <3> QED
      BY <1>3, <3>2, <3>7, <3>8, ItemFacts DEF q
  <2> QED
    BY <2>1, <2>2
<1> QED
  BY <1>1, <1>2, <1>4, FitAhead DEF Fit

\* The loop of the collections: blanks, an item, or a word it does not take.
LEMMA CollectionsFacts ==
  ASSUME NEW x, Fit(x), x.clause = Collections, x.groups = <<>>,
         NEW p, p = after_comma(x)
  PROVE  /\ current(p) = " " => LET r == next_non_whitespace(p) IN Fit(r) /\ lower(x, r)
         /\ p.can_consume => \A r \in Collection(p) : Fit(r) /\ lower(x, r)
         /\ p.can_consume => Asks(p)
         /\ current(p) # " " /\ ~p.can_consume => p = x /\ compare(x, On)
<1>1. IsParser(x)
  BY DEF Fit
<1>2. /\ Fit(p) /\ IsParser(p) /\ p.clause = Collections /\ p.groups = <<>>
      /\ p = x \/ (p.can_consume /\ current(x) = ",")
      /\ \A s : IsParser(s) /\ lower(p, s) => lower(x, s)
  BY <1>1, FitAfterComma, AfterComma
<1>3. p.can_consume => Asks(p)
  BY <1>2 DEF Asks, Waiting
<1>4. p.can_consume => \A r \in Collection(p) : Fit(r) /\ lower(x, r)
  BY <1>2, <1>3, CollectionFacts DEF Fit
<1>5. ASSUME current(p) = " "
      PROVE  LET r == next_non_whitespace(p) IN Fit(r) /\ lower(x, r)
  <2> DEFINE r == next_non_whitespace(p)
  <2>1. /\ IsParser(r) /\ r.text = p.text /\ r.phase = p.phase /\ r.clause = p.clause
        /\ r.can_consume = p.can_consume /\ r.join = p.join /\ r.groups = p.groups
        /\ r.position > p.position /\ next_non_whitespace(r) = r
    BY <1>2, <1>5, NextNonWhitespace, AheadFacts
  <2>2. AtEnd(r)
    <3>1. current(p) # ","
      BY <1>5
    <3>2. p.clause = Collections /\ ~p.can_consume => compare(r, On)
      BY <1>2, <3>1, Zenon DEF Fit, AtEnd
    <3> HIDE DEF r
    <3> QED
      BY <2>1, <3>2 DEF AtEnd
  <2> HIDE DEF r
  <2>3. InClause(r)
    BY <1>2, <2>1 DEF Fit, InClause
  <2>4. lower(x, r)
    BY <1>2, <2>1 DEF lower
  <2> QED
    BY <2>1, <2>2, <2>3, <2>4 DEF Fit, r
<1>6. ASSUME current(p) # " ", ~p.can_consume PROVE p = x /\ compare(x, On)
  <2>1. p = x
    BY <1>2, <1>6
  <2>2. current(x) # ","
    <3>1. SUFFICES ASSUME current(x) = "," PROVE FALSE
      OBVIOUS
    <3>2. p = [next(x) EXCEPT !.can_consume = TRUE] /\ shaped(next(x))
      <4>1. IsParser(next(x))
        BY <1>1, <3>1, CurrentFacts, AheadFacts DEF Eof
      <4> QED
        BY <3>1, <4>1 DEF after_comma, IsParser
    <3> QED
      BY <1>6, <3>2 DEF shaped
  <2>3. next_non_whitespace(x) = x
    BY <1>1, <1>6, <2>1, NextNonWhitespace
  <2> QED
    BY <1>2, <1>6, <2>1, <2>2, <2>3, Zenon DEF Fit, AtEnd
<1> QED
  BY <1>3, <1>4, <1>5, <1>6

\* The kind of a join and its ON are read; what comes between asks for a collection.
LEMMA JoinFacts ==
  ASSUME NEW x, Fit(x), x.clause = Joins, x.groups = <<>>
  PROVE  /\ \A type \in DOMAIN JoinType : \A c \in JoinType[type] : compare(x, c) =>
              LET r == [next_non_whitespace(jump(x, c)) EXCEPT !.join = <<type>>]
              IN  Fit(r) /\ lower(x, r)
         /\ compare(x, On) =>
              LET r == [jump(x, On) EXCEPT !.groups = <<Level>>] IN Fit(r) /\ lower(x, r)
         /\ Len(x.join) = 1 => Asks(x)
<1>1. IsParser(x) /\ ahead(x, x) /\ x.position \in Nat /\ Len(x.text) \in Nat
  BY AheadAt, ParserNumbers DEF Fit
<1>2. ASSUME NEW type \in DOMAIN JoinType, NEW c \in JoinType[type], compare(x, c)
      PROVE  LET r == [next_non_whitespace(jump(x, c)) EXCEPT !.join = <<type>>]
             IN  Fit(r) /\ lower(x, r)
  <2> DEFINE z == jump(x, c)
             q == next_non_whitespace(z)
             r == [q EXCEPT !.join = <<type>>]
  <2>1. ahead(x, z) /\ IsParser(z) /\ z.position \in (x.position + 1)..(Len(x.text) + 1)
    BY <1>1, <1>2, BehindKeyword, Keywords
  <2>2. ahead(x, q) /\ ahead(z, q)
    BY <1>1, <2>1, NextNonWhitespace, AheadFacts
  <2>3. /\ IsParser(q) /\ q.text = x.text /\ q.phase = x.phase /\ q.clause = x.clause
        /\ q.can_consume = x.can_consume /\ q.groups = x.groups
    BY <1>1, <2>2, AheadFacts
  <2>4. q.position > x.position
    <3>1. q.position \in z.position..(Len(z.text) + 1) /\ q.position \in Nat /\ z.position \in Nat
      BY <2>1, <2>2, <2>3, AheadFacts, ParserNumbers
    <3> HIDE DEF q, z
    <3> QED
      BY <1>1, <2>1, <3>1
  <2> HIDE DEF q
  <2>5. /\ shaped(r) /\ r.text = q.text /\ r.position = q.position /\ r.phase = q.phase
        /\ r.clause = q.clause /\ r.can_consume = q.can_consume /\ r.join = <<type>>
        /\ r.groups = q.groups
    BY <2>3 DEF IsParser, shaped
  <2> HIDE DEF r
  <2>6. IsSeq(r.join) /\ Len(r.join) = 1
    BY <2>5, <<type>> \in Seq({type}) DEF IsSeq
  <2>7. IsParser(r)
    BY <2>3, <2>5, <2>6 DEF IsParser
  <2>8. InClause(r)
    BY <2>3, <2>5, <2>6 DEF Fit, InClause
  <2>9. AtEnd(r)
    <3>1. r.clause # Collections
      BY <2>3, <2>5, ClausesDiffer DEF Joins, Collections
    <3> QED
      BY <3>1 DEF AtEnd
  <2>10. lower(x, r)
    BY <2>3, <2>4, <2>5 DEF lower
  <2> QED
    BY <2>7, <2>8, <2>9, <2>10 DEF Fit, r, q
<1>3. ASSUME compare(x, On)
      PROVE  LET r == [jump(x, On) EXCEPT !.groups = <<Level>>] IN Fit(r) /\ lower(x, r)
  <2> DEFINE q == jump(x, On)
             r == [q EXCEPT !.groups = <<Level>>]
  <2>1. ahead(x, q) /\ IsParser(q) /\ q.position \in (x.position + 1)..(Len(x.text) + 1)
    BY <1>1, <1>3, BehindKeyword, Keywords
  <2>2. /\ q.text = x.text /\ q.phase = x.phase /\ q.clause = x.clause
        /\ q.can_consume = x.can_consume /\ q.join = x.join
    BY <1>1, <2>1, AheadFacts
  <2> HIDE DEF q
  <2>3. q.position > x.position
    BY <1>1, <2>1
  <2>4. /\ shaped(r) /\ r.text = q.text /\ r.position = q.position /\ r.phase = q.phase
        /\ r.clause = q.clause /\ r.can_consume = q.can_consume /\ r.join = q.join
        /\ r.groups = <<Level>>
    BY <2>1 DEF IsParser, shaped
  <2> HIDE DEF r
  <2>5. IsSeq(r.groups)
    BY <2>4, <<Level>> \in Seq({Level}) DEF IsSeq
  <2>6. IsParser(r)
    BY <2>1, <2>4, <2>5 DEF IsParser
  <2>7. InClause(r)
    BY <2>2, <2>4 DEF Fit, InClause
  <2>8. AtEnd(r)
    <3>1. r.clause # Collections
      BY <2>2, <2>4 DEF Joins, Collections
    <3> QED
      BY <3>1 DEF AtEnd
  <2>9. lower(x, r)
    BY <2>2, <2>3, <2>4 DEF lower
  <2> QED
    BY <2>6, <2>7, <2>8, <2>9 DEF Fit, r, q
<1>4. Len(x.join) = 1 => Asks(x)
  BY DEF Asks, Waiting
<1> QED
  BY <1>2, <1>3, <1>4

-----------------------------------------------------------------------------
(* The levels of a predicate.                                              *)

\* A parser that is q further on but for its groups.
LEMMA GroupsFit ==
  ASSUME NEW x, Fit(x), x.groups # <<>>, NEW q, ahead(x, q), q.position > x.position,
         NEW groups, IsSeq(groups), NEW r, r = [q EXCEPT !.groups = groups]
  PROVE  Fit(r) /\ lower(x, r)
<1>1. /\ IsParser(q) /\ q.text = x.text /\ q.phase = x.phase /\ q.clause = x.clause
      /\ q.can_consume = x.can_consume /\ q.join = x.join
  BY AheadFacts DEF Fit
<1>2. /\ shaped(r) /\ r.text = q.text /\ r.position = q.position /\ r.phase = q.phase
      /\ r.clause = q.clause /\ r.can_consume = q.can_consume /\ r.join = q.join
      /\ r.groups = groups
  BY <1>1 DEF IsParser, shaped
<1>3. IsParser(r)
  BY <1>1, <1>2 DEF IsParser
<1>4. InClause(r)
  BY <1>1, <1>2 DEF Fit, InClause
<1>5. AtEnd(r)
  <2>1. x.clause # Collections
    BY DEF Fit, InClause, Joins, Criteria, Having, Collections
  <2> QED
    BY <1>1, <1>2, <2>1 DEF AtEnd
<1>6. lower(x, r)
  BY <1>1, <1>2 DEF lower
<1> QED
  BY <1>3, <1>4, <1>5, <1>6 DEF Fit

\* A test of a level, and the connectives behind it.
LEMMA WithTest ==
  ASSUME NEW x, Fit(x), x.groups # <<>>, NEW q, ahead(x, q), q.groups = x.groups,
         NEW single, single.position \in (q.position + 1)..(Len(q.text) + 1)
  PROVE  Fit(with_test(q, single)) /\ lower(x, with_test(q, single))
<1> DEFINE a == at(q, single.position)
           y == next_non_whitespace(a)
           b == IF compare(y, And) THEN jump(y, And) ELSE y
           u == IF compare(y, And) THEN next_non_whitespace(jump(y, And)) ELSE y
           v == IF compare(u, Or) THEN next_non_whitespace(jump(u, Or)) ELSE u
           level == [Last(q.groups) EXCEPT !.items = Append(@, single.test),
                                           !.and = @ \/ compare(y, And),
                                           !.or  = @ \/ compare(u, Or)]
           levels == Append(Front(q.groups), level)
           r == with_test(q, single)
<1>0. IsParser(x) /\ IsParser(q) /\ q.text = x.text /\ q.position \in x.position..(Len(x.text) + 1)
      /\ Len(x.text) \in Nat /\ x.position \in Nat /\ q.position \in Nat
  BY AheadFacts, ParserNumbers DEF Fit
<1>1. ASSUME NEW w, ahead(q, w), IsParser(w), NEW c \in {And, Or}
      PROVE  LET t == IF compare(w, c) THEN next_non_whitespace(jump(w, c)) ELSE w IN
             ahead(w, t) /\ ahead(q, t) /\ IsParser(t)
  <2> DEFINE t == next_non_whitespace(jump(w, c))
  <2>1. ahead(w, w)
    BY <1>1, AheadAt, ParserNumbers
  <2>2. ASSUME compare(w, c) PROVE ahead(w, t)
    <3>1. ahead(w, jump(w, c)) /\ IsParser(jump(w, c))
      BY <1>1, <2>1, <2>2, BehindKeyword, Keywords
    <3>2. ahead(jump(w, c), t)
      BY <3>1, NextNonWhitespace
    <3> HIDE DEF t
    <3> QED
      BY <1>1, <3>1, <3>2, AheadFacts
  <2> HIDE DEF t
  <2>3. ASSUME NEW z, ahead(w, z) PROVE ahead(q, z) /\ IsParser(z)
    BY <1>0, <1>1, <2>3, AheadFacts
  <2> QED
    BY <1>1, <2>1, <2>2, <2>3 DEF t
<1>2. ahead(q, a) /\ IsParser(a) /\ a.position = single.position
  <2>1. single.position \in q.position..(Len(q.text) + 1) /\ single.position \in Int
    BY <1>0
  <2> QED
    BY <1>0, <2>1, AheadAt, AheadFacts, AtFacts
<1>3. ahead(a, y) /\ ahead(q, y) /\ IsParser(y)
  <2>1. ahead(a, y)
    BY <1>2, NextNonWhitespace
  <2> HIDE DEF a, y
  <2> QED
    BY <1>0, <1>2, <2>1, AheadFacts
<1>4. ahead(y, u) /\ ahead(q, u) /\ IsParser(u)
  <2> HIDE DEF y
  <2> QED
    BY <1>1, <1>3
<1>5. ahead(u, v) /\ ahead(q, v) /\ IsParser(v)
  <2> HIDE DEF u
  <2> QED
    BY <1>1, <1>4
<1> HIDE DEF a, y, u, v
<1>6. v.position > x.position /\ ahead(x, v) /\ v.text = x.text
  <2>1. /\ y.position \in a.position..(Len(a.text) + 1) /\ u.position \in y.position..(Len(y.text) + 1)
        /\ v.position \in u.position..(Len(u.text) + 1)
    BY <1>2, <1>3, <1>4, <1>5, AheadFacts
  <2>2. a.position \in Nat /\ y.position \in Nat /\ u.position \in Nat /\ v.position \in Nat
    BY <1>2, <1>3, <1>4, <1>5, ParserNumbers
  <2>3. y.position >= a.position /\ u.position >= y.position /\ v.position >= u.position
    BY <2>1, <2>2
  <2>4. a.position > x.position
    BY <1>0, <1>2
  <2>5. ahead(x, v)
    BY <1>0, <1>5, AheadFacts
  <2>6. v.text = x.text
    BY <1>0, <2>5, AheadFacts
  <2> QED
    BY <1>0, <2>2, <2>3, <2>4, <2>5, <2>6
<1>7. r = IF current(v) = "(" THEN [next(v) EXCEPT !.groups = Append(levels, Level)]
          ELSE [v EXCEPT !.groups = levels]
  BY DEF with_test, a, y, u, v
<1> HIDE DEF level, r
<1>8. IsSeq(levels) /\ IsSeq(Append(levels, Level))
  <2>1. IsSeq(q.groups) /\ q.groups # <<>>
    BY <1>0 DEF IsParser
  <2>2. IsSeq(Front(q.groups))
    BY <2>1, SeqFacts
  <2>3. IsSeq(levels)
    BY <2>2, SeqFacts
  <2> HIDE DEF levels
  <2> QED
    BY <2>3, SeqFacts
<1> HIDE DEF levels
<1>9. CASE current(v) = "("
  <2>1. ahead(v, next(v)) /\ next(v).position = v.position + 1
    BY <1>5, <1>9, CurrentFacts DEF Eof
  <2>2. ahead(x, next(v))
    BY <1>0, <1>6, <2>1, AheadFacts
  <2>3. next(v).position > x.position
    <3>1. v.position \in Nat
      BY <1>5, ParserNumbers
    <3> QED
      BY <1>0, <1>6, <2>1, <3>1
  <2>4. r = [next(v) EXCEPT !.groups = Append(levels, Level)]
    BY <1>7, <1>9
  <2> QED
    BY <1>8, <2>2, <2>3, <2>4, GroupsFit DEF r
<1>10. CASE current(v) # "("
  <2>1. r = [v EXCEPT !.groups = levels]
    BY <1>7, <1>10
  <2> QED
    BY <1>6, <1>8, <2>1, GroupsFit DEF r
<1> QED
  BY <1>9, <1>10

\* The predicate of a finished level.
LEMMA WithPredicate ==
  ASSUME NEW x, Fit(x), x.groups # <<>>, NEW pred, NEW q, q = check_next_phase(x),
         Len(x.groups) > 1 => current(q) = ")"
  PROVE  Fit(with_predicate(q, pred)) /\ lower(x, with_predicate(q, pred))
<1> DEFINE n == next_non_whitespace(x)
           y == [q EXCEPT !.groups = Front(@)]
           r == with_predicate(q, pred)
           outer == Last(y.groups)
           inner == [outer EXCEPT !.items = Append(@, pred)]
           join == [join_type |-> q.join[1], collection |-> q.join[2], predicate |-> pred]
<1>0. IsParser(x) /\ x.clause \in {Joins, Criteria, Having} /\ (x.join # <<>> => x.clause = Joins)
  BY DEF Fit, InClause
<1>1. /\ IsParser(q) /\ q.text = x.text /\ q.position >= x.position /\ q.phase >= x.phase
      /\ q.clause = x.clause /\ q.can_consume = x.can_consume /\ q.join = x.join
      /\ q.groups = x.groups /\ q.position = n.position
      /\ ~opens(x) => q = n
  BY <1>0, CheckNextPhase DEF onward
<1>2. /\ shaped(y) /\ y.text = q.text /\ y.position = q.position /\ y.phase = q.phase
      /\ y.clause = q.clause /\ y.can_consume = q.can_consume /\ y.join = q.join
      /\ y.groups = Front(q.groups) /\ y.query = q.query
  BY <1>1 DEF IsParser, shaped
<1>3. IsSeq(q.groups) /\ IsSeq(Front(q.groups)) /\ Len(Front(q.groups)) = Len(q.groups) - 1
  BY <1>0, <1>1, SeqFacts DEF IsParser
<1>4. IsParser(y)
  BY <1>1, <1>2, <1>3 DEF IsParser
<1>5. CASE Len(x.groups) > 1
  <2>1. ahead(x, n) /\ n.text = x.text
    BY <1>0, NextNonWhitespace, AheadFacts
  <2>2. current(n) = current(q)
    BY <1>1, <2>1 DEF current
  <2>3. q = n
    BY <1>0, <1>1, <1>5, <2>2, OpenedFacts
  <2> HIDE DEF n, y
  <2>4. ahead(q, next(q)) /\ next(q).position = q.position + 1
    BY <1>1, <1>5, CurrentFacts DEF Eof
  <2>5. ahead(x, next(q)) /\ next(q).position > x.position
    <3>1. q.position \in Nat /\ x.position \in Nat
      BY <1>0, <1>1, ParserNumbers
    <3>2. next(q).position > x.position
      BY <1>1, <2>4, <3>1
    <3> QED
      BY <1>0, <2>1, <2>3, <2>4, <3>2, AheadFacts
  <2> DEFINE levels == Append(Front(Front(q.groups)), inner)
  <2>6. IsSeq(levels)
    <3>1. Front(q.groups) # <<>>
      <4>1. Len(q.groups) \in Nat
        BY <1>3, SeqFacts
      <4> DEFINE m == Len(q.groups)
                 k == Len(Front(q.groups))
      <4>3. m \in Nat /\ k = m - 1 /\ m > 1
        BY <1>1, <1>3, <1>5, <4>1
      <4> HIDE DEF m, k
      <4>4. k # 0
        BY <4>3
      <4>2. Len(Front(q.groups)) # 0
        BY <4>4 DEF k
      <4> QED
        BY <1>3, <4>2, SeqFacts
    <3>2. IsSeq(Front(Front(q.groups)))
      BY <1>3, <3>1, SeqFacts
    <3> HIDE DEF inner
    <3> QED
      BY <3>2, SeqFacts
  <2>7. r = [next(y) EXCEPT !.groups = Append(Front(@), inner)]
    BY <1>1, <1>5 DEF with_predicate, y
  <2>8. r = [next(q) EXCEPT !.groups = levels]
    <3> HIDE DEF inner, r
    <3>1. next(q) = [q EXCEPT !.position = q.position + 1]
      BY DEF next, at
    <3>2. next(y) = [next(q) EXCEPT !.groups = Front(q.groups)]
      <4>1. y = [q EXCEPT !.groups = Front(q.groups)]
        BY DEF y
      <4>2. next(y) = [y EXCEPT !.position = q.position + 1]
        BY <1>2 DEF next, at
      <4> QED
        BY <1>1, <3>1, <4>1, <4>2 DEF IsParser, shaped
    <3>3. shaped(next(q))
      BY <1>1, <3>1 DEF IsParser, shaped
    <3> DEFINE z == next(q)
    <3>4. r = [[z EXCEPT !.groups = Front(q.groups)] EXCEPT !.groups = Append(Front(@), inner)]
      BY <2>7, <3>2
    <3> HIDE DEF z
    <3>5. r = [z EXCEPT !.groups = Append(Front(Front(q.groups)), inner)]
      BY <3>3, <3>4 DEF z, shaped
    <3> QED
      BY <3>5 DEF z
  <2> HIDE DEF levels, r
  <2> QED
    BY <2>5, <2>6, <2>8, GroupsFit DEF r
<1>6. CASE ~(Len(x.groups) > 1)
  <2>1. Front(q.groups) = <<>>
    <3>1. Len(q.groups) \in Nat /\ Len(q.groups) # 0 /\ ~(Len(q.groups) > 1)
      BY <1>1, <1>3, <1>6, SeqFacts
    <3> DEFINE m == Len(q.groups)
               k == Len(Front(q.groups))
    <3>3. m \in Nat /\ k = m - 1 /\ m # 0 /\ ~(m > 1)
      BY <1>3, <3>1
    <3> HIDE DEF m, k
    <3>4. k = 0
      BY <3>3
    <3>2. Len(Front(q.groups)) = 0
      BY <3>4 DEF k
    <3> QED
      BY <1>3, <3>2, SeqFacts
  <2>2. \E z : /\ r = after_clause(z) /\ shaped(z) /\ z.text = q.text /\ z.position = q.position
               /\ z.phase = q.phase /\ z.clause = q.clause /\ z.can_consume = q.can_consume
               /\ z.join = <<>> /\ z.groups = <<>>
    <3> DEFINE j == [y EXCEPT !.query.joins = Append(@, join), !.join = <<>>]
               c == [y EXCEPT !.query.criteria = pred]
               h == [y EXCEPT !.query.having = pred]
    <3>1. r = CASE q.clause = Joins -> after_clause(j)
                [] q.clause = Criteria -> after_clause(c)
                [] q.clause = Having -> after_clause(h)
      BY <1>1, <1>6 DEF with_predicate
    <3>10. /\ q.clause = Joins => r = after_clause(j)
           /\ q.clause = Criteria => r = after_clause(c)
           /\ q.clause = Having => r = after_clause(h)
      <4>1. Joins # Criteria /\ Joins # Having /\ Criteria # Having
        BY DEF Joins, Criteria, Having
      <4> DEFINE aj == after_clause(j)
                 ac == after_clause(c)
                 ah == after_clause(h)
      <4>2. r = CASE q.clause = Joins -> aj [] q.clause = Criteria -> ac [] q.clause = Having -> ah
        BY <3>1
      <4> HIDE DEF aj, ac, ah, r
      <4>3. /\ q.clause = Joins => r = aj
            /\ q.clause = Criteria => r = ac
            /\ q.clause = Having => r = ah
        BY <4>1, <4>2
      <4> QED
        BY <4>3 DEF aj, ac, ah, r
    <3> HIDE DEF y, r
    <3>2. /\ shaped(j) /\ j.text = y.text /\ j.position = y.position
          /\ j.phase = y.phase /\ j.clause = y.clause /\ j.can_consume = y.can_consume
          /\ j.join = <<>> /\ j.groups = y.groups
      <4> DEFINE k == [y.query EXCEPT !.joins = Append(@, join)]
      <4>1. j = [[y EXCEPT !.query = k] EXCEPT !.join = <<>>]
        OBVIOUS
      <4> HIDE DEF k, j
      <4> QED
        BY <1>2, <4>1 DEF shaped
    <3>3. ASSUME NEW k, NEW s, s = [y EXCEPT !.query = k], q.clause # Joins
          PROVE  /\ shaped(s) /\ s.text = y.text /\ s.position = y.position
                 /\ s.phase = y.phase /\ s.clause = y.clause /\ s.can_consume = y.can_consume
                 /\ s.join = <<>> /\ s.groups = y.groups
      <4>1. y.join = <<>>
        BY <1>0, <1>1, <1>2, <3>3
      <4> QED
        BY <1>2, <3>3, <4>1 DEF shaped
    <3>4. c = [y EXCEPT !.query = [y.query EXCEPT !.criteria = pred]]
      OBVIOUS
    <3>5. h = [y EXCEPT !.query = [y.query EXCEPT !.having = pred]]
      OBVIOUS
    <3> DEFINE cq == [y.query EXCEPT !.criteria = pred]
               hq == [y.query EXCEPT !.having = pred]
    <3>6. c = [y EXCEPT !.query = cq] /\ h = [y EXCEPT !.query = hq]
      BY <3>4, <3>5
    <3> HIDE DEF j, c, h, cq, hq
    <3>7. CASE q.clause = Joins
      <4>1. r = after_clause(j)
        BY <3>7, <3>10
      <4> QED
        BY <1>2, <2>1, <3>2, <4>1
    <3>8. CASE q.clause = Criteria
      <4>1. q.clause # Joins
        BY <3>8, ClausesDiffer
      <4>2. r = after_clause(c)
        BY <3>8, <3>10
      <4>3. /\ shaped(c) /\ c.text = y.text /\ c.position = y.position
            /\ c.phase = y.phase /\ c.clause = y.clause /\ c.can_consume = y.can_consume
            /\ c.join = <<>> /\ c.groups = y.groups
        BY <3>3, <3>6, <4>1
      <4> QED
        BY <1>2, <2>1, <4>2, <4>3
    <3>9. CASE q.clause = Having
      <4>1. q.clause # Joins
        BY <3>9, ClausesDiffer
      <4>2. r = after_clause(h)
        BY <3>9, <3>10
      <4>3. /\ shaped(h) /\ h.text = y.text /\ h.position = y.position
            /\ h.phase = y.phase /\ h.clause = y.clause /\ h.can_consume = y.can_consume
            /\ h.join = <<>> /\ h.groups = y.groups
        BY <3>3, <3>6, <4>1
      <4> QED
        BY <1>2, <2>1, <4>2, <4>3
    <3> QED
      BY <1>0, <1>1, <3>7, <3>8, <3>9
  <2>3. PICK z : /\ r = after_clause(z) /\ shaped(z) /\ z.text = q.text /\ z.position = q.position
                 /\ z.phase = q.phase /\ z.clause = q.clause /\ z.can_consume = q.can_consume
                 /\ z.join = <<>> /\ z.groups = <<>>
    BY <2>2
  <2>4. IsParser(z)
    <3>1. IsSeq(<<>>)
      BY <<>> \in Seq({}) DEF IsSeq
    <3> QED
      BY <1>1, <2>3, <3>1 DEF IsParser
  <2>5. z.clause # Collections
    <3>1. Collections \notin {Joins, Criteria, Having}
      BY DEF Joins, Criteria, Having, Collections
    <3> QED
      BY <1>0, <1>1, <2>3, <3>1
  <2>6. Fit(r)
    <3> HIDE DEF r
    <3> QED
      BY <2>3, <2>4, <2>5, FitAfterClause
  <2>7. /\ IsParser(r) /\ r.text = z.text /\ r.position = z.position /\ r.phase = z.phase
        /\ r.can_consume = z.can_consume /\ r.join = <<>> /\ r.groups = <<>>
    <3> HIDE DEF r
    <3> QED
      BY <2>3, <2>4, AfterClause
  <2> HIDE DEF r
  <2>8. begun(r) < begun(x)
    BY <1>0, <1>1, <2>3, <2>7, BegunFacts
  <2>9. lower(x, r)
    BY <1>1, <2>3, <2>7, <2>8 DEF lower
  <2> QED
    BY <2>6, <2>9 DEF r
<1> QED
  BY <1>5, <1>6

\* A turn of a predicate reads a test, or ends a level.
LEMMA PredicateFacts ==
  ASSUME NEW x, Fit(x), x.groups # <<>>, NEW r \in parse_all(x)
  PROVE  Fit(r) /\ lower(x, r)
<1> DEFINE q == check_next_phase(x)
           preds == {pred \in predicate_of(Last(x.groups)) : Len(x.groups) > 1 => current(q) = ")"}
           singles == parse_single(q, allow_wildcard(x))
<1>0. IsParser(x)
  BY DEF Fit
<1>1. r \in IF level_ends(x) THEN {with_predicate(q, pred) : pred \in preds}
            ELSE {with_test(q, single) : single \in singles}
  BY DEF parse_all
<1>2. CASE level_ends(x)
  <2>1. PICK pred \in preds : r = with_predicate(q, pred)
    <3> HIDE DEF preds, q
    <3> QED
      BY <1>1, <1>2
  <2>2. Len(x.groups) > 1 => current(q) = ")"
    BY <2>1
  <2> QED
    BY <2>1, <2>2, WithPredicate
<1>3. CASE ~level_ends(x)
  <2>1. PICK single \in singles : r = with_test(q, single)
    <3> HIDE DEF singles, q
    <3> QED
      BY <1>1, <1>3
  <2>2. q = next_non_whitespace(x)
    BY <1>0, <1>3, CheckNextPhase DEF level_ends
  <2>3. ahead(x, q)
    BY <1>0, <2>2, NextNonWhitespace
  <2> HIDE DEF q
  <2>4. IsParser(q) /\ q.groups = x.groups
    BY <1>0, <2>3, AheadFacts
  <2>5. single.position \in (q.position + 1)..(Len(q.text) + 1)
    BY <2>4, ParseSingle DEF within
  <2> QED
    BY <2>1, <2>3, <2>4, <2>5, WithTest
<1> QED
  BY <1>2, <1>3

-----------------------------------------------------------------------------
(* Subqueries.                                                             *)

\* What is left of a text without the blanks around it is no longer than it.
LEMMA Trim ==
  ASSUME NEW t \in Seq(Tokens)
  PROVE  trim(t) \in Seq(Tokens) /\ Len(trim(t)) <= Len(t)
<1> DEFINE solid == {i \in DOMAIN t : t[i] # " "}
           first == CHOOSE i \in solid : \A j \in solid : i <= j
           last == CHOOSE i \in solid : \A j \in solid : i >= j
           n == Len(t)
<1>0. n \in Nat /\ DOMAIN t = 1..n
  OBVIOUS
<1>1. CASE solid = {}
  <2>1. trim(t) = <<>>
    BY <1>1 DEF trim
  <2> QED
    BY <1>0, <2>1
<1>2. CASE solid # {}
  <2>0. solid \in SUBSET (1..n) /\ solid \in SUBSET Nat
    <3>1. \A i \in 1..n : i \in Nat
      BY <1>0
    <3>2. solid \in SUBSET (DOMAIN t)
      BY Zenon
    <3> HIDE DEF solid, n
    <3> QED
      BY <1>0, <3>1, <3>2, Zenon
  <2>1. trim(t) = SubSeq(t, first, last)
    BY <1>2 DEF trim
  <2> HIDE DEF solid
  <2>2. first \in solid
    <3>1. \E i \in solid : \A j \in solid : i <= j
      BY <1>2, <2>0, LeastFacts
    <3> QED
      BY <3>1
  <2>3. last \in solid
    <3>1. Max(solid) \in solid /\ \A j \in solid : j <= Max(solid)
      BY <1>0, <1>2, <2>0, MaxFacts
    <3>2. \E i \in solid : \A j \in solid : i >= j
      <4>1. \A j \in solid : Max(solid) >= j
        BY <2>0, <3>1
      <4> QED
        BY <3>1, <4>1
    <3> QED
      BY <3>2
  <2> HIDE DEF first, last
  <2>4. first \in 1..n /\ last \in 1..n /\ first \in Int /\ last \in Int
    BY <2>0, <2>2, <2>3
  <2>5. \A i \in first..last : t[i] \in Tokens
    <3>1. \A i \in first..last : i \in 1..n
      <4> HIDE DEF n
      <4> QED
        BY <1>0, <2>4
    <3> QED
      BY <3>1
  <2>6. /\ SubSeq(t, first, last) \in Seq(Tokens)
        /\ Len(SubSeq(t, first, last)) = IF first <= last THEN last - first + 1 ELSE 0
    BY <2>4, <2>5, SubSeqProperties
  <2>7. (IF first <= last THEN last - first + 1 ELSE 0) <= n
    <3> HIDE DEF n
    <3> QED
      BY <1>0, <2>4
  <2> QED
    BY <2>1, <2>6, <2>7
<1> QED
  BY <1>1, <1>2

\* The parser that asks for a collection goes on behind the parentheses, and the text in
\* them has a parser of its own; together they have less to do.
LEMMA SubqueryFacts ==
  ASSUME NEW p, Asks(p), NEW pair \in subquery(p)
  PROVE  \E a, b : /\ pair = <<a, b>>
                   /\ Asks(a) /\ Fit(b)
                   /\ to_do(a) \in Nat /\ to_do(b) \in Nat /\ to_do(p) \in Nat
                   /\ to_do(a) + to_do(b) < to_do(p)
<1> DEFINE inner(i) == SubSeq(p.text, p.position + 1, i - 1)
           t(i) == trim(inner(i))
           a(i) == at(p, i + 1)
           b(i) == NewParser(t(i), where(p))
<1>1. PICK i \in closing(p) : pair = <<a(i), b(i)>>
  <2>1. subquery(p) = {<<a(i), b(i)>> : i \in {i \in closing(p) : \A j \in closing(p) : i <= j}}
    BY DEF subquery
  <2> HIDE DEF a, b
  <2> QED
    BY <2>1
<1> DEFINE n == Len(p.text)
           s == p.position
           m == Len(t(i))
<1>2. IsParser(p) /\ n \in Nat /\ s \in Nat /\ s \in 1..(n + 1) /\ p.text \in Seq(Tokens)
  BY AsksFacts, ParserNumbers DEF IsParser
<1>3. i \in s..n
  BY <1>1 DEF closing
<1>4. i \in 1..n /\ i + 1 \in s..(n + 1) /\ i + 1 \in Int /\ s + 1 \in Int /\ i - 1 \in Int /\ i \in Int
  <2> HIDE DEF s, n
  <2> QED
    BY <1>2, <1>3
<1>5. t(i) \in Seq(Tokens) /\ m \in Nat /\ m <= (IF s + 1 <= i - 1 THEN i - 1 - (s + 1) + 1 ELSE 0)
  <2>1. \A j \in (s + 1)..(i - 1) : p.text[j] \in Tokens
    <3>1. \A j \in (s + 1)..(i - 1) : j \in 1..n
      <4> HIDE DEF s, n
      <4> QED
        BY <1>2, <1>4
    <3> QED
      BY <1>2, <3>1
  <2>2. /\ inner(i) \in Seq(Tokens)
        /\ Len(inner(i)) = IF s + 1 <= i - 1 THEN i - 1 - (s + 1) + 1 ELSE 0
    BY <1>4, <2>1, SubSeqProperties
  <2> HIDE DEF inner, s, n
  <2>3. t(i) \in Seq(Tokens) /\ m <= Len(inner(i))
    BY <2>2, Trim
  <2> QED
    BY <2>2, <2>3
<1>6. Asks(a(i)) /\ a(i).position = i + 1 /\ a(i).text = p.text /\ a(i).phase = p.phase
      /\ begun(a(i)) = begun(p) /\ IsParser(a(i))
  <2>1. ahead(p, a(i))
    BY <1>2, <1>4, AheadAt
  <2> HIDE DEF a
  <2>2. /\ IsParser(a(i)) /\ a(i).text = p.text /\ a(i).phase = p.phase /\ a(i).clause = p.clause
        /\ a(i).can_consume = p.can_consume /\ a(i).join = p.join /\ a(i).groups = p.groups
    BY <1>2, <2>1, AheadFacts
  <2>3. InClause(a(i)) /\ Waiting(a(i))
    BY <2>2 DEF Asks, Fit, InClause, Waiting
  <2>4. AtEnd(a(i))
    <3>1. Joins # Collections
      BY DEF Joins, Collections
    <3>2. a(i).clause # Collections \/ a(i).can_consume
      BY <2>3, <3>1 DEF Waiting
    <3> QED
      BY <3>2 DEF AtEnd
  <2>5. a(i).position = i + 1
    BY <1>2, <1>4, AtFacts DEF a
  <2>6. begun(a(i)) = begun(p)
    BY <1>2, <2>2, BegunFacts
  <2> QED
    BY <2>2, <2>3, <2>4, <2>5, <2>6 DEF Asks, Fit
<1>7. Fit(b(i)) /\ IsParser(b(i)) /\ b(i).text = t(i) /\ b(i).position = 1 /\ b(i).phase = 0
  <2> DEFINE before == where(p)
  <2>0. IsSeq(<<>>)
    BY <<>> \in Seq({}) DEF IsSeq
  <2> HIDE DEF t, before
  <2>1. /\ shaped(b(i)) /\ b(i).text = t(i) /\ b(i).position = 1 /\ b(i).phase = Projection
        /\ b(i).clause = NoClause /\ b(i).can_consume = TRUE /\ b(i).join = <<>> /\ b(i).groups = <<>>
    BY DEF NewParser, shaped
  <2> HIDE DEF b
  <2>2. 1 \in 1..(Len(t(i)) + 1)
    <3>1. Len(t(i)) \in Nat
      BY <1>5
    <3> QED
      BY <3>1
  <2>3. IsParser(b(i))
    <3>1. Projection \in Projection..Phase_EOF
      BY DEF Projection, Phase_EOF
    <3> QED
      BY <1>5, <2>0, <2>1, <2>2, <3>1, Zenon DEF IsParser
  <2>4. InClause(b(i))
    BY <2>1 DEF InClause, NoClause, Joins
  <2>5. AtEnd(b(i))
    <3>1. b(i).can_consume
      BY <2>1
    <3> QED
      BY <3>1 DEF AtEnd
  <2> QED
    BY <2>1, <2>3, <2>4, <2>5 DEF Fit, Projection
<1>8. to_do(a(i)) \in Nat /\ to_do(b(i)) \in Nat /\ to_do(p) \in Nat
  BY <1>2, <1>6, <1>7, ToDo
<1>9. to_do(a(i)) + to_do(b(i)) < to_do(p)
  <2> DEFINE f == p.phase
             x == begun(p)
             y == begun(b(i))
  <2>1. x \in 0..15 /\ y \in 0..15 /\ f \in 0..8
    BY <1>2, <1>7, ToDo, ParserNumbers
  <2>2. to_do(p) = 160 * (n + 1 - s) + 16 * (8 - f) + x
    BY DEF to_do, Phase_EOF
  <2>3. to_do(a(i)) = 160 * (n + 1 - (i + 1)) + 16 * (8 - f) + x
    <3> HIDE DEF a
    <3> QED
      BY <1>6 DEF to_do, Phase_EOF
  <2>4. to_do(b(i)) = 160 * (m + 1 - 1) + 16 * (8 - 0) + y
    <3> HIDE DEF b, t
    <3> QED
      BY <1>7 DEF to_do, Phase_EOF
  <2> HIDE DEF f, x, y, n, s, m
  <2>5. 160 * (n + 1 - (i + 1)) + 16 * (8 - f) + x + (160 * (m + 1 - 1) + 16 * (8 - 0) + y)
          < 160 * (n + 1 - s) + 16 * (8 - f) + x
    BY <1>2, <1>3, <1>4, <1>5, <2>1
  <2> HIDE DEF a, b
  <2> QED
    BY <2>2, <2>3, <2>4, <2>5
<1> HIDE DEF a, b
<1> QED
  BY <1>1, <1>6, <1>7, <1>8, <1>9

-----------------------------------------------------------------------------
(* The parsers under way.                                                  *)

\* F[X] is the work of the parsers at the positions X of a stack.
is_work(F, n, stack) ==
  /\ F \in [SUBSET (1..n) -> Nat] /\ F[{}] = 0
  /\ \A X \in SUBSET (1..n) : X # {} => F[X] = F[X \ {Max(X)}] + to_do(stack[Max(X)])
  /\ F[1..n] = work_of(stack)

\* The work of a stack is a sum over its positions.
LEMMA WorkFold ==
  ASSUME NEW n \in Nat, NEW V, NEW stack \in [1..n -> V], \A v \in V : to_do(v) \in Nat
  PROVE  \E F : is_work(F, n, stack)
<1> DEFINE sum(a, v) == a + to_do(v)
           D == Nat
           G == [a \in D |-> [v \in V |-> sum(a, v)]]
           base == 0
           is_fold(F) == F = [X \in SUBSET (1..n) |->
                                IF X = {} THEN base ELSE sum(F[X \ {Max(X)}], stack[Max(X)])]
           H == CHOOSE F : is_fold(F)
<1>0. base \in D /\ \A a \in D, v \in V : sum(a, v) \in D
  OBVIOUS
<1>7. work_of(stack) = H[1..n]
  BY DEF work_of, FoldLeft, MapThenFoldSet
<1> HIDE DEF sum, D
<1>1. G \in [D -> [V -> D]] /\ \A a \in D, v \in V : G[a][v] = sum(a, v)
  BY <1>0
<1> HIDE DEF G, base
<1>2. PICK F : is_left_fold(F, n, D, base, G, stack)
  BY <1>0, <1>1, FoldExists
<1>3. /\ F \in [SUBSET (1..n) -> D] /\ F[{}] = base
      /\ \A X \in SUBSET (1..n) : X # {} => F[X] = G[F[X \ {Max(X)}]][stack[Max(X)]]
  BY <1>2 DEF is_left_fold
<1>4. ASSUME NEW X \in SUBSET (1..n), X # {}
      PROVE  F[X] = sum(F[X \ {Max(X)}], stack[Max(X)])
  <2>1. PICK m \in 1..n : m = Max(X)
    BY <1>4, MaxFacts
  <2>2. X \ {m} \in SUBSET (1..n) /\ stack[m] \in V
    OBVIOUS
  <2>3. F[X \ {m}] \in D
    BY <1>3, <2>2
  <2> QED
    BY <1>1, <1>3, <1>4, <2>1, <2>2, <2>3
<1>5. is_fold(F)
  BY <1>3, <1>4
<1>6. is_fold(H)
  BY <1>5
<1> HIDE DEF H
<1>8. ASSUME NEW E, is_fold(E)
      PROVE  /\ E[{}] = base
             /\ \A X \in SUBSET (1..n) : X # {} => E[X] = sum(E[X \ {Max(X)}], stack[Max(X)])
  BY <1>8
<1> HIDE DEF is_fold
<1>9. F[1..n] = H[1..n]
  <2>1. F[{}] = H[{}]
    BY <1>5, <1>6, <1>8
  <2>2. \A X \in SUBSET (1..n) : X # {} /\ F[X \ {Max(X)}] = H[X \ {Max(X)}] => F[X] = H[X]
    BY <1>5, <1>6, <1>8
  <2> QED
    BY <2>1, <2>2, FoldsAgree
<1> QED
  BY <1>3, <1>4, <1>7, <1>9 DEF base, D, sum, is_work

\* One more parser adds what it has to do.
LEMMA WorkAppend ==
  ASSUME NEW V, \A v \in V : to_do(v) \in Nat, NEW s \in Seq(V), NEW p \in V
  PROVE  work_of(s) \in Nat /\ work_of(Append(s, p)) = work_of(s) + to_do(p)
<1> DEFINE n == Len(s)
           u == Append(s, p)
<1>1. /\ n \in Nat /\ n + 1 \in Nat /\ s \in [1..n -> V] /\ u \in [1..(n + 1) -> V]
      /\ u[n + 1] = p /\ \A i \in 1..n : u[i] = s[i]
  <2>1. n \in Nat /\ n + 1 \in Nat /\ s \in [1..n -> V]
    OBVIOUS
  <2>2. u \in Seq(V) /\ Len(u) = n + 1
    OBVIOUS
  <2>3. u[n + 1] = p /\ \A i \in 1..n : u[i] = s[i]
    OBVIOUS
  <2>4. u \in [1..(n + 1) -> V]
    <3> HIDE DEF n, u
    <3> QED
      BY <2>1, <2>2
  <2> QED
    BY <2>1, <2>3, <2>4
<1> HIDE DEF u
<1>2. PICK G : is_work(G, n, s)
  BY <1>1, WorkFold
<1>3. PICK F : is_work(F, n + 1, u)
  BY <1>1, WorkFold
<1> HIDE DEF n
<1>4. F[1..n] = G[1..n]
  <2>1. F[{}] = G[{}]
    BY <1>2, <1>3 DEF is_work
  <2>2. ASSUME NEW X \in SUBSET (1..n), X # {}, F[X \ {Max(X)}] = G[X \ {Max(X)}]
        PROVE  F[X] = G[X]
    <3>1. Max(X) \in 1..n
      BY <1>1, <2>2, MaxFacts
    <3>2. X \in SUBSET (1..(n + 1))
      BY <1>1
    <3>3. F[X] = F[X \ {Max(X)}] + to_do(u[Max(X)])
      BY <1>3, <2>2, <3>2 DEF is_work
    <3>4. G[X] = G[X \ {Max(X)}] + to_do(s[Max(X)])
      BY <1>2, <2>2 DEF is_work
    <3> QED
      BY <1>1, <2>2, <3>1, <3>3, <3>4
  <2> QED
    BY <1>1, <2>1, <2>2, FoldsAgree
<1>5. F[1..(n + 1)] = F[1..n] + to_do(p)
  <2>5. n + 1 \in 1..(n + 1)
    BY <1>1
  <2>1. 1..(n + 1) \in SUBSET (1..(n + 1)) /\ n + 1 \in 1..(n + 1) /\ 1..(n + 1) # {}
    BY <2>5, Zenon
  <2>2. Max(1..(n + 1)) \in 1..(n + 1) /\ \A y \in 1..(n + 1) : y <= Max(1..(n + 1))
    BY <1>1, <2>1, MaxFacts
  <2>3. Max(1..(n + 1)) = n + 1
    BY <1>1, <2>1, <2>2
  <2>4. (1..(n + 1)) \ {n + 1} = 1..n
    BY <1>1
  <2> QED
    BY <1>1, <1>3, <2>1, <2>3, <2>4 DEF is_work
<1>6. G[1..n] \in Nat /\ G[1..n] = work_of(s) /\ F[1..(n + 1)] = work_of(u)
  BY <1>2, <1>3 DEF is_work
<1> QED
  BY <1>4, <1>5, <1>6 DEF u

\* A stack is its front and its last element.
LEMMA FrontLast ==
  ASSUME NEW s, IsSeq(s), s # <<>>
  PROVE  /\ s = Append(Front(s), Last(s)) /\ Len(Front(s)) = Len(s) - 1 /\ Len(s) \in Nat
         /\ \A i \in 1..(Len(s) - 1) : Front(s)[i] = s[i]
         /\ Last(s) = s[Len(s)]
<1> DEFINE f == Front(s)
           e == Last(s)
           n == Len(s)
<1>1. PICK S : s \in Seq(S)
  BY DEF IsSeq
<1>2. n \in Nat /\ n > 0 /\ s \in [1..n -> S] /\ n - 1 \in Nat
  BY <1>1
<1>3. /\ f \in Seq(S) /\ Len(f) = n - 1 /\ \A i \in 1..(n - 1) : f[i] = s[i]
  <2>1. \A i \in 1..(n - 1) : s[i] \in S
    BY <1>2
  <2>2. /\ SubSeq(s, 1, n - 1) \in Seq(S)
        /\ Len(SubSeq(s, 1, n - 1)) = IF 1 <= n - 1 THEN n - 1 - 1 + 1 ELSE 0
        /\ \A i \in 1..(n - 1 - 1 + 1) : SubSeq(s, 1, n - 1)[i] = s[1 + i - 1]
    BY <1>2, <2>1, SubSeqProperties
  <2>3. f = SubSeq(s, 1, n - 1)
    BY DEF Front
  <2> HIDE DEF f, n
  <2>4. \A i \in 1..(n - 1) : i \in 1..(n - 1 - 1 + 1) /\ 1 + i - 1 = i
    BY <1>2
  <2> QED
    BY <1>2, <2>2, <2>3, <2>4
<1>4. e = s[n] /\ e \in S
  BY <1>2 DEF Last
<1> HIDE DEF f, e
<1>5. Append(f, e) \in Seq(S) /\ Len(Append(f, e)) = n
      /\ \A i \in 1..n : Append(f, e)[i] = s[i]
  <2>1. Append(f, e) \in Seq(S) /\ Len(Append(f, e)) = Len(f) + 1
        /\ Append(f, e)[Len(f) + 1] = e /\ \A i \in 1..Len(f) : Append(f, e)[i] = f[i]
    BY <1>3, <1>4
  <2>2. Len(f) + 1 = n /\ \A i \in 1..n : i = n \/ i \in 1..(n - 1)
    <3> HIDE DEF n
    <3> QED
      BY <1>2, <1>3
  <2> HIDE DEF n
  <2> QED
    BY <1>3, <1>4, <2>1, <2>2
<1>6. Append(f, e) = s
  BY <1>1, <1>5
<1> QED
  BY <1>2, <1>3, <1>4, <1>6 DEF f, e

\* The parsers below the innermost one wait for a subquery.
Below(f) == IsSeq(f) /\ \A i \in DOMAIN f : Asks(f[i])

Stack(s) == IsSeq(s) /\ s # <<>> /\ Below(Front(s)) /\ Fit(Last(s))

\* A parser on top of parsers that wait makes a stack.
LEMMA Pushes ==
  ASSUME NEW f, Below(f), NEW r, Fit(r)
  PROVE  /\ Stack(Append(f, r)) /\ Front(Append(f, r)) = f /\ Last(Append(f, r)) = r
         /\ work_of(f) \in Nat /\ to_do(r) \in Nat
         /\ work_of(Append(f, r)) = work_of(f) + to_do(r)
         /\ Waiting(r) => Below(Append(f, r))
<1> DEFINE V == {f[i] : i \in DOMAIN f} \cup {r}
           n == Len(f)
           u == Append(f, r)
<1>1. n \in Nat /\ DOMAIN f = 1..n /\ f \in Seq(V)
  <2>1. PICK S : f \in Seq(S)
    BY DEF Below, IsSeq
  <2>2. n \in Nat /\ DOMAIN f = 1..n /\ \A i \in 1..n : f[i] \in V
    BY <2>1
  <2> HIDE DEF V
  <2> QED
    BY <2>1, <2>2
<1>2. \A v \in V : to_do(v) \in Nat
  BY ToDo DEF Below, Asks, Fit
<1>3. r \in V
  OBVIOUS
<1> HIDE DEF V
<1>4. work_of(f) \in Nat /\ work_of(u) = work_of(f) + to_do(r) /\ to_do(r) \in Nat
  BY <1>1, <1>2, <1>3, WorkAppend
<1>5. /\ u \in Seq(V) /\ Len(u) = n + 1 /\ u # <<>> /\ u[n + 1] = r /\ DOMAIN u = 1..(n + 1)
      /\ \A i \in 1..n : u[i] = f[i]
  BY <1>1, <1>3
<1>6. IsSeq(u)
  BY <1>5 DEF IsSeq
<1> HIDE DEF n, u
<1>7. /\ Len(Front(u)) = Len(u) - 1 /\ \A i \in 1..(Len(u) - 1) : Front(u)[i] = u[i]
      /\ Last(u) = u[Len(u)] /\ IsSeq(Front(u))
  BY <1>5, <1>6, FrontLast, SeqFacts
<1>8. Last(u) = r
  BY <1>5, <1>7
<1>9. Front(u) = f
  <2>1. PICK S : Front(u) \in Seq(S)
    BY <1>7 DEF IsSeq
  <2>2. Len(u) - 1 = n
    BY <1>1, <1>5
  <2>3. Len(Front(u)) = Len(f) /\ \A i \in 1..Len(f) : Front(u)[i] = f[i]
    BY <1>5, <1>7, <2>2 DEF n
  <2> QED
    BY <1>1, <2>1, <2>3
<1>10. ASSUME Waiting(r) PROVE Below(u)
  <2>1. Asks(r)
    BY <1>10 DEF Asks
  <2>2. \A i \in 1..(n + 1) : i \in 1..n \/ i = n + 1
    BY <1>1
  <2>3. \A i \in 1..(n + 1) : Asks(u[i])
    BY <1>1, <1>5, <2>1, <2>2 DEF Below
  <2> QED
    BY <1>5, <1>6, <2>3 DEF Below
<1>11. Stack(u)
  BY <1>5, <1>6, <1>8, <1>9 DEF Stack
<1> QED
  BY <1>4, <1>8, <1>9, <1>10, <1>11 DEF u

\* A stack is parsers that wait and a parser on top of them.
LEMMA Tops ==
  ASSUME NEW s, Stack(s)
  PROVE  /\ s = Append(Front(s), Last(s)) /\ Below(Front(s)) /\ Fit(Last(s))
         /\ Len(s) > 1 => Front(s) # <<>>
<1>1. /\ s = Append(Front(s), Last(s)) /\ Len(Front(s)) = Len(s) - 1 /\ Len(s) \in Nat
      /\ IsSeq(Front(s))
  BY FrontLast, SeqFacts DEF Stack
<1> DEFINE m == Len(s)
           k == Len(Front(s))
<1>2. ASSUME m > 1 PROVE Front(s) # <<>>
  <2>1. k = m - 1 /\ m \in Nat
    BY <1>1
  <2> HIDE DEF m, k
  <2>2. k # 0
    BY <1>2, <2>1
  <2> QED
    BY <1>1, <2>2, SeqFacts DEF k
<1> QED
  BY <1>1, <1>2 DEF Stack

\* What a stack has to do is a natural number.
LEMMA WorkOfStack ==
  ASSUME NEW s, Stack(s)
  PROVE  work_of(s) \in Nat
<1> DEFINE f == Front(s)
           r == Last(s)
<1>1. s = Append(f, r) /\ Below(f) /\ Fit(r)
  BY Tops
<1> HIDE DEF f, r
<1>2. work_of(f) \in Nat /\ to_do(r) \in Nat /\ work_of(Append(f, r)) = work_of(f) + to_do(r)
  BY <1>1, Pushes
<1>3. work_of(s) = work_of(f) + to_do(r)
  BY <1>1, <1>2
<1> HIDE DEF work_of, to_do
<1> QED
  BY <1>2, <1>3

\* The last of the parsers that wait is one of them.
LEMMA BelowTops ==
  ASSUME NEW f, Below(f), f # <<>>
  PROVE  f = Append(Front(f), Last(f)) /\ Below(Front(f)) /\ Asks(Last(f))
<1> DEFINE n == Len(f)
<1>1. /\ f = Append(Front(f), Last(f)) /\ Len(Front(f)) = n - 1 /\ n \in Nat
      /\ \A i \in 1..(n - 1) : Front(f)[i] = f[i]
      /\ Last(f) = f[n] /\ IsSeq(Front(f)) /\ DOMAIN f = 1..n /\ n # 0
  BY FrontLast, SeqFacts DEF Below
<1>2. DOMAIN Front(f) = 1..(n - 1)
  <2>1. DOMAIN Front(f) = 1..Len(Front(f))
    BY <1>1, SeqFacts
  <2> QED
    BY <1>1, <2>1
<1> HIDE DEF n
<1>3. n \in 1..n /\ \A i \in 1..(n - 1) : i \in 1..n
  BY <1>1
<1> QED
  BY <1>1, <1>2, <1>3 DEF Below

-----------------------------------------------------------------------------
(* The turns.                                                              *)

\* The innermost parser is anywhere in its query, the ones below it wait.
PInv ==
  /\ Stack(parsers)
  /\ verdict \in {"parsing", "parsed", "refused"} /\ turn \in BOOLEAN

\* What a turn does.
Advanced == PInv' /\ (verdict' = "parsing" => work' < work \/ Stuck)

\* A verdict changes no parser.
LEMMA Gives ==
  ASSUME PInv, NEW outcome \in {"parsed", "refused"}, gives(outcome)
  PROVE  Advanced
<1>1. parsers' = parsers /\ verdict' = outcome /\ turn' = ~turn
  BY DEF gives
<1>2. Stack(parsers')
  BY <1>1 DEF PInv
<1>3. verdict' \in {"parsing", "parsed", "refused"} /\ turn' \in BOOLEAN /\ verdict' # "parsing"
  BY <1>1 DEF PInv
<1> QED
  BY <1>2, <1>3 DEF Advanced, PInv

\* A stack with less to do is an advance.
LEMMA Replaces ==
  ASSUME PInv, NEW stack, Stack(stack), work_of(stack) < work, replaces(stack)
  PROVE  Advanced
<1>1. parsers' = stack /\ turn' = ~turn /\ verdict' = verdict
  BY DEF replaces
<1>2. Stack(parsers') /\ verdict' \in {"parsing", "parsed", "refused"} /\ turn' \in BOOLEAN
  BY <1>1 DEF PInv
<1>3. work' = work_of(stack)
  BY <1>1 DEF work
<1> QED
  BY <1>2, <1>3 DEF Advanced, PInv

\* So is an innermost parser with less to do.
LEMMA GoesOn ==
  ASSUME PInv, NEW r, Fit(r), lower(parser, r), goes_on(r)
  PROVE  Advanced
<1> DEFINE f == Front(parsers)
           s == Append(f, r)
<1>1. parsers = Append(f, parser) /\ Below(f) /\ Fit(parser)
  BY Tops DEF PInv, parser
<1>2. replaces(s)
  BY DEF goes_on
<1> HIDE DEF f, s
<1>3. work_of(f) \in Nat /\ work_of(Append(f, parser)) = work_of(f) + to_do(parser)
      /\ to_do(parser) \in Nat
  BY <1>1, Pushes
<1>4. Stack(s) /\ work_of(s) = work_of(f) + to_do(r) /\ to_do(r) \in Nat
  BY <1>1, Pushes DEF s
<1>5. to_do(r) < to_do(parser)
  BY <1>1, LowerIsLess DEF Fit
<1>6. work = work_of(f) + to_do(parser)
  BY <1>1, <1>3 DEF work
<1>7. work_of(s) < work
  BY <1>3, <1>4, <1>5, <1>6
<1> QED
  BY <1>2, <1>4, <1>7, Replaces

\* So is any of its results, and a refusal.
LEMMA Yields ==
  ASSUME PInv, NEW results, \A r \in results : Fit(r) /\ lower(parser, r), yields(results)
  PROVE  Advanced
<1>1. (\E r \in results : goes_on(r)) \/ gives("refused")
  BY DEF yields, refuse
<1>2. CASE \E r \in results : goes_on(r)
  BY <1>2, GoesOn
<1>3. CASE gives("refused")
  BY <1>3, Gives
<1> QED
  BY <1>1, <1>2, <1>3

\* In the loop of a clause the innermost parser is in that clause.
LEMMA InLoop ==
  ASSUME PInv, NEW clause, in_loop(clause)
  PROVE  Fit(parser) /\ parser.clause = clause /\ parser.join = <<>> /\ parser.groups = <<>>
BY Tops DEF in_loop, PInv, parser

\* The turns, one by one.
LEMMA StartClauseTurn ==
  ASSUME PInv, StartClause
  PROVE  Advanced
<1> DEFINE x == parser
           p == next_non_whitespace(x)
<1>1. /\ Fit(x) /\ x.clause = NoClause /\ x.join = <<>> /\ x.groups = <<>>
  BY InLoop DEF StartClause
<1>2. /\ \A comparers, q : (\A c \in comparers : is_comparer(c)) /\ p.phase # Phase_EOF
                            /\ q \in started(p, p.phase, comparers) =>
           /\ Fit(q) /\ lower(x, q)
           /\ p.phase \in {Criteria, Having} =>
                Fit([q EXCEPT !.groups = <<Level>>]) /\ lower(x, [q EXCEPT !.groups = <<Level>>])
      /\ p.phase \in {Joins, LimitAndOffset} =>
           Fit([p EXCEPT !.clause = p.phase]) /\ lower(x, [p EXCEPT !.clause = p.phase])
  BY <1>1, ClauseStarts
<1>3. \/ p.phase = Projection /\ yields(started(p, Projection, {Select}))
      \/ p.phase \in {Joins, LimitAndOffset} /\ goes_on([p EXCEPT !.clause = p.phase])
      \/ p.phase \in {Collections, Aggregates, OrderBy}
         /\ yields(started(p, p.phase, Openers[p.phase]))
      \/ p.phase \in {Criteria, Having}
         /\ yields({[q EXCEPT !.groups = <<Level>>] : q \in started(p, p.phase, Openers[p.phase])})
  BY DEF StartClause
<1> HIDE DEF p
<1>4. CASE p.phase = Projection /\ yields(started(p, Projection, {Select}))
  <2>1. \A c \in {Select} : is_comparer(c)
    BY Keywords
  <2>2. p.phase # Phase_EOF
    BY <1>4 DEF Projection, Phase_EOF
  <2> DEFINE words == {Select}
  <2>3. yields(started(p, p.phase, words)) /\ \A c \in words : is_comparer(c)
    BY <1>4, <2>1
  <2> HIDE DEF words
  <2>4. \A r \in started(p, p.phase, words) : Fit(r) /\ lower(parser, r)
    BY <1>2, <2>2, <2>3
  <2> QED
    BY <2>3, <2>4, Yields
<1>5. CASE p.phase \in {Joins, LimitAndOffset} /\ goes_on([p EXCEPT !.clause = p.phase])
  BY <1>2, <1>5, GoesOn
<1>6. ASSUME p.phase \in {Collections, Aggregates, OrderBy, Criteria, Having}
      PROVE  p.phase # Phase_EOF /\ \A c \in Openers[p.phase] : is_comparer(c)
  <2>1. p.phase \in 1..7 /\ p.phase # Phase_EOF
    BY <1>6 DEF Collections, Aggregates, OrderBy, Criteria, Having, Phase_EOF
  <2> QED
    BY <2>1, OpenersFacts
<1>7. CASE p.phase \in {Collections, Aggregates, OrderBy}
           /\ yields(started(p, p.phase, Openers[p.phase]))
  <2>1. p.phase # Phase_EOF /\ \A c \in Openers[p.phase] : is_comparer(c)
    BY <1>6, <1>7
  <2>2. \A r \in started(p, p.phase, Openers[p.phase]) : Fit(r) /\ lower(parser, r)
    BY <1>2, <2>1
  <2> QED
    BY <1>7, <2>2, Yields
<1>8. CASE p.phase \in {Criteria, Having}
           /\ yields({[q EXCEPT !.groups = <<Level>>] : q \in started(p, p.phase, Openers[p.phase])})
  <2>1. p.phase # Phase_EOF /\ \A c \in Openers[p.phase] : is_comparer(c)
    BY <1>6, <1>8
  <2>2. \A q \in started(p, p.phase, Openers[p.phase]) :
          Fit([q EXCEPT !.groups = <<Level>>]) /\ lower(parser, [q EXCEPT !.groups = <<Level>>])
    BY <1>2, <1>8, <2>1
  <2> DEFINE results == {[q EXCEPT !.groups = <<Level>>] : q \in started(p, p.phase, Openers[p.phase])}
  <2>3. \A r \in results : Fit(r) /\ lower(parser, r)
    BY <2>2, Zenon
  <2>4. yields(results)
    BY <1>8
  <2> HIDE DEF results
  <2> QED
    BY <2>3, <2>4, Yields
<1> QED
  BY <1>3, <1>4, <1>5, <1>7, <1>8

LEMMA ProjectionAdvances ==
  ASSUME PInv, ProjectionTurn
  PROVE  Advanced
<1> DEFINE x == parser
           p == next_non_whitespace(x)
           items == {[at(p, i.position) EXCEPT !.query.projection = Append(@, i.item),
                                               !.can_consume = FALSE]
                     : i \in {i \in Identifier(p) : p.can_consume}}
           ended == given(~p.can_consume /\ ~eof(p), after_clause(check_next_phase(p)))
<1>1. Fit(x) /\ x.clause = Projection /\ x.groups = <<>>
  BY InLoop DEF ProjectionTurn
<1>2. \/ yields(comma(p))
      \/ opens(p) /\ yields(ended)
      \/ yields(items)
  BY DEF ProjectionTurn
<1>3. \A r : \/ r \in comma(p)
             \/ opens(p) /\ r = after_clause(check_next_phase(p))
             \/ \E i \in Identifier(p) :
                  /\ p.can_consume
                  /\ r = [at(p, i.position) EXCEPT !.query.projection = Append(@, i.item),
                                                   !.can_consume = FALSE]
             => Fit(r) /\ lower(x, r)
  BY <1>1, ProjectionFacts, Zenon
<1>4. \A r \in items : Fit(r) /\ lower(x, r)
  BY <1>3, Zenon
<1>5. \A r \in ended : r = after_clause(check_next_phase(p))
  BY DEF given
<1>6. opens(p) => \A r \in ended : Fit(r) /\ lower(x, r)
  BY <1>3, <1>5, Zenon
<1> HIDE DEF p, items, ended
<1>7. CASE yields(comma(p))
  BY <1>3, <1>7, Yields
<1>8. CASE opens(p) /\ yields(ended)
  BY <1>6, <1>8, Yields
<1>9. CASE yields(items)
  BY <1>4, <1>9, Yields
<1> QED
  BY <1>2, <1>7, <1>8, <1>9

LEMMA CollectionsAdvances ==
  ASSUME PInv, CollectionsTurn
  PROVE  Advanced
<1> DEFINE x == parser
           p == after_comma(x)
<1>1. Fit(x) /\ x.clause = Collections /\ x.groups = <<>> /\ in_loop(Collections)
  BY InLoop DEF CollectionsTurn
<1>2. /\ current(p) = " " => Fit(next_non_whitespace(p)) /\ lower(x, next_non_whitespace(p))
      /\ p.can_consume => \A r \in Collection(p) : Fit(r) /\ lower(x, r)
      /\ current(p) # " " /\ ~p.can_consume => p = x /\ compare(x, On)
  BY <1>1, CollectionsFacts
<1>3. \/ refuse
      \/ current(p) = " " /\ goes_on(next_non_whitespace(p))
      \/ p.can_consume /\ yields(Collection(p))
      \/ current(p) # " " /\ ~p.can_consume /\ goes_on(p)
  BY DEF CollectionsTurn
<1> HIDE DEF p
<1>4. CASE refuse
  BY <1>4, Gives DEF refuse
<1>5. CASE current(p) = " " /\ goes_on(next_non_whitespace(p))
  BY <1>2, <1>5, GoesOn
<1>6. CASE p.can_consume /\ yields(Collection(p))
  BY <1>2, <1>6, Yields
<1>7. CASE current(p) # " " /\ ~p.can_consume /\ goes_on(p)
  <2>1. p = x /\ compare(x, On)
    BY <1>2, <1>7
  <2>2. Stuck
    BY <1>1, <1>7, <2>1 DEF Stuck
  <2>3. parsers = Append(Front(parsers), x)
    BY Tops DEF PInv, parser
  <2>4. parsers' = parsers /\ turn' = ~turn /\ verdict' = verdict
    BY <1>7, <2>1, <2>3 DEF goes_on, replaces
  <2>5. PInv'
    BY <2>4 DEF PInv
  <2> QED
    BY <2>2, <2>5 DEF Advanced
<1> QED
  BY <1>3, <1>4, <1>5, <1>6, <1>7

\* It reads a join where it waits for a part of it.
LEMMA ReadsJoin ==
  ASSUME PInv, NEW n, reads_join(parser, n)
  PROVE  Fit(parser) /\ parser.clause = Joins /\ Len(parser.join) = n /\ parser.groups = <<>>
BY Tops DEF reads_join, PInv, parser

LEMMA JoinAdvances ==
  ASSUME PInv, JoinTurn \/ JoinCollection \/ JoinOn
  PROVE  Advanced
<1> DEFINE x == parser
<1>1. CASE JoinTurn
  <2>1. Fit(x) /\ x.clause = Joins /\ x.groups = <<>>
    BY <1>1, InLoop DEF JoinTurn
  <2>2. PICK type \in DOMAIN JoinType : \E c \in JoinType[type] :
          compare(x, c) /\ goes_on([next_non_whitespace(jump(x, c)) EXCEPT !.join = <<type>>])
    BY <1>1 DEF JoinTurn
  <2>3. PICK c \in JoinType[type] :
          compare(x, c) /\ goes_on([next_non_whitespace(jump(x, c)) EXCEPT !.join = <<type>>])
    BY <2>2
  <2> DEFINE r == [next_non_whitespace(jump(x, c)) EXCEPT !.join = <<type>>]
  <2>4. Fit(r) /\ lower(x, r)
    BY <2>1, <2>3, JoinFacts
  <2>5. goes_on(r)
    BY <2>3
  <2> HIDE DEF r
  <2> QED
    BY <2>4, <2>5, GoesOn
<1>2. CASE JoinCollection
  <2>1. Fit(x) /\ x.clause = Joins /\ Len(x.join) = 1 /\ x.groups = <<>> /\ yields(Collection(x))
    BY <1>2, ReadsJoin DEF JoinCollection
  <2>2. Asks(x)
    BY <2>1, JoinFacts
  <2> QED
    BY <2>1, <2>2, CollectionFacts, Yields
<1>3. CASE JoinOn
  <2> DEFINE r == [jump(x, On) EXCEPT !.groups = <<Level>>]
             results == given(compare(x, On), r)
  <2>1. Fit(x) /\ x.clause = Joins /\ x.groups = <<>> /\ yields(results)
    BY <1>3, ReadsJoin DEF JoinOn
  <2>2. compare(x, On) => Fit(r) /\ lower(x, r)
    BY <2>1, JoinFacts
  <2> HIDE DEF r
  <2>3. \A s \in results : Fit(s) /\ lower(x, s)
    BY <2>2 DEF given
  <2> HIDE DEF results
  <2> QED
    BY <2>1, <2>3, Yields
<1> QED
  BY <1>1, <1>2, <1>3

LEMMA PredicateAdvances ==
  ASSUME PInv, PredicateTurn
  PROVE  Advanced
<1>1. Fit(parser) /\ parser.groups # <<>> /\ yields(parse_all(parser))
  BY Tops DEF PredicateTurn, PInv, parser
<1> QED
  BY <1>1, PredicateFacts, Yields

LEMMA GroupByAdvances ==
  ASSUME PInv, GroupByTurn
  PROVE  Advanced
<1> DEFINE x == parser
           p == next_non_whitespace(x)
           q == after_comma(p)
           items == {[at(q, s.position) EXCEPT !.query.group_by = Append(@, s.expr),
                                               !.can_consume = FALSE]
                     : s \in {s \in scalar(q, FALSE) :
                                /\ q.can_consume /\ ~(current(p) = "," /\ p.can_consume)
                                /\ s.expr.node = "Column"}}
<1>1. Fit(x) /\ x.clause = Aggregates /\ x.groups = <<>>
  BY InLoop DEF GroupByTurn
<1>2. \/ opens(p) /\ goes_on(after_clause(check_next_phase(p)))
      \/ yields(items)
  BY DEF GroupByTurn
<1>3. \A r : \/ opens(p) /\ r = after_clause(check_next_phase(p))
             \/ \E s \in scalar(q, FALSE) :
                  /\ q.can_consume
                  /\ r = [at(q, s.position) EXCEPT !.query.group_by = Append(@, s.expr),
                                                   !.can_consume = FALSE]
             => Fit(r) /\ lower(x, r)
  BY <1>1, GroupByFacts, Zenon
<1>4. \A r \in items : Fit(r) /\ lower(x, r)
  BY <1>3, Zenon
<1> HIDE DEF p, q, items
<1>5. CASE opens(p) /\ goes_on(after_clause(check_next_phase(p)))
  BY <1>3, <1>5, GoesOn
<1>6. CASE yields(items)
  BY <1>4, <1>6, Yields
<1> QED
  BY <1>2, <1>5, <1>6

LEMMA OrderByAdvances ==
  ASSUME PInv, OrderByTurn
  PROVE  Advanced
<1> DEFINE x == parser
           p == after_comma(x)
           item(k) == after_clause([k.parser EXCEPT !.query.order_by = Append(@, k.item),
                                                    !.can_consume = FALSE])
           items == {item(k) : k \in {k \in sort_key(p) : p.can_consume /\ ~too_many_commas}}
<1>1. Fit(x) /\ x.clause = OrderBy /\ x.groups = <<>>
  BY InLoop DEF OrderByTurn
<1>2. yields(items)
  BY DEF OrderByTurn
<1>3. ASSUME NEW k \in sort_key(p), p.can_consume PROVE Fit(item(k)) /\ lower(x, item(k))
  BY <1>1, <1>3, OrderByFacts, Zenon
<1> HIDE DEF p, item
<1>4. \A r \in items : Fit(r) /\ lower(x, r)
  BY <1>3
<1> HIDE DEF items
<1> QED
  BY <1>2, <1>4, Yields

LEMMA LimitAdvances ==
  ASSUME PInv, LimitTurn
  PROVE  Advanced
<1> DEFINE x == parser
           p == next_non_whitespace(x)
           int(c) == {s \in scalar(jump(p, c), FALSE) :
                        compare(p, c) /\ s.expr.node = "Literal" /\ s.expr.ty = "Int"}
           limit(s) == [at(p, s.position) EXCEPT !.query.limit = s.expr]
           offset(s) == [at(p, s.position) EXCEPT !.query.offset = s.expr]
           items == {limit(s) : s \in int(Limit)} \cup {offset(s) : s \in int(Offset)}
<1>1. Fit(x) /\ x.clause = LimitAndOffset /\ x.groups = <<>>
  BY InLoop DEF LimitTurn
<1>2. \/ opens(p) /\ goes_on(after_clause(check_next_phase(p)))
      \/ yields(items)
  BY DEF LimitTurn
<1>3. \A r : \/ opens(p) /\ r = after_clause(check_next_phase(p))
             \/ \E c \in {Limit, Offset} : \E s \in scalar(jump(p, c), FALSE) :
                  /\ compare(p, c)
                  /\ \/ r = [at(p, s.position) EXCEPT !.query.limit = s.expr]
                     \/ r = [at(p, s.position) EXCEPT !.query.offset = s.expr]
             => Fit(r) /\ lower(x, r)
  BY <1>1, LimitFacts, Zenon
<1> HIDE DEF p
<1>7. ASSUME NEW c \in {Limit, Offset}, NEW s \in int(c)
      PROVE  /\ Fit(limit(s)) /\ lower(x, limit(s))
             /\ Fit(offset(s)) /\ lower(x, offset(s))
  <2>1. s \in scalar(jump(p, c), FALSE) /\ compare(p, c)
    BY <1>7
  <2> QED
    BY <1>3, <1>7, <2>1, Zenon
<1> HIDE DEF int, limit, offset
<1>4. \A r \in items : Fit(r) /\ lower(x, r)
  BY <1>7
<1> HIDE DEF items
<1>5. CASE opens(p) /\ goes_on(after_clause(check_next_phase(p)))
  BY <1>3, <1>5, GoesOn
<1>6. CASE yields(items)
  BY <1>4, <1>6, Yields
<1> QED
  BY <1>2, <1>5, <1>6

LEMMA BeginSubqueryAdvances ==
  ASSUME PInv, BeginSubquery
  PROVE  Advanced
<1> DEFINE x == parser
           p == after_comma(x)
           f == Front(parsers)
<1>1. \/ in_loop(Collections) /\ p.can_consume
      \/ reads_join(x, 1) /\ p = x
  BY DEF BeginSubquery
<1>2. refuse \/ \E pair \in subquery(p) : replaces(f \o pair)
  BY DEF BeginSubquery
<1>3. parsers = Append(f, x) /\ Below(f) /\ Fit(x)
  BY Tops DEF PInv, parser
<1>4. Asks(p)
  <2>1. CASE in_loop(Collections) /\ p.can_consume
    BY <2>1, InLoop, CollectionsFacts
  <2>2. CASE reads_join(x, 1) /\ p = x
    BY <2>2, ReadsJoin, JoinFacts
  <2> QED
    BY <1>1, <2>1, <2>2
<1>5. to_do(p) <= to_do(x) /\ to_do(p) \in Nat /\ to_do(x) \in Nat
  <2>1. IsParser(x) /\ IsParser(p) /\ p.text = x.text /\ p.position >= x.position /\ p.phase = x.phase
        /\ (p = x \/ p.position > x.position)
    BY <1>3, AfterComma DEF Fit
  <2> HIDE DEF p
  <2>2. to_do(p) \in Nat /\ to_do(x) \in Nat
    BY <2>1, ToDo
  <2>3. CASE p = x
    BY <2>2, <2>3
  <2>4. CASE p.position > x.position
    <3>1. to_do(p) < to_do(x)
      BY <2>1, <2>4, LowerIsLess DEF lower
    <3> QED
      BY <2>2, <3>1
  <2> QED
    BY <2>1, <2>3, <2>4
<1> HIDE DEF p, f
<1>6. CASE refuse
  BY <1>6, Gives DEF refuse
<1>7. ASSUME NEW pair \in subquery(p), replaces(f \o pair) PROVE Advanced
  <2>1. PICK a, b : /\ pair = <<a, b>>
                    /\ Asks(a) /\ Fit(b)
                    /\ to_do(a) \in Nat /\ to_do(b) \in Nat
                    /\ to_do(a) + to_do(b) < to_do(p)
    BY <1>4, <1>7, SubqueryFacts
  <2>2. f \o pair = Append(Append(f, a), b)
    <3>1. PICK S : f \in Seq(S)
      BY <1>3 DEF Below, IsSeq
    <3>2. f \in Seq(S \cup {a, b})
      BY <3>1
    <3> QED
      BY <2>1, <3>2
  <2>3. Fit(a) /\ Waiting(a)
    BY <2>1 DEF Asks
  <2> DEFINE g == Append(f, a)
  <2>4. Below(g) /\ work_of(f) \in Nat /\ work_of(g) = work_of(f) + to_do(a)
    BY <1>3, <2>3, Pushes
  <2> HIDE DEF g
  <2>5. Stack(Append(g, b)) /\ work_of(Append(g, b)) = work_of(g) + to_do(b)
    BY <2>1, <2>4, Pushes
  <2>6. work = work_of(f) + to_do(x)
    BY <1>3, Pushes DEF work
  <2>7. work_of(Append(g, b)) < work
    BY <1>5, <2>1, <2>4, <2>5, <2>6
  <2>8. replaces(Append(g, b))
    BY <1>7, <2>2 DEF g
  <2> QED
    BY <2>5, <2>7, <2>8, Replaces
<1> QED
  BY <1>2, <1>6, <1>7

LEMMA EndSubqueryAdvances ==
  ASSUME PInv, EndSubquery
  PROVE  Advanced
<1> DEFINE x == parser
           f == Front(parsers)
           g == Front(f)
           outer == Last(f)
           results == named(outer, x.query)
<1>1. parsers = Append(f, x) /\ Below(f) /\ Fit(x) /\ f # <<>>
  BY Tops DEF PInv, parser, EndSubquery
<1>2. f = Append(g, outer) /\ Below(g) /\ Asks(outer)
  BY <1>1, BelowTops
<1>3. (\E r \in results : replaces(Append(g, r))) \/ refuse
  BY DEF EndSubquery
<1>4. CASE refuse
  BY <1>4, Gives DEF refuse
<1>5. ASSUME NEW r \in results, replaces(Append(g, r)) PROVE Advanced
  <2>1. Fit(r) /\ lower(outer, r)
    BY <1>2, <1>5, NamedFacts
  <2>2. to_do(r) < to_do(outer)
    BY <1>2, <2>1, AsksFacts, LowerIsLess DEF Fit
  <2> HIDE DEF f, g, outer, results
  <2>3. Fit(outer)
    BY <1>2 DEF Asks
  <2>4. /\ Stack(Append(g, r)) /\ work_of(g) \in Nat /\ to_do(r) \in Nat
        /\ work_of(Append(g, r)) = work_of(g) + to_do(r)
    BY <1>2, <2>1, Pushes
  <2>5. work_of(f) = work_of(g) + to_do(outer) /\ to_do(outer) \in Nat
    BY <1>2, <2>3, Pushes
  <2>6. work = work_of(f) + to_do(x) /\ to_do(x) \in Nat
    BY <1>1, Pushes DEF work
  <2>7. work_of(Append(g, r)) < work
    BY <2>2, <2>4, <2>5, <2>6
  <2> QED
    BY <1>5, <2>4, <2>7, Replaces
<1> QED
  BY <1>3, <1>4, <1>5

-----------------------------------------------------------------------------
(* The theorems.                                                           *)

\* At the start there is one parser, at the first token of its text.
LEMMA PInvInit ==
  ASSUME Init
  PROVE  PInv
<1>1. PICK t \in Texts : parsers = <<NewParser(t, 0)>>
  BY DEF Init
<1> DEFINE p == NewParser(t, 0)
<1>2. t \in Seq(Tokens) /\ 1 \in 1..(Len(t) + 1)
  <2>1. t \in Seq(Tokens)
    BY TextsAssumption
  <2>2. Len(t) \in Nat
    BY <2>1
  <2> QED
    BY <2>1, <2>2
<1>3. IsSeq(<<>>)
  BY <<>> \in Seq({}) DEF IsSeq
<1>4. /\ shaped(p) /\ p.text = t /\ p.position = 1 /\ p.phase = Projection
      /\ p.clause = NoClause /\ p.can_consume = TRUE /\ p.join = <<>> /\ p.groups = <<>>
  BY DEF NewParser, shaped
<1> HIDE DEF p
<1>5. IsParser(p)
  <2>1. Projection \in Projection..Phase_EOF
    BY DEF Projection, Phase_EOF
  <2> QED
    BY <1>2, <1>3, <1>4, <2>1, Zenon DEF IsParser
<1>6. InClause(p)
  BY <1>4 DEF InClause, NoClause, Joins
<1>7. AtEnd(p)
  <2>1. p.can_consume
    BY <1>4
  <2> QED
    BY <2>1 DEF AtEnd
<1>8. Below(<<>>)
  BY <1>3 DEF Below
<1>9. parsers = Append(<<>>, p)
  BY <1>1 DEF p
<1>10. Stack(parsers)
  BY <1>5, <1>6, <1>7, <1>8, <1>9, Pushes DEF Fit
<1> QED
  BY <1>10 DEF PInv, Init

\* Every turn advances, or nothing has changed.
LEMMA Turns ==
  ASSUME PInv, Next
  PROVE  Advanced \/ UNCHANGED vars
<1>1. CASE StartClause
  BY <1>1, StartClauseTurn
<1>2. CASE ProjectionTurn
  BY <1>2, ProjectionAdvances
<1>3. CASE CollectionsTurn
  BY <1>3, CollectionsAdvances
<1>4. CASE JoinTurn \/ JoinCollection \/ JoinOn
  BY <1>4, JoinAdvances
<1>5. CASE PredicateTurn
  BY <1>5, PredicateAdvances
<1>6. CASE GroupByTurn
  BY <1>6, GroupByAdvances
<1>7. CASE OrderByTurn
  BY <1>7, OrderByAdvances
<1>8. CASE LimitTurn
  BY <1>8, LimitAdvances
<1>9. CASE BeginSubquery
  BY <1>9, BeginSubqueryAdvances
<1>10. CASE EndSubquery
  BY <1>10, EndSubqueryAdvances
<1>11. CASE Finish
  BY <1>11, Gives DEF Finish
<1>12. CASE Done
  BY <1>12 DEF Done
<1> QED
  BY <1>1, <1>2, <1>3, <1>4, <1>5, <1>6, <1>7, <1>8, <1>9, <1>10, <1>11, <1>12 DEF Next

\* So the invariant is kept, and the work shrinks.
LEMMA PInvNext ==
  ASSUME PInv, [Next]_vars
  PROVE  PInv' /\ (UNCHANGED vars \/ (verdict' = "parsing" => work' < work \/ Stuck))
<1>1. CASE UNCHANGED vars
  BY <1>1 DEF vars, PInv
<1>2. CASE Next
  <2>1. CASE Advanced
    BY <2>1 DEF Advanced
  <2> QED
    BY <1>1, <1>2, <2>1, Turns
<1> QED
  BY <1>1, <1>2

\* What the invariant says of the stack says IInv of each of its parsers.
LEMMA PInvIInv ==
  ASSUME PInv
  PROVE  IInv
<1> DEFINE s == parsers
           n == Len(s)
<1>1. /\ Stack(s) /\ n \in Nat /\ n # 0 /\ DOMAIN s = 1..n /\ s # <<>>
      /\ Len(Front(s)) = n - 1 /\ \A i \in 1..(n - 1) : Front(s)[i] = s[i]
      /\ Last(s) = s[n] /\ IsSeq(Front(s)) /\ Below(Front(s)) /\ Fit(Last(s))
  BY FrontLast, SeqFacts DEF PInv, Stack
<1>2. DOMAIN Front(s) = 1..(n - 1)
  <2>1. DOMAIN Front(s) = 1..Len(Front(s))
    BY <1>1, SeqFacts
  <2> QED
    BY <1>1, <2>1
<1> HIDE DEF n
<1>3. ASSUME NEW i \in 1..n
      PROVE  Fit(s[i]) /\ (i < n => Waiting(s[i]))
  <2>1. CASE i = n
    BY <1>1, <2>1
  <2>2. CASE i # n
    <3>1. i \in 1..(n - 1)
      BY <1>1, <2>2
    <3> QED
      BY <1>1, <1>2, <3>1 DEF Below, Asks
  <2> QED
    BY <2>1, <2>2
<1>4. ASSUME NEW p, Fit(p)
      PROVE  /\ p.text \in Seq(Tokens)
             /\ p.position \in 1..(Len(p.text) + 1)
             /\ p.phase \in Projection..Phase_EOF
             /\ p.clause \in {NoClause} \cup Projection..LimitAndOffset
             /\ p.groups # <<>> => p.clause \in {Joins, Criteria, Having}
             /\ p.join # <<>> => p.clause = Joins
             /\ InClause(p) /\ AtEnd(p)
  BY <1>4, Zenon DEF Fit, IsParser, InClause
<1>5. ASSUME NEW p, Waiting(p) PROVE p.clause \in {Collections, Joins}
  BY <1>5, Zenon DEF Waiting
<1>6. \A i \in DOMAIN parsers : i < Len(parsers) => parsers[i].clause \in {Collections, Joins}
  BY <1>1, <1>3, <1>5 DEF n
<1>7. TypeOK
  BY <1>1, <1>3, <1>4, <1>6, Zenon DEF PInv, TypeOK
<1>8. \A i \in DOMAIN parsers : InClause(parsers[i]) /\ AtEnd(parsers[i])
  BY <1>1, <1>3, <1>4
<1>9. \A i \in DOMAIN parsers : i < Len(parsers) => Waiting(parsers[i])
  BY <1>1, <1>3 DEF n
<1> QED
  BY <1>7, <1>8, <1>9, Zenon DEF IInv

\* It holds in every reachable state.
LEMMA PInvHolds == Spec => []PInv
<1>1. Init => PInv
  BY PInvInit
<1>2. PInv /\ [Next]_vars => PInv'
  BY PInvNext
<1> QED
  BY <1>1, <1>2, PTL DEF Spec

\* The parsers under way have the types of QueryParser's fields, whatever the texts: the
\* position stays in the text or right behind it, a parser below another one is in FROM or in
\* a join, and only a clause with a predicate has levels of groups.
THEOREM ParserTypeCorrect == Spec => []TypeOK
<1>1. PInv => TypeOK
  BY PInvIInv DEF IInv
<1> QED
  BY <1>1, PInvHolds, PTL

\* Every parser is where the code can only be: the clause whose loop runs is that of its
\* phase, or the joins, whose loop alone can see a later phase begin; a parser below another
\* one still waits for a collection; and a collection of FROM is followed by a comma or ON.
THEOREM ParserInvariant == Spec => []IInv
<1>1. PInv => IInv
  BY PInvIInv
<1> QED
  BY <1>1, PInvHolds, PTL

\* What is left to do is a natural number, for any texts and any depth of subqueries: it
\* cannot shrink for ever.
THEOREM ParserWorkBounded == Spec => [](work \in Nat)
<1>1. PInv => work \in Nat
  <2> SUFFICES ASSUME PInv PROVE work_of(parsers) \in Nat
    BY DEF work
  <2>1. Stack(parsers)
    BY DEF PInv
  <2> QED
    BY <2>1, WorkOfStack
<1> QED
  BY <1>1, PInvHolds, PTL

\* Every turn of every loop leaves less to do, so no text of any length and depth keeps
\* Query::parse going, but for a collection of FROM that ON follows.
THEOREM ParserTurnsAdvance == Spec => TurnsAdvance
<1>1. PInv /\ [Next]_vars => [verdict' = "parsing" => work' < work \/ Stuck]_vars
  BY PInvNext
<1> QED
  BY <1>1, PInvHolds, PTL DEF Spec, TurnsAdvance
===============================================================================
