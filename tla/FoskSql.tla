------------------------------ MODULE FoskSql ------------------------------
(***************************************************************************)
(* What the parser makes of a text, compared with the text: the query of   *)
(* an accepted text is written down again as SQL.                          *)
(***************************************************************************)
EXTENDS FoskParser

\* What an accepted query says, as a text without blanks, optional words and
\* optional commas.
RECURSIVE words_of(_), list_of(_)

list_of(items) ==
  FlattenSeq([i \in DOMAIN items |-> (IF i = 1 THEN <<>> ELSE <<",">>) \o words_of(items[i])])

word(x)  == IF x \in {None, ""} THEN <<>> ELSE <<x>>
owned(e) == IF e.collection = None THEN <<>> ELSE <<e.collection, ".">>

words_of(e) ==
  CASE e.node = "Literal"   -> <<e.value>>
    [] e.node = "Parameter" -> <<"?">>
    [] e.node = "WildCard"  -> owned(e) \o <<"*">>
    [] e.node = "Column"    -> owned(e) \o word(e.name)
    [] e.node = "Function"  ->
         owned(e) \o <<e.name, "(">> \o (IF e.distinct THEN <<"DISTINCT">> ELSE <<>>)
         \o list_of(e.args) \o <<")">>

negation(test) == IF test.negated THEN <<"NOT">> ELSE <<>>

RECURSIVE words_of_predicate(_)
words_of_predicate(pred) ==
  CASE pred.node = "Test" /\ pred.test = "IS NULL" ->
         words_of(pred.operands[1]) \o <<"IS">> \o negation(pred) \o <<"NULL">>
    [] pred.node = "Test" /\ pred.test = "IN" ->
         words_of(pred.operands[1]) \o negation(pred) \o <<"IN", "(">>
         \o list_of(Tail(pred.operands)) \o <<")">>
    [] pred.node = "Test" /\ pred.test \notin {"IS NULL", "IN"} ->
         words_of(pred.operands[1]) \o negation(pred) \o <<pred.test>> \o words_of(pred.operands[2])
    [] OTHER ->
         FlattenSeq([i \in DOMAIN pred.items |->
           LET item == pred.items[i] IN
           (IF i = 1 THEN <<>> ELSE <<IF pred.node = "And" THEN "AND" ELSE "OR">>)
           \o (IF item.node = "Test" THEN words_of_predicate(item)
               ELSE <<"(">> \o words_of_predicate(item) \o <<")">>)])

optional(keyword, value, body) == IF value \in {None, <<>>} THEN <<>> ELSE keyword \o body

commas(parts) ==
  FlattenSeq([i \in DOMAIN parts |-> (IF i = 1 THEN <<>> ELSE <<",">>) \o parts[i]])

RECURSIVE words_of_query(_)
words_of_query(q) ==
  LET source(c) == (IF c.node = "Table" THEN word(c.name)
                    ELSE <<"(">> \o words_of_query(c.query) \o <<")">>) \o word(c.alias)
      identifier(i) == words_of(i.expression) \o word(i.alias)
      join(j) == (CASE j.join_type = "Inner" -> <<"JOIN">>
                    [] j.join_type = "Left"  -> <<"LEFT", "JOIN">>
                    [] j.join_type = "Right" -> <<"RIGHT", "JOIN">>
                    [] j.join_type = "Full"  -> <<"FULL", "JOIN">>)
                 \o source(j.collection) \o <<"ON">> \o words_of_predicate(j.predicate)
      key(k) == words_of(k.expr) \o (IF k.ascending THEN <<>> ELSE <<"DESC">>)
      each(f(_), s) == [i \in DOMAIN s |-> f(s[i])]
  IN  <<"SELECT">> \o commas(each(identifier, q.projection))
      \o optional(<<"FROM">>, q.collections, commas(each(source, q.collections)))
      \o FlattenSeq(each(join, q.joins))
      \o optional(<<"WHERE">>, q.criteria, words_of_predicate(q.criteria))
      \o optional(<<"GROUP", "BY">>, q.group_by, list_of(q.group_by))
      \o optional(<<"HAVING">>, q.having, words_of_predicate(q.having))
      \o optional(<<"ORDER", "BY">>, q.order_by, commas(each(key, q.order_by)))
      \o optional(<<"LIMIT">>, q.limit, words_of(q.limit))
      \o optional(<<"OFFSET">>, q.offset, words_of(q.offset))

-----------------------------------------------------------------------------
(* The same words in the text.  In what follows s is a text without its    *)
(* blanks; whether a word is a keyword or a name is not asked of the text, *)
(* but answered by the query, which has it or not.                         *)

\* Blanks go; a name that is missing after a dot is its collection's; a word in
\* front of a star is lost.
solid(t) ==
  FlattenSeq([i \in DOMAIN t |->
    LET follower == current(at(NewParser(t, 0), i + 1)) IN
    CASE t[i] = " " \/ (follower = "*" /\ is_word(t[i])) -> <<>>
      [] t[i] = "." /\ follower \in Delimiters -> <<".", t[i - 1]>>
      [] OTHER -> <<t[i]>>])

before(s, i) == IF i = 1 THEN Eof ELSE s[i - 1]
after(s, i)  == IF i = Len(s) THEN Eof ELSE s[i + 1]

ClauseWords == {"JOIN", "INNER", "LEFT", "RIGHT", "FULL", "WHERE", "GROUP", "HAVING", "ORDER",
                "LIMIT", "OFFSET"}
Ends      == ClauseWords \cup {")", Eof}
TestWords == Operators \cup {"LIKE", "IN", "IS", "NOT"}
\* What only a name or a value can follow.
Leads     == Operators \cup {"LIKE", "DISTINCT", "(", ",", "."}

\* LIMIT and OFFSET where they may be the names of collections.
may_be_names(s) ==
  {i \in DOMAIN s : s[i] \in {"LIMIT", "OFFSET"} /\ before(s, i) \in {"FROM", "JOIN", ","}}

\* LIMIT and OFFSET may stand in any order; of several of one level the last counts,
\* and the others are lost.
windowed(s, names) ==
  LET begins(i) == /\ i \in DOMAIN s \ names
                   /\ s[i] \in {"LIMIT", "OFFSET"}
                   /\ after(s, i) \in Ints
      run(i) == {j \in i..Len(s) : \A k \in i..j : (k - i) % 2 = 0 => begins(k)}
      lasts(i, keyword) ==
        FlattenSeq([k \in 1..(Len(s) - i) |->
          LET j == i + k - 1 IN
          IF j \in run(i) /\ s[j] = keyword /\ \A m \in run(i) : s[m] = keyword => m <= j
          THEN <<keyword, s[j + 1]>> ELSE <<>>])
  IN  FlattenSeq([i \in DOMAIN s |->
        CASE begins(i) /\ ~begins(i - 2) -> lasts(i, "LIMIT") \o lasts(i, "OFFSET")
          [] begins(i) /\ begins(i - 2) -> <<>>
          [] begins(i - 1) -> <<>>
          [] OTHER -> <<s[i]>>])

depth(s, i) ==
  Cardinality({k \in 1..(i - 1) : s[k] = "("}) - Cardinality({k \in 1..(i - 1) : s[k] = ")"})

\* What stands between a parenthesis and its other one.
in_parentheses(s, i) ==
  LET outside == IF s[i] = "(" THEN depth(s, i) ELSE depth(s, i + 1)
  IN  {k \in DOMAIN s : \A m \in (i + 1)..k \cup (k + 1)..i : depth(s, m) > outside}

\* Parentheses around one test.
around_a_test(s, i) ==
  LET part == in_parentheses(s, i) IN
  /\ s[i] \in {"(", ")"}
  /\ \E k \in part : s[k] \in TestWords
  /\ \A k \in part : /\ s[k] # "SELECT"
                     /\ s[k] \in {"AND", "OR"} => before(s, k) \in Leads

\* The layout of a text besides its blanks: optional words, a comma in front of a
\* parenthesis, parentheses around one test, and a GROUP BY without columns.
is_layout(s, i) ==
  \/ s[i] = "AS"
  \/ s[i] = "INNER" /\ after(s, i) = "JOIN"
  \/ s[i] = "ASC" /\ after(s, i) \in Ends \cup {","}
  \/ s[i] = "," /\ after(s, i) = ")"
  \/ around_a_test(s, i)
  \/ s[i] = "GROUP" /\ after(s, i) = "BY" /\ after(s, i + 1) \in Ends
  \/ s[i] = "BY" /\ before(s, i) = "GROUP" /\ after(s, i) \in Ends

\* The words that the parser takes and forgets, with a meaning or without one: the NOT of
\* NOT LIKE, the DISTINCT of a list of IN, and a connective that is not between tests.
is_lost(s, i) ==
  \/ s[i] = "NOT" /\ after(s, i) = "LIKE"
  \/ s[i] = "DISTINCT" /\ before(s, i) = "(" /\ i > 2 /\ s[i - 2] = "IN"
  \/ s[i] \in {"AND", "OR"} /\ after(s, i) \in Ends \cup {"OR"}

\* Between i and k no parenthesis around one of them ends, and no predicate begins.
same_level(s, i, k) ==
  LET between == (i + 1)..(k - 1) \cup (k + 1)..(i - 1)
      begins(m) == /\ s[m] \in {"ON", "WHERE", "HAVING"}
                   /\ before(s, m) \notin Leads \cup {"AND", "OR"}
                   /\ after(s, m) \notin TestWords \cup {".", "("}
  IN  /\ depth(s, i) = depth(s, k)
      /\ \A m \in between : depth(s, m) >= depth(s, i) /\ ~begins(m)

\* A level in which an AND stands is an And of all its tests, any other level an Or,
\* also where the text has the other connective or none.
of_level(s, i, connective) == \E k \in DOMAIN s : s[k] = connective /\ same_level(s, i, k)

\* Read from left to right, s has the words one after the other: js is how many of
\* them may have been met by a place in s.
spells(s, words) ==
  LET following(j) == IF j < Len(words) THEN words[j + 1] ELSE Eof
      missing(js, i) ==
        {j + 1 : j \in {j \in js : following(j) \in {"AND", "OR"} /\ of_level(s, i, following(j))}}
      met(js, i) ==
        {j + 1 : j \in {j \in js :
           \/ following(j) = s[i]
           \/ s[i] = "OR" /\ following(j) = "AND" /\ of_level(s, i, "AND")}}
      passed(js, i) == IF is_layout(s, i) \/ is_lost(s, i) THEN js ELSE {}
      upto(js, i) == LET before_i == js \cup missing(js, i) IN met(before_i, i) \cup passed(before_i, i)
  IN  Len(words) \in FoldLeft(upto, {0}, [i \in DOMAIN s |-> i])

count(words, x) == Len(SelectSeq(words, LAMBDA y : y = x))

\* Nothing that stands in an accepted text is lost, moved or changed, but for its
\* layout and what is named above: superseded LIMITs and OFFSETs (windowed), a word in
\* front of a star (solid), three kinds of words that are forgotten (is_lost), and
\* connectives, which are those of their level (of_level).
Faithful ==
  verdict = "parsed" =>
    LET s == solid(text) IN
    \E names \in SUBSET may_be_names(s) : spells(windowed(s, names), words_of_query(parser.query))
=============================================================================
