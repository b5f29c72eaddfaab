------------------------------ MODULE FoskParser ------------------------------
(***************************************************************************)
(* The SQL parser: Query::parse with the parser of each clause.            *)
(*                                                                         *)
(* A text is a sequence of tokens: words (keywords included), numbers,     *)
(* strings, blanks and punctuation; no two words stand next to each other, *)
(* and a comparison operator is one token.  Keywords are words that are    *)
(* compared in place together with what must follow them, as WordComparer  *)
(* does, so a keyword that is not followed by a blank is a name.           *)
(*                                                                         *)
(* The QueryParser of a subquery works on the text in its parentheses:     *)
(* parsers is the stack of the parsers under way.  An action is one turn   *)
(* of the loop of a clause.  An operator that can fail returns a set: of   *)
(* its one result, or empty for a ParseError.                              *)
(***************************************************************************)
EXTENDS Integers, Sequences, SequencesExt

CONSTANTS
  Ints,         \* the tokens that are numbers
  Strings,      \* the tokens that are quoted strings
  Texts,        \* the texts clients pass
  None

\* A text is a sequence of tokens, none of which is the mark of its end.
Tokens == UNION {ToSet(t) : t \in Texts}

ASSUME TextsAssumption == Texts \subseteq Seq(Tokens)
ASSUME LiteralsAssumption == "end of text" \notin Ints \cup Strings

VARIABLES
  parsers,      \* the QueryParsers under way, the innermost last
  verdict,      \* "parsing", "parsed" or "refused"
  turn          \* flips at every turn of a loop, one that changes nothing else too

Eof == "end of text"
Delimiters == {" ", ",", "(", ")", ".", Eof}
Operators  == {"=", "<>", "!=", "<", "<=", ">", ">="}

is_word(t) == t \notin Delimiters \cup Operators \cup Strings \cup {"*", "?"}

\* The phases of a query; a clause is named by its phase.
Projection == 0   Collections == 1   Joins   == 2   Criteria       == 3
Aggregates == 4   Having      == 5   OrderBy == 6   LimitAndOffset == 7
Phase_EOF  == 8

NoClause == -1
-----------------------------------------------------------------------------
(* QueryParser and WordComparer.                                           *)

NoQuery == [projection |-> <<>>, collections |-> <<>>, joins |-> <<>>, criteria |-> None,
            group_by |-> <<>>, having |-> None, order_by |-> <<>>,
            limit |-> None, offset |-> None]

\* before counts the placeholders to the left of the text of a subquery.
NewParser(text, before) ==
  [text |-> text, before |-> before, position |-> 1, phase |-> Projection, query |-> NoQuery,
   clause |-> NoClause,      \* the clause whose loop is running
   can_consume |-> TRUE,     \* it expects an item
   join |-> <<>>,            \* the type and the collection of a join that is being read
   groups |-> <<>>]          \* the levels of parse_all under way

at(p, i) == [p EXCEPT !.position = i]
next(p)  == at(p, p.position + 1)

current(p) == IF p.position > Len(p.text) THEN Eof ELSE p.text[p.position]
eof(p)     == current(p) = Eof
is_any_delimiter(p) == current(p) \in Delimiters

next_non_whitespace(p) ==
  CHOOSE q \in {at(p, i) : i \in p.position..(Len(p.text) + 1)} :
    /\ current(q) # " "
    /\ \A i \in p.position..(q.position - 1) : p.text[i] = " "

\* The words of a keyword and what must follow them.
spaced(words)  == [words |-> words, post |-> {" "}]
Select         == spaced(<<"SELECT">>)
Distinct       == spaced(<<"DISTINCT">>)
As             == spaced(<<"AS">>)
From           == spaced(<<"FROM">>)
On             == spaced(<<"ON">>)
Where          == spaced(<<"WHERE">>)
GroupBy        == spaced(<<"GROUP", " ", "BY">>)
HavingWord     == spaced(<<"HAVING">>)
OrderByWords   == spaced(<<"ORDER", " ", "BY">>)
Limit          == spaced(<<"LIMIT">>)
Offset         == spaced(<<"OFFSET">>)
And            == spaced(<<"AND">>)
Or             == spaced(<<"OR">>)
Like           == spaced(<<"LIKE">>)
NotLike        == spaced(<<"NOT", " ", "LIKE">>)
Asc            == [words |-> <<"ASC">>, post |-> {" ", ",", Eof}]
Desc           == [words |-> <<"DESC">>, post |-> {" ", ",", Eof}]
IsNull         == [words |-> <<"IS", " ", "NULL">>, post |-> {" ", Eof}]
IsNotNull      == [words |-> <<"IS", " ", "NOT", " ", "NULL">>, post |-> {" ", Eof}]
In             == [words |-> <<"IN">>, post |-> {" ", "("}]
NotIn          == [words |-> <<"NOT", " ", "IN">>, post |-> {" ", "("}]

JoinType ==
  [Inner |-> {spaced(<<"JOIN">>), spaced(<<"INNER", " ", "JOIN">>)},
   Left  |-> {spaced(<<"LEFT", " ", "JOIN">>)},
   Right |-> {spaced(<<"RIGHT", " ", "JOIN">>)},
   Full  |-> {spaced(<<"FULL", " ", "JOIN">>)}]

Openers ==
  <<{From}, UNION {JoinType[t] : t \in DOMAIN JoinType}, {Where}, {GroupBy},
    {HavingWord}, {OrderByWords}, {Limit, Offset}>>

jump(p, comparer) == at(p, p.position + Len(comparer.words))

compare(p, comparer) ==
  LET after == jump(p, comparer) IN
  /\ after.position <= Len(p.text) + 1
  /\ SubSeq(p.text, p.position, after.position - 1) = comparer.words
  /\ current(after) \in comparer.post

\* (mutant: a phase can be entered again)
may_open_Again(p, phase) == phase >= p.phase

\* Phases only advance, except that a join may follow a join.
may_open(p, phase) == phase > p.phase \/ (phase = Joins /\ p.phase = Joins)

\* The phases check_next_phase would enter: at most one.
opened(p) ==
  UNION {IF eof(q) THEN {Phase_EOF}
         ELSE {ph \in DOMAIN Openers : may_open(p, ph) /\ \E c \in Openers[ph] : compare(q, c)}
         : q \in {next_non_whitespace(p)}}

opens(p) == opened(p) # {}

check_next_phase(p) ==
  LET q == next_non_whitespace(p) IN
  IF opens(p) THEN [q EXCEPT !.phase = CHOOSE ph \in opened(p) : TRUE] ELSE q

given(condition, result) == IF condition THEN {result} ELSE {}

\* A word up to a delimiter or a stopper; at one, the empty word.
TextCollector(p, stoppers) ==
  LET q == next_non_whitespace(p)
      stop(r) == is_any_delimiter(r) \/ current(r) \in stoppers
  IN  IF stop(q) THEN {[text |-> "", position |-> q.position]}
      ELSE given(is_word(current(q)) /\ stop(next(q)),
                 [text |-> current(q), position |-> q.position + 1])
-----------------------------------------------------------------------------
(* Scalar expressions.  A result is the expression and the position after  *)
(* it; where is how many placeholders stand in the text up to this one.    *)

Literal(ty, v)           == [node |-> "Literal", ty |-> ty, value |-> v]
Column(collection, name) == [node |-> "Column", collection |-> collection, name |-> name]
WildCard(collection)     == [node |-> "WildCard", collection |-> collection]
Parameter(where)         == [node |-> "Parameter", where |-> where]
Function(collection, name, args, distinct) ==
  [node |-> "Function", collection |-> collection, name |-> name, args |-> args,
   distinct |-> distinct]

where(p) == p.before + Len(SelectSeq(SubSeq(p.text, 1, p.position), LAMBDA t : t = "?"))

result(e, p) == [expr |-> e, position |-> p.position]

\* A list of arguments has arguments of its own: lists[i][can_consume] is what the
\* loop of ArgsExpr::parse makes of the text from position i on.
ArgsExpr(p, wild, lists) ==
  LET q == next(p)
      distinct == compare(q, Distinct)
      start == IF distinct THEN jump(q, Distinct) ELSE q
  IN  IF current(p) # "(" \/ (distinct /\ ~wild) THEN {}
      ELSE {[args |-> a.args, distinct |-> distinct, position |-> a.position]
            : a \in lists[start.position][TRUE]}

\* What a word is, by its next character; one in front of a star is dropped.
after_word(q, collection, word, wild, lists) ==
  CASE current(q) = "(" ->
         {result(Function(collection, word, a.args, a.distinct), at(q, a.position))
          : a \in {a \in ArgsExpr(q, wild, lists) : is_any_delimiter(at(q, a.position))}}
    [] current(q) = "*" ->
         given(wild /\ is_any_delimiter(next(q)), result(WildCard(collection), next(q)))
    [] current(q) \in Delimiters \ {".", "("} -> {result(Column(collection, word), q)}
    [] OTHER -> {}

\* A name that is missing after the dot is the collection's again.
parse_general_scalar(p, wild, lists) ==
  UNION {
    LET q == at(p, w.position)
        r == next(q)
    IN  IF current(q) # "." THEN after_word(q, None, w.text, wild, lists)
        ELSE IF is_any_delimiter(r) THEN {result(Column(w.text, w.text), r)}
        ELSE UNION {after_word(at(r, v.position), w.text, v.text, wild, lists)
                    : v \in TextCollector(r, {"*"})}
    : w \in TextCollector(p, {"*"})}

\* Each literal is one token, which a delimiter ends; a string ends itself.
ends_token(q)   == is_any_delimiter(next(q))
NumberParser(q) == given(ends_token(q), result(Literal("Int", current(q)), next(q)))
StringParser(q) == {result(Literal("String", current(q)), next(q))}
BoolParser(q)   == {result(Literal("Bool", current(q)), next(q))}
NullParser(q)   == {result(Literal("Null", current(q)), next(q))}
ParamParser(q)  == {result(Parameter(where(q)), next(q))}

ScalarExpr(p, wild, lists) ==
  LET q == next_non_whitespace(p)
      t == current(q)
  IN  CASE eof(q)         -> {}
        [] t \in Ints     -> NumberParser(q)
        [] t \in Strings  -> StringParser(q)
        [] t \in {"TRUE", "FALSE"} /\ ends_token(q) -> BoolParser(q)
        [] t = "NULL" /\ ends_token(q) -> NullParser(q)
        [] t = "?" /\ ends_token(q)    -> ParamParser(q)
        [] ~eof(q) /\ is_any_delimiter(q) -> {result(Column(None, ""), q)}
        [] OTHER -> parse_general_scalar(q, wild, lists)

\* A turn of the loop of ArgsExpr::parse at each position; a comma may be the last.
args_turn(p, wild, lists) ==
  [i \in 1..(Len(p.text) + 1) |-> [can_consume \in BOOLEAN |->
    LET q == next_non_whitespace(at(p, i)) IN
    CASE eof(q)            -> {}
      [] current(q) = ")"  -> {[args |-> <<>>, position |-> q.position + 1]}
      [] current(q) = ","  -> IF can_consume THEN {} ELSE lists[q.position + 1][TRUE]
      [] OTHER -> UNION {{[args |-> <<s.expr>> \o rest.args, position |-> rest.position]
                          : rest \in lists[s.position][FALSE]}
                         : s \in {s \in ScalarExpr(q, wild, lists) : can_consume}}]]

\* A turn ends the loop or uses up a token, so as many turns as tokens are enough.
args_lists(p, wild) ==
  LET after[turns \in Nat] ==
        IF turns = 0 THEN [i \in 1..(Len(p.text) + 1) |-> [can_consume \in BOOLEAN |-> {}]]
        ELSE args_turn(p, wild, after[turns - 1])
  IN  after[Len(p.text) + 1]

scalar(p, wild) == ScalarExpr(p, wild, args_lists(p, wild))
-----------------------------------------------------------------------------
(* Predicates.                                                             *)

Test(test, negated, operands) ==
  [node |-> "Test", test |-> test, negated |-> negated, operands |-> operands]

Junction(op, items) == [node |-> op, items |-> items]

ComparatorOps == {spaced(<<op>>) : op \in Operators}

\* parse_single: the test after the left operand.  NOT LIKE keeps no negation.
parse_single(p, wild) ==
  UNION {
    LET q == next_non_whitespace(at(p, l.position))
        one(test, negated, comparer) ==
          {[test |-> Test(test, negated, <<l.expr>>), position |-> jump(q, comparer).position]}
        two(test, comparer, star) ==
          {[test |-> Test(test, FALSE, <<l.expr, r.expr>>), position |-> r.position]
           : r \in scalar(jump(q, comparer), star)}
        list(negated, comparer) ==
          {[test |-> Test("IN", negated, <<l.expr>> \o a.args), position |-> a.position]
           : a \in ArgsExpr(next_non_whitespace(jump(q, comparer)), wild, args_lists(q, wild))}
    IN  CASE \E c \in ComparatorOps : compare(q, c) ->
               LET c == CHOOSE c \in ComparatorOps : compare(q, c)
               IN  two(c.words[1], c, FALSE)
          [] compare(q, IsNull)    -> one("IS NULL", FALSE, IsNull)
          [] compare(q, IsNotNull) -> one("IS NULL", TRUE, IsNotNull)
          [] compare(q, In)        -> list(FALSE, In)
          [] compare(q, NotIn)     -> list(TRUE, NotIn)
          [] compare(q, Like)      -> two("LIKE", Like, FALSE)
          [] compare(q, NotLike)   -> two("LIKE", NotLike, TRUE)
          [] OTHER -> {}
    : l \in scalar(p, wild)}

Level == [items |-> <<>>, and |-> FALSE, or |-> FALSE]

\* The wildcards COUNT(*) needs are allowed in HAVING only.
allow_wildcard(p) == p.clause = Having

\* A connective, or both, and a group may follow a test.
with_test(p, single) ==
  LET q == next_non_whitespace(at(p, single.position))
      r == IF compare(q, And) THEN next_non_whitespace(jump(q, And)) ELSE q
      s == IF compare(r, Or) THEN next_non_whitespace(jump(r, Or)) ELSE r
      level == [Last(p.groups) EXCEPT !.items = Append(@, single.test),
                                      !.and = @ \/ compare(q, And),
                                      !.or  = @ \/ compare(r, Or)]
      levels == Append(Front(p.groups), level)
  IN  IF current(s) = "(" THEN [next(s) EXCEPT !.groups = Append(levels, Level)]
      ELSE [s EXCEPT !.groups = levels]

\* (mutant: OR is looked at first)
predicate_of_OrFirst(level) ==
  LET n == Len(level.items) IN
  given(n > 0 /\ (level.and \/ level.or <=> n > 1),
        IF n = 1 THEN level.items[1]
        ELSE Junction(IF level.or THEN "Or" ELSE "And", level.items))

\* A level with several tests and any AND is an And of them all.
predicate_of(level) ==
  LET n == Len(level.items) IN
  given(n > 0 /\ (level.and \/ level.or <=> n > 1),
        IF n = 1 THEN level.items[1]
        ELSE Junction(IF level.and THEN "And" ELSE "Or", level.items))

\* A clause gives the parser back to Query::parse once the phase has moved on.
after_clause(p) == [p EXCEPT !.clause = IF p.phase = p.clause THEN @ ELSE NoClause]

\* A finished level is an item of the level around it, or the clause's predicate.
with_predicate(p, pred) ==
  LET q == [p EXCEPT !.groups = Front(@)]
      outer == Last(q.groups)
      join == [join_type |-> p.join[1], collection |-> p.join[2], predicate |-> pred]
  IN  IF Len(p.groups) > 1
      THEN [next(q) EXCEPT !.groups = Append(Front(@), [outer EXCEPT !.items = Append(@, pred)])]
      ELSE CASE p.clause = Joins ->
                  after_clause([q EXCEPT !.query.joins = Append(@, join), !.join = <<>>])
             [] p.clause = Criteria -> after_clause([q EXCEPT !.query.criteria = pred])
             [] p.clause = Having   -> after_clause([q EXCEPT !.query.having = pred])

level_ends(p) ==
  opens(p) \/ (Len(p.groups) > 1 /\ current(next_non_whitespace(p)) = ")")

parse_all(p) ==
  LET q == check_next_phase(p) IN
  IF level_ends(p)
  THEN {with_predicate(q, pred)
        : pred \in {x \in predicate_of(Last(p.groups)) :
                      Len(p.groups) > 1 => current(q) = ")"}}
  ELSE {with_test(q, single) : single \in parse_single(q, allow_wildcard(p))}
-----------------------------------------------------------------------------
(* The items of the clauses.                                               *)

\* After a blank only FROM or an alias may follow.
Identifier(p) ==
  UNION {
    LET q == at(p, s.position)
        r == next_non_whitespace(q)
        item(alias, i) ==
          [item |-> [expression |-> s.expr, alias |-> alias], position |-> i]
    IN  IF current(q) # " " \/ compare(r, From) THEN {item(None, r.position)}
        ELSE IF compare(r, As)
        THEN {item(w.text, w.position) : w \in TextCollector(jump(r, As), {})}
        ELSE {}
    : s \in scalar(p, TRUE)}

\* (mutant: ON does not end a collection)
collection_ends_NotOn(p) == current(p) = "," \/ opens(p)

\* What may follow a collection.
collection_ends(p) == current(p) = "," \/ opens(p) \/ compare(next_non_whitespace(p), On)

\* (mutant: a clause that follows the collection of a join ends the join)
with_collection_LeavesJoin(p, collection) ==
  LET q == check_next_phase(p) IN
  IF p.clause = Joins THEN after_clause([q EXCEPT !.join = Append(@, collection)])
  ELSE after_clause([q EXCEPT !.query.collections = Append(@, collection), !.can_consume = FALSE])

\* The result of a collection goes to the clause that asked for it.
with_collection(p, collection) ==
  LET q == check_next_phase(p) IN
  IF p.clause = Joins THEN [q EXCEPT !.join = Append(@, collection)]
  ELSE after_clause([q EXCEPT !.query.collections = Append(@, collection), !.can_consume = FALSE])

skip_as(p) ==
  LET q == next_non_whitespace(p) IN
  next_non_whitespace(IF compare(q, As) THEN jump(q, As) ELSE q)

Table(name, alias)    == [node |-> "Table", name |-> name, alias |-> alias]
Subquery(query, alias) == [node |-> "Query", query |-> query, alias |-> alias]

Collection(p) ==
  UNION {
    LET q == next_non_whitespace(at(p, n.position)) IN
    IF collection_ends(q) THEN {with_collection(q, Table(n.text, None))}
    ELSE {with_collection(at(q, w.position), Table(n.text, w.text))
          : w \in {w \in TextCollector(skip_as(q), {}) :
                     collection_ends(next_non_whitespace(at(q, w.position)))}}
    : n \in TextCollector(p, {"."})}

\* parse_query after the subquery has been parsed; the alias is required.
named(p, query) ==
  LET q == skip_as(p) IN
  IF collection_ends(q) THEN {}
  ELSE {with_collection(at(q, w.position), Subquery(query, w.text))
        : w \in {w \in TextCollector(q, {}) :
                   collection_ends(next_non_whitespace(at(q, w.position)))}}

\* The positions that balance the parenthesis at p.
closing(p) ==
  {i \in p.position..Len(p.text) :
     LET part == SubSeq(p.text, p.position, i)
         count(t) == Len(SelectSeq(part, LAMBDA x : x = t))
     IN  count("(") = count(")")}

trim(text) ==
  LET solid == {i \in DOMAIN text : text[i] # " "} IN
  IF solid = {} THEN <<>>
  ELSE SubSeq(text, CHOOSE i \in solid : \A j \in solid : i <= j,
                    CHOOSE i \in solid : \A j \in solid : i >= j)

\* A new parser for the text in the parentheses; this one goes on behind them.
subquery(p) ==
  {<<at(p, i + 1), NewParser(trim(SubSeq(p.text, p.position + 1, i - 1)), where(p))>>
   : i \in {i \in closing(p) : \A j \in closing(p) : i <= j}}
-----------------------------------------------------------------------------
(* The parsers under way.                                                  *)

vars == <<parsers, verdict, turn>>

parser == Last(parsers)

replaces(stack) == parsers' = stack /\ turn' = ~turn /\ UNCHANGED verdict

goes_on(p) == replaces(Append(Front(parsers), p))

gives(outcome) == verdict' = outcome /\ turn' = ~turn /\ UNCHANGED parsers

\* Any ParseError, of a subquery too, is the result of the whole text.
refuse == gives("refused")

\* The step has a result or refuses the text.
yields(results) == (\E p \in results : goes_on(p)) \/ (results = {} /\ refuse)

\* The loop of a clause, outside of a join's or a predicate's parts.
in_loop(clause) ==
  /\ verdict = "parsing"
  /\ parser.clause = clause
  /\ parser.join = <<>>
  /\ parser.groups = <<>>

Init ==
  /\ \E text \in Texts : parsers = <<NewParser(text, 0)>>
  /\ verdict = "parsing"
  /\ turn = FALSE

\* Query::parse gives the parser to the clause of its phase; the clause starts
\* with its keyword.
started(p, clause, comparers) ==
  {[jump(p, c) EXCEPT !.clause = clause, !.can_consume = TRUE]
   : c \in {c \in comparers : compare(p, c)}}

StartClause ==
  LET p == next_non_whitespace(parser) IN
  /\ in_loop(NoClause)
  /\ \/ p.phase = Projection /\ yields(started(p, Projection, {Select}))
     \/ p.phase \in {Joins, LimitAndOffset} /\ goes_on([p EXCEPT !.clause = p.phase])
     \/ p.phase \in {Collections, Aggregates, OrderBy}
        /\ yields(started(p, p.phase, Openers[p.phase]))
     \/ p.phase \in {Criteria, Having}
        /\ yields({[q EXCEPT !.groups = <<Level>>] : q \in started(p, p.phase, Openers[p.phase])})

\* A comma between items.
comma(p) ==
  given(current(p) = "," /\ ~p.can_consume, [next(p) EXCEPT !.can_consume = TRUE])

ProjectionTurn ==
  LET p == next_non_whitespace(parser) IN
  /\ in_loop(Projection)
  /\ \/ current(p) = "," /\ yields(comma(p))
     \/ opens(p) /\ yields(given(~p.can_consume /\ ~eof(p), after_clause(check_next_phase(p))))
     \/ current(p) # "," /\ ~opens(p)
        /\ yields({[at(p, i.position) EXCEPT !.query.projection = Append(@, i.item),
                                            !.can_consume = FALSE]
                   : i \in {i \in Identifier(p) : p.can_consume}})

\* (mutant: the comma is looked at and not taken)
after_comma_Stays(p) == IF current(p) = "," THEN [p EXCEPT !.can_consume = TRUE] ELSE p

\* A second comma at once is refused by the clauses' loops only if they still
\* expect an item.
after_comma(p) == IF current(p) = "," THEN [next(p) EXCEPT !.can_consume = TRUE] ELSE p

too_many_commas == current(parser) = "," /\ parser.can_consume

\* A collection that ON follows keeps the loop where it is.
CollectionsTurn ==
  LET p == after_comma(parser) IN
  /\ in_loop(Collections)
  /\ \/ too_many_commas /\ refuse
     \/ /\ ~too_many_commas
        /\ \/ current(p) = " " /\ goes_on(next_non_whitespace(p))
           \/ current(p) \notin {" ", "("} /\ p.can_consume /\ yields(Collection(p))
           \/ current(p) # " " /\ ~p.can_consume /\ goes_on(p)

\* JOIN and the kind of join, up to its collection.
JoinTurn ==
  LET joined(p, type, comparer) ==
        [next_non_whitespace(jump(p, comparer)) EXCEPT !.join = <<type>>]
  IN  /\ in_loop(Joins)
      /\ \E type \in DOMAIN JoinType : \E c \in JoinType[type] :
           compare(parser, c) /\ goes_on(joined(parser, type, c))

\* So many parts of a join have been read.
reads_join(p, parts) == p.clause = Joins /\ Len(p.join) = parts /\ p.groups = <<>>

JoinCollection ==
  /\ verdict = "parsing"
  /\ reads_join(parser, 1)
  /\ current(parser) # "("
  /\ yields(Collection(parser))

JoinOn ==
  /\ verdict = "parsing"
  /\ reads_join(parser, 2)
  /\ yields(given(compare(parser, On), [jump(parser, On) EXCEPT !.groups = <<Level>>]))

\* FROM ( and JOIN (: the text of the subquery gets a parser of its own.
BeginSubquery ==
  LET p == after_comma(parser) IN
  /\ verdict = "parsing"
  /\ current(p) = "("
  /\ \/ in_loop(Collections) /\ p.can_consume /\ ~too_many_commas
     \/ reads_join(parser, 1) /\ p = parser
  /\ \/ subquery(p) = {} /\ refuse
     \/ \E pair \in subquery(p) :
          replaces(Front(parsers) \o pair)

PredicateTurn ==
  /\ verdict = "parsing"
  /\ parser.groups # <<>>
  /\ yields(parse_all(parser))

GroupByTurn ==
  LET p == next_non_whitespace(parser)
      q == after_comma(p)
  IN  /\ in_loop(Aggregates)
      /\ \/ opens(p) /\ goes_on(after_clause(check_next_phase(p)))
         \/ ~opens(p) /\ yields({[at(q, s.position) EXCEPT !.query.group_by = Append(@, s.expr),
                                                          !.can_consume = FALSE]
                                 : s \in {s \in scalar(q, FALSE) :
                                            /\ q.can_consume /\ ~(current(p) = "," /\ p.can_consume)
                                            /\ s.expr.node = "Column"}})

\* OrderBy::parse_single: the key, ASC or DESC.
sort_key(p) ==
  UNION {
    LET q == next_non_whitespace(at(p, s.position))
        key(r, ascending) ==
          {[item |-> [expr |-> s.expr, ascending |-> ascending], parser |-> r]}
    IN  CASE current(q) = "," \/ opens(q) -> key(IF current(q) = "," THEN q
                                                 ELSE check_next_phase(q), TRUE)
          [] compare(q, Asc)  -> key(check_next_phase(jump(q, Asc)), TRUE)
          [] compare(q, Desc) -> key(check_next_phase(jump(q, Desc)), FALSE)
          [] OTHER -> {}
    : s \in scalar(p, FALSE)}

OrderByTurn ==
  LET p == after_comma(parser) IN
  /\ in_loop(OrderBy)
  /\ yields({after_clause([k.parser EXCEPT !.query.order_by = Append(@, k.item),
                                           !.can_consume = FALSE])
             : k \in {k \in sort_key(p) : p.can_consume /\ ~too_many_commas}})

\* LIMIT and OFFSET in any order; the last of each counts.
LimitTurn ==
  LET p == next_non_whitespace(parser)
      int(comparer) ==
        {s \in scalar(jump(p, comparer), FALSE) :
           compare(p, comparer) /\ s.expr.node = "Literal" /\ s.expr.ty = "Int"}
  IN  /\ in_loop(LimitAndOffset)
      /\ \/ opens(p) /\ goes_on(after_clause(check_next_phase(p)))
         \/ ~opens(p) /\ yields(
              {[at(p, s.position) EXCEPT !.query.limit = s.expr] : s \in int(Limit)}
              \cup {[at(p, s.position) EXCEPT !.query.offset = s.expr] : s \in int(Offset)})

\* The text of a subquery is used up.
EndSubquery ==
  /\ in_loop(NoClause)
  /\ parser.phase = Phase_EOF
  /\ Len(parsers) > 1
  /\ LET outer == Last(Front(parsers))
         results == named(outer, parser.query)
     IN  \/ \E p \in results : replaces(Append(Front(Front(parsers)), p))
         \/ results = {} /\ refuse

Finish ==
  /\ in_loop(NoClause)
  /\ parser.phase = Phase_EOF
  /\ Len(parsers) = 1
  /\ gives("parsed")

Done == verdict # "parsing" /\ UNCHANGED vars

Next ==
  \/ StartClause
  \/ ProjectionTurn \/ CollectionsTurn \/ JoinTurn \/ JoinCollection \/ JoinOn
  \/ PredicateTurn \/ GroupByTurn \/ OrderByTurn \/ LimitTurn
  \/ BeginSubquery \/ EndSubquery \/ Finish \/ Done

\* One thread runs the parser and nothing holds it up: while it parses it takes a
\* turn.  (Every action flips turn, and TLC confirms that one is always enabled.)
Spec == Init /\ [][Next]_vars /\ WF_turn(verdict = "parsing" /\ turn' = ~turn)
-----------------------------------------------------------------------------
(* Properties.                                                             *)

TypeOK ==
  /\ verdict \in {"parsing", "parsed", "refused"} /\ turn \in BOOLEAN
  /\ parsers # <<>>
  /\ \A i \in DOMAIN parsers : LET p == parsers[i] IN
       /\ p.text \in Seq(Tokens)
       /\ p.position \in 1..(Len(p.text) + 1)
       /\ p.phase \in Projection..Phase_EOF
       /\ p.clause \in {NoClause} \cup Projection..LimitAndOffset
       /\ p.groups # <<>> => p.clause \in {Joins, Criteria, Having}
       /\ p.join # <<>> => p.clause = Joins
       /\ i < Len(parsers) => p.clause \in {Collections, Joins}

text == Head(parsers).text

\* The loop of the collections in front of a word it neither takes nor refuses.
Stuck == in_loop(Collections) /\ ~parser.can_consume /\ compare(parser, On)

\* What is left to do: the text that is left, the phase the query is in, and what has
\* begun in its clause.  A token counts for more than all the rest.
flag(condition, weight) == IF condition THEN weight ELSE 0

begun(p) ==
  flag(p.groups # <<>>, 8) + flag(p.clause = NoClause, 4) + flag(p.can_consume, 2)
  + flag(Len(p.join) = 1, 1)

to_do(p) == 160 * (Len(p.text) + 1 - p.position) + 16 * (Phase_EOF - p.phase) + begun(p)

work_of(stack) == FoldLeft(LAMBDA sum, p : sum + to_do(p), 0, stack)

work == work_of(parsers)

\* Every turn of every loop, and every start and end of a subquery, leaves less to
\* do, unless ON follows a collection of FROM.
TurnsAdvance == [][verdict' = "parsing" => work' < work \/ Stuck]_vars

\* Every text is parsed or refused, unless ON follows a collection of FROM: there
\* Query::parse never returns.
Returns == <>(verdict # "parsing" \/ Stuck)
-----------------------------------------------------------------------------
(* The inductive invariant.                                                *)

\* The clause of a phase has started, and what it has begun is of its own.
InClause(p) ==
  /\ p.clause \notin {NoClause, Joins} => p.phase = p.clause
  /\ p.clause = Joins => p.phase >= Joins
  /\ p.groups # <<>> => p.clause \in {Joins, Criteria, Having}
  /\ p.join # <<>> => p.clause = Joins
  /\ Len(p.join) <= 2

\* It waits for the collection whose subquery the next parser reads.
Waiting(p) ==
  /\ p.groups = <<>>
  /\ \/ p.clause = Collections /\ p.can_consume
     \/ p.clause = Joins /\ Len(p.join) = 1

\* In FROM, a collection has been read up to a comma or an ON.
AtEnd(p) ==
  p.clause = Collections /\ ~p.can_consume =>
    current(p) = "," \/ compare(next_non_whitespace(p), On)

IInv ==
  /\ TypeOK
  /\ \A i \in DOMAIN parsers :
       /\ InClause(parsers[i])
       /\ AtEnd(parsers[i])
       /\ i < Len(parsers) => Waiting(parsers[i])
=============================================================================
