------------------------------ MODULE MCFrontEnd ------------------------------
(* Two collections: t has the columns a and b, u has b and c.              *)
EXTENDS FoskFrontEnd

column(name, ty, nullable) == [name |-> name, ty |-> ty, nullable |-> nullable]

MCSchemas ==
  [t |-> <<column("a", "Int", FALSE), column("b", "String", TRUE)>>,
   u |-> <<column("b", "String", FALSE), column("c", "Int", TRUE)>>]

MCNumber == [x \in {"1", "2"} |-> IF x = "1" THEN 1 ELSE 2]

MCLower ==
  ("N" :> "n") @@ ("COUNT" :> "count") @@ ("SUM" :> "sum") @@ ("MIN" :> "min")
  @@ ("AVG" :> "avg") @@ ("UPPER" :> "upper") @@ ("LENGTH" :> "length")
  @@ ("COALESCE" :> "coalesce")

\* No pattern below has a wildcard.
MCMatches(string, pattern) == string = pattern

\* The strings below are one capital letter, trimmed.
MCScalar(name, string) ==
  IF name = "length" THEN Analyzer!Literal("Int", "1") ELSE Analyzer!Literal("String", string)

value(ty, v) == [ty |-> ty, value |-> v]
list(items)  == [ty |-> "Array", items |-> items]

MCParameters ==
  {value("Int", "1"), [ty |-> "Object"], list(<<>>),
   list(<<list(<<value("Int", "1"), value("Null", "NULL")>>)>>),
   list(<<value("Int", "1"), value("String", "'X'"), value("Int", "2"), value("Null", "NULL")>>)}
-----------------------------------------------------------------------------
(* Texts.  The tokens are laid out with blanks between them, none around   *)
(* a dot, inside parentheses, or after the name of a function.             *)

laid_out(tokens) ==
  LET close(x, y) == \/ y \in {",", ")", "."} \/ x \in {"(", "."}
                     \/ y = "(" /\ x \notin {"FROM", "JOIN", "IN", "AND", "OR", "WHERE", ",", "="}
  IN  FlattenSeq([i \in DOMAIN tokens |->
        IF i = Len(tokens) \/ close(tokens[i], tokens[i + 1]) THEN <<tokens[i]>>
        ELSE <<tokens[i], " ">>])

Froms ==
  {<<"FROM", "t">>,
   <<"FROM", "t", ",", "u", "AS", "w">>,
   <<"FROM", "(", "SELECT", "*", "FROM", "t", "WHERE", "a", "=", "?", ")", "AS", "t">>}

JoinParts ==
  {<<>>,
   <<"JOIN", "u", "ON", "t", ".", "b", "=", "u", ".", "b">>,
   <<"LEFT", "JOIN", "u", "AS", "v", "ON", "v", ".", "c", "=", "?", "AND",
     "(", "v", ".", "c", "IS", "NOT", "NULL", "OR", "t", ".", "a", "=", "1", ")">>}

Wheres ==
  {<<>>,
   <<"WHERE", "a", "IN", "(", "1", ",", "?", ")">>,
   <<"WHERE", "t", ".", "b", "LIKE", "'X'", "OR", "a", "IS", "NULL">>}

Plain ==
  {<<"SELECT", "a">>, <<"SELECT", "*">>, <<"SELECT", "t", ".", "*", ",", "'X'">>,
   <<"SELECT", "a", "AS", "n", ",", "?">>,
   <<"SELECT", "UPPER", "(", "t", ".", "b", ")", "AS", "n">>}

PlainTails ==
  {<<>>, <<"ORDER", "BY", "a", "DESC", ",", "t", ".", "b", "LIMIT", "1">>, <<"OFFSET", "1">>}

Counted == <<"SELECT", "COUNT", "(", "*", ")", "AS", "n">>
Grouped == <<"SELECT", "t", ".", "a", ",", "COUNT", "(", "DISTINCT", "t", ".", "b", ")", "AS", "n">>
ByA     == <<"GROUP", "BY", "t", ".", "a">>

Aggregated ==
  {<<Counted, <<>>>>, <<Counted, <<"HAVING", "COUNT", "(", "*", ")", ">", "1">>>>,
   <<Grouped, ByA>>, <<Grouped, ByA \o <<"ORDER", "BY", "n", "DESC">>>>,
   <<Grouped, ByA \o <<"HAVING", "COUNT", "(", "*", ")", ">", "?", "ORDER", "BY", "a", "LIMIT", "1">>>>}

\* Three long texts, which between them have every clause.
Base ==
  {laid_out(s) : s \in {
    <<"SELECT", "a", ",", "LENGTH", "(", "t", ".", "b", ")", "AS", "n", "FROM", "t", "INNER", "JOIN",
      "(", "SELECT", "*", "FROM", "u", ")", "AS", "s", "ON", "t", ".", "a", "=", "s", ".", "c", "AND",
      "(", "t", ".", "b", "=", "?", "OR", "s", ".", "b", "IN", "(", "1", ",", "?", ")", ")", "WHERE", "a", "=", "?">>,
    <<"SELECT", "a", ",", "COUNT", "(", "*", ")", "AS", "n", "FROM", "t", "x", ",", "u", "AS", "w",
      "WHERE", "a", "IS", "NOT", "NULL", "OR", "c", "IS", "NULL", "GROUP", "BY", "a", ",", "x", ".", "b",
      "HAVING", "COUNT", "(", "DISTINCT", "a", ")", "<>", "1", "AND", "a", "IN", "(", "1", ",", "2", ")",
      "ORDER", "BY", "n", "DESC", ",", "a", "ASC", "LIMIT", "1", "OFFSET", "2">>,
    <<"SELECT", "t", ".", "*", ",", "'X'", "FROM", "(", "SELECT", "b", "FROM", "u", "WHERE", "b", "LIKE", "?", ")", "s",
      "FULL", "JOIN", "u", "y", "ON", "s", ".", "b", "=", "y", ".", "b", "RIGHT", "JOIN", "t", "ON", "a", "=", "c",
      "WHERE", "a", "NOT", "IN", "(", "1", ")", "OR", "t", ".", "b", "NOT", "LIKE", "'X'", "OFFSET", "1", "LIMIT", "2">>}}

MCWellFormed ==
  {laid_out(s \o f \o j \o w \o e) :
     s \in Plain, f \in Froms, j \in JoinParts, w \in Wheres, e \in PlainTails}
  \cup {laid_out(s[1] \o f \o j \o w \o s[2]) :
          s \in Aggregated, f \in Froms, j \in JoinParts, w \in Wheres}
  \cup Base

\* Texts that test the rules of the analyzer; some are refused.
Odd ==
  {laid_out(s) : s \in {
    \* a subquery called like a collection
    <<"SELECT", "x", ".", "n", "FROM", "u", "x", ",",
      "(", "SELECT", "COUNT", "(", "*", ")", "AS", "n", "FROM", "t", ")", "u">>,
    <<"SELECT", "a", "FROM", "t", "ORDER", "BY", "t", ".", "c">>,
    <<"SELECT", "b", "FROM", "t", "ORDER", "BY", "c">>,
    <<"SELECT", "a", "AS", "n", "FROM", "t", "ORDER", "BY", "N">>,
    <<"SELECT", "COUNT", "(", "*", ")", "AS", "n", "FROM", "t", "ORDER", "BY", "N">>,
    <<"SELECT", "2", ",", "COUNT", "(", "*", ")", "FROM", "t", "ORDER", "BY", "1">>,
    <<"SELECT", "a", ",", "a", ",", "t", ".", "a", ",", "COUNT", "(", "*", ")", ",",
      "COUNT", "(", "b", ")", ",", "COUNT", "(", "*", ")", "FROM", "t", "GROUP", "BY", "a">>,
    <<"SELECT", "a", "FROM", "(", "SELECT", "a", ",", "a", "FROM", "t", "ORDER", "BY", "2", ")", "s">>,
    <<"SELECT", "b", "FROM", "t", ",", "u">>,
    <<"SELECT", "a", "FROM", "zz">>,
    <<"SELECT", "1", "AS", "b", "WHERE", "1", "=", "1">>,
    <<"SELECT", "a", "FROM", "t", "FROM", "u">>,
    <<"SELECT", "a", "FROM", "t", "ON", "a", "=", "1">>,
    <<"SELECT", "a", "FROM", "t", "JOIN", "u", "WHERE", "a", "=", "1">>,
    \* words that are taken twice or forgotten
    <<"SELECT", "a", "FROM", "t", "WHERE", "a", "=", "1", "OR", "a", "=", "2", "AND", "b", "=", "'X'">>,
    <<"SELECT", "a", "FROM", "t", "WHERE", "a", "=", "1", "AND", "OR", "a", "=", "2", "(", "b", "=", "'X'", ")", "c", "=", "1">>,
    <<"SELECT", "a", "FROM", "t", "WHERE", "a", "=", "1", "OR", "a", "=", "2", "OR", "ORDER", "BY", "UPPER", "(", "b", ")", "ASC">>,
    <<"SELECT", "a", "FROM", "t", "WHERE", "a", "=", "AND", "OR", "OR", "=", "1", "AND", "(", "b", "LIKE", "'X'", ")">>,
    <<"SELECT", "a", "FROM", "t", "LIMIT", "1", "LIMIT", "2">>,
    <<"SELECT", "a", "FROM", "t", "OFFSET", "1", "LIMIT", "2", "OFFSET", "2", "LIMIT", "1", "OFFSET", "1">>,
    <<"SELECT", "a", "FROM", "(", "SELECT", "a", "FROM", "t", "OFFSET", "2", "LIMIT", "1", ")", "s", "ORDER", "BY", "s", ".", "a", "OFFSET", "1">>,
    <<"SELECT", "a", "AS", ",", "b", "FROM", "t", "AS", ",", "u", "GROUP", "BY", "LIMIT", "1">>,
    <<"SELECT", "a", "FROM", "t", "GROUP", "BY", "a", "HAVING", "COUNT", "(", "*", ")", "IN", "(", "DISTINCT", "1", ",", "2", ")">>,
    \* aggregates
    <<"SELECT", "1", "FROM", "t", "HAVING", "COUNT", "(", "*", ")", ">", "1">>,
    <<"SELECT", "1", "FROM", "t", "HAVING", "COUNT", "(", "*", ")", ">", "1", "AND", "1", "=", "2">>,
    <<"SELECT", "1", "FROM", "t", "HAVING", "COALESCE", "(", "1", ",", "2", ")", "=", "1", "AND",
      "(", "COUNT", "(", "*", ")", ">", "1", "OR", "1", "=", "1", ")">>,
    <<"SELECT", "s", ".", "n", "FROM", "(", "SELECT", "1", "AS", "n", "FROM", "t",
      "HAVING", "COUNT", "(", "*", ")", ">", "1", "AND", "COUNT", "(", "a", ")", ">", "1", ")", "s">>,
    <<"SELECT", "1", "FROM", "t", "HAVING", "1", "=", "2">>,
    <<"SELECT", "a", "FROM", "t", "ORDER", "BY", "COUNT", "(", "a", ")">>,
    <<"SELECT", "a", "FROM", "t", "ORDER", "BY", "UPPER", "(", "SUM", "(", "t", ".", "c", ")", ")", "DESC">>,
    <<"SELECT", "COUNT", "(", "*", ")", "FROM", "t", "HAVING", "COUNT", "(", "*", ")", "IN", "(", "?", ")">>,
    <<"SELECT", "a", ",", "b", "FROM", "t", "GROUP", "BY", "a">>,
    <<"SELECT", "SUM", "(", "COUNT", "(", "a", ")", ")", "FROM", "t">>,
    <<"SELECT", "SUM", "(", "b", ")", "FROM", "t">>,
    <<"SELECT", "a", "FROM", "t", "WHERE", "COUNT", "(", "a", ")", "=", "1">>,
    <<"SELECT", "a", "FROM", "t", "JOIN", "u", "ON", "SUM", "(", "a", ")", "=", "1">>,
    <<"SELECT", "COALESCE", "(", "MIN", "(", "a", ")", ",", "1", ")", "FROM", "t",
      "GROUP", "BY", "b", "ORDER", "BY", "MIN", "(", "a", ")", ",", "AVG", "(", "a", ")", "DESC">>,
    \* parameters and constants
    <<"SELECT", "?", ",", "a", "FROM", "t", "WHERE", "a", "=", "?", "GROUP", "BY", "a",
      "HAVING", "MIN", "(", "b", ")", "=", "?">>,
    <<"SELECT", "?", "FROM", "t", "JOIN", "u", "ON", "c", "=", "?">>,
    <<"SELECT", "a", "FROM", "t", "WHERE", "b", "NOT", "LIKE", "'X'", "AND", "UPPER", "(", "'X'", ")", "=", "'X'">>,
    <<"SELECT", "COALESCE", "(", "c", ",", "LENGTH", "(", "'X'", ")", ")", "FROM", "u", "ORDER", "BY", "COALESCE", "(", "c", ",", "1", ")">>,
    <<"SELECT", "a", "FROM", "t", "WHERE", "?", "IS", "NULL", "OR", "a", "NOT", "IN", "(", "?", ")">>}}
  \* a word in front of a star, and a name that is missing after its dot
  \cup {<<"SELECT", " ", "a", "*", " ", "FROM", " ", "t">>,
        <<"SELECT", " ", "t", ".", "a", "*", " ", "FROM", " ", "t">>,
        <<"SELECT", " ", "a", ".", " ", "FROM", " ", "t", " ", "a">>}

-----------------------------------------------------------------------------
(* The long texts with one token left out, doubled or replaced.  No two    *)
(* words stand next to each other in a text, and no number next to a dot.  *)

Scannable(t) ==
  \A i \in 1..(Len(t) - 1) :
    /\ {t[i], t[i + 1]} \cap Delimiters # {}
    /\ "." \in {t[i], t[i + 1]} => {t[i], t[i + 1]} \cap {"1", "2"} = {}

without(t, i) == SubSeq(t, 1, i - 1) \o SubSeq(t, i + 1, Len(t))
twice(t, i)   == SubSeq(t, 1, i) \o SubSeq(t, i, Len(t))
other(t, i)   == [t EXCEPT ![i] = CASE @ = "AND" -> "OR" [] @ = "OR" -> "AND" [] OTHER -> @]

Broken ==
  UNION {{x \in UNION {{without(t, i), twice(t, i), other(t, i)}
                       \cup {[t EXCEPT ![i] = x] : x \in {",", "(", ")", "."}}
                       : i \in DOMAIN t} : Scannable(x)} : t \in Base}

MCTexts == MCWellFormed \cup Odd \cup Broken
=============================================================================
