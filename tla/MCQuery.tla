------------------------------ MODULE MCQuery ------------------------------
(* Small instances of FoskQuery.                                              *)
EXTENDS FoskQuery

Whole(n) == [ty |-> "int", v |-> n]
Float(n) == [ty |-> "float", v |-> n]
Text(n)  == [ty |-> "text", v |-> n]

Doc(i, k, n) ==
  [f \in {"id"} \cup {f \in {"k"} : k # Null} \cup {"n"} |->
     CASE f = "id" -> Whole(i) [] f = "k" -> k [] f = "n" -> n]

A1 == Doc(1, Whole(1), Whole(6))
A2 == Doc(2, Whole(2), Whole(5))
A3 == Doc(3, Whole(1), Null)
A4 == Doc(4, Null, Float(2))
B1 == Doc(1, Whole(1), Text(1))
B2 == Doc(2, Whole(1), Whole(3))
B3 == Doc(3, Whole(3), Null)

MCDocs == {A1, A2, A3, A4, B1, B2, B3}

Table(a, b) == [c \in {"a", "b"} |-> IF c = "a" THEN a ELSE b]
MCTables ==
  {Table({A1, A2, A3}, {B1, B3}), Table({A2, A3, A4}, {B1}), Table({A1, A4}, {B2, B3}),
   Table({A1, A2}, {}), Table({}, {B1, B3})}

AC(f) == <<"a", f>>
BC(f) == <<"b", f>>
OC(f) == <<"o", f>>

Count == <<"call", "count", 0>>
Sum   == <<"call", "sum", 0>>
Max1  == <<"call", "max", 0>>
Avg   == <<"call", "avg", 0>>

\* The predicates of the queries.
MCReads(p) ==
  CASE p = "a.k = b.k" -> {AC("k"), BC("k")}
    [] p = "a.id = o.k" -> {AC("id"), OC("k")}
    [] p = "b.id is null" -> {BC("id")}
    [] p = "count > 1" -> {Count}
    [] OTHER -> {}

MCHolds(p, r) ==
  CASE p = "always" -> TRUE
    [] p = "never" -> FALSE
    [] p = "a.k = b.k" -> r[AC("k")] # Null /\ r[AC("k")] = r[BC("k")]
    [] p = "a.id = o.k" -> r[AC("id")] # Null /\ r[AC("id")] = r[OC("k")]
    [] p = "b.id is null" -> r[BC("id")] = Null
    [] p = "count > 1" -> r[Count].v > 1

From(c, v, j, on) == [coll |-> c, visible |-> v, join |-> j, on |-> on]
A == From("a", "a", "inner", "always")
B(j) == From("b", "b", j, "a.k = b.k")

Call(f, arg) == [func |-> f, arg |-> arg, star |-> FALSE, distinct |-> FALSE]
Star == [func |-> "count", arg |-> <<>>, star |-> TRUE, distinct |-> FALSE]
Distinct(f, arg) == [Call(f, arg) EXCEPT !.distinct = TRUE]
By(c, up) == [expr |-> c, ascending |-> up]

Select(from, cols) ==
  [from |-> from, select |-> cols, where |-> NoPredicate, group |-> <<>>, calls |-> <<>>,
   having |-> NoPredicate, order |-> <<>>, limit |-> <<>>, offset |-> <<>>]

Ids == {AC("id"), BC("id")}
\* Joins of two sources, of a collection with itself and of three sources.
JoinQueries ==
  {[Select(<<A, B(j)>>, Ids) EXCEPT !.where = w] : j \in Joins, w \in {NoPredicate, "b.id is null"}}
  \cup {Select(<<A, From("b", "b", "inner", "always")>>, Ids),
        Select(<<A, From("a", "o", "left", "a.id = o.k")>>, {AC("id"), OC("n")}),
        Select(<<A, B("left"), From("a", "o", "full", "a.id = o.k")>>, Ids \cup {OC("id")})}

\* Totals of a table, and of a table of which WHERE leaves nothing.
TotalQueries ==
  {[Select(<<A>>, {Count, Sum, <<"call", "count", 1>>, Avg})
      EXCEPT !.where = w,
             !.calls = <<Star, Call("sum", AC("n")), Distinct("count", AC("k")), Call("avg", AC("k"))>>] :
     w \in {NoPredicate, "never"}}
  \cup {[Select(<<From("b", "b", "inner", "always")>>, {<<"call", "min", 0>>, Avg})
           EXCEPT !.calls = <<Call("min", BC("n")), Call("avg", BC("k"))>>]}

\* Groups, of NULL too, filtered, sorted and cut.
GroupQueries ==
  {[Select(<<A>>, {AC("k"), Count, Max1})
      EXCEPT !.group = <<AC("k")>>,
             !.calls = <<Star, Call("max", AC("n"))>>,
             !.having = h, !.order = o, !.limit = l] :
     h \in {NoPredicate, "count > 1"},
     o \in {<<>>, <<By(Count, FALSE), By(AC("k"), TRUE)>>},
     l \in {<<>>, <<1>>}}
  \cup {[Select(<<A, B("left")>>, {BC("id"), Sum})
           EXCEPT !.group = <<BC("id")>>, !.calls = <<Call("sum", AC("k"))>>, !.order = <<By(BC("id"), FALSE)>>],
        [Select(<<A>>, {AC("k"), Avg})
           EXCEPT !.group = <<AC("k")>>, !.calls = <<Call("avg", AC("n"))>>, !.order = <<By(Avg, TRUE)>>]}

\* Windows of sorted and of unsorted rows, with bounds below zero and past the end.
WindowQueries ==
  {[Select(<<A>>, {AC("id"), AC("n")}) EXCEPT !.order = o, !.limit = w[1], !.offset = w[2]] :
     o \in {<<>>, <<By(AC("n"), TRUE)>>, <<By(AC("k"), FALSE), By(AC("n"), FALSE)>>},
     w \in {<<<<1>>, <<1>>>>, <<<<2>>, <<>>>>, <<<<>>, <<2>>>>, <<<<-1>>, <<>>>>, <<<<5>>, <<-1>>>>, <<<<1>>, <<4>>>>}}

\* A constant, with a HAVING of which folding has left no aggregate.
DroppedQueries == {[Select(<<A>>, {}) EXCEPT !.having = "never"]}

MCQueries == JoinQueries \cup TotalQueries \cup GroupQueries \cup WindowQueries \cup DroppedQueries
=============================================================================
