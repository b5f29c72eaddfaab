------------------------------ MODULE FoskQuery ------------------------------
(***************************************************************************)
(* A query after analysis: the planner lays out its nodes                  *)
(* (PlanBuilder::from_analyzed) and the executor runs them one after the   *)
(* other (PlanExecutor::run_plan) while other clients write and delete     *)
(* documents, create and drop collections.  No lock is held between two    *)
(* nodes.                                                                  *)
(*                                                                         *)
(* A collection is scanned in the order of its HashMap, which is any       *)
(* order, and groups come out in that of another HashMap.  A row is a      *)
(* function from columns, which are a visible name and a field, to values. *)
(* Which rows a predicate is true of is the subject of FoskPredicate: here *)
(* it is the constant operator Holds of the columns the predicate reads.   *)
(***************************************************************************)
EXTENDS SequencesExt, Integers

CONSTANTS
  Colls,          \* collections
  Docs,           \* documents clients write
  Tables,         \* what the collections may hold at first
  Queries,        \* analyzed queries
  Reads(_),       \* the columns a predicate names
  Holds(_, _),    \* whether a predicate is True of their values
  NoPredicate,
  MaxInt,         \* i64::MAX
  MaxWrites       \* bound on what others do during the query

VARIABLES
  tables,         \* the documents of each collection
  open,           \* the collections that are registered
  columns,        \* the columns of their schemas
  query,
  node,           \* the node of the plan that runs next
  scans,          \* the rows of each source, as scanned
  rows,           \* the rows the last node returned
  status,         \* "running", "done" or "failed"
  writes

vars == <<tables, open, columns, query, node, scans, rows, status, writes>>
execution == <<query, node, scans, rows, status>>

Null   == [ty |-> "null", v |-> 0]
Failed == [ty |-> "failed", v |-> 0]
Fields == UNION {DOMAIN d : d \in Docs}
Funcs  == {"count", "sum", "avg", "min", "max"}
Joins  == {"inner", "left", "right", "full"}

Values == {Null} \cup [ty : {"bool", "int", "float", "text"}, v : Int]

ASSUME DocsAssumption ==
  /\ Docs # {} /\ IsFiniteSet(Docs)
  /\ \A d \in Docs : /\ "id" \in DOMAIN d /\ d["id"] # Null
                     /\ \A f \in DOMAIN d : d[f] \in Values
ASSUME TablesAssumption ==
  \A t \in Tables : /\ t \in [Colls -> SUBSET Docs]
                    /\ \A c \in Colls : \A d, e \in t[c] : d["id"] = e["id"] => d = e
ASSUME QueriesAssumption ==
  \A q \in Queries :
    /\ q.from \in Seq(Range(q.from)) /\ q.from # <<>>
    /\ \A i \in DOMAIN q.from : q.from[i].coll \in Colls /\ q.from[i].join \in Joins
    /\ IsInjective([i \in DOMAIN q.from |-> q.from[i].visible])
    /\ q.group \in Seq(Range(q.group))
    /\ q.calls \in Seq(Range(q.calls))
    /\ \A i \in DOMAIN q.calls : /\ q.calls[i].func \in Funcs
                                 /\ q.calls[i].star => q.calls[i].func = "count" /\ q.calls[i].arg = <<>>
    /\ q.order \in Seq(Range(q.order)) /\ \A i \in DOMAIN q.order : q.order[i].ascending \in BOOLEAN
    /\ q.limit \in Seq(Int) /\ Len(q.limit) <= 1
    /\ q.offset \in Seq(Int) /\ Len(q.offset) <= 1
ASSUME BoundsAssumption == MaxInt \in Nat /\ MaxWrites \in Nat
-----------------------------------------------------------------------------
(* The plan.                                                               *)

\* q.calls are the different aggregate calls left after folding in SELECT and
\* HAVING, then those ORDER BY adds when there is any or a GROUP BY.
needs_agg(q) == q.group # <<>> \/ q.calls # <<>>

planned(b, op) == IF b THEN <<[op |-> op, i |-> 0]>> ELSE <<>>

\* The first source is scanned, every other is scanned and joined.
sources(q) ==
  [n \in 1..(2 * Len(q.from) - 1) |->
     [op |-> IF n = 1 \/ n % 2 = 0 THEN "scan" ELSE "join", i |-> n \div 2 + 1]]

from_analyzed(q) ==
  sources(q)
  \o planned(q.where # NoPredicate, "where")
  \o planned(needs_agg(q), "aggregate")
  \o planned(needs_agg(q) /\ q.having # NoPredicate, "having")
  \o planned(q.order # <<>>, "sort")
  \o planned(TRUE, "project")
  \o planned(q.limit # <<>> \/ q.offset # <<>>, "limit")

\* The name of a call: the function's, with a suffix if it was called before, which is
\* the number of the calls before.
name(q, i) ==
  <<"call", q.calls[i].func, Cardinality({j \in 1..(i - 1) : q.calls[j].func = q.calls[i].func})>>
-----------------------------------------------------------------------------
(* Rows.                                                                   *)

eval(c, r) == IF c \in DOMAIN r THEN r[c] ELSE Null

\* A predicate reads a column that a row lacks as NULL.
holds(p, r) == Holds(p, [c \in Reads(p) |-> eval(c, r)])

\* The rows that pass the test, in their order.
retain(rs, Test(_)) ==
  FlattenSeq([j \in DOMAIN rs |-> IF Test(rs[j]) THEN <<rs[j]>> ELSE <<>>])

filter(p, rs) == retain(rs, LAMBDA r : holds(p, r))

prefix(visible, d) == [c \in {<<visible, f>> : f \in DOMAIN d} |-> d[c[2]]]

\* What r has replaces what l has.
merge_objs(l, r) == [c \in DOMAIN l \cup DOMAIN r |-> IF c \in DOMAIN r THEN r[c] ELSE l[c]]

\* The columns of the sources 1 to n, from the schemas as they are now; those
\* of the rows if none is known.
keyset_for_side(S, rs) ==
  LET derived == UNION {{<<query.from[i].visible, f>> : f \in columns[query.from[i].coll]} :
                          i \in {i \in S : query.from[i].coll \in open}}
  IN  IF derived # {} THEN derived ELSE UNION {DOMAIN rs[j] : j \in DOMAIN rs}

null_extended(keys) == [c \in keys |-> Null]

\* (mutant: FULL forgets which rows of the right side have matched)
join_FullUnmarked(L, R, s, lkeys, rkeys) ==
  LET matches(l) == filter(s.on, [j \in DOMAIN R |-> merge_objs(l, R[j])])
      extended(l) == IF matches(l) = <<>> THEN <<merge_objs(l, null_extended(rkeys))>> ELSE matches(l)
  IN  FlattenSeq([i \in DOMAIN L |-> extended(L[i])])
      \o [j \in DOMAIN R |-> merge_objs(null_extended(lkeys), R[j])]

join(L, R, s, lkeys, rkeys) ==
  LET on(l, r) == holds(s.on, merge_objs(l, r))
      of_left(l) == filter(s.on, [j \in DOMAIN R |-> merge_objs(l, R[j])])
      of_right(r) == filter(s.on, [i \in DOMAIN L |-> merge_objs(L[i], r)])
      left_only(l) == <<merge_objs(l, null_extended(rkeys))>>
      right_only(r) == <<merge_objs(null_extended(lkeys), r)>>
      unmatched(r) == \A i \in DOMAIN L : ~on(L[i], r)
      left_rows == [i \in DOMAIN L |-> IF of_left(L[i]) = <<>> THEN left_only(L[i]) ELSE of_left(L[i])]
      right_rows == [j \in DOMAIN R |-> IF unmatched(R[j]) THEN right_only(R[j]) ELSE of_right(R[j])]
  IN  CASE s.join = "inner" -> FlattenSeq([i \in DOMAIN L |-> of_left(L[i])])
        [] s.join = "left"  -> FlattenSeq(left_rows)
        [] s.join = "right" -> FlattenSeq(right_rows)
        [] s.join = "full"  -> FlattenSeq(left_rows)
                               \o FlattenSeq([j \in DOMAIN R |-> IF unmatched(R[j]) THEN right_only(R[j]) ELSE <<>>])

-----------------------------------------------------------------------------
(* Aggregates.  An accumulator is a value; Failed ends the query.          *)

new_acc(func) ==
  CASE func = "count" -> [ty |-> "int", v |-> 0]
    [] func = "avg"   -> [ty |-> "avg", v |-> 0, n |-> 0]
    [] OTHER          -> Null

number(v) == v.ty \in {"int", "float"}

\* The first number decides whether the sum is one of integers.
sum_update(acc, v) ==
  IF acc = Null THEN IF number(v) THEN v ELSE Failed
  ELSE IF number(v) /\ ~(acc.ty = "int" /\ v.ty = "float") THEN [acc EXCEPT !.v = @ + v.v]
  ELSE Failed

avg_update(acc, v) ==
  IF number(v) THEN [acc EXCEPT !.v = @ + v.v, !.n = @ + 1] ELSE Failed

extrema_update(func, acc, v) ==
  IF acc = Null THEN v
  ELSE IF acc.ty # v.ty THEN Failed
  ELSE IF IF func = "min" THEN v.v < acc.v ELSE v.v > acc.v THEN v
  ELSE acc

\* NULL is not counted.
update(func, acc, v) ==
  IF acc = Failed \/ v = Null THEN acc
  ELSE CASE func = "count" -> [acc EXCEPT !.v = @ + 1]
         [] func = "sum"   -> sum_update(acc, v)
         [] func = "avg"   -> avg_update(acc, v)
         [] OTHER          -> extrema_update(func, acc, v)

wrap(n) == ((n + MaxInt + 1) % (2 * (MaxInt + 1))) - (MaxInt + 1)

\* A sum of integers is cut to 64 bits.
finalize(func, acc) ==
  CASE acc.ty = "avg" /\ acc.n = 0 -> Null
    [] func = "sum" /\ acc.ty = "int" -> [acc EXCEPT !.v = wrap(@)]
    [] OTHER -> acc

accumulate(func, vs) == FoldLeft(LAMBDA acc, v : update(func, acc, v), new_acc(func), vs)

\* Each value once.
once(vs) == FoldLeft(LAMBDA seen, v : IF v \in Range(seen) THEN seen ELSE Append(seen, v), <<>>, vs)

\* COUNT(*) counts the rows; DISTINCT takes each value once.
args(call, rs) ==
  LET vs == [j \in DOMAIN rs |-> IF call.star THEN [ty |-> "bool", v |-> 1] ELSE eval(call.arg, rs[j])]
  IN  IF call.distinct THEN once(vs) ELSE vs

gb_vals(q, r) == [i \in DOMAIN q.group |-> eval(q.group[i], r)]

\* Without GROUP BY there is one group, even of no rows.
group_keys(q, rs) ==
  IF q.group = <<>> THEN {<<>>} ELSE {gb_vals(q, rs[j]) : j \in DOMAIN rs}

\* (mutant: the values of a group are fed to the first call only)
group_row_First(q, rs, k) ==
  LET members == retain(rs, LAMBDA r : gb_vals(q, r) = k)
      result(i) == finalize(q.calls[i].func, accumulate(q.calls[i].func, args(q.calls[1], members)))
  IN  merge_objs([c \in Range(q.group) |-> k[CHOOSE i \in DOMAIN q.group : q.group[i] = c]],
                 [c \in {name(q, i) : i \in DOMAIN q.calls} |->
                    result(CHOOSE i \in DOMAIN q.calls : name(q, i) = c)])

group_row(q, rs, k) ==
  LET members == retain(rs, LAMBDA r : gb_vals(q, r) = k)
      result(i) == finalize(q.calls[i].func, accumulate(q.calls[i].func, args(q.calls[i], members)))
  IN  merge_objs([c \in Range(q.group) |-> k[CHOOSE i \in DOMAIN q.group : q.group[i] = c]],
                 [c \in {name(q, i) : i \in DOMAIN q.calls} |->
                    result(CHOOSE i \in DOMAIN q.calls : name(q, i) = c)])
-----------------------------------------------------------------------------
(* Sorting and the window.                                                 *)

\* An average is a number, kept as a sum and a count.
type_rank(v) == CASE v.ty = "null" -> 0 [] v.ty = "bool" -> 1 [] v.ty = "text" -> 3 [] OTHER -> 2

less(x, y) ==
  LET count(v) == IF v.ty = "avg" THEN v.n ELSE 1 IN
  IF type_rank(x) = type_rank(y) THEN x.v * count(y) < y.v * count(x)
  ELSE type_rank(x) < type_rank(y)

\* cmp_json_for_sort is Less.
precedes(a, b, ascending) ==
  CASE a = Null -> FALSE
    [] a # Null /\ b = Null -> TRUE
    [] OTHER -> IF ascending THEN less(a, b) ELSE less(b, a)

\* The first key on which two rows differ decides.
before(keys, r, s) ==
  \E i \in DOMAIN keys :
    /\ precedes(eval(keys[i].expr, r), eval(keys[i].expr, s), keys[i].ascending)
    /\ \A j \in 1..(i - 1) : ~precedes(eval(keys[j].expr, s), eval(keys[j].expr, r), keys[j].ascending)
                             /\ ~precedes(eval(keys[j].expr, r), eval(keys[j].expr, s), keys[j].ascending)

\* A stable sort.
sort_by(keys, rs) ==
  LET position(i) == Cardinality({j \in DOMAIN rs : \/ before(keys, rs[j], rs[i])
                                                    \/ j <= i /\ ~before(keys, rs[i], rs[j])})
  IN  [n \in DOMAIN rs |-> rs[CHOOSE i \in DOMAIN rs : position(i) = n]]

project(q, r) == [c \in q.select |-> eval(c, r)]

\* A bound that was given, negative ones as 0.
bound(opt) == IF opt[1] < 0 THEN 0 ELSE opt[1]
start(q) == IF q.offset = <<>> THEN 0 ELSE bound(q.offset)

window(q, rs) ==
  LET end == IF q.limit = <<>> THEN Len(rs) ELSE start(q) + bound(q.limit) IN
  SubSeq(rs, start(q) + 1, Min({end, Len(rs)}))
-----------------------------------------------------------------------------
Init ==
  /\ tables \in Tables
  /\ open = Colls
  /\ columns = [c \in Colls |-> {"id"} \cup UNION {DOMAIN d : d \in tables[c]}]
  /\ query \in Queries
  /\ node = 1 /\ scans = <<>> /\ rows = <<>> /\ status = "running" /\ writes = 0

\* Others write a document, new or in place of the one with its id, delete one, drop
\* a collection, and create one in place of another or of none, between any two nodes.
others_may == status = "running" /\ writes < MaxWrites

\* (mutant: the old document stays)
Write_Appends(c, d) ==
  /\ others_may /\ c \in open
  /\ tables' = [tables EXCEPT ![c] = @ \cup {d}]
  /\ columns' = [columns EXCEPT ![c] = @ \cup DOMAIN d]
  /\ writes' = writes + 1
  /\ UNCHANGED <<open, execution>>

Write(c, d) ==
  /\ others_may /\ c \in open
  /\ tables' = [tables EXCEPT ![c] = {e \in @ : e["id"] # d["id"]} \cup {d}]
  /\ columns' = [columns EXCEPT ![c] = @ \cup DOMAIN d]
  /\ writes' = writes + 1
  /\ UNCHANGED <<open, execution>>

\* The schema keeps the columns of what is deleted.
Delete(c, d) ==
  /\ others_may /\ c \in open /\ d \in tables[c]
  /\ tables' = [tables EXCEPT ![c] = @ \ {d}]
  /\ writes' = writes + 1
  /\ UNCHANGED <<open, columns, execution>>

\* The new collection is empty and its schema has the id only.
Create(c) ==
  /\ others_may
  /\ tables' = [tables EXCEPT ![c] = {}]
  /\ open' = open \cup {c}
  /\ columns' = [columns EXCEPT ![c] = {"id"}]
  /\ writes' = writes + 1
  /\ UNCHANGED execution

DropCollection(c) ==
  /\ others_may /\ c \in open
  /\ open' = open \ {c}
  /\ writes' = writes + 1
  /\ UNCHANGED <<tables, columns, execution>>

plan == from_analyzed(query)
runs(op) == status = "running" /\ plan[node].op = op

\* The node has returned rs.
returns(rs) ==
  /\ rows' = rs
  /\ node' = node + 1
  /\ status' = IF node = Len(plan) THEN "done" ELSE "running"
  /\ UNCHANGED <<query, tables, open, columns, writes>>

fails == status' = "failed" /\ UNCHANGED <<tables, open, columns, query, node, scans, rows, writes>>

Scan ==
  /\ runs("scan")
  /\ LET s == query.from[plan[node].i] IN
     IF s.coll \notin open THEN fails
     ELSE \E order \in SetToSeqs(tables[s.coll]) :
            LET found == [j \in DOMAIN order |-> prefix(s.visible, order[j])] IN
            /\ scans' = Append(scans, found)
            /\ returns(IF plan[node].i = 1 THEN found ELSE rows)

Join ==
  /\ runs("join")
  /\ LET i == plan[node].i IN
     returns(join(rows, scans[i], query.from[i],
                  keyset_for_side(1..(i - 1), rows), keyset_for_side({i}, scans[i])))
  /\ UNCHANGED scans

Filter ==
  /\ \/ runs("where") /\ returns(filter(query.where, rows))
     \/ runs("having") /\ returns(filter(query.having, rows))
  /\ UNCHANGED scans

\* Groups come out in any order.
Aggregate ==
  /\ runs("aggregate")
  /\ LET groups == {group_row(query, rows, k) : k \in group_keys(query, rows)} IN
     IF \E g \in groups : Failed \in Range(g) THEN fails
     ELSE \E out \in SetToSeqs(groups) : returns(out) /\ UNCHANGED scans

Sort == runs("sort") /\ returns(sort_by(query.order, rows)) /\ UNCHANGED scans

Project ==
  /\ runs("project")
  /\ returns([j \in DOMAIN rows |-> project(query, rows[j])])
  /\ UNCHANGED scans

Limit == runs("limit") /\ returns(window(query, rows)) /\ UNCHANGED scans

Next ==
  \/ Scan \/ Join \/ Filter \/ Aggregate \/ Sort \/ Project \/ Limit
  \/ \E c \in Colls : Create(c) \/ DropCollection(c) \/ \E d \in Docs : Write(c, d) \/ Delete(c, d)

Spec == Init /\ [][Next]_vars
-----------------------------------------------------------------------------
(* What SQL answers from the rows that were scanned, as sets of rows that  *)
(* have every column.                                                      *)

Cols(q) == {<<q.from[i].visible, f>> : i \in DOMAIN q.from, f \in Fields}
Complete(q, r) == [c \in Cols(q) |-> eval(c, r)]

Pair(q, l, r, visible) == [c \in Cols(q) |-> IF c[1] = visible THEN r[c] ELSE l[c]]

\* The pairs on which p holds, and the rows of either side that are in none.
SqlPairs(q, L, R, v, p) ==
  UNION {{Pair(q, l, r, v) : r \in {r \in R : holds(p, Pair(q, l, r, v))}} : l \in L}
SqlLeft(q, L, R, v, p)  == {l \in L : \A r \in R : ~holds(p, Pair(q, l, r, v))}
SqlRight(q, L, R, v, p) == {r \in R : \A l \in L : ~holds(p, Pair(q, l, r, v))}

SqlJoin(q, L, R, s) ==
  SqlPairs(q, L, R, s.visible, s.on)
  \cup (IF s.join \in {"left", "full"} THEN SqlLeft(q, L, R, s.visible, s.on) ELSE {})
  \cup (IF s.join \in {"right", "full"} THEN SqlRight(q, L, R, s.visible, s.on) ELSE {})

\* The rows sc that were scanned from each source.
Source(q, sc, i) == {Complete(q, sc[i][j]) : j \in DOMAIN sc[i]}

\* The sources up to the i-th, joined.
SqlJoins(q, sc) ==
  LET from[i \in 1..Len(q.from)] ==
        IF i = 1 THEN Source(q, sc, 1) ELSE SqlJoin(q, from[i - 1], Source(q, sc, i), q.from[i])
  IN  from

SqlWhere(q, sc) ==
  {r \in SqlJoins(q, sc)[Len(q.from)] : q.where # NoPredicate => holds(q.where, r)}

\* A call over the rows G of a group.  A sum of integers is one of 64 bits.
SqlValue(call, G) ==
  LET given == {r \in G : call.star \/ eval(call.arg, r) # Null}
      D == IF call.distinct THEN {eval(call.arg, r) : r \in given} ELSE given
      val(x) == IF call.distinct THEN x ELSE eval(call.arg, x)
      kinds == {val(x).ty : x \in D}
      total == MapThenSumSet(LAMBDA x : val(x).v, D)
      extreme == IF call.func = "min" THEN CHOOSE v \in {val(x) : x \in D} : \A x \in D : v.v <= val(x).v
                 ELSE CHOOSE v \in {val(x) : x \in D} : \A x \in D : v.v >= val(x).v
  IN  IF call.func = "count" THEN [ty |-> "int", v |-> Cardinality(D)]
      ELSE IF D = {} THEN Null
      ELSE CASE call.func = "sum" -> IF kinds = {"int"} THEN [ty |-> "int", v |-> wrap(total)]
                                     ELSE [ty |-> "float", v |-> total]
             [] call.func = "avg" -> [ty |-> "avg", v |-> total, n |-> Cardinality(D)]
             [] OTHER -> IF Cardinality(kinds) > 1 THEN Failed ELSE extreme

SqlGroups(q, W) ==
  IF q.group = <<>> THEN {W}
  ELSE {{r \in W : gb_vals(q, r) = gb_vals(q, s)} : s \in W}

SqlGroupRow(q, G) ==
  merge_objs([c \in Range(q.group) |-> eval(c, CHOOSE r \in G : TRUE)],
             [c \in {name(q, i) : i \in DOMAIN q.calls} |->
                SqlValue(q.calls[CHOOSE i \in DOMAIN q.calls : name(q, i) = c], G)])

SqlRows(q, sc) ==
  IF needs_agg(q)
  THEN {g \in {SqlGroupRow(q, G) : G \in SqlGroups(q, SqlWhere(q, sc))} :
          q.having # NoPredicate => holds(q.having, g)}
  ELSE SqlWhere(q, sc)

\* ORDER BY with NULL last in both directions.
SqlPrecedes(v, w, ascending) ==
  v # Null /\ (w # Null => IF ascending THEN less(v, w) ELSE less(w, v))

SqlBefore(q, r, s) ==
  LET key(i, x) == eval(q.order[i].expr, x)
      up(i) == q.order[i].ascending
  IN  \E i \in DOMAIN q.order :
        /\ SqlPrecedes(key(i, r), key(i, s), up(i))
        /\ \A j \in 1..(i - 1) : ~SqlPrecedes(key(j, r), key(j, s), up(j))
                                 /\ ~SqlPrecedes(key(j, s), key(j, r), up(j))
-----------------------------------------------------------------------------
(* Properties.                                                             *)

\* HAVING without GROUP BY whose aggregates folding has removed: the planner
\* leaves it out.
having_dropped == query.having # NoPredicate /\ ~needs_agg(query)

\* What is returned is a window of the SQL answer in an order that ORDER BY allows,
\* whatever order the collections and groups came in and whatever was written
\* between the nodes.
ResultIsSql ==
  status = "done" /\ ~having_dropped =>
    LET A == SqlRows(query, scans)
        shown(a) == project(query, a)
        size == LET left == Max({0, Cardinality(A) - start(query)}) IN
                IF query.limit = <<>> THEN left ELSE Min({left, bound(query.limit)})
    IN  /\ Len(rows) = size
        /\ \A x \in Range(rows) :
             Cardinality({j \in DOMAIN rows : rows[j] = x}) <= Cardinality({a \in A : shown(a) = x})
        /\ \A j \in DOMAIN rows :
             \E a \in A :
               /\ shown(a) = rows[j]
               /\ Cardinality({b \in A : SqlBefore(query, b, a)}) < start(query) + j
               /\ Cardinality({b \in A : ~SqlBefore(query, a, b)}) >= start(query) + j

\* Call i meets values it cannot take together, or cannot sum.
blamed(q, i, S) ==
  LET kinds == {eval(q.calls[i].arg, r).ty : r \in S} \ {"null"} IN
  \/ q.calls[i].func \in {"sum", "min", "max"} /\ Cardinality(kinds) > 1
  \/ q.calls[i].func \in {"sum", "avg"} /\ ~(kinds \subseteq {"int", "float"})

\* A query fails only if a collection it reads has been dropped, or a column it
\* sums or compares holds values of different kinds or of a kind it cannot sum.
FailsForCause ==
  status = "failed" =>
    IF plan[node].op = "scan" THEN query.from[plan[node].i].coll \notin open
    ELSE \E i \in DOMAIN query.calls : blamed(query, i, SqlWhere(query, scans))

\* Every variable has its type: ids are unique, schemas name every stored field,
\* and as many sources are scanned as the plan has come past.
TypeOK ==
  /\ \A c \in Colls : /\ tables[c] \subseteq Docs
                      /\ \A d, e \in tables[c] : d["id"] = e["id"] => d = e
                      /\ UNION {DOMAIN d : d \in tables[c]} \subseteq columns[c]
  /\ open \subseteq Colls
  /\ query \in Queries
  /\ status \in {"running", "done", "failed"}
  /\ node \in 1..(Len(plan) + 1) /\ (status = "done" <=> node = Len(plan) + 1)
  /\ Len(scans) = Cardinality({n \in 1..(node - 1) : plan[n].op = "scan"})
  /\ writes \in 0..MaxWrites
=============================================================================
