----------------------------- MODULE FoskAnalyzer -----------------------------
(***************************************************************************)
(* From a parsed query to its plan: AnalysisContext::analyze_query with    *)
(* the resolvers it calls, and PlanBuilder::from_analyzed.                 *)
(*                                                                         *)
(* The analysis is one pass over the clauses in a fixed order.  ctx is the *)
(* AnalysisContext it works on: the visible collections, the schemas of    *)
(* the subqueries, and the place in the list of parameters.  A result that *)
(* can be an AnalyzerError is a set, empty for the error.                  *)
(*                                                                         *)
(* A plan is the sequence of its nodes in the order they run.              *)
(***************************************************************************)
EXTENDS Integers, SequencesExt

CONSTANTS
  Schemas,          \* the columns of each collection, in the order of its schema
  Number,           \* the integers that the tokens of numbers stand for
  Lower,            \* the words whose lower case is another word
  Matches(_, _),    \* LIKE of two strings
  Scalar(_, _),     \* the literal a scalar function gives of a string
  None

Literal(ty, v)           == [node |-> "Literal", ty |-> ty, value |-> v]
Column(collection, name) == [node |-> "Column", collection |-> collection, name |-> name]
Args(items)              == [node |-> "Args", items |-> items]
Const3(t)                == [node |-> "Const3", truth |-> t]

AggregateNames == {"count", "sum", "avg", "min", "max"}

given(condition, value) == IF condition THEN {value} ELSE {}

lower(word) == IF word \in DOMAIN Lower THEN Lower[word] ELSE word

function(f) == IF f.collection = None THEN lower(f.name)
               ELSE lower(f.collection) \o "." \o lower(f.name)

is_aggregate(e) == e.node = "Function" /\ function(e) \in AggregateNames

\* Applies step to each item in turn; a step gives the value of the item and the
\* context it leaves.
each(items, ctx0, step(_, _)) ==
  FoldLeft(LAMBDA done, item :
             UNION {{[values |-> Append(d.values, s.value), ctx |-> s.ctx] : s \in step(item, d.ctx)}
                    : d \in done},
           {[values |-> <<>>, ctx |-> ctx0]}, items)

pure(results, ctx) == {[value |-> r, ctx |-> ctx] : r \in results}
-----------------------------------------------------------------------------
(* Names.                                                                  *)

NewContext(parameters) ==
  [collections |-> <<>>, subqueries |-> <<>>, parameters |-> parameters, current |-> 0,
   bound |-> <<>>]     \* the placeholders bound so far, each with its parameter

\* A visible name that is there already gets the new collection, in its old place.
add_collection(ctx, visible, backing) ==
  LET at == {i \in DOMAIN ctx.collections : ctx.collections[i].visible = visible}
      item == [visible |-> visible, backing |-> backing]
  IN  [ctx EXCEPT !.collections =
         IF at = {} THEN Append(@, item)
         ELSE [i \in DOMAIN @ |-> IF i \in at THEN item ELSE @[i]]]

add_subquery(ctx, visible, schema) ==
  add_collection([ctx EXCEPT !.subqueries = (visible :> schema) @@ @], visible, visible)

\* The schema of a subquery hides that of a collection of the same name.
schema_of_collection_ref(ctx, ref) ==
  IF ref \in DOMAIN ctx.subqueries THEN {ctx.subqueries[ref]}
  ELSE given(ref \in DOMAIN Schemas, Schemas[ref])

\* The columns of a visible collection.
columns_of(ctx, c) == UNION {ToSet(s) : s \in schema_of_collection_ref(ctx, c.backing)}

\* The one visible collection that has the column, or that the column names.
qualify_column(c, ctx) ==
  LET found == UNION {{[column |-> Column(x.visible, c.name), field |-> f]
                       : f \in {f \in columns_of(ctx, x) : f.name = c.name}}
                      : x \in {x \in ToSet(ctx.collections) : c.collection \in {None, x.visible}}}
  IN  IF Cardinality(found) = 1 THEN found ELSE {}

\* All the columns of a collection, or of all in order; every one must have a schema.
expand_wildcard(e, ctx) ==
  LET named == SelectSeq(ctx.collections, LAMBDA x : e.collection \in {None, x.visible})
      columns(x) == {[i \in DOMAIN s |-> Column(x.visible, s[i].name)]
                     : s \in schema_of_collection_ref(ctx, x.backing)}
  IN  {FlattenSeq(r.values)
       : r \in {r \in each(named, ctx, LAMBDA x, c : pure(columns(x), c)) :
                  e.collection # None => named # <<>>}}

\* An alias is kept where one expression stays.
expand_projection_idents(projection, ctx) ==
  LET idents(id) ==
        IF id.expression.node # "WildCard" THEN {<<id>>}
        ELSE {[i \in DOMAIN es |->
                 [expression |-> es[i], alias |-> IF Len(es) = 1 THEN id.alias ELSE None]]
              : es \in expand_wildcard(id.expression, ctx)}
  IN  {FlattenSeq(r.values) : r \in each(projection, ctx, LAMBDA id, c : pure(idents(id), c))}
-----------------------------------------------------------------------------
(* Scalars.                                                                *)

ScalarTypes == {"Null", "Bool", "Int", "String"}

expand_parameter_value(v, allow_args) ==
  CASE v.ty \in ScalarTypes -> {Literal(v.ty, v.value)}
    [] v.ty = "Array" /\ allow_args /\ \A i \in DOMAIN v.items : v.items[i].ty \in ScalarTypes ->
         {Args([i \in DOMAIN v.items |-> Literal(v.items[i].ty, v.items[i].value)])}
    [] OTHER -> {}

\* A value that is no array is the only parameter.
qualify_parameter(p, ctx, allow_args) ==
  LET values == IF ctx.parameters.ty = "Array" THEN ctx.parameters.items ELSE <<ctx.parameters>>
      n == ctx.current + 1
  IN  IF n > Len(values) THEN {}
      ELSE {[value |-> v, ctx |-> [ctx EXCEPT !.current = n, !.bound = Append(@, <<p.where, n>>)]]
            : v \in expand_parameter_value(values[n], allow_args)}

RECURSIVE qualify_scalar(_, _, _)
qualify_scalar(e, ctx, allow_args) ==
  CASE e.node = "Column" -> pure({q.column : q \in qualify_column(e, ctx)}, ctx)
    [] e.node = "Function" ->
         IF function(e) = "count" /\ e.args = <<[node |-> "WildCard", collection |-> None]>>
         THEN pure({e}, ctx)
         ELSE {[value |-> [e EXCEPT !.args = r.values], ctx |-> r.ctx]
               : r \in each(e.args, ctx, LAMBDA a, c : qualify_scalar(a, c, TRUE))}
    [] e.node = "Parameter" -> qualify_parameter(e, ctx, allow_args)
    [] e.node = "WildCard" -> {}
    [] OTHER -> pure({e}, ctx)

RECURSIVE fold_scalar(_)
fold_scalar(e) ==
  IF e.node # "Function" \/ is_aggregate(e) THEN e
  ELSE LET args == [i \in DOMAIN e.args |-> fold_scalar(e.args[i])]
       IN  IF /\ function(e) \in {"upper", "lower", "trim", "length"}
              /\ Len(args) = 1 /\ args[1].node = "Literal" /\ args[1].ty = "String"
           THEN Scalar(function(e), args[1].value)
           ELSE [e EXCEPT !.args = args]

typed(ty, nullable) == [ty |-> ty, nullable |-> nullable]

promote(a, b) ==
  CASE {a, b} = {"Int", "Float"} -> "Float"
    [] a = "Null" -> b
    [] OTHER -> a

\* What an aggregate returns, from the type of its first argument: it is NULL for
\* no values, but a count never is.
count_type(args)    == given(Len(args) = 1, typed("Int", FALSE))
sum_type(first)     == {typed(t.ty, TRUE) : t \in {t \in first : t.ty \in {"Int", "Float"}}}
avg_type(first)     == {typed("Float", TRUE) : t \in {t \in first : t.ty \in {"Int", "Float"}}}
extrema_type(first) == {typed(t.ty, TRUE) : t \in first}

aggregate_type(name, args, first) ==
  CASE name = "count" -> count_type(args)
    [] name = "sum"   -> sum_type(first)
    [] name = "avg"   -> avg_type(first)
    [] OTHER          -> extrema_type(first)

RECURSIVE infer_scalar(_, _)
infer_scalar(e, ctx) ==
  LET types == each(e.args, ctx, LAMBDA a, c : pure(infer_scalar(a, c), c))
      first == IF e.args = <<>> THEN {} ELSE infer_scalar(e.args[1], ctx)
      name == function(e)
      one_string == {t.values[1] : t \in {t \in types : Len(t.values) = 1 /\ t.values[1].ty = "String"}}
  IN  CASE e.node = "Literal"  -> {typed(e.ty, e.ty = "Null")}
        [] e.node = "Column"   -> {typed(q.field.ty, q.field.nullable) : q \in qualify_column(e, ctx)}
        [] is_aggregate(e) -> aggregate_type(name, e.args, first)
        [] e.node = "Function" /\ name \in {"upper", "lower", "trim"} -> one_string
        [] e.node = "Function" /\ name = "length" -> {typed("Int", t.nullable) : t \in one_string}
        [] e.node = "Function" /\ name = "coalesce" ->
             {typed(FoldLeft(LAMBDA ty, t : promote(ty, t.ty), ts.values[1].ty, ts.values),
                    \A i \in DOMAIN ts.values : ts.values[i].nullable)
              : ts \in {ts \in types : ts.values # <<>>}}
        [] OTHER -> {}
-----------------------------------------------------------------------------
(* Predicates.                                                             *)

RECURSIVE qualify_predicate(_, _)
qualify_predicate(p, ctx) ==
  CASE p.node \in {"And", "Or"} ->
         {[value |-> [p EXCEPT !.items = r.values], ctx |-> r.ctx]
          : r \in each(p.items, ctx, qualify_predicate)}
    [] p.node = "Test" ->
         UNION {{[value |-> [p EXCEPT !.operands = l.values \o r.values], ctx |-> r.ctx]
                 : r \in each(Tail(p.operands), l.ctx,
                              LAMBDA e, c : qualify_scalar(e, c, p.test = "IN"))}
                : l \in each(<<Head(p.operands)>>, ctx, LAMBDA e, c : qualify_scalar(e, c, FALSE))}

is_literal(e) == e.node = "Literal"

truth(b) == IF b THEN "True" ELSE "False"

negate(t, negated) ==
  CASE negated /\ t = "True"  -> "False"
    [] negated /\ t = "False" -> "True"
    [] OTHER -> t

eval_compare3(l, op, r) ==
  LET int == l.ty = "Int" IN
  IF "Null" \in {l.ty, r.ty} \/ l.ty # r.ty THEN "Unknown"
  ELSE CASE op = "="           -> truth(l.value = r.value)
         [] op \in {"<>", "!="} -> truth(l.value # r.value)
         [] int /\ op = "<"    -> truth(Number[l.value] < Number[r.value])
         [] int /\ op = "<="   -> truth(Number[l.value] <= Number[r.value])
         [] int /\ op = ">"    -> truth(Number[l.value] > Number[r.value])
         [] int /\ op = ">="   -> truth(Number[l.value] >= Number[r.value])
         [] OTHER              -> "Unknown"

eval_in(e, set) ==
  IF \E x \in set : x.ty # "Null" /\ x = e THEN "True"
  ELSE IF \E x \in set : x.ty = "Null" THEN "Unknown"
  ELSE "False"

\* The lists of an IN join in one.
flat(operands) ==
  FlattenSeq([i \in DOMAIN operands |->
    IF operands[i].node = "Args" THEN operands[i].items ELSE <<operands[i]>>])

fold_test(p) ==
  LET folded == [i \in DOMAIN p.operands |-> fold_scalar(p.operands[i])]
      es == IF p.test = "IN" THEN flat(folded) ELSE folded
      literal == \A i \in DOMAIN es : is_literal(es[i])
      const(t) == Const3(negate(t, p.negated))
  IN  CASE p.test = "LIKE" /\ \E i \in DOMAIN es : is_literal(es[i]) /\ es[i].ty = "Null" ->
             Const3("Unknown")
        [] p.test = "LIKE" /\ literal /\ es[1].ty = "String" /\ es[2].ty = "String" ->
             const(truth(Matches(es[1].value, es[2].value)))
        [] p.test = "IS NULL" /\ literal -> const(truth(es[1].ty = "Null"))
        [] p.test = "IN" /\ literal -> const(eval_in(es[1], ToSet(Tail(es))))
        [] p.test \in {"=", "<>", "!=", "<", "<=", ">", ">="} /\ literal ->
             Const3(eval_compare3(es[1], p.test, es[2]))
        [] OTHER -> [p EXCEPT !.operands = es]

\* Constants leave a junction, or decide it.
RECURSIVE fold_predicate(_)
fold_predicate(p) ==
  IF p.node = "Test" THEN fold_test(p)
  ELSE LET items == [i \in DOMAIN p.items |-> fold_predicate(p.items[i])]
           truths == {x.truth : x \in {x \in ToSet(items) : x.node = "Const3"}}
           others == SelectSeq(items, LAMBDA x : x.node # "Const3")
           decides == IF p.node = "And" THEN "False" ELSE "True"
           neutral == IF p.node = "And" THEN "True" ELSE "False"
       IN  CASE decides \in truths -> Const3(decides)
             [] decides \notin truths /\ others # <<>> -> [p EXCEPT !.items = others]
             [] OTHER -> Const3(IF "Unknown" \in truths THEN "Unknown" ELSE neutral)

\* The scalars of a predicate, in order.
RECURSIVE scalars(_)
scalars(p) ==
  CASE p.node = "Test"   -> p.operands
    [] p.node = "Const3" -> <<>>
    [] OTHER -> FlattenSeq([i \in DOMAIN p.items |-> scalars(p.items[i])])

\* The same of a clause that may be missing.
scalars_of(clause) == IF clause = None THEN <<>> ELSE scalars(clause)
-----------------------------------------------------------------------------
(* Aggregates.                                                             *)

RECURSIVE contains_aggregate(_)
contains_aggregate(e) ==
  /\ e.node = "Function"
  /\ is_aggregate(e) \/ \E i \in DOMAIN e.args : contains_aggregate(e.args[i])

RECURSIVE uses_only_group_by(_, _, _)
uses_only_group_by(e, group, inside) ==
  CASE e.node = "Literal"  -> TRUE
    [] e.node = "Column"   -> inside \/ e \in group
    [] e.node = "Function" ->
         \A i \in DOMAIN e.args : uses_only_group_by(e.args[i], group, inside \/ is_aggregate(e))
    [] OTHER -> inside
-----------------------------------------------------------------------------
(* analyze_query: a holds what the clauses so far have given.              *)

\* (mutant: a repeated name is left as it is)
assign_output_names_Plain(projection) ==
  [i \in DOMAIN projection |-> projection[i] @@
    [output_name |-> IF projection[i].alias # None THEN projection[i].alias
                     ELSE IF projection[i].expression.node = "Column"
                     THEN projection[i].expression.name ELSE "_lit"]]

\* The alias, the bare name if it is free, the table and the name, or a name for the
\* kind of expression; a number makes it differ from the names before it.
assign_output_names(projection) ==
  LET proposed(id, used) ==
        LET e == id.expression IN
        CASE id.alias # None                           -> id.alias
          [] id.alias = None /\ e.node = "Column"      ->
               IF e.name \in used THEN e.collection \o "." \o e.name ELSE e.name
          [] id.alias = None /\ e.node = "Function"    -> function(e)
          [] OTHER                                     -> "_lit"
      numbered(base, k) == IF k = 0 THEN base ELSE base \o "_" \o ToString(k)
      free(base, used) ==
        LET ks == 0..Cardinality(used)
        IN  numbered(base, CHOOSE k \in ks :
                             /\ numbered(base, k) \notin used
                             /\ \A j \in 0..(k - 1) : numbered(base, j) \in used)
      used_by(ids) == {ids[i].output_name : i \in DOMAIN ids}
  IN  FoldLeft(LAMBDA ids, id :
                 LET used == used_by(ids)
                 IN  Append(ids, id @@ [output_name |-> free(proposed(id, used), used)]),
               <<>>, projection)

schema_from_projection(projection) ==
  [i \in DOMAIN projection |-> [name |-> projection[i].output_name, ty |-> projection[i].ty,
                                nullable |-> projection[i].nullable]]

RECURSIVE analyze_query(_, _)

\* A subquery is analyzed in a context of its own: it starts at the first parameter,
\* and the query around it does not go on after those it has used.
analyze_source(c, ctx) ==
  IF c.node = "Table"
  THEN LET visible == IF c.alias = None THEN c.name ELSE c.alias
       IN  pure({[visible |-> visible, backing |-> c.name, query |-> None]},
                add_collection(ctx, visible, c.name))
  ELSE {[value |-> [visible |-> c.alias, backing |-> None, query |-> a],
         ctx |-> add_subquery([ctx EXCEPT !.bound = @ \o a.ctx.bound], c.alias,
                              schema_from_projection(a.projection))]
        : a \in analyze_query(c.query, ctx.parameters)}

with_sources(q, a) ==
  {[a EXCEPT !.ctx = r.ctx, !.sources = r.values] : r \in each(q.collections, a.ctx, analyze_source)}

\* The condition of a join sees the collections up to its own.
with_joins(q, a) ==
  LET join(j, ctx) ==
        UNION {{[value |-> [join_type |-> j.join_type, source |-> s.value,
                            predicate |-> fold_predicate(p.value)], ctx |-> p.ctx]
                : p \in qualify_predicate(j.predicate, s.ctx)}
               : s \in analyze_source(j.collection, ctx)}
  IN  {[a EXCEPT !.ctx = r.ctx, !.joins = r.values] : r \in each(q.joins, a.ctx, join)}

with_projection(q, a) ==
  LET analyzed(id, ctx) ==
        UNION {{[value |-> [expression |-> fold_scalar(e.value), alias |-> id.alias,
                            ty |-> t.ty, nullable |-> t.nullable], ctx |-> e.ctx]
                : t \in infer_scalar(fold_scalar(e.value), e.ctx)}
               : e \in qualify_scalar(id.expression, ctx, FALSE)}
  IN  {[a EXCEPT !.ctx = r.ctx, !.projection = assign_output_names(r.values)]
       : r \in UNION {each(ids, a.ctx, analyzed)
                      : ids \in expand_projection_idents(q.projection, a.ctx)}}

\* A predicate that may be missing, as it is qualified.
qualified(p, ctx) == IF p = None THEN pure({None}, ctx) ELSE qualify_predicate(p, ctx)
folded(p) == IF p = None THEN None ELSE fold_predicate(p)

\* (mutant: HAVING takes its parameters before WHERE)
with_predicates_HavingFirst(q, a) ==
  UNION {{[a EXCEPT !.ctx = c.ctx, !.criteria = c.value, !.having = h.value]
          : c \in qualified(q.criteria, h.ctx)}
         : h \in qualified(q.having, a.ctx)}

with_predicates(q, a) ==
  UNION {{[a EXCEPT !.ctx = h.ctx, !.criteria = c.value, !.having = h.value]
          : h \in qualified(q.having, c.ctx)}
         : c \in qualified(q.criteria, a.ctx)}

with_groups(q, a) ==
  {[a EXCEPT !.group_by = r.values]
   : r \in each(q.group_by, a.ctx, LAMBDA c, ctx : pure({x.column : x \in qualify_column(c, ctx)}, ctx))}

aggregates(a, having) ==
  \/ a.group_by # <<>>
  \/ \E i \in DOMAIN a.projection : contains_aggregate(a.projection[i].expression)
  \/ \E e \in ToSet(scalars_of(having)) : contains_aggregate(e)

\* The rules for aggregates, looked at before the predicates are folded.
is_valid(a) ==
  LET grouped(e) == uses_only_group_by(e, ToSet(a.group_by), FALSE)
      is_agg_query == aggregates(a, a.having)
  IN  /\ ~is_agg_query => a.having = None
      /\ \A e \in ToSet(scalars_of(a.criteria)) : ~contains_aggregate(e)
      /\ is_agg_query =>
           /\ \A i \in DOMAIN a.projection : grouped(a.projection[i].expression)
           /\ \A e \in ToSet(scalars_of(a.having)) : grouped(e)

\* (mutant: an aggregate that only HAVING calls is no reason to aggregate)
needs_agg_SelectOnly(a) == aggregates(a, None)

needs_agg(a) == aggregates(a, a.having)

\* The expression with one of these aliases, the last one counting.
aliased(projection, aliases) ==
  LET named == {i \in DOMAIN projection : projection[i].alias \in aliases \ {None}}
  IN  {projection[i].expression : i \in {i \in named : \A j \in named : j <= i}}

\* The aliases that are a name but for the case.
in_any_case(projection, name) ==
  {projection[i].alias : i \in {i \in DOMAIN projection : projection[i].alias # None
                                  /\ lower(projection[i].alias) = lower(name)}}

is_position(e) == e.node = "Literal" /\ e.ty = "Int"

positioned(e, projection) ==
  {projection[n].expression : n \in {n \in DOMAIN projection : n = Number[e.value]}}

\* ORDER BY of a query with aggregates: an alias in any case, else the rules of
\* SELECT.
order_key_agg(e, a) ==
  LET by_alias == IF e.node = "Column" /\ e.collection = None
                  THEN aliased(a.projection, in_any_case(a.projection, e.name)) ELSE {}
      keys == {[q EXCEPT !.value = fold_scalar(@)] : q \in qualify_scalar(e, a.ctx, FALSE)}
  IN  CASE is_position(e) -> pure(positioned(e, a.projection), a.ctx)
        [] ~is_position(e) /\ by_alias # {} -> pure(by_alias, a.ctx)
        [] OTHER -> {k \in keys : uses_only_group_by(k.value, ToSet(a.group_by), FALSE)}

\* ORDER BY of any other query: an alias as it is written; a column with its table is
\* taken as it is.
RECURSIVE rewrite_ob_expr_non_agg(_, _)
rewrite_ob_expr_non_agg(e, a) ==
  CASE e.node = "Column" /\ e.collection = None ->
         LET by_alias == aliased(a.projection, {e.name})
         IN  IF by_alias # {} THEN by_alias ELSE {q.column : q \in qualify_column(e, a.ctx)}
    [] e.node = "Function" ->
         {[e EXCEPT !.args = r.values]
          : r \in each(e.args, a.ctx, LAMBDA x, c : pure(rewrite_ob_expr_non_agg(x, a), c))}
    [] e.node \in {"Parameter", "WildCard"} -> {}
    [] OTHER -> {e}

order_key_non_agg(e, a) ==
  pure(IF is_position(e) THEN positioned(e, a.projection) ELSE rewrite_ob_expr_non_agg(e, a), a.ctx)

with_order(q, a) ==
  LET key(k, ctx) ==
        LET b == [a EXCEPT !.ctx = ctx] IN
        {[value |-> [k EXCEPT !.expr = e.value], ctx |-> e.ctx]
         : e \in IF needs_agg(a) THEN order_key_agg(k.expr, b) ELSE order_key_non_agg(k.expr, b)}
  IN  {[a EXCEPT !.ctx = r.ctx, !.order_by = r.values] : r \in each(q.order_by, a.ctx, key)}

analyze_query(q, parameters) ==
  LET start == [ctx |-> NewContext(parameters), sources |-> <<>>, joins |-> <<>>,
                projection |-> <<>>, criteria |-> None, group_by |-> <<>>, having |-> None,
                order_by |-> <<>>, limit |-> q.limit, offset |-> q.offset]
      then(as, step(_, _)) == UNION {step(q, a) : a \in as}
      sourced == then(then({start}, with_sources), with_joins)
      named == then(then(then(sourced, with_projection), with_predicates), with_groups)
      folded_all == {[a EXCEPT !.criteria = folded(@), !.having = folded(@)]
                     : a \in {a \in named : is_valid(a)}}
  IN  then(folded_all, with_order)
-----------------------------------------------------------------------------
(* PlanBuilder.                                                            *)

call(f) == [func |-> function(f), args |-> f.args, distinct |-> f.distinct]

RECURSIVE collect_aggregates(_)
collect_aggregates(e) ==
  CASE is_aggregate(e) -> <<call(e)>>
    [] ~is_aggregate(e) /\ e.node = "Function" ->
         FlattenSeq([i \in DOMAIN e.args |-> collect_aggregates(e.args[i])])
    [] OTHER -> <<>>

\* The different calls of SELECT, HAVING and ORDER BY.
calls_of(a) ==
  LET exprs == [i \in DOMAIN a.projection |-> a.projection[i].expression]
               \o scalars_of(a.having) \o [i \in DOMAIN a.order_by |-> a.order_by[i].expr]
  IN  FoldLeft(LAMBDA calls, c : IF c \in ToSet(calls) THEN calls ELSE Append(calls, c), <<>>,
               FlattenSeq([i \in DOMAIN exprs |-> collect_aggregates(exprs[i])]))

\* A call is named after its function, with a number where the name is taken.
call_names(calls) ==
  [c \in ToSet(calls) |->
     LET n == Len(SelectSeq(SubSeq(calls, 1, CHOOSE i \in DOMAIN calls : calls[i] = c),
                            LAMBDA d : d.func = c.func))
     IN  IF n = 1 THEN c.func ELSE c.func \o "_" \o ToString(n - 1)]

RECURSIVE rewrite_scalar(_, _)
rewrite_scalar(e, names) ==
  CASE is_aggregate(e) -> Column(None, names[call(e)])
    [] ~is_aggregate(e) /\ e.node = "Function" ->
         [e EXCEPT !.args = [i \in DOMAIN @ |-> rewrite_scalar(@[i], names)]]
    [] OTHER -> e

RECURSIVE rewrite_predicate(_, _)
rewrite_predicate(p, names) ==
  CASE p.node = "Test" ->
         [p EXCEPT !.operands = [i \in DOMAIN @ |-> rewrite_scalar(@[i], names)]]
    [] p.node = "Const3" -> p
    [] OTHER -> [p EXCEPT !.items = [i \in DOMAIN @ |-> rewrite_predicate(@[i], names)]]

\* A key that is a number by now is taken for a position once more.
rewrite_order_by(order_by, projection, names) ==
  [i \in DOMAIN order_by |->
     LET e == order_by[i].expr
         again == IF is_position(e) THEN positioned(e, projection) ELSE {}
     IN  [order_by[i] EXCEPT !.expr = IF again # {} THEN CHOOSE x \in again : TRUE
                                      ELSE rewrite_scalar(e, names)]]

Filter(p) == IF p = None THEN <<>> ELSE <<[op |-> "Filter", predicate |-> p]>>
Sort(keys) == IF keys = <<>> THEN <<>> ELSE <<[op |-> "Sort", keys |-> keys]>>
Project(exprs) == <<[op |-> "Project", exprs |-> exprs]>>

Limit(a) == IF a.limit = None /\ a.offset = None THEN <<>>
            ELSE <<[op |-> "Limit", limit |-> a.limit, offset |-> a.offset]>>

\* (mutant: the sort keys keep their aggregate calls)
aggregate_nodes_RawKeys(a) ==
  LET names == call_names(calls_of(a))
      projection == [i \in DOMAIN a.projection |->
                       [a.projection[i] EXCEPT !.expression = rewrite_scalar(@, names)]]
  IN  <<[op |-> "Aggregate", keys |-> a.group_by, names |-> names]>>
      \o Filter(IF a.having = None THEN None ELSE rewrite_predicate(a.having, names))
      \o Sort(a.order_by) \o Project(projection)

\* The nodes from Aggregate on: above it a call is the column that holds its result.
aggregate_nodes(a) ==
  LET names == call_names(calls_of(a))
      projection == [i \in DOMAIN a.projection |->
                       [a.projection[i] EXCEPT !.expression = rewrite_scalar(@, names)]]
  IN  <<[op |-> "Aggregate", keys |-> a.group_by, names |-> names]>>
      \o Filter(IF a.having = None THEN None ELSE rewrite_predicate(a.having, names))
      \o Sort(rewrite_order_by(a.order_by, projection, names))
      \o Project(projection)

RECURSIVE from_analyzed(_)

plan_source(s) ==
  IF s.query = None THEN {[op |-> "Scan", visible |-> s.visible, backing |-> s.backing]}
  ELSE {[op |-> "Subquery", visible |-> s.visible, input |-> plan] : plan \in from_analyzed(s.query)}

\* Collections of FROM are joined on nothing; a query without any has no plan.
from_analyzed(a) ==
  LET joins == [i \in DOMAIN a.sources |->
                  [join_type |-> "Inner", source |-> a.sources[i], predicate |-> Const3("True")]]
               \o a.joins
      joined(j, c) == {[value |-> [op |-> "Join", join_type |-> j.join_type, right |-> s,
                                   on |-> j.predicate], ctx |-> c] : s \in plan_source(j.source)}
      later == IF needs_agg(a) THEN aggregate_nodes(a) ELSE Sort(a.order_by) \o Project(a.projection)
  IN  {<<Head(r.values).right>> \o Tail(r.values) \o Filter(a.criteria) \o later \o Limit(a)
       : r \in {r \in each(joins, None, joined) : a.sources # <<>>}}
=============================================================================
