----------------------------- MODULE FoskFrontEnd -----------------------------
(***************************************************************************)
(* Db::query_with_args up to the plan: the text is parsed turn by turn     *)
(* (FoskParser), then the query is analyzed with the parameters and        *)
(* planned (FoskAnalyzer).                                                 *)
(***************************************************************************)
EXTENDS FoskSql

CONSTANTS
  Schemas, Number, Lower, Matches(_, _), Scalar(_, _),   \* those of FoskAnalyzer
  Parameters,       \* the values that clients pass for the placeholders
  WellFormed        \* the texts of SQL as the documentation has it

VARIABLES
  parameters,       \* None until the query is analyzed
  outcome           \* None, then what is to be executed, or nothing after an error

Analyzer == INSTANCE FoskAnalyzer

frontVars == <<vars, parameters, outcome>>

FrontInit ==
  /\ Init
  /\ parameters = None
  /\ outcome = None

Parse == Next /\ UNCHANGED <<parameters, outcome>>

\* The analyzed query and its plan; empty for an AnalyzerError.
planned(query, args) ==
  UNION {{[analyzed |-> a, plan |-> plan] : plan \in Analyzer!from_analyzed(a)}
         : a \in Analyzer!analyze_query(query, args)}

\* The parameters that came with the text play a part from here on.
Plan ==
  /\ verdict = "parsed"
  /\ outcome = None
  /\ parameters' \in Parameters
  /\ outcome' = planned(parser.query, parameters')
  /\ UNCHANGED vars

FrontNext == Parse \/ Plan

\* One thread runs a query, as in FoskParser.
FrontSpec ==
  FrontInit /\ [][FrontNext]_frontVars /\ WF_turn(verdict = "parsing" /\ turn' = ~turn)
-----------------------------------------------------------------------------
(* What the plans of accepted queries have in common.                      *)

accepted == outcome \notin {None, {}}
result_of == CHOOSE r \in outcome : TRUE

\* A plan and those of the subqueries in it.
RECURSIVE plans_in(_)
plans_in(plan) ==
  LET source(n) == IF n.op = "Join" THEN n.right ELSE n
      inputs == {source(plan[i]).input : i \in {i \in DOMAIN plan :
                   plan[i].op \in {"Subquery", "Join"} /\ source(plan[i]).op = "Subquery"}}
  IN  {plan} \cup UNION {plans_in(p) : p \in inputs}

\* The columns of the rows after node i.
RECURSIVE columns_after(_, _)
columns_after(plan, i) ==
  LET n == plan[i]
      scanned(s) ==
        IF s.op = "Scan"
        THEN IF s.backing \in DOMAIN Schemas
             THEN {Column(s.visible, f.name) : f \in ToSet(Schemas[s.backing])} ELSE {}
        ELSE {Column(s.visible, c.name) : c \in columns_after(s.input, Len(s.input))}
  IN  CASE n.op \in {"Scan", "Subquery"} -> scanned(n)
        [] n.op = "Join" -> columns_after(plan, i - 1) \cup scanned(n.right)
        [] n.op = "Aggregate" ->
             ToSet(n.keys) \cup {Column(None, n.names[c]) : c \in DOMAIN n.names}
        [] n.op = "Project" -> {Column(None, n.exprs[j].output_name) : j \in DOMAIN n.exprs}
        [] OTHER -> columns_after(plan, i - 1)

\* The expressions a node evaluates, and on which rows.
evaluated(n) ==
  CASE n.op = "Join"      -> ToSet(Analyzer!scalars(n.on))
    [] n.op = "Filter"    -> ToSet(Analyzer!scalars(n.predicate))
    [] n.op = "Sort"      -> {n.keys[j].expr : j \in DOMAIN n.keys}
    [] n.op = "Project"   -> {n.exprs[j].expression : j \in DOMAIN n.exprs}
    [] n.op = "Aggregate" -> ToSet(n.keys) \cup UNION {ToSet(c.args) : c \in DOMAIN n.names}
    [] OTHER -> {}

rows_of(plan, i) ==
  columns_after(plan, IF plan[i].op \in {"Aggregate", "Project"} THEN i - 1 ELSE i)

RECURSIVE parts(_)
parts(e) == {e} \cup (IF e.node \in {"Function"} THEN UNION {parts(x) : x \in ToSet(e.args)} ELSE {})
-----------------------------------------------------------------------------
(* Properties.                                                             *)

\* Three things the analyzer takes although no row has them: the columns of a subquery
\* that is called like a collection of the same FROM (its schema is looked up first),
\* and, in an ORDER BY that needs no aggregate, a qualified column and a call of one.
shadowed(plan) ==
  LET source(n) == IF n.op = "Join" THEN n.right ELSE n
      sources == {source(plan[i]) : i \in {i \in DOMAIN plan :
                                             plan[i].op \in {"Scan", "Subquery", "Join"}}}
  IN  \E s, u \in sources : s.op = "Scan" /\ u.op = "Subquery" /\ s.backing = u.visible

plain_sort(plan, i) == plan[i].op = "Sort" /\ \A j \in DOMAIN plan : plan[j].op # "Aggregate"

unchecked(plan, i, x) == plain_sort(plan, i) /\ x.collection # None

\* Every node of a plan finds the columns it evaluates in the rows it gets, and no
\* node that filters, sorts or projects has a call of an aggregate left, apart from
\* these three.
PlanCloses ==
  accepted =>
    \A plan \in plans_in(result_of.plan) : \A i \in DOMAIN plan :
      \A x \in UNION {parts(e) : e \in evaluated(plan[i])} :
        /\ x.node = "Column" =>
             x \in rows_of(plan, i) \/ shadowed(plan) \/ unchecked(plan, i, x)
        /\ plan[i].op \in {"Filter", "Sort", "Project"} =>
             ~Analyzer!is_aggregate(x) \/ plain_sort(plan, i)

\* No column of a result, of a subquery's too, takes the name of another.
OutputNames ==
  accepted =>
    \A plan \in plans_in(result_of.plan) : \A i \in DOMAIN plan :
      plan[i].op = "Project" =>
        IsInjective([j \in DOMAIN plan[i].exprs |-> plan[i].exprs[j].output_name])

\* A query as it was parsed and as it was analyzed, with the subqueries in it.
RECURSIVE with_subqueries(_, _)
with_subqueries(q, a) ==
  LET parsed == q.collections \o [i \in DOMAIN q.joins |-> q.joins[i].collection]
      analyzed == a.sources \o [i \in DOMAIN a.joins |-> a.joins[i].source]
  IN  {<<q, a>>} \cup UNION {with_subqueries(parsed[i].query, analyzed[i].query)
                             : i \in {i \in DOMAIN parsed : parsed[i].node = "Query"}}

calls_in(clause) ==
  UNION {ToSet(Analyzer!collect_aggregates(e)) : e \in ToSet(Analyzer!scalars_of(clause))}

\* Folding has taken the last call of an aggregate from a HAVING for which there was no
\* other reason to aggregate.
folded_away(q, a) ==
  /\ calls_in(q.having) # {} /\ calls_in(a.having) = {}
  /\ a.group_by = <<>>
  /\ \A i \in DOMAIN a.projection : ~Analyzer!contains_aggregate(a.projection[i].expression)

\* What an expression is made of; above Aggregate a column without a collection stands
\* for the calls of that name.
RECURSIVE made_of(_)
made_of(e) ==
  CASE Analyzer!is_aggregate(e) -> <<{Analyzer!call(e)}>>
    [] e.node = "Function" /\ ~Analyzer!is_aggregate(e) ->
         FlattenSeq([i \in DOMAIN e.args |-> made_of(e.args[i])])
    [] OTHER -> <<{e}>>

made_above(e, names) ==
  LET called(x) == IF x.node = "Column" /\ x.collection = None
                   THEN {c \in DOMAIN names : names[c] = x.name} ELSE {x}
  IN  [i \in DOMAIN made_of(e) |-> called(CHOOSE x \in made_of(e)[i] : TRUE)]

\* HAVING filters what comes out of Aggregate, before anything else does, and each column
\* it reads there is the result of the call in its place; this of subqueries too.  It is
\* lost only with the aggregate that was the reason for Aggregate.
HavingPlanned ==
  accepted =>
    \A pair \in with_subqueries(parser.query, result_of.analyzed) :
    \A plan \in Analyzer!from_analyzed(pair[2]) :
      LET having == pair[2].having IN
      \/ having = None
      \/ folded_away(pair[1], pair[2])
      \/ \E i \in DOMAIN plan :
           /\ plan[i].op = "Aggregate"
           /\ plan[i + 1].op = "Filter"
           /\ LET wanted == Analyzer!scalars(having)
                  filtered == Analyzer!scalars(plan[i + 1].predicate)
              IN  /\ Len(filtered) = Len(wanted)
                  /\ \A k \in DOMAIN wanted :
                       made_above(filtered[k], plan[i].names) = made_of(wanted[k])

RECURSIVE placeholders(_), out_of_order(_)

\* The places of the placeholders in expressions, and in the subqueries of sources.
in_exprs(es) == UNION {{x.where : x \in {x \in parts(e) : x.node = "Parameter"}} : e \in es}
in_sources(cs) == UNION {placeholders(c.query) : c \in {c \in cs : c.node = "Query"}}
in_on(q) == UNION {in_exprs(ToSet(Analyzer!scalars(j.predicate))) : j \in ToSet(q.joins)}
in_select(q) == in_exprs({i.expression : i \in ToSet(q.projection)})
subqueries(q) == ToSet(q.collections) \cup {j.collection : j \in ToSet(q.joins)}

placeholders(q) ==
  in_select(q) \cup in_sources(subqueries(q)) \cup in_on(q)
  \cup in_exprs(ToSet(Analyzer!scalars_of(q.criteria)) \cup ToSet(Analyzer!scalars_of(q.having))
                \cup {k.expr : k \in ToSet(q.order_by)})

\* The binding of parameters leaves the order of the text: a condition of a join is
\* analyzed before SELECT, and a subquery starts with the first parameter.
out_of_order(q) ==
  \/ in_on(q) # {} /\ in_select(q) # {}
  \/ in_sources(subqueries(q)) \notin {{}, placeholders(q)}
  \/ \E c \in subqueries(q) : c.node = "Query" /\ out_of_order(c.query)
  \/ \E c, d \in subqueries(q) : c # d /\ in_sources({c}) # {} /\ in_sources({d}) # {}

in_place(bound) == \A i \in DOMAIN bound : bound[i][1] = bound[i][2]

\* The n-th placeholder of the text gets the n-th parameter, each one once.
ParametersInOrder ==
  accepted /\ ~out_of_order(parser.query) =>
    LET bound == result_of.analyzed.ctx.bound IN
    in_place(bound) /\ Len(bound) = count(text, "?")

\* The same of every query, as Db::query_with_args has it.
ParametersInPlace == accepted => in_place(result_of.analyzed.ctx.bound)

\* The placeholders that stand for a value of a list of IN, in conditions of rows.
RECURSIVE tests_of(_), in_lists(_)

tests_of(p) == IF p.node = "Test" THEN {p} ELSE UNION {tests_of(x) : x \in ToSet(p.items)}

in_lists(q) ==
  LET conditions == {j.predicate : j \in ToSet(q.joins)} \cup ({q.criteria} \ {None})
      lists == {Tail(x.operands) : x \in {x \in UNION {tests_of(p) : p \in conditions} : x.test = "IN"}}
  IN  {x.where : x \in {x \in UNION {ToSet(l) : l \in lists} : x.node = "Parameter"}}
      \cup UNION {in_lists(c.query) : c \in {c \in subqueries(q) : c.node = "Query"}}

is_scalar(v) == v.ty \in Analyzer!ScalarTypes

\* The n-th placeholder takes the n-th value: one value, or a list of them where it
\* stands in a list.
takes(q, n, v) ==
  \/ is_scalar(v)
  \/ /\ v.ty = "Array" /\ \A i \in DOMAIN v.items : is_scalar(v.items[i])
     /\ n \in in_lists(q) /\ ~out_of_order(q)

\* A text of SQL as documented is planned, unless a placeholder has no parameter or one
\* that it cannot take.
Accepted ==
  (verdict = "refused" \/ outcome = {}) /\ text \in WellFormed =>
    /\ verdict = "parsed"
    /\ LET values == IF parameters.ty = "Array" THEN parameters.items ELSE <<parameters>>
       IN  \E n \in 1..count(text, "?") : n > Len(values) \/ ~takes(parser.query, n, values[n])
=============================================================================
