# A TLA+ model of fosk

fosk is an in-memory document database in Rust: collections of JSON documents
with generated or caller-managed ids, schemas inferred from the documents,
references between collections that rows are expanded along, and SQL SELECT
over all of it. A `Db` is shared between threads behind `RwLock`s; nothing is
persisted except on request.

This directory models the code at the level where its control lives: which
operation changes what, in which order, under which lock. Paths below are
relative to `src/src/`; `DC` is `database/db_collection.rs`, `DB` is
`database/db.rs`, `RC` is `database/schema/reference_column.rs`, `PE` is
`executor/plan_executor.rs`.

## 1. Inventory

| Component | State | Operations | What makes it correct | Modelled in |
|---|---|---|---|---|
| Collection (`InternalMemoryCollection`, `DbCollection`) | `HashMap` from id text to document | add, add_batch, update, update_partial, delete, clear, load | keys and ids agree, nothing is lost to an insert | `FoskCollection` |
| Id generator (`IdManager`) | last id, or the v4 generator | next, set_current | a generated id is free | `FoskCollection` |
| Schema inference (`SchemaDict`, `FieldInfo`) | columns with type and nullability | merge per document, load | it describes what was written, it only widens | `FoskCollection` |
| Locks of a shared `Db` | one `RwLock` for the registry, one for the reference manager, one per collection | every public call | no deadlock, every call returns | `FoskLocks` |
| Registry (`InternalDb`) | collections by lower-case name | create, drop, clear, loads | loads leave the references they promise | `FoskReferences` |
| References (`DbReferences`) | entries per collection and column | create_reference, infer_reference, infer_all_references | both sides or none, found by what follows them | `FoskReferences` |
| Row expansion (`expand_object`) | none | expand_row, expand_list | joins along references, whatever a `HashMap`'s order | `FoskExpansion` |
| Predicates (`PredicateResolver`, `Eval`, `Truth`) | the tree, then the folded tree | fold, evaluate, filter | folding does not change the rows selected | `FoskPredicate` |
| Planner and executor (`PlanBuilder`, `PlanExecutor`) | the plan, the rows between nodes | the nodes of `LogicalPlan` | the answer is SQL's, whatever order rows come in | `FoskQuery`; plans of subqueries in `FoskAnalyzer` |
| Aggregate functions | accumulators | update, finalize | as above | `FoskQuery` |
| Analyzer (`AnalysisContext`, resolvers) | collections in scope, position among the parameters | name resolution, parameters, ORDER BY, aggregate rules | parameters and names mean what the text says, the plan finds its columns | `FoskAnalyzer` |
| SQL parser (`QueryParser` and `parser/ast`) | position and clause | one loop per clause | it ends, and the tree is that of the text | `FoskParser` |
| Saving (`write_to_file`, `load_from_file`) | a file | write, load, restart | a load restores what was saved | `FoskStorage` |
| Schema files (compact schemas) | none | parse, validate, apply | a bad one changes nothing more | `FoskCompactSchema` |
| Scalar functions | none | | | when they are called |
| Example program | none | | | not modelled |

How they interact: a client calls `Db` or a `DbCollection` it got from it. A
query goes parser, analyzer (which asks `Db` for schemas), planner, executor
(which asks `Db` for collections and schemas again); no lock is held from one to
the next. A reference call holds the manager's write guard while it asks `Db`
for schemas; an expansion holds the guard of its collection while it asks for
references and for another collection's rows. A schema load changes collections
under the registry's write guard, drops it, then infers references pair by pair.

What is hard here: calls that span several locks or several guards of one lock
(queries, reference calls, schema loads, expansions); a batch that stops in the
middle; ids that clients and the generator both choose; three-valued logic
evaluated at two times by two pieces of code; iteration over `HashMap`s, whose
order changes from run to run; a hand-written parser whose loops decide by words
that may also be names; parameters counted in the order the analyzer visits the
clauses; a file that is emptied before it is written. `PROJECT.json` lists each hazard at its line,
with the properties that cover it.

## 2. The modules

Each component has a module with its state, one action per operation and its
properties; a module `MC...` with the small inputs TLC runs on; and, where
something is proved, a module `..._proofs` (the proofs about FoskReferences are with
those about FoskExpansion, which extends it). `DocumentStore` is an abstract
specification; `FoskLemmas` has the lemmas about finite sets, folds, orders and
flattened sequences that several proofs cite and that say nothing of fosk.

### FoskCollection

`docs`, `schema`, `current` (IdManager.current) and `fresh` (the UUIDs not yet
produced) are the fields of the struct; `inBatch` and `maxId` are the loop of
`add_batch` in progress. Every public operation holds the lock from start to
end, so each is one action; the batch's loop body is `BatchItem`, so that
batches have any length, and `inBatch` keeps everything else out as the write
guard does. `BatchItem` merges the schema first, as the code does (DC:543), so
that a refused item changes it too. A value is its JSON type and the text it
would have as an id; `id_value` and `is_u64` are the conversions between ids and
JSON. `next` is IdManager::next with its wrap at `MaxId`, for `u64::MAX`.

FoskCompactSchema says what a compact schema means (`parse_compact_schema`) and
which ones a collection takes (`apply_schema_to_collection`): an ID marker must be
the collection's own configuration (`DbConfig`). MCCollection loads what it lets through of
twelve texts, most of them wrong in one way.

`DocumentStore` is what a collection promises: every step concerns one document
or removes all, a document comes into being under its own id, an object keeps
its id field. `ImplementsStore` states the refinement.

### FoskStorage

FoskCollection and the file of one collection. `CreateFile` empties it and holds
no lock, `WriteRows` follows at any time: writes, loads and the end of the process
come between them. `LoadFromFile` clears the rows, `LoadItem` is the batch loop
over the rows in the file's order, which was that of a `HashMap`. `Restart` opens
the collection anew. The id strategy is chosen at the start and stays, so that one
specification covers the three kinds of collections. A file remembers the documents it was written from, as
history.

### FoskLocks

A call is the sequence of stacks of guards it passes through, read off the
lexical scopes of the code. `Acquire`, `Park` and `Drop` are std's `RwLock`;
with `ReadersQueue` a reader waits behind a parked writer, which is what the
futex implementation does and what makes a second read guard on one lock
dangerous. Each client makes one call: locks remember nothing of calls that
have returned, so any set of calls in progress together is covered. The
collections a call names exist; a failed lookup takes fewer guards. A call that
makes other calls is the concatenation of theirs: `load_schema` is `get_config`
and then `set_schema`.

### FoskReferences

A collection is the set of its schema's columns. A reference call (`call`) holds
the manager's write guard from its first lookup to its answer, so there is one
at a time; each lookup takes the registry's read guard for itself and is an
action (`Get`, `LookUpFirst`, and `RegisterForward`, `RegisterInverse` or
`Refuse`), between which the registry may change. `pending` is what
`infer_all_references` has left after a load. `Names` contains other spellings
of the collections (`Lower` is `to_ascii_lowercase`), since references are filed
as spelled and collections are not. `expansions` is which columns `expand_object`
joins. `disturbed` and `settled` are history: whether a collection or
column went away since the call began, whether the registry has changed since
the last load.

### FoskExpansion

The answers of `expand_row` in a state of FoskReferences: the set of all it may
return, over every order of the references (`SetToSeqs` in `expand_object`), with
the object changed from entry to entry as in the code (`visit`, `follow`). The
code calls itself on the rows it finds with the rest of the chain; here `answers[n]`
has what the last n names of the chain make of every row, so that the recursion is
over the length of the chain. `expansions_of` is the reference definition, built the
same way from `joins`, which knows no entries and no order. It adds no action, because an
expansion changes nothing; it waits for the reference manager's guard, so the
property is about states in which no reference call is in progress.

### FoskPredicate

A predicate, folded once by the analyzer (`Fold`) and evaluated once on a row
(`Filter`). Trees are two levels of AND and OR over atoms. Operands of AND and
OR are sets; `AnyOrder` says that the pairwise folds of the code give the truth
of the set in any order and with repetition. The two
comparisons, with tolerance among literals (`Near`) and exact in rows, are
separate operators as in the code; so are the two equalities of IN.

### FoskQuery

`from_analyzed` lays out the nodes of the plan in the order the executor runs
them; each node is one step (`Scan`, `Join`, `Filter`, `Aggregate`, `Sort`,
`Project`, `Limit`). Between any two nodes others may write a document or drop a
collection. A scan yields the documents in any order, and groups come in any
order: `SetToSeqs` in `Scan` and `Aggregate`. NULL extension takes its columns
from the schemas at the time of the join, as `keyset_for_side` does. The
accumulators are values and `Failed` is their `Err`: `accumulate` feeds them the
values of a group (`args`, each `once` under DISTINCT) and `finalize` takes the
result. AVG's quotient is kept as sum and count. `holds` says whether a predicate
is true of a row; what it makes of the values of the columns it names (`Reads`) is
the constant operator `Holds`, as predicates are the subject of FoskPredicate.

The reference (`SqlRows` and what it is built from) is SQL over sets, of a query
and the rows scanned: joins as set comprehensions over complete rows, groups as
sets of rows, aggregates as sums and cardinalities of sets. `blamed` says which
calls may fail on which rows. Joins, groups, aggregates, NULL in an order and the window of
a sort are defined anew. What both sides use is how columns and aggregates are named,
how one row is read, filled in and projected (`eval`, `gb_vals`, `merge_objs`,
`project`), what a predicate makes of a row (`holds`), the comparison of two values,
the bounds of the window, when a query aggregates, the test for NULL and the width of
an integer: an error in one of these would not show in `ResultIsSql`.

Between two nodes others write or delete a document, create a collection, in place
of another or not, or drop one.

### FoskParser

A text is a sequence of tokens (a word, a number, a string, a sign, a blank),
with the end of the text as a delimiter. A parser has the fields of `QueryParser`
(`position`, `phase`) and those of the loop it is in: `clause`, `can_consume`,
the levels of an open predicate (`groups`), the join being read. `parsers` is a
stack: a subquery in FROM is cut out of the text and parsed by a parser of its
own. Each turn of a loop is an action (`ProjectionTurn`, `CollectionsTurn`,
`JoinTurn`, `PredicateTurn`, `GroupByTurn`, `OrderByTurn`, `LimitTurn`), which
flips `turn`, so that a turn that changes nothing is still a step and a loop that
makes no progress is a behaviour without an end. `check_next_phase`, `compare`
and the word lists are operators of those names. Expressions and arguments are
read by one turn (`scalar`, `ArgsExpr`); a literal by the parser of its kind
(`NumberParser`, `StringParser`, `BoolParser`, `NullParser`, `ParamParser`). The
code's `ScalarExpr::parse` and `ArgsExpr::parse` call each other. Here
`ScalarExpr` is given `lists`, what the loop of arguments makes of the text from
each position on, and `args_lists` has these tables after each number of turns of
that loop: a turn uses up a token or ends the loop, so as many turns as the text
has tokens give all lists.

`to_do` weighs what a parser has before it: first the text that is left, then the
phases to come, then what its clause has begun. `TurnsAdvance` says that the sum
over all parsers under way (`work`) shrinks with every turn.

FoskSql writes the query of an accepted text down as SQL again (`words_of_query`)
and states `Faithful`, which reads the text from left to right against it
(`spells`), with what the code forgets in it left out.

### FoskAnalyzer

The analyzer and the planner as operators, one for each function of the code and
in the order `analyze_query` calls them: sources, joins, projection, predicates,
groups, folding, the rules for aggregates, ORDER BY. Each step takes the query
analyzed so far, with its context (the collections in scope, the number of
parameters taken), and returns a set: one result, or none for an `AnalyzerError`.
Every parameter bound is noted with the place of its `?`, as history.
`from_analyzed` returns the plan as a sequence of nodes, with the plans of
subqueries inside.

### FoskFrontEnd

`Db::query_with_args` up to the plan: FoskParser (with FoskSql), then `Plan`, which analyzes what
was parsed with any of the parameters. Its properties relate the text, the tree,
the analyzed query and the plan.

## 3. The runs

| Run | Instance | What it shows |
|---|---|---|
| `Collection_Int` | ids 0..2, 7 items, 12 schema texts | `IInv`, `AdvanceIsFresh`, `NewKeysMatchIds`, `SchemaOnlyWidens`, `WritesAreDescribed`, `ImplementsStore`; 228,000 states |
| `Storage` | one collection of each id strategy, chosen at the start, and its file | `LoadRestores`, `LoadIsAhead`, and for ids as numbers and texts and for reused UUIDs `InsertNeverReplaces`, `ImplementsStore`; 249,000 states |
| `Collection_AddLoses` | as `Collection_Int` | violation: `AddNeverReplaces` |
| `Locks` | two clients on two collections, fair | `LockOrder`, `NoDeadlock` for all calls that keep the order, `CallsReturn` |
| `Locks_Expand` | an expansion and a schema load | violation: `NoDeadlock` |
| `References` | two collections, one with a second spelling; rows and chains | `IInv`, `LoadInfersAll`, `ExpandsAlongReferences`, `ExpansionJoins`, `HalfOnlyIfDisturbed`, `GrantedBothWays`, `GrantedIsFollowed`; 442,000 states |
| `References_Inverse` | three collections, two that refer to the third | violation: `InverseStays` |
| `Predicate` | about 20,000 pairs of a predicate and a row | `FoldKeepsDecided`, `FilterIsExact`, `AnyOrder` |
| `Predicate_Fold` | as `Predicate` | violation: `FoldMirrorsEval` |
| `Query` | 43 queries, 5 pairs of tables, one write, deletion, creation or drop | `ResultIsSql`, `FailsForCause`; 167,000 states |
| `FrontEnd` | 1,994 texts, five kinds of parameters | `IInv`, `TurnsAdvance`, `Returns`, `Faithful`, `Accepted`, `PlanCloses`, `OutputNames`, `HavingPlanned`, `ParametersInOrder`; 46,000 states |
| `FrontEnd_Parameters` | as `FrontEnd` | violation: `ParametersInPlace` |

Why the bounds are enough to be of interest:

- Ids 0..2: the generator reaches the largest id, wraps to 0 and meets stored
  documents; a batch can move it up and down. Two fields tell the id field from
  another one.
- Two clients on two collections: each can hold what the other waits for, and the
  collections are the pair infer_all_references works on. No run has a third client:
  `GuardsInOrder` and `DeadlockFree` are proved for any number of both.
- A file, its writer, a loader and a process that ends need one of each; two
  documents are enough for every order of a file, and the ids in it go up and down.
- Two collections have references each way, to themselves, through the same
  columns in both directions, two at once, and under a second spelling. Chains of
  two names return to the collection they started from.
- Predicates: every kind of atom over a literal of every type, NULL, a column
  and a call of either; AND and OR over constants of all three truths and over
  atoms that depend on the row.
- Queries: the four joins with matched, unmatched and NULL keys; a self join; a
  join of three; totals of nothing; a sum beyond the largest integer (MaxInt = 7)
  and one of two kinds of numbers; groups of NULL; HAVING; two sort keys with
  ties and NULLs in both directions; windows with negative bounds and past the
  end. One write is enough to fall into every gap between two nodes.

- Texts: the product of 5 SELECT lists, 3 FROMs (one a subquery with a
  parameter), 3 JOINs, 3 WHEREs and 3 endings, and one of 5 kinds of aggregate
  queries with the FROMs, JOINs and WHEREs; 45 texts that try one rule each, most of
  them one the code gets wrong; and three long texts, which between them have every
  clause and are planned as they stand, with one token left out, doubled, or replaced
  by a comma, a dot or a parenthesis, or AND by OR. The products and the long texts
  are SQL as the documentation has it (`WellFormed`), of which `Accepted` says that
  it is planned. Parameters are a number, an object, an empty list, a list in a list,
  and a list of four values of three types.

`Faithful` compares the words of the text with those of the tree, written out
again in the order of the clauses. What it lets pass is layout (`is_layout`: blanks,
optional AS, INNER and ASC, a comma before a parenthesis, parentheses around one
test, GROUP BY without columns) and what the code is known to forget: a LIMIT or
OFFSET that another one of its level replaces (`windowed`), a word in front of a star
and the name that is missing after a dot (`solid`), the NOT of NOT LIKE, the DISTINCT of a list of IN and a connective that is
not between two tests (`is_lost`). The connective of a level is AND if one of
its connectives is, and OR otherwise (`of_level`). Section 5 has all of these.

`PlanCloses`, `HavingPlanned`, `ParametersInOrder`, `TurnsAdvance` and `Returns` also
name the queries the code gets wrong, in definitions of their own next to them
(`shadowed`, `plain_sort` and `unchecked`; `folded_away`; `out_of_order`; `Stuck`).
`Accepted` excuses a text with a parameter missing or of a kind that its `?` does not
take; a list of values must be taken by a `?` in a list of IN, in WHERE and in ON, and
parameters beyond those that the text has are no excuse.

Deadlock checking is off where the system stops: a query that has answered, a
filter that has decided, clients that have made their call. It is on in `FrontEnd`,
where it shows that the parser has a turn in every state that is not an answer.

**Fairness.** `Locks` assumes weak fairness of each client's next step: threads
are scheduled, and a thread that is woken gets its lock if nobody holds it or is
queued before it. Since each client makes one call, the run does not show that a
writer survives an endless stream of readers, which std does not promise.
`FrontEnd` assumes weak fairness of the parser's turns: one thread runs them and
waits for nothing.

## 4. What is proved

For every value of the constants, by tlapm:

- **`FoskCollection_proofs`.** `Invariance`: `Spec => []IInv`. `TypeOK` alone is
  not inductive: that a row keeps its id needs that update puts it back, that
  the generator agrees with `maxId` needs that both are reset together, that a
  new UUID names no document needs `FreshUnused`, and that keys of an Int collection stay numbers
  needs `IntKeysOnly`. From it: `TypeCorrect`, `RowsAlwaysCarryId`,
  `BatchKeepsGenerator`, `KeysMatchIds`, `SchemaWidens`, `WritesDescribed`,
  `AdvanceFresh`, and `Refinement` to `DocumentStore` (initial
  states map to initial states, each action to a step or a stutter). The lemmas are
  about `Step`, which is an operation on any items and not those of `Supplied`,
  since a load from a file adds rows that are no client's.
- **`FoskStorage_proofs`.** `StorageInvariance`: `StorageSpec => []SInv`, where
  `SInv` is `IInv` of the collection and says of a file that its rows are the
  documents it remembers in some order, and of a load (`Loaded`) that after n rows
  the collection holds the documents of the first n keys of that order and no
  other, with the generator on the largest numeric id among them. From it:
  `StorageTypeCorrect`, `LoadsRestore`, `LoadsKeepAhead`, `InsertsAreSafe`, and
  that `WritesAreDescribed` and the refinement hold also with saves, loads and
  restarts (`LoadedDescribed`, `StorageRefinement`).
- **`FoskLocks_proofs`.** `GuardsInOrder` and `DeadlockFree`, for any number of
  clients and collections and either kind of lock, from the assumption that the
  calls are `OrderedCalls`. The invariant says that what a client holds and what
  its path still passes through is ordered; then among any set of clients that
  wait for each other the one that waits for the lock of the highest rank has
  nobody in the set to wait for.
- **`FoskExpansion_proofs`.** Of FoskReferences first: `Invariance` for an `IInv`
  that says of a call in progress that its first side is filed, that the columns it
  has seen are still there unless something was lost, and that a pair which a load
  owes a reference is pending or being inferred. From it `RefusedBefore`,
  `TrueMeansBoth`, `LoadsInfer`, `ExpansionsFollow` and `GrantedFollowed`. Of
  FoskExpansion, `ExpansionsJoin`, for chains of any length over any rows and
  references. A collection has finitely many entries in every reachable
  state, so that the orders of `SetToSeqs` exist. At one name of a chain every
  object is the row, or the row with an array under that name: entries read
  columns, and no collection has the name of a column (`RowsAssumption`), so that
  no entry finds what another has put there. In any order, once an entry that
  leads somewhere is visited the object has an array, and later entries replace it
  by theirs. The names of the chain follow by induction from the last.
- **`FoskPredicate_proofs`.** `FoldingKeepsDecided` and `FilteringIsExact`, for
  any predicates of two levels over any columns and values, by lemmas from
  scalars to atoms to groups. They assume `Apart`: no two different numbers are
  within the tolerance of `float_eq`. Without it the statements are false (see
  section 5). `OrderIsImmaterial`: the truth of AND and of OR is the fold of the
  truths in any sequence that has all of them.
- **`FoskQuery_proofs`.** `QueryTypeCorrect`, `JoinsAreSql`, `FailuresHaveCause`
  and `ResultsAreSql`, for any queries over any number of sources, any documents and
  any number of writes between the nodes. The invariant ties the node that runs to
  the sources scanned so far (`Scanned`) and the rows to SQL's joins of these
  sources (`RowsJoined`, `RowsFiltered`): `Complete` maps the rows one to one
  onto the set of SQL's. Two rows of a scan differ in their id, so that after a
  join two rows differ on one side; what a row lacks is NULL in its `Complete`
  form, so that it does not matter of which schemas, old or new, NULL extension
  took its columns. An aggregate then fails only if some value of some group
  makes an accumulator fail (`GroupFails`), which needs two values of different
  kinds or one that is no number.
  `ResultsAreSql` goes on to what the query returns (`AInv`: `IInv` and, by node,
  `Stages`). By induction over positions, an accumulator has the value that SQL
  gives to the non-NULL values met so far; these are, one to one, the elements that
  SQL's COUNT, SUM, AVG, MIN or MAX ranges over, rows or, with DISTINCT, values. So
  the groups are `SqlGroups`, each once. The keys of ORDER BY make a weak order of
  rows, averages compared as quotients; `sort_by` keeps equal rows in their order,
  so that it puts a row at the place that counts the rows before it, and a
  window of places is a window of SQL's answer. Where HAVING is dropped (section
  5) nothing is claimed of the result.
- **`FoskParser_proofs`.** `ParserInvariant`, `ParserTypeCorrect`,
  `ParserTurnsAdvance` and `ParserWorkBounded`, for any texts of any length and any
  depth of subqueries. The assumptions are that a text is a sequence of its tokens
  and that the mark of its end is no literal. `TypeOK` is not inductive: that a turn
  leaves the position in the text needs that every operator that reads (a word,
  an expression, a list of arguments, a test, a key) ends no earlier than it
  begins, and that a keyword is jumped over only where it stands; that the work
  shrinks needs that a clause that has not ended is the clause of its phase, and of
  a parser below another one that it still waits for a collection, which makes it go
  on when the subquery ends. `PInv` says this of the stack, and implies `IInv`, which
  the run checks. A turn then uses up a token, or enters a later phase, or ends
  something that had begun (`lower`), which is less in the weights of `to_do`; a
  subquery's text is paid for by the parentheses it stands in. The one turn that
  leaves as much to do is `Stuck` (section 5). With `ParserWorkBounded` this is why
  every other text has an answer; that the parser takes its turns is fairness, which
  only `Returns` states. The tables of `args_lists` are a recursive function over
  the number of turns, proved by induction over that number with the lemmas of
  `FoskLemmas`.
- **`FoskLemmas`.** Induction over numbers and over sets of positions, folds over
  sequences as functions of sets of positions, the range and the distinctness of
  concatenated and flattened sequences, the sequences of a finite set, sums that
  do not depend on an order, and where a stable sort by a weak order, a
  lexical one for instance, puts each element.

The proofs use no assumption but those the modules state of their constants (TLC
evaluates these in every run) and, in `FoskPredicate_proofs`, `Apart`.

Model-checked only:

- `CallsReturn` and `Returns`, which are liveness. What each rests on is proved:
  nobody waits in a circle (`DeadlockFree`), and a turn leaves less to do
  (`ParserTurnsAdvance`).
- `Faithful`: writing a query down again is recursive as the tree is
  (`words_of_query`, `words_of_predicate` in FoskSql), and the prover takes no module
  with RECURSIVE operators and no induction over trees.
- `PlanCloses`, `OutputNames`, `HavingPlanned`, `ParametersInOrder` and `Accepted`,
  for the same reason: FoskAnalyzer is recursive over expressions, predicates and
  subqueries. `Accepted` is about the texts of the run in any case.

## 5. Divergences

Found while modelling. The first five are shown by a run.

- **A generated id can hit a stored document.** The first numeric id of a batch
  sets the generator even if it is lower (DC:562), and add inserts without
  looking: `Collection_AddLoses`. `AdvanceIsFresh` says exactly when it cannot.
- **An expansion and a schema load deadlock.** expand_row holds its collection
  and asks for the registry (DC:1478), the load holds the registry and asks for
  the collection (DB:544): `Locks_Expand`. The same happens in
  `schema_with_refs_of` (DB:989), which takes a second read guard on the registry
  under the first, when a writer parks in between: `Locks_Expand` with
  `Calls <- SchemaAndCreate` and `ReadersQueue = TRUE` shows it.
- **The inverse of a reference is overwritten** by the next collection that
  refers to the same column (RC:182): `References_Inverse`.
- **Folding forgets an unknown operand of AND** when another operand depends on
  the row (`predicate_resolver.rs:28`): `Predicate_Fold`. In a WHERE this keeps
  rows of which the predicate is unknown; `FilterIsExact` bounds it to that.
- **Parameters are not bound in the order of the text.** The conditions of joins
  take theirs before SELECT (`analysis_context.rs:183`, 206), and a subquery
  counts from the first again (348), as does the query around it:
  `FrontEnd_Parameters`. `ParametersInOrder` holds of queries without these two.

Others, kept out of the properties or stated by them as they are:

- `add` replaces an id the item carries (DC:490), where DC:1008 says an id is
  generated when it is absent; a batch with generated ids replaces stored documents silently
  (DC:578); README.md:134 expects `add(...).is_none()` though it returns a Result.
- add_batch merges an item into the schema before it generates its id (DC:543),
  so the id column becomes nullable, against README.md:380.
- A schema load that lost a column between the two sides of a reference leaves
  half of it (RC:75); `HalfOnlyIfDisturbed` says that this is the only way.
- References are filed under the name as spelled (RC:72), while collection names
  are case-insensitive (README.md:154): under another spelling they are never
  found.
- `outbound_refs` holds the entries in which the collection is referred to
  (`schema_dict.rs:184`), the reverse of its comment (`schema_dict.rs:142`).
- Expanding a collection into itself also follows references to others (DC:429),
  and a chain a.b.a reads a again (DC:419). A reference of a collection to itself
  is only ever expanded to the rows that refer: the rows referred to are put under
  the same key first and replaced (DC:425).
- If two references lead from one collection to another, an expansion shows the
  rows of one of them, whichever the `HashMap` yields last (DC:425).
- A save empties the file before it takes the documents (DC:1413): the process may
  end with neither the old nor the new content. `update` stores a document under
  a key that is not its id (DC:629), and a file with such a document does not load
  as it was saved; `LoadRestores` is about all others.
- Two floats within the tolerance of `literal_resolver.rs:9` are equal as
  literals and different in a row.
- HAVING without GROUP BY is accepted for its aggregate and then folded; if
  folding takes the last aggregate and SELECT has none, the planner leaves HAVING
  out (`plan_builder.rs:60`), whatever else is left of it: `SELECT 1 FROM t HAVING
  COUNT(*) > 1 AND 1 = 2` returns rows, and so does one with `COALESCE(1, 2) = 1 AND
  (COUNT(*) > 1 OR 1 = 1)`, where COALESCE is not folded. `HavingPlanned` says that
  HAVING is lost in no other way (`folded_away`; `having_dropped` in FoskQuery).
- SUM fails or not, for integers and floats together, depending on which the
  `HashMap` yields first (`sum_impl.rs:76`); MIN and MAX fail on them, against
  the comment in `minmax_impl.rs:93`; an integer sum wraps (`sum_impl.rs:108`).
- ON after a collection in FROM never returns: the loop of
  `collections_parser.rs:18` neither consumes nor refuses it (`Stuck` in
  FoskParser). DB:765 promises an error when parsing fails.
- NOT LIKE is parsed with `negated: false` (`parser/ast/predicate.rs:118`; a test
  there asserts it), and a chain that mixes AND and OR becomes AND (163).
- A predicate cannot begin with a parenthesis, so `WHERE (a = 1)` is refused, and
  so is `IS NULL)` in a group: it must be followed by a blank or the end
  (`query_comparers.rs:88`).
- A connective may be missing, stand twice or end a predicate; none may follow a
  group, so that `a = 1 AND (b = 2 OR c = 3) AND d = 4` is refused, and
  is accepted without the second AND (`parser/ast/predicate.rs:151`).
- A second LIMIT or OFFSET replaces the first (`limit_offset_parser.rs:18`). A word in
  front of a star is dropped: `SELECT a*` is `SELECT *`. DISTINCT in a list of IN is
  forgotten in HAVING. GROUP BY without columns is accepted; so is AS without an
  alias, for an empty one, and FROM without a name, for a collection with an empty
  one; a name that is missing after a dot is its collection's. INNER with two blanks before JOIN is read as an alias.
- ORDER BY keeps a call of an aggregate if nothing else in the query needs one
  (`order_by_resolver.rs:98`): `SELECT a FROM t ORDER BY COUNT(a)` is planned without
  an Aggregate, and every key is NULL (`eval.rs:47`). `plain_sort` in FoskFrontEnd.
- IN (?) with a list is refused in HAVING, where DB:761 allows it.
- COALESCE is typed (`type_inference.rs:78`) and always evaluates to NULL, as
  `eval.rs:42` knows no function of several arguments.
- The schema of a subquery called like a collection is used for that collection
  too (`analysis_context.rs:72`), and an ORDER BY column with a collection is not
  looked up when no aggregate is needed (`order_by_resolver.rs:95`): `shadowed`
  and `unchecked` in FoskFrontEnd.
- ORDER BY 1 of `SELECT 2, COUNT(*)` is taken as a position twice
  (`plan_builder.rs:295`) and sorts by the count. An alias in ORDER BY is compared
  with its case in one of the two resolvers only.
- Aggregates in ON and in the arguments of aggregates are accepted by the analyzer.
  Parameters that no `?` takes are ignored.

## 6. Limits

- Subqueries as sources and scalar expressions in SELECT are parsed, analyzed and
  planned, but FoskQuery does not execute them. Its documents are objects of
  scalar values (a scan skips what is no object).
- Lock poisoning, which needs a panic under a write guard, and I/O errors are
  left out. So are failed lookups in FoskLocks: they take a prefix of the guards.
- FoskReferences has one schema load with pairs left at a time, one id key for
  all collections, and collections created under their lower-case names. In
  FoskExpansion nothing changes during an expansion, and no column has the name of
  a collection.
- FoskStorage has one file of one collection and one writer at a time. The file of
  a whole `Db` is written collection by collection under the registry's guard
  (FoskLocks) and loaded as in FoskReferences.
- Floats are numbers in an order: no rounding, NaN or infinities.
- Texts of FoskParser have no two words or numbers next to each other without a
  delimiter, no signs, fractions or quotes inside strings, and ASCII only: the
  scanning of characters (`text_collector.rs`, `literals/`) is left out. So is
  `query_parser.rs:28`, which takes a length in bytes for one in characters.
- About seven in ten lines of this repository's `src/` are tests and documentation
  comments inside the source files. `PROJECT.json` maps the code with the declarations
  and comments that belong to it, no tests: three in ten of all lines.

Not modelled: the names taken from file paths (one string each), what the scalar
functions make of a text, error messages, and the example program.

## 7. Plan

Done, in this order: FoskCollection with DocumentStore (the data), FoskLocks (the
sharing), FoskReferences (the registry), FoskPredicate (the logic of WHERE),
FoskQuery (the executor), FoskStorage (the file), FoskParser, FoskAnalyzer and
FoskFrontEnd (from the text to the plan), FoskExpansion (the answers along
references).

Next:

1. FoskQuery: subqueries, and an abstract specification (answer SQL over
   one state of each source) that the executor implements.
2. FoskReferences: two loads at once, and an abstract relation of references that
   the manager implements where the slots are distinct.
3. FoskAnalyzer without recursive operators, as FoskParser has it now, to prove
   `OutputNames` and `ParametersInOrder`.
