----------------------------- MODULE FoskLocks -----------------------------
(***************************************************************************)
(* The read-write locks of a shared Db: one around the registry of         *)
(* collections (InternalDb), one around the reference manager              *)
(* (DbReferences) and one inside each collection.                          *)
(*                                                                         *)
(* A call of the public API is given by its path: the sequence of stacks   *)
(* of guards it passes through, innermost last, from the first guard it    *)
(* takes until it has dropped them all (guards live in lexical scopes, so  *)
(* they are dropped in reverse order).  What a call does under its guards  *)
(* is left to the modules of the components.  The collections named by a   *)
(* call exist: a failed lookup only skips the guard of the collection.     *)
(*                                                                         *)
(* Every client makes one call.  Locks keep no memory of calls that have   *)
(* returned, so what calls can do to each other shows in every set of      *)
(* calls that are in progress together.                                    *)
(***************************************************************************)
EXTENDS Integers, Sequences

CONSTANTS
  Clients,      \* threads that share an Arc<Db>
  Colls,        \* the collections, each with a lock of its own
  Calls,        \* the calls the clients may make
  ReadersQueue  \* a reader waits behind a parked writer (std's futex RwLock)

VARIABLES
  called,       \* the clients that have made their call
  guards,       \* the guards a client holds, innermost last
  path,         \* the stacks of guards the rest of its call passes through
  todo,         \* the pairs of collections its infer_all_references has left
  parked        \* the clients that sleep in read() or write()

vars == <<called, guards, path, todo, parked>>

Locks  == {"rm", "db"} \cup Colls
Guards == [mode : {"read", "write"}, lock : Locks]
Stacks == Seq(Guards)
Paths  == Seq(Stacks)
Pairs  == Colls \X Colls

ASSUME CollsAssumption == {"rm", "db"} \cap Colls = {}
ASSUME CallsAssumption == Calls \subseteq [path : Paths, todo : SUBSET Pairs]
ASSUME QueueAssumption == ReadersQueue \in BOOLEAN
-----------------------------------------------------------------------------
(* The paths of the API.                                                   *)

Read(l)  == [mode |-> "read", lock |-> l]
Write(l) == [mode |-> "write", lock |-> l]

\* body runs while guard g is held.
Under(g, body) ==
  << <<g>> >> \o [i \in 1..Len(body) |-> <<g>> \o body[i]] \o << <<>> >>

\* Db::get, list_collections, get_config.
read_db == Under(Read("db"), <<>>)

\* Db::create, create_with_config, drop_collection and clear; load_from_json
\* and load_from_file too: nobody else has the collections they create yet.
write_db == Under(Write("db"), <<>>)

\* get, get_all, get_paginated, exists, count, schema, get_name, get_config,
\* get_reference_column_name and write_to_file of a collection.
read_coll(c) == Under(Read(c), <<>>)

\* add, add_batch, update, update_partial, delete, clear, load_from_json,
\* load_from_file and set_schema of a collection.
write_coll(c) == Under(Write(c), <<>>)

\* load_schema_from_json of a collection asks for its configuration first.
get_config(c)  == read_coll(c)
set_schema(c)  == write_coll(c)
load_schema(c) == get_config(c) \o set_schema(c)

\* Db::write_to_json of the collections in HashMap order.
write_to_json(order) ==
  Under(Read("db"), [i \in 1..(2 * Len(order)) |->
                       IF i % 2 = 1 THEN <<Read(order[(i + 1) \div 2])>> ELSE <<>>])

schema_of(c) == Under(Read("db"), read_coll(c))

\* get_collection_refs and get_collection_column_ref drop the registry guard
\* before they wait for the reference manager.
get_collection_refs == read_db \o Under(Read("rm"), <<>>)

\* Both sides of a reference ask for both schemas.
create_side(c, ref) == schema_of(c) \o schema_of(ref)

infer_side(c, ref) ==
  read_db \o read_coll(ref) \o read_coll(ref) \o create_side(c, ref)

\* (mutant: the manager is locked through the registry guard)
reference_call_Nested(side) ==
  {Under(Read("db"), Under(Write("rm"), side \o other)) : other \in {<<>>, side}}

\* create_reference and infer_reference: the second side only after the first
\* has succeeded.
reference_call(side) ==
  {read_db \o Under(Write("rm"), side \o other) : other \in {<<>>, side}}

create_reference(c, ref) == reference_call(create_side(c, ref))
infer_reference(c, ref)  == reference_call(infer_side(c, ref))

\* load_collection_schema_from_json: get_config and set_schema of the
\* collection under the registry's write guard, then infer_all_references
\* lists the collections.
load_collection_schema(c) == Under(Write("db"), load_schema(c)) \o read_db

\* schema_with_refs_of holds the registry guard to the end.
schema_with_refs_of(c) == Under(Read("db"), read_coll(c) \o get_collection_refs)

\* A query over one collection: schema for the analysis, then the scan.
query(c) == schema_of(c) \o read_db \o read_coll(c)

\* One level of expansion reads the rows and the name of ref.
expand_object(ref) == get_collection_refs \o read_db \o read_coll(ref) \o read_coll(ref)

\* DbCollection::expand_row and expand_list; further levels of a chain run under
\* the guard of the level before them and take the same kinds of guards.
expand_row(c, ref) == Under(Read(c), expand_object(ref))

Simple(p) == [path |-> p, todo |-> {}]
OtherPairs == {p \in Pairs : p[1] # p[2]}

\* The calls that take the locks in the order rm, db, collection.
OrderedCalls ==
  {Simple(read_db), Simple(write_db), Simple(get_collection_refs)}
  \cup {Simple(read_coll(c)) : c \in Colls}
  \cup {Simple(write_coll(c)) : c \in Colls}
  \cup {Simple(load_schema(c)) : c \in Colls}
  \cup {Simple(query(c)) : c \in Colls}
  \cup {Simple(write_to_json(<<p[1], p[2]>>)) : p \in OtherPairs}
  \cup {Simple(p) : p \in UNION {create_reference(q[1], q[2]) : q \in Pairs}}
  \cup {Simple(p) : p \in UNION {infer_reference(q[1], q[2]) : q \in Pairs}}
  \cup {[path |-> load_collection_schema(c), todo |-> OtherPairs] : c \in Colls}
-----------------------------------------------------------------------------
(* std::sync::RwLock.                                                      *)

held(t) == {guards[t][i] : i \in 1..Len(guards[t])}

\* The client's next step takes one more guard, this one.
waiting(t) ==
  path[t] # <<>> /\ \E g \in Guards : Head(path[t]) = Append(guards[t], g)

wanted(t) == Head(path[t])[Len(guards[t]) + 1]

\* u keeps t from its next guard: by a guard it holds itself, or because it
\* is a writer that waits for the lock t wants to read.
Blocks(u, t) ==
  LET g == wanted(t) IN
  \/ \E h \in held(u) :
       h.lock = g.lock /\ (h.mode = "write" \/ g.mode = "write")
  \/ /\ ReadersQueue /\ g.mode = "read"
     /\ u \in parked /\ waiting(u) /\ wanted(u) = Write(g.lock)

blocked(t) == waiting(t) /\ \E u \in Clients : Blocks(u, t)

Init ==
  /\ called = {}
  /\ guards = [t \in Clients |-> <<>>]
  /\ path = [t \in Clients |-> <<>>]
  /\ todo = [t \in Clients |-> {}]
  /\ parked = {}

Call(t) ==
  /\ t \notin called
  /\ called' = called \cup {t}
  /\ \E call \in Calls :
       /\ path' = [path EXCEPT ![t] = call.path]
       /\ todo' = [todo EXCEPT ![t] = call.todo]
  /\ UNCHANGED <<guards, parked>>

\* infer_all_references: one infer_reference after the other, no guard between.
Infer(t) ==
  /\ path[t] = <<>>
  /\ \E p \in todo[t] :
       /\ todo' = [todo EXCEPT ![t] = todo[t] \ {p}]
       /\ \E call \in infer_reference(p[1], p[2]) : path' = [path EXCEPT ![t] = call]
  /\ UNCHANGED <<called, guards, parked>>

step(t) ==
  /\ guards' = [guards EXCEPT ![t] = Head(path[t])]
  /\ path' = [path EXCEPT ![t] = Tail(path[t])]
  /\ UNCHANGED <<called, todo>>

Acquire(t) ==
  /\ waiting(t)
  /\ ~blocked(t)
  /\ step(t)
  /\ parked' = parked \ {t}

Park(t) ==
  /\ blocked(t)
  /\ t \notin parked
  /\ parked' = parked \cup {t}
  /\ UNCHANGED <<called, guards, path, todo>>

Drop(t) ==
  /\ path[t] # <<>>
  /\ ~waiting(t)
  /\ step(t)
  /\ UNCHANGED parked

Proceed(t) == Infer(t) \/ Acquire(t) \/ Park(t) \/ Drop(t)

Next == \E t \in Clients : Call(t) \/ Proceed(t)

Spec == Init /\ [][Next]_vars

\* A client that is not blocked keeps running.
FairSpec == Spec /\ \A t \in Clients : WF_vars(Proceed(t))
-----------------------------------------------------------------------------
(* Properties.                                                             *)

returned(t) == t \in called /\ path[t] = <<>> /\ todo[t] = {}

\* Every variable has its type.
TypeOK ==
  /\ called \subseteq Clients
  /\ guards \in [Clients -> Stacks]
  /\ path \in [Clients -> Paths]
  /\ todo \in [Clients -> SUBSET Pairs]
  /\ parked \subseteq Clients

rank(l) == CASE l = "rm" -> 1 [] l = "db" -> 2 [] OTHER -> 3

\* A client takes its guards in the order reference manager, registry,
\* collection, and never two of one kind.
ordered(stack) ==
  \A i, j \in 1..Len(stack) : i < j => rank(stack[i].lock) < rank(stack[j].lock)

LockOrder == \A t \in Clients : ordered(guards[t])

\* Clients never wait for each other in a circle: in every set of clients there
\* is one that no client of the set, not even itself, keeps waiting.
NoDeadlock ==
  \A S \in SUBSET Clients :
    S # {} => \E t \in S : \A u \in S : ~(waiting(t) /\ Blocks(u, t))

\* Every call returns.
CallsReturn == \A t \in Clients : t \in called ~> returned(t)
=============================================================================
