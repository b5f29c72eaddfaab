------------------------------ MODULE MCLocks ------------------------------
(* Small instances of FoskLocks: which calls run together.                 *)
EXTENDS FoskLocks

\* Expanding a row while a schema is loaded.
ExpandAndLoad ==
  {Simple(expand_row(p[1], p[2])) : p \in OtherPairs}
  \cup {[path |-> load_collection_schema(c), todo |-> {}] : c \in Colls}

\* Reading a schema with its references while a collection is created.
SchemaAndCreate ==
  {Simple(schema_with_refs_of(c)) : c \in Colls} \cup {Simple(write_db)}
=============================================================================
