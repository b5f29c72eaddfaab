--------------------------- MODULE FoskCollection ---------------------------
(***************************************************************************)
(* One collection: InternalMemoryCollection behind its RwLock, with its id *)
(* generator (IdManager) and its inferred schema (SchemaDict).             *)
(*                                                                         *)
(* Every public operation of DbCollection takes the lock once and holds it *)
(* to the end, so each operation is one action.  The exception is          *)
(* add_batch: its loop body is the action BatchItem, so a batch can have   *)
(* any length, and no other operation can start before the loop returns    *)
(* because the write guard is held (inBatch).                              *)
(*                                                                         *)
(* A refused operation that changes nothing is a stuttering step of its    *)
(* action; so is a batch that is not an array.  A JSON object is a         *)
(* function from Fields to values; a value is its JSON type and the text   *)
(* it would have as an id, the contents of nested values are left out.     *)
(***************************************************************************)
EXTENDS Integers

CONSTANTS
  IdTypes,      \* the id strategies a collection is configured with
  MaxId,        \* the largest id of the Int generator (u64::MAX)
  Names,        \* id texts that are not decimal u64 numbers
  Uuids,        \* the names the Uuid generator can produce
  Fields,       \* the field names documents use
  IdKey,        \* the configured id field
  Items,        \* the JSON values clients pass as a document, per strategy
  Schemas,      \* the parsed compact schemas clients load, per strategy
  NoRow, NonObject, NoValue, NoField

VARIABLES
  id_type,      \* the configuration's id strategy, which no operation changes
  docs,         \* the HashMap from id text to document
  current,      \* IdManager.current
  fresh,        \* the UUIDs the v4 generator has not produced yet
  schema,       \* SchemaDict.fields
  inBatch,      \* an add_batch loop holds the write guard
  maxId         \* that loop's local max_id

vars == <<id_type, docs, current, fresh, schema, inBatch, maxId>>

Numbers == 0..MaxId
Keys    == Numbers \cup Names
NoId    == -1

Prims   == {"Null", "Bool", "Int", "Float", "String", "Array", "Object"}
Values  == [ty : Prims, text : Keys]
Objects == [Fields -> Values \cup {NoValue}]
Rows    == Objects \cup {NonObject}

FieldInfo   == [ty : Prims, nullable : BOOLEAN]
SchemaDicts == [Fields -> FieldInfo \cup {NoField}]

ASSUME IdTypeAssumption == IdTypes \subseteq {"Int", "Uuid", "None"}
ASSUME MaxIdAssumption  == MaxId \in Nat \ {0}
ASSUME NamesAssumption  == Names \cap Int = {} /\ Uuids \subseteq Names
ASSUME IdKeyAssumption  == IdKey \in Fields
ASSUME InputAssumption  ==
  Items \in [IdTypes -> SUBSET Rows] /\ Schemas \in [IdTypes -> SUBSET SchemaDicts]
ASSUME AbsentAssumption ==
  /\ NoRow \notin Rows /\ NonObject \notin Objects
  /\ NoValue \notin Values /\ NoField \notin FieldInfo
-----------------------------------------------------------------------------
(* The schema: FieldInfo and SchemaDict.                                   *)

infer_field_info(v) == [ty |-> v.ty, nullable |-> v.ty = "Null"]

promote(a, b) ==
  IF {a, b} = {"Int", "Float"} THEN "Float"
  ELSE IF a = "Null" THEN b ELSE a

\* (mutant: the last observation decides nullability)
merge_field_info_LastWins(old, new) ==
  [ty |-> promote(old.ty, new.ty), nullable |-> new.nullable]

merge_field_info(old, new) ==
  [ty |-> promote(old.ty, new.ty), nullable |-> old.nullable \/ new.nullable]

merge_schema(dict, obj) ==
  [f \in Fields |->
     IF obj[f] = NoValue
     THEN IF dict[f] = NoField THEN NoField
          ELSE [ty |-> dict[f].ty, nullable |-> TRUE]
     ELSE IF dict[f] = NoField THEN infer_field_info(obj[f])
          ELSE merge_field_info(dict[f], infer_field_info(obj[f]))]

\* (mutant: a replaced document does not reach the schema)
ensure_update_schema_for_item_Skipped(row) == schema

\* A non-object document leaves the schema alone.
ensure_update_schema_for_item(row) ==
  IF row = NonObject THEN schema ELSE merge_schema(schema, row)

validate_schema_config(dict) ==
  /\ dict[IdKey] # NoField
  /\ ~dict[IdKey].nullable
  /\ dict[IdKey].ty \in CASE id_type = "Int"  -> {"Int"}
                          [] id_type = "Uuid" -> {"String"}
                          [] OTHER           -> {"Int", "Float", "String"}
-----------------------------------------------------------------------------
(* The id generator.                                                       *)

\* (mutant: no wrap at the largest id)
next_NoWrap ==
  CASE id_type = "Int"  -> {IF current = NoId THEN 1 ELSE current + 1}
    [] id_type = "Uuid" -> fresh
    [] OTHER           -> {}

\* What IdManager::next can return; empty for IdType::None.
next ==
  CASE id_type = "Int"  -> {IF current = NoId THEN 1
                           ELSE IF current = MaxId THEN 0 ELSE current + 1}
    [] id_type = "Uuid" -> fresh
    [] OTHER           -> {}

\* The JSON form of an id text: a number where an Int id parses as u64.
id_value(id) ==
  [ty |-> IF id_type = "Int" /\ id \in Numbers THEN "Int" ELSE "String",
   text |-> id]

is_number(v) == v.ty \in {"Int", "Float"}
is_string(v) == v.ty = "String"

\* Number::as_u64 succeeds: not negative, not fractional.
is_u64(v) == v.ty = "Int" /\ v.text \in Numbers

\* The item carries an id of the JSON type the strategy takes from the caller.
has_id(obj) ==
  /\ obj[IdKey] # NoValue
  /\ CASE id_type = "Int"  -> is_number(obj[IdKey])
       [] id_type = "Uuid" -> is_string(obj[IdKey])
       [] OTHER           -> is_number(obj[IdKey]) \/ is_string(obj[IdKey])

\* (mutant: entry(id_key).or_insert instead of insert)
with_id_OrInsert(obj, id) ==
  IF obj[IdKey] = NoValue THEN [obj EXCEPT ![IdKey] = id_value(id)] ELSE obj

with_id(obj, id) == [obj EXCEPT ![IdKey] = id_value(id)]

\* (mutant: the id is not put back)
ensure_id_Dropped(row, id) == row

\* update and update_partial put the key back when the id field is missing.
ensure_id(row, id) ==
  IF row # NonObject /\ row[IdKey] = NoValue THEN with_id(row, id) ELSE row

merge_json_values(base, update) ==
  IF base = NonObject \/ update = NonObject THEN update
  ELSE [f \in Fields |-> IF update[f] = NoValue THEN base[f] ELSE update[f]]
-----------------------------------------------------------------------------
EmptyStore == [k \in Keys |-> NoRow]

\* The id column, as configured.
new_schema ==
  [f \in Fields |->
     IF f = IdKey
     THEN [ty |-> IF id_type = "Int" THEN "Int" ELSE "String", nullable |-> FALSE]
     ELSE NoField]

Init ==
  /\ id_type \in IdTypes
  /\ docs = EmptyStore
  /\ current = NoId
  /\ fresh = IF id_type = "Uuid" THEN Uuids ELSE {}
  /\ schema = new_schema
  /\ inBatch = FALSE
  /\ maxId = NoId

\* (mutant: contains_key is not asked)
vacant_Always(id) == TRUE

vacant(id) == docs[id] = NoRow

stored == {k \in Keys : docs[k] # NoRow}

insert(id, row) == docs' = [docs EXCEPT ![id] = row]

\* The generator returned id: it becomes IdManager.current.
generated(id) ==
  /\ id \in next
  /\ current' = id
  /\ fresh' = fresh \ {id}

\* add with IdType::Int or Uuid: an id is generated whatever the item carries.
AddGenerated(item) ==
  /\ ~inBatch
  /\ item # NonObject
  /\ \E id \in next :
       /\ generated(id)
       /\ schema' = merge_schema(schema, with_id(item, id))
       /\ insert(id, with_id(item, id))
  /\ UNCHANGED <<inBatch, maxId>>

\* add with IdType::None: the item's own id, which must be vacant.
AddOwnId(item) ==
  /\ ~inBatch
  /\ id_type = "None"
  /\ item # NonObject
  /\ has_id(item)
  /\ vacant(item[IdKey].text)
  /\ schema' = merge_schema(schema, item)
  /\ insert(item[IdKey].text, item)
  /\ UNCHANGED <<current, fresh, inBatch, maxId>>

Add(item) == AddGenerated(item) \/ AddOwnId(item)

BeginBatch ==
  /\ ~inBatch
  /\ inBatch' = TRUE
  /\ maxId' = NoId
  /\ UNCHANGED <<current, fresh, schema>>

AddBatch == BeginBatch /\ UNCHANGED docs

\* load_from_json of an array: the rows go first, then the batch runs.
LoadFromJson(keep) == BeginBatch /\ docs' = IF keep THEN docs ELSE EmptyStore

\* The loop returns, with Ok at its end or with Err at a refused item; the rows
\* inserted so far stay.
leaves_loop == inBatch' = FALSE /\ maxId' = NoId
stays_in_loop == UNCHANGED <<inBatch, maxId>>

\* (mutant: the generator is left one behind the caller's id)
keep_up_OneBehind(id) ==
  IF maxId = NoId \/ maxId < id
  THEN current' = (IF id = 0 THEN 0 ELSE id - 1) /\ maxId' = id
  ELSE UNCHANGED <<current, maxId>>

\* The first numeric id of a batch moves the generator, even backwards; a later
\* one only if it is larger than all before.
keep_up(id) ==
  IF maxId = NoId \/ maxId < id
  THEN current' = id /\ maxId' = id
  ELSE UNCHANGED <<current, maxId>>

\* The caller's id decides the key; an Int id may also move the generator.
BatchKeepsId(item) ==
  LET id == item[IdKey].text IN
  \/ /\ id_type = "Int" /\ is_u64(item[IdKey])
     /\ keep_up(id)
     /\ insert(id, item)
     /\ UNCHANGED <<fresh, inBatch>>
  \/ /\ id_type = "Uuid" \/ (id_type = "None" /\ vacant(id))
     /\ insert(id, item)
     /\ stays_in_loop
     /\ UNCHANGED <<current, fresh>>

\* InvalidIntId and DuplicateId.
BatchRefusesId(item) ==
  /\ \/ id_type = "Int" /\ ~is_u64(item[IdKey])
     \/ id_type = "None" /\ ~vacant(item[IdKey].text)
  /\ leaves_loop
  /\ UNCHANGED <<docs, current, fresh>>

\* (mutant: max_id is not told of a generated id)
BatchGeneratesId_NoMax(item) ==
  /\ \E id \in next : generated(id) /\ insert(id, with_id(item, id))
  /\ stays_in_loop

BatchGeneratesId(item) ==
  /\ \E id \in next :
       /\ generated(id)
       /\ maxId' = IF id_type = "Int" THEN id ELSE maxId
       /\ insert(id, with_id(item, id))
  /\ UNCHANGED inBatch

\* MissingId.
BatchMissesId ==
  /\ id_type = "None"
  /\ leaves_loop
  /\ UNCHANGED <<docs, current, fresh>>

\* One iteration of the add_batch loop.  The schema is merged before the id is
\* looked at, so also for an item that is then refused.
BatchItem(item) ==
  /\ inBatch
  /\ \/ /\ item = NonObject
        /\ leaves_loop
        /\ UNCHANGED <<docs, current, fresh, schema>>
     \/ /\ item # NonObject
        /\ schema' = merge_schema(schema, item)
        /\ \/ has_id(item) /\ (BatchKeepsId(item) \/ BatchRefusesId(item))
           \/ ~has_id(item) /\ (BatchGeneratesId(item) \/ BatchMissesId)

EndBatch ==
  /\ inBatch
  /\ leaves_loop
  /\ UNCHANGED <<docs, current, fresh, schema>>

\* (mutant: update inserts a document that was not there)
replace_Upserts(id, row) ==
  /\ ~inBatch
  /\ schema' = ensure_update_schema_for_item(row)
  /\ insert(id, row)
  /\ UNCHANGED <<current, fresh, inBatch, maxId>>

\* update and update_partial store row under id when id is present.
replace(id, row) ==
  /\ ~inBatch
  /\ ~vacant(id)
  /\ schema' = ensure_update_schema_for_item(row)
  /\ insert(id, row)
  /\ UNCHANGED <<current, fresh, inBatch, maxId>>

Update(id, item) == replace(id, ensure_id(item, id))

UpdatePartial(id, item) ==
  /\ ~vacant(id)
  /\ replace(id, ensure_id(merge_json_values(docs[id], item), id))

Delete(id) ==
  /\ ~inBatch
  /\ docs' = [docs EXCEPT ![id] = NoRow]
  /\ UNCHANGED <<current, fresh, schema, inBatch, maxId>>

\* The generator and the schema survive.
Clear ==
  /\ ~inBatch
  /\ docs' = EmptyStore
  /\ UNCHANGED <<current, fresh, schema, inBatch, maxId>>

\* load_schema_from_json; an ID marker that contradicts the configuration is
\* refused before this and changes nothing.
LoadSchema(dict) ==
  /\ ~inBatch
  /\ validate_schema_config(dict)
  /\ schema' = dict
  /\ UNCHANGED <<docs, current, fresh, inBatch, maxId>>

\* A caller cannot name a UUID before the generator has produced it.
nameable(row) ==
  row = NonObject \/ row[IdKey] = NoValue \/ row[IdKey].text \notin fresh

Supplied == {item \in Items[id_type] : nameable(item)}

Operation ==
  \/ \E item \in Supplied : Add(item)
  \/ AddBatch
  \/ \E keep \in BOOLEAN : LoadFromJson(keep)
  \/ \E item \in Supplied : BatchItem(item)
  \/ EndBatch
  \/ \E id \in Keys, item \in Supplied : Update(id, item) \/ UpdatePartial(id, item)
  \/ \E id \in Keys : Delete(id)
  \/ Clear
  \/ \E dict \in Schemas[id_type] : LoadSchema(dict)

Next == Operation /\ UNCHANGED id_type

Spec == Init /\ [][Next]_vars
-----------------------------------------------------------------------------
(* Properties.                                                             *)

\* Every variable has the type its Rust declaration gives it.
TypeOK ==
  /\ id_type \in IdTypes
  /\ docs \in [Keys -> Rows \cup {NoRow}]
  /\ current \in {NoId} \cup CASE id_type = "Int"  -> Numbers
                             [] id_type = "Uuid" -> Uuids
                             [] OTHER           -> {}
  /\ fresh \subseteq Uuids
  /\ schema \in SchemaDicts
  /\ inBatch \in BOOLEAN
  /\ maxId \in Numbers \cup {NoId}

\* Whatever sequence of adds, batches, full and partial replacements produced
\* it, a stored object still carries the id field: update and update_partial
\* put it back, add and add_batch never store an object without one.
RowsCarryId ==
  \A k \in stored : docs[k] # NonObject => docs[k][IdKey] # NoValue

\* The id text of a stored document under a generated-id Int collection is a
\* u64: no operation can file a row under text the generator never counts past.
IntKeysOnly == id_type = "Int" => stored \subseteq Numbers

\* add_batch keeps the generator and its local max_id in step: once the loop has
\* seen a numeric id, the generator stands exactly on the largest of them.
MaxIdIsCurrent == id_type = "Int" /\ maxId # NoId => current = maxId

\* A UUID that was never produced names no document.
FreshUnused == \A id \in fresh : vacant(id)

\* No stored document names a UUID that was never produced.
NamesProduced == \A k \in stored : nameable(docs[k])

\* What an operation finds when it starts: all of the above at once.
IInv ==
  /\ TypeOK
  /\ RowsCarryId
  /\ IntKeysOnly
  /\ MaxIdIsCurrent
  /\ FreshUnused
  /\ NamesProduced
  /\ ~inBatch => maxId = NoId
  /\ schema[IdKey] # NoField

\* No stored Int id is beyond the generator.
Ahead ==
  id_type = "Int" => \A k \in stored : k <= current

\* While no stored id is beyond the generator and the generator does not move
\* backwards, an id it advances to is vacant, and it stays ahead: only a batch
\* whose first numeric id is low, or the wrap at u64::MAX, lets a generated id
\* hit a stored document.
AdvanceIsFresh ==
  [][/\ Ahead
     /\ current' # current
     /\ id_type = "Int" => current' > current
     => vacant(current') /\ Ahead']_vars

\* A key that comes into being holds a document whose own id is that key:
\* nothing but an insert makes keys, and inserts file rows under their id.
NewKeysMatchIds ==
  [][\A k \in Keys :
       vacant(k) /\ ~vacant(k)' =>
         docs'[k] # NonObject /\ docs'[k][IdKey] # NoValue /\ docs'[k][IdKey].text = k]_vars

\* What a column may turn into: a nullable column stays nullable, a type moves
\* only from Null to anything or from Int to Float, and no column goes away.
widens(old, new) ==
  old # NoField =>
    /\ new # NoField
    /\ old.nullable => new.nullable
    /\ new.ty = old.ty \/ old.ty = "Null" \/ (old.ty = "Int" /\ new.ty = "Float")

\* Inference only widens the schema.  Any other change is a schema load, whose
\* id column is valid for the collection and which leaves rows and generator alone.
SchemaOnlyWidens ==
  [][\/ \A f \in Fields : widens(schema[f], schema'[f])
     \/ validate_schema_config(schema') /\ UNCHANGED <<docs, current, fresh, inBatch, maxId>>]_vars

\* A document written by any operation is described by the schema that step
\* leaves: its fields are columns, its nulls are in nullable columns, and
\* columns it lacks that were already known are nullable.
describes(old, new, row) ==
  \A f \in Fields :
    IF row[f] = NoValue
    THEN old[f] # NoField => new[f] # NoField /\ new[f].nullable
    ELSE /\ new[f] # NoField
         /\ row[f].ty = "Null" => new[f].nullable
         /\ row[f].ty = "Float" => new[f].ty # "Int"

WritesAreDescribed ==
  [][\A k \in Keys :
       docs'[k] # docs[k] /\ docs'[k] \notin {NoRow, NonObject} =>
         describes(schema, schema', docs'[k])]_vars

Identified == {obj \in Objects : obj[IdKey] # NoValue}
id_text(obj) == obj[IdKey].text

Store == INSTANCE DocumentStore WITH
  Objects <- Identified, IdOf <- id_text, rows <- docs

\* The collection implements the document store: whatever the id strategy, each
\* step of each operation, the loop of a batch included, creates one document
\* under its own id, replaces or removes one, or removes all.
ImplementsStore == Store!Spec

-----------------------------------------------------------------------------
(* What the documentation promises and the code does not do.               *)

\* db_collection.rs:1002 calls add "Add a document to the collection": no
\* document that is stored is lost to it.
AddNeverReplaces ==
  [][(\E item \in Supplied : Add(item)) => \A k \in stored : docs'[k] = docs[k]]_vars
=============================================================================
