------------------------ MODULE FoskCollection_proofs ------------------------
(* Theorems about FoskCollection, for every value of its constants.        *)
EXTENDS FoskCollection, TLAPS

(* The operators the actions are built from.                               *)

\* Promotion stays within the JSON types.
LEMMA PromoteType ==
  ASSUME NEW x \in Prims, NEW y \in Prims
  PROVE  promote(x, y) \in Prims
BY DEF promote, Prims

\* Inference gives a column for a value; merging two columns gives a column.
LEMMA ColumnTypes ==
  ASSUME NEW v \in Values, NEW old \in FieldInfo
  PROVE  /\ infer_field_info(v) \in FieldInfo
         /\ merge_field_info(old, infer_field_info(v)) \in FieldInfo
         /\ infer_field_info(v) # NoField
         /\ merge_field_info(old, infer_field_info(v)) # NoField
<1>1. infer_field_info(v) \in FieldInfo
  BY DEF infer_field_info, FieldInfo, Values, Prims
<1>2. merge_field_info(old, infer_field_info(v)) \in FieldInfo
  BY <1>1, PromoteType DEF merge_field_info, FieldInfo
<1>3. QED
  BY <1>1, <1>2, AbsentAssumption

\* Merging an object into a schema gives a schema.
LEMMA MergeType ==
  ASSUME NEW dict \in SchemaDicts, NEW obj \in Objects
  PROVE  merge_schema(dict, obj) \in SchemaDicts
<1> SUFFICES ASSUME NEW f \in Fields
             PROVE  merge_schema(dict, obj)[f] \in FieldInfo \cup {NoField}
  BY DEF SchemaDicts, merge_schema
<1>1. dict[f] \in FieldInfo \cup {NoField} /\ obj[f] \in Values \cup {NoValue}
  BY DEF SchemaDicts, Objects
<1>2. CASE obj[f] = NoValue /\ dict[f] # NoField
  <2>1. [ty |-> dict[f].ty, nullable |-> TRUE] \in FieldInfo
    BY <1>1, <1>2 DEF FieldInfo
  <2> QED BY <2>1, <1>2 DEF merge_schema
<1>3. CASE obj[f] # NoValue /\ dict[f] = NoField
  <2>1. infer_field_info(obj[f]) \in FieldInfo
    BY <1>1, <1>3 DEF infer_field_info, FieldInfo, Values, Prims
  <2> QED BY <2>1, <1>3 DEF merge_schema
<1>4. CASE obj[f] # NoValue /\ dict[f] # NoField
  <2>1. merge_field_info(dict[f], infer_field_info(obj[f])) \in FieldInfo
    BY <1>1, <1>4, ColumnTypes
  <2> QED BY <2>1, <1>4 DEF merge_schema
<1>5. QED
  BY <1>2, <1>3, <1>4 DEF merge_schema

\* Merging never narrows a column and never removes one.
LEMMA MergeWidens ==
  ASSUME NEW dict \in SchemaDicts, NEW obj \in Objects, NEW f \in Fields
  PROVE  widens(dict[f], merge_schema(dict, obj)[f])
<1> SUFFICES ASSUME dict[f] # NoField
             PROVE  widens(dict[f], merge_schema(dict, obj)[f])
  BY DEF widens
<1>1. dict[f] \in FieldInfo /\ obj[f] \in Values \cup {NoValue}
  BY DEF SchemaDicts, Objects
<1>2. CASE obj[f] = NoValue
  <2> DEFINE new == [ty |-> dict[f].ty, nullable |-> TRUE]
  <2>1. merge_schema(dict, obj)[f] = new
    BY <1>2 DEF merge_schema
  <2>2. new # NoField
    <3>1. new \in FieldInfo
      BY <1>1 DEF FieldInfo
    <3> QED BY <3>1, AbsentAssumption
  <2>3. new.nullable /\ new.ty = dict[f].ty
    OBVIOUS
  <2> HIDE DEF new
  <2> QED BY <2>1, <2>2, <2>3 DEF widens
<1>3. CASE obj[f] # NoValue
  <2> DEFINE new == merge_field_info(dict[f], infer_field_info(obj[f]))
  <2>1. merge_schema(dict, obj)[f] = new
    BY <1>3 DEF merge_schema
  <2>2. new # NoField
    BY <1>1, <1>3, ColumnTypes
  <2>3. dict[f].nullable => new.nullable
    BY DEF merge_field_info
  <2>4. new.ty = dict[f].ty \/ dict[f].ty = "Null" \/ (dict[f].ty = "Int" /\ new.ty = "Float")
    BY <1>1 DEF merge_field_info, promote, FieldInfo, Prims
  <2> QED BY <2>1, <2>2, <2>3, <2>4 DEF widens
<1>4. QED
  BY <1>2, <1>3

\* After merging an object the schema describes it.
LEMMA MergeDescribes ==
  ASSUME NEW dict \in SchemaDicts, NEW obj \in Objects
  PROVE  describes(dict, merge_schema(dict, obj), obj)
<1> SUFFICES ASSUME NEW f \in Fields
             PROVE  IF obj[f] = NoValue
                    THEN dict[f] # NoField => /\ merge_schema(dict, obj)[f] # NoField
                                              /\ merge_schema(dict, obj)[f].nullable
                    ELSE /\ merge_schema(dict, obj)[f] # NoField
                         /\ obj[f].ty = "Null" => merge_schema(dict, obj)[f].nullable
                         /\ obj[f].ty = "Float" => merge_schema(dict, obj)[f].ty # "Int"
  BY DEF describes
<1>1. dict[f] \in FieldInfo \cup {NoField} /\ obj[f] \in Values \cup {NoValue}
  BY DEF SchemaDicts, Objects
<1>2. CASE obj[f] = NoValue
  <2> SUFFICES ASSUME dict[f] # NoField
               PROVE  /\ merge_schema(dict, obj)[f] # NoField
                      /\ merge_schema(dict, obj)[f].nullable
    BY <1>2
  <2> DEFINE new == [ty |-> dict[f].ty, nullable |-> TRUE]
  <2>1. merge_schema(dict, obj)[f] = new
    BY <1>2 DEF merge_schema
  <2>2. new # NoField
    <3>1. new \in FieldInfo
      BY <1>1 DEF FieldInfo
    <3> QED BY <3>1, AbsentAssumption
  <2>3. new.nullable /\ new.ty = dict[f].ty
    OBVIOUS
  <2> HIDE DEF new
  <2> QED BY <2>1, <2>2, <2>3
<1>3. CASE obj[f] # NoValue /\ dict[f] = NoField
  <2> DEFINE new == infer_field_info(obj[f])
  <2>1. merge_schema(dict, obj)[f] = new
    BY <1>3 DEF merge_schema
  <2>2. new # NoField
    <3>1. new \in FieldInfo
      BY <1>1, <1>3 DEF infer_field_info, FieldInfo, Values, Prims
    <3> QED BY <3>1, AbsentAssumption
  <2>3. new.ty = obj[f].ty /\ (obj[f].ty = "Null" => new.nullable)
    BY DEF infer_field_info
  <2> HIDE DEF new
  <2> QED BY <2>1, <2>2, <2>3, <1>3
<1>4. CASE obj[f] # NoValue /\ dict[f] # NoField
  <2>1. merge_schema(dict, obj)[f] = merge_field_info(dict[f], infer_field_info(obj[f]))
    BY <1>4 DEF merge_schema
  <2>2. merge_field_info(dict[f], infer_field_info(obj[f])) # NoField
    BY <1>1, <1>4, ColumnTypes
  <2>3. obj[f].ty = "Null" => merge_field_info(dict[f], infer_field_info(obj[f])).nullable
    BY DEF merge_field_info, infer_field_info
  <2>4. obj[f].ty = "Float" => merge_field_info(dict[f], infer_field_info(obj[f])).ty # "Int"
    BY <1>1 DEF merge_field_info, infer_field_info, promote
  <2> QED BY <2>1, <2>2, <2>3, <2>4, <1>4
<1>5. QED
  BY <1>2, <1>3, <1>4

\* The id text of an object that carries an id of the accepted kind is a key.
LEMMA IdText ==
  ASSUME NEW obj \in Objects, obj[IdKey] # NoValue
  PROVE  obj[IdKey] \in Values /\ obj[IdKey].text \in Keys /\ obj \in Identified
BY IdKeyAssumption DEF Objects, Values, Identified

\* Giving an object an id gives an object filed under that id.
LEMMA WithIdType ==
  ASSUME NEW obj \in Objects, NEW id \in Keys
  PROVE  /\ with_id(obj, id) \in Identified
         /\ with_id(obj, id)[IdKey].text = id
<1>1. id_value(id) \in Values /\ id_value(id).text = id
  BY DEF id_value, Values, Prims
<1>2. with_id(obj, id)[IdKey] = id_value(id)
  BY IdKeyAssumption DEF with_id, Objects
<1>3. with_id(obj, id) \in Objects
  BY <1>1 DEF with_id, Objects
<1>4. QED
  BY <1>1, <1>2, <1>3, AbsentAssumption DEF Identified

\* The documents update and update_partial store.
LEMMA EnsureIdType ==
  ASSUME NEW row \in Rows, NEW id \in Keys
  PROVE  ensure_id(row, id) \in Identified \cup {NonObject}
BY WithIdType DEF ensure_id, Rows, Identified

\* Merging two documents gives a document.
LEMMA MergeJsonType ==
  ASSUME NEW base \in Rows, NEW update \in Rows
  PROVE  merge_json_values(base, update) \in Rows
BY DEF merge_json_values, Rows, Objects
-----------------------------------------------------------------------------
(* The inductive invariant.                                                *)

\* The documents that name no UUID which was not produced yet.
Known == {row \in Rows : nameable(row)}

\* An operation of the collection, of clients that may pass any such document.
Step ==
  /\ \/ \E item \in Known : Add(item)
     \/ AddBatch
     \/ \E keep \in BOOLEAN : LoadFromJson(keep)
     \/ \E item \in Known : BatchItem(item)
     \/ EndBatch
     \/ \E id \in Keys, item \in Known : Update(id, item) \/ UpdatePartial(id, item)
     \/ \E id \in Keys : Delete(id)
     \/ Clear
     \/ \E dict \in Schemas[id_type] : LoadSchema(dict)
  /\ UNCHANGED id_type

\* The clients of the specification are such clients.
LEMMA NextIsStep ==
  ASSUME TypeOK, [Next]_vars
  PROVE  [Step]_vars
<1>1. Supplied \subseteq Known
  BY InputAssumption DEF Supplied, Known, TypeOK
<1>2. QED
  BY <1>1 DEF Next, Operation, Step

\* The strategy is one of three and stays.
LEMMA StrategyStays ==
  ASSUME TypeOK, [Step]_vars
  PROVE  id_type' = id_type /\ id_type' \in IdTypes /\ id_type \in {"Int", "Uuid", "None"}
BY IdTypeAssumption DEF Step, vars, TypeOK

\* The generator returns id texts, numbers for an Int collection, and nothing
\* without a strategy.
LEMMA NextType ==
  ASSUME TypeOK
  PROVE  /\ next \subseteq Keys
         /\ id_type = "Int" => next \subseteq Numbers
         /\ id_type = "Uuid" => next \subseteq Uuids
         /\ id_type = "None" => next = {}
<1>1. CASE id_type = "Int"
  BY <1>1, MaxIdAssumption DEF next, TypeOK, Keys, Numbers, NoId
<1>2. CASE id_type # "Int"
  BY <1>2, NamesAssumption, IdTypeAssumption DEF next, TypeOK, Keys
<1>3. QED
  BY <1>1, <1>2

\* The key of a stored document was produced.
LEMMA StoredProduced ==
  ASSUME IInv, NEW id \in stored
  PROVE  id \in Keys /\ docs[id] \in Rows /\ id \notin fresh /\ nameable(docs[id])
BY DEF IInv, TypeOK, FreshUnused, NamesProduced, stored, vacant

\* The document an update stores names no UUID that was not produced: the id it
\* lacks is the key.
LEMMA EnsureIdNameable ==
  ASSUME NEW row \in Known, NEW id \in Keys, id \notin fresh
  PROVE  ensure_id(row, id) = NonObject \/ ensure_id(row, id)[IdKey].text \notin fresh
BY WithIdType DEF Known, Rows, nameable, ensure_id

\* Nor does a merge of two such documents.
LEMMA MergeNameable ==
  ASSUME NEW base \in Known, NEW update \in Known
  PROVE  merge_json_values(base, update) \in Known
<1>1. merge_json_values(base, update) \in Rows
  BY MergeJsonType DEF Known
<1>2. nameable(merge_json_values(base, update))
  BY IdKeyAssumption DEF Known, Rows, nameable, merge_json_values
<1>3. QED
  BY <1>1, <1>2 DEF Known

\* What a step may do to the documents: nothing, remove all or one, store an
\* object under its own id, or replace a stored document.
DocStep ==
  \/ UNCHANGED docs
  \/ docs' = EmptyStore
  \/ \E k \in Keys : docs' = [docs EXCEPT ![k] = NoRow]
  \/ \E k \in Keys, d \in Identified :
       /\ docs' = [docs EXCEPT ![k] = d]
       /\ d[IdKey].text = k
       /\ id_type = "Int" => k \in Numbers
       /\ k \notin fresh'
  \/ \E k \in stored, d \in Identified \cup {NonObject} :
       /\ docs' = [docs EXCEPT ![k] = d]
       /\ d = NonObject \/ d[IdKey].text \notin fresh'

\* Items are documents, and name no UUID that was not produced yet.
LEMMA SuppliedType ==
  ASSUME NEW item \in Known
  PROVE  /\ item \in Rows
         /\ item # NonObject => item \in Objects
         /\ item # NonObject /\ item[IdKey] # NoValue => item[IdKey].text \notin fresh
BY DEF Known, nameable, Rows

\* Storing an object under a generated id is a document step.
LEMMA GeneratedDocStep ==
  ASSUME TypeOK, NEW item \in Objects, NEW id \in next,
         generated(id), insert(id, with_id(item, id))
  PROVE  DocStep
<1>1. id \in Keys /\ (id_type = "Int" => id \in Numbers)
  BY NextType
<1>2. with_id(item, id) \in Identified /\ with_id(item, id)[IdKey].text = id
  BY <1>1, WithIdType
<1>3. QED
  BY <1>1, <1>2 DEF DocStep, insert, generated

\* Storing an object under the id it carries is a document step.
LEMMA OwnIdDocStep ==
  ASSUME NEW item \in Objects, item[IdKey] # NoValue, insert(item[IdKey].text, item),
         id_type = "Int" => item[IdKey].text \in Numbers,
         item[IdKey].text \notin fresh'
  PROVE  DocStep
BY IdText DEF DocStep, insert

\* Every step of the collection does to the documents what DocStep allows.
LEMMA NextDocStep ==
  ASSUME IInv, [Step]_vars
  PROVE  DocStep
<1> USE DEF IInv
<1>1. ASSUME NEW item \in Known, Add(item)
      PROVE  DocStep
  <2>1. CASE AddGenerated(item)
    BY <2>1, SuppliedType, GeneratedDocStep DEF AddGenerated
  <2>2. CASE AddOwnId(item)
    BY <2>2, SuppliedType, OwnIdDocStep DEF AddOwnId, has_id
  <2>3. QED
    BY <1>1, <2>1, <2>2 DEF Add
<1>2. ASSUME AddBatch \/ EndBatch \/ (\E dict \in Schemas[id_type] : LoadSchema(dict))
      PROVE  DocStep
  BY <1>2 DEF AddBatch, EndBatch, LoadSchema, DocStep
<1>3. ASSUME NEW keep \in BOOLEAN, LoadFromJson(keep)
      PROVE  DocStep
  BY <1>3 DEF LoadFromJson, DocStep
<1>4. ASSUME NEW item \in Known, BatchItem(item)
      PROVE  DocStep
  <2>1. CASE UNCHANGED docs
    BY <2>1 DEF DocStep
  <2>2. CASE item # NonObject /\ has_id(item) /\ BatchKeepsId(item)
    <3>1. item \in Objects /\ item[IdKey] # NoValue /\ item[IdKey].text \notin fresh'
      BY <2>2, SuppliedType DEF has_id, BatchKeepsId
    <3>2. insert(item[IdKey].text, item)
      BY <2>2 DEF BatchKeepsId
    <3>3. id_type = "Int" => item[IdKey].text \in Numbers
      BY <2>2 DEF BatchKeepsId, is_u64
    <3> QED BY <3>1, <3>2, <3>3, OwnIdDocStep
  <2>3. CASE item # NonObject /\ BatchGeneratesId(item)
    BY <2>3, SuppliedType, GeneratedDocStep DEF BatchGeneratesId
  <2>4. QED
    BY <1>4, <2>1, <2>2, <2>3 DEF BatchItem, BatchRefusesId, BatchMissesId
<1>5. ASSUME NEW id \in Keys, NEW item \in Known, Update(id, item)
      PROVE  DocStep
  <2>1. ensure_id(item, id) \in Identified \cup {NonObject}
    BY SuppliedType, EnsureIdType
  <2>2. id \in stored
    BY <1>5 DEF Update, replace, stored, vacant
  <2>3. ensure_id(item, id) = NonObject \/ ensure_id(item, id)[IdKey].text \notin fresh
    BY <2>2, StoredProduced, EnsureIdNameable
  <2> QED BY <1>5, <2>1, <2>2, <2>3 DEF Update, replace, insert, DocStep
<1>6. ASSUME NEW id \in Keys, NEW item \in Known, UpdatePartial(id, item)
      PROVE  DocStep
  <2> DEFINE merged == merge_json_values(docs[id], item)
  <2>1. id \in stored
    BY <1>6 DEF UpdatePartial, stored, vacant
  <2>2. merged \in Known
    BY <2>1, StoredProduced, MergeNameable DEF Known
  <2>3. insert(id, ensure_id(merged, id)) /\ UNCHANGED fresh
    BY <1>6 DEF UpdatePartial, replace
  <2> HIDE DEF merged
  <2>4. ensure_id(merged, id) \in Identified \cup {NonObject}
    BY <2>2, EnsureIdType DEF Known
  <2>5. ensure_id(merged, id) = NonObject \/ ensure_id(merged, id)[IdKey].text \notin fresh
    BY <2>1, <2>2, StoredProduced, EnsureIdNameable
  <2> QED BY <2>1, <2>3, <2>4, <2>5 DEF insert, DocStep
<1>7. ASSUME NEW id \in Keys, Delete(id)
      PROVE  DocStep
  BY <1>7 DEF Delete, DocStep
<1>8. CASE Clear
  BY <1>8 DEF Clear, DocStep
<1>9. CASE UNCHANGED vars
  BY <1>9 DEF vars, DocStep
<1>10. QED
  BY <1>1, <1>2, <1>3, <1>4, <1>5, <1>6, <1>7, <1>8, <1>9 DEF Step

\* A UUID is produced at most once.
LEMMA FreshShrinks ==
  ASSUME [Step]_vars
  PROVE  fresh' \subseteq fresh
BY DEF Step, vars, Add, AddGenerated, AddOwnId, generated, AddBatch, LoadFromJson, BeginBatch,
  BatchItem, BatchKeepsId, BatchRefusesId, BatchGeneratesId, BatchMissesId, EndBatch,
  Update, UpdatePartial, replace, Delete, Clear, LoadSchema

\* A document step keeps the documents well formed.
LEMMA DocStepKeeps ==
  ASSUME IInv, DocStep, UNCHANGED id_type
  PROVE  docs' \in [Keys -> Rows \cup {NoRow}] /\ RowsCarryId' /\ IntKeysOnly'
<1> USE DEF IInv, TypeOK
<1>1. \A d \in Identified \cup {NonObject} :
        d \in Rows /\ d # NoRow /\ (d # NonObject => d[IdKey] # NoValue)
  BY AbsentAssumption DEF Identified, Rows
<1>2. CASE UNCHANGED docs
  BY <1>2 DEF RowsCarryId, IntKeysOnly, stored, vacant
<1>3. CASE docs' = EmptyStore
  BY <1>3 DEF EmptyStore, RowsCarryId, IntKeysOnly, stored, vacant
<1>4. ASSUME NEW k \in Keys, docs' = [docs EXCEPT ![k] = NoRow]
      PROVE  docs' \in [Keys -> Rows \cup {NoRow}] /\ RowsCarryId' /\ IntKeysOnly'
  BY <1>4 DEF RowsCarryId, IntKeysOnly, stored, vacant
<1>5. ASSUME NEW k \in Keys, NEW d \in Identified \cup {NonObject},
             docs' = [docs EXCEPT ![k] = d],
             k \in stored \/ (id_type = "Int" => k \in Numbers)
      PROVE  docs' \in [Keys -> Rows \cup {NoRow}] /\ RowsCarryId' /\ IntKeysOnly'
  <2>1. docs' \in [Keys -> Rows \cup {NoRow}]
    BY <1>1, <1>5
  <2>2. RowsCarryId'
    BY <1>1, <1>5 DEF RowsCarryId, stored, vacant
  <2>3. IntKeysOnly'
    BY <1>5 DEF IntKeysOnly, stored, vacant
  <2> QED BY <2>1, <2>2, <2>3
<1>6. QED
  BY <1>2, <1>3, <1>4, <1>5 DEF DocStep, stored

\* A document step uses no key that is not produced yet.
LEMMA FreshKeeps ==
  ASSUME IInv, [Step]_vars
  PROVE  FreshUnused'
<1> SUFFICES ASSUME NEW id \in fresh'
             PROVE  docs'[id] = NoRow
  BY DEF FreshUnused, vacant
<1>1. id \in Keys /\ docs[id] = NoRow /\ docs \in [Keys -> Rows \cup {NoRow}]
  BY FreshShrinks, NamesAssumption DEF IInv, TypeOK, FreshUnused, vacant, Keys
<1>2. QED
  BY <1>1, NextDocStep DEF DocStep, EmptyStore, stored, vacant

\* A document step stores no document that names a UUID not produced yet.
LEMMA NamesKeep ==
  ASSUME IInv, [Step]_vars
  PROVE  NamesProduced'
<1> SUFFICES ASSUME NEW k \in Keys, docs'[k] # NoRow, docs'[k] # NonObject,
                    docs'[k][IdKey] # NoValue
             PROVE  docs'[k][IdKey].text \notin fresh'
  BY DEF NamesProduced, nameable, stored, vacant
<1>1. docs \in [Keys -> Rows \cup {NoRow}] /\ fresh' \subseteq fresh
  BY FreshShrinks DEF IInv, TypeOK
<1>2. docs[k] # NoRow /\ docs'[k] = docs[k] => docs'[k][IdKey].text \notin fresh'
  BY <1>1 DEF IInv, NamesProduced, nameable, stored, vacant
<1>3. QED
  BY <1>1, <1>2, NextDocStep DEF DocStep, EmptyStore

\* What a step does to the schema: nothing, merge one object, or load one.
SchemaStep ==
  \/ UNCHANGED schema
  \/ \E obj \in Objects : schema' = merge_schema(schema, obj)
  \/ \E dict \in Schemas[id_type] : LoadSchema(dict)

\* Every step of the collection does to the schema what SchemaStep allows.
LEMMA NextSchemaStep ==
  ASSUME IInv, [Step]_vars
  PROVE  SchemaStep
<1> USE DEF IInv
<1>1. ASSUME NEW item \in Known, Add(item)
      PROVE  SchemaStep
  <2>1. CASE AddGenerated(item)
    <3>1. PICK id \in next : schema' = merge_schema(schema, with_id(item, id))
      BY <2>1 DEF AddGenerated
    <3>2. with_id(item, id) \in Objects
      BY <2>1, SuppliedType, NextType, WithIdType DEF AddGenerated, Identified
    <3> QED BY <3>1, <3>2 DEF SchemaStep
  <2>2. CASE AddOwnId(item)
    BY <2>2, SuppliedType DEF AddOwnId, SchemaStep
  <2>3. QED
    BY <1>1, <2>1, <2>2 DEF Add
<1>2. ASSUME NEW item \in Known, BatchItem(item)
      PROVE  SchemaStep
  BY <1>2, SuppliedType DEF BatchItem, SchemaStep
<1>3. ASSUME NEW id \in Keys, NEW row \in Rows, replace(id, row)
      PROVE  SchemaStep
  BY <1>3 DEF replace, ensure_update_schema_for_item, Rows, SchemaStep
<1>4. ASSUME NEW id \in Keys, NEW item \in Known, Update(id, item)
      PROVE  SchemaStep
  <2>1. ensure_id(item, id) \in Rows
    BY SuppliedType, EnsureIdType DEF Rows, Identified
  <2> QED BY <1>3, <1>4, <2>1 DEF Update
<1>5. ASSUME NEW id \in Keys, NEW item \in Known, UpdatePartial(id, item)
      PROVE  SchemaStep
  <2> DEFINE merged == merge_json_values(docs[id], item)
  <2>1. docs[id] \in Rows
    BY <1>5 DEF UpdatePartial, vacant, TypeOK
  <2>2. merged \in Rows
    BY <2>1, SuppliedType, MergeJsonType
  <2>3. ensure_id(merged, id) \in Rows
    BY <2>2, EnsureIdType DEF Rows, Identified
  <2>4. replace(id, ensure_id(merged, id))
    BY <1>5 DEF UpdatePartial
  <2> HIDE DEF merged
  <2> QED BY <1>3, <2>3, <2>4
<1>6. ASSUME NEW dict \in Schemas[id_type], LoadSchema(dict)
      PROVE  SchemaStep
  BY <1>6 DEF SchemaStep
<1>7. CASE UNCHANGED schema
  BY <1>7 DEF SchemaStep
<1>8. QED
  BY <1>1, <1>2, <1>4, <1>5, <1>6, <1>7
  DEF Step, AddBatch, LoadFromJson, BeginBatch, EndBatch, Delete, Clear, vars

\* A schema step keeps the schema well formed and the id column declared.
LEMMA SchemaStepKeeps ==
  ASSUME IInv, SchemaStep
  PROVE  schema' \in SchemaDicts /\ schema'[IdKey] # NoField
<1> USE DEF IInv, TypeOK
<1>1. CASE UNCHANGED schema
  BY <1>1
<1>2. ASSUME NEW obj \in Objects, schema' = merge_schema(schema, obj)
      PROVE  schema' \in SchemaDicts /\ schema'[IdKey] # NoField
  BY <1>2, MergeType, MergeWidens, IdKeyAssumption DEF widens
<1>3. ASSUME NEW dict \in Schemas[id_type], LoadSchema(dict)
      PROVE  schema' \in SchemaDicts /\ schema'[IdKey] # NoField
  BY <1>3, InputAssumption DEF LoadSchema, validate_schema_config
<1>4. QED
  BY <1>1, <1>2, <1>3 DEF SchemaStep

\* The part of the invariant that is about the generator and the batch.
GeneratorOK ==
  /\ current \in {NoId} \cup CASE id_type = "Int"  -> Numbers
                             [] id_type = "Uuid" -> Uuids
                             [] OTHER           -> {}
  /\ fresh \subseteq Uuids
  /\ inBatch \in BOOLEAN
  /\ maxId \in Numbers \cup {NoId}
  /\ MaxIdIsCurrent
  /\ ~inBatch => maxId = NoId

\* The generator and the batch's max_id keep their types and stay in step.
LEMMA GeneratorKeeps ==
  ASSUME IInv, [Step]_vars
  PROVE  GeneratorOK'
<1>0. GeneratorOK /\ id_type' = id_type /\ id_type \in {"Int", "Uuid", "None"}
  BY StrategyStays DEF IInv, TypeOK, GeneratorOK
<1>1. CASE UNCHANGED <<current, fresh>> /\ inBatch' \in BOOLEAN /\ maxId' = NoId
  BY <1>0, <1>1 DEF GeneratorOK, MaxIdIsCurrent
<1>2. CASE UNCHANGED <<current, fresh, inBatch, maxId>>
  BY <1>0, <1>2 DEF GeneratorOK, MaxIdIsCurrent
<1>3. ASSUME NEW id \in next, generated(id)
      PROVE  /\ current' = id /\ fresh' \subseteq Uuids
             /\ id_type = "Int" => current' \in Numbers
             /\ id_type = "Uuid" => current' \in Uuids
             /\ id_type # "None"
  BY <1>0, <1>3, NextType DEF generated, GeneratorOK, IInv
<1>4. ASSUME NEW item \in Known, Add(item)
      PROVE  GeneratorOK'
  <2>1. CASE AddGenerated(item)
    BY <1>0, <1>3, <2>1 DEF AddGenerated, GeneratorOK, MaxIdIsCurrent
  <2>2. CASE AddOwnId(item)
    BY <1>2, <2>2 DEF AddOwnId
  <2>3. QED
    BY <1>4, <2>1, <2>2 DEF Add
<1>5. ASSUME NEW item \in Known, BatchItem(item)
      PROVE  GeneratorOK'
  <2>1. CASE UNCHANGED <<current, fresh>> /\ leaves_loop
    BY <1>1, <2>1 DEF leaves_loop
  <2>2. CASE item # NonObject /\ has_id(item) /\ BatchKeepsId(item)
    <3>1. CASE id_type = "Int"
      BY <1>0, <1>5, <2>2, <3>1
      DEF BatchItem, BatchKeepsId, keep_up, is_u64, GeneratorOK, MaxIdIsCurrent
    <3>2. CASE id_type # "Int"
      BY <1>2, <2>2, <3>2 DEF BatchKeepsId, stays_in_loop
    <3>3. QED BY <3>1, <3>2
  <2>3. CASE item # NonObject /\ BatchGeneratesId(item)
    BY <1>0, <1>3, <1>5, <2>3
    DEF BatchItem, BatchGeneratesId, GeneratorOK, MaxIdIsCurrent
  <2>4. QED
    BY <1>5, <2>1, <2>2, <2>3 DEF BatchItem, BatchRefusesId, BatchMissesId
<1>6. ASSUME BeginBatch \/ EndBatch
      PROVE  GeneratorOK'
  BY <1>1, <1>6 DEF BeginBatch, EndBatch, leaves_loop
<1>7. QED
  BY <1>2, <1>4, <1>5, <1>6
  DEF Step, AddBatch, LoadFromJson, Update, UpdatePartial, replace, Delete, Clear, LoadSchema, vars

-----------------------------------------------------------------------------
(* The theorems.                                                           *)

\* A new collection has a schema, with the id column.
LEMMA NewSchemaType == new_schema \in SchemaDicts /\ new_schema[IdKey] # NoField
<1> DEFINE col == [ty |-> IF id_type = "Int" THEN "Int" ELSE "String", nullable |-> FALSE]
<1>1. col \in FieldInfo
  BY DEF FieldInfo, Prims
<1>2. new_schema = [f \in Fields |-> IF f = IdKey THEN col ELSE NoField]
  BY DEF new_schema
<1> HIDE DEF col
<1>3. QED
  BY <1>1, <1>2, IdKeyAssumption, AbsentAssumption DEF SchemaDicts

\* The invariant holds initially.
LEMMA InitIInv == Init => IInv
<1> SUFFICES ASSUME Init PROVE IInv
  OBVIOUS
<1>1. stored = {}
  BY DEF Init, EmptyStore, stored, vacant
<1>2. schema \in SchemaDicts /\ schema[IdKey] # NoField
  BY NewSchemaType DEF Init
<1>3. TypeOK
  BY <1>2 DEF Init, TypeOK, EmptyStore
<1>4. FreshUnused
  BY NamesAssumption DEF Init, EmptyStore, FreshUnused, vacant, Keys
<1>5. QED
  BY <1>1, <1>2, <1>3, <1>4 DEF Init, IInv, RowsCarryId, IntKeysOnly, MaxIdIsCurrent, NamesProduced

\* Every step keeps the invariant.
LEMMA StepIInv ==
  ASSUME IInv, [Step]_vars
  PROVE  IInv'
<1>1. docs' \in [Keys -> Rows \cup {NoRow}] /\ RowsCarryId' /\ IntKeysOnly'
  BY NextDocStep, DocStepKeeps, StrategyStays DEF IInv
<1>2. schema' \in SchemaDicts /\ schema'[IdKey] # NoField
  BY NextSchemaStep, SchemaStepKeeps
<1>3. GeneratorOK'
  BY GeneratorKeeps
<1>4. FreshUnused' /\ NamesProduced'
  BY FreshKeeps, NamesKeep
<1>5. id_type' \in IdTypes
  BY StrategyStays DEF IInv
<1>6. QED
  BY <1>1, <1>2, <1>3, <1>4, <1>5 DEF GeneratorOK, IInv, TypeOK

\* So does every step of the specification.
LEMMA NextIInv == IInv /\ [Next]_vars => IInv'
BY NextIsStep, StepIInv DEF IInv

\* The conjunction the operations rely on holds in every reachable state,
\* whatever the id strategy, the ids clients pass and the length of batches.
THEOREM Invariance == Spec => []IInv
BY InitIInv, NextIInv, PTL DEF Spec

\* Type correctness of the collection.
THEOREM TypeCorrect == Spec => []TypeOK
BY Invariance, PTL DEF IInv

\* Stored objects never lose their id field.
THEOREM RowsAlwaysCarryId == Spec => []RowsCarryId
BY Invariance, PTL DEF IInv

\* The generator stands on the largest numeric id of the batch being added.
THEOREM BatchKeepsGenerator == Spec => []MaxIdIsCurrent
BY Invariance, PTL DEF IInv

\* What a step may do to a vacant key: nothing, or file a document under its id.
NewKeyMatchesId ==
  \A k \in Keys :
    vacant(k) /\ ~vacant(k)' =>
      docs'[k] # NonObject /\ docs'[k][IdKey] # NoValue /\ docs'[k][IdKey].text = k

\* Every step of the collection keeps to that.
LEMMA NewKeyStep ==
  ASSUME IInv, [Step]_vars
  PROVE  NewKeyMatchesId
<1> SUFFICES ASSUME NEW k \in Keys, vacant(k), ~vacant(k)'
             PROVE  docs'[k] # NonObject /\ docs'[k][IdKey] # NoValue /\ docs'[k][IdKey].text = k
  BY DEF NewKeyMatchesId
<1>1. docs \in [Keys -> Rows \cup {NoRow}] /\ docs[k] = NoRow /\ docs'[k] # NoRow
  BY DEF IInv, TypeOK, vacant
<1>2. PICK j \in Keys, d \in Identified : docs' = [docs EXCEPT ![j] = d] /\ d[IdKey].text = j
  BY <1>1, NextDocStep DEF DocStep, EmptyStore, stored, vacant
<1>3. j = k
  BY <1>1, <1>2
<1>4. QED
  BY <1>1, <1>2, <1>3, AbsentAssumption DEF Identified

\* A key that comes into being holds a document whose id is that key.
THEOREM KeysMatchIds == Spec => NewKeysMatchIds
<1>1. IInv /\ [Next]_vars => [NewKeyMatchesId]_vars
  BY NextIsStep, NewKeyStep DEF IInv
<1>2. QED
  BY <1>1, Invariance, PTL DEF Spec, NewKeysMatchIds, NewKeyMatchesId

\* What a step may do to the schema: widen it or load another.
Widening ==
  \/ \A f \in Fields : widens(schema[f], schema'[f])
  \/ validate_schema_config(schema') /\ UNCHANGED <<docs, current, fresh, inBatch, maxId>>

\* Every step of the collection keeps to that.
LEMMA WideningStep ==
  ASSUME IInv, [Step]_vars
  PROVE  Widening
<1> USE DEF Widening
<1>1. CASE UNCHANGED schema
  BY <1>1 DEF widens
<1>2. ASSUME NEW obj \in Objects, schema' = merge_schema(schema, obj)
      PROVE  Widening
  BY <1>2, MergeWidens DEF IInv, TypeOK
<1>3. ASSUME NEW dict \in Schemas[id_type], LoadSchema(dict)
      PROVE  Widening
  BY <1>3 DEF LoadSchema
<1>4. QED
  BY <1>1, <1>2, <1>3, NextSchemaStep DEF SchemaStep

\* Inference only widens the schema; a load is the one other change, and
\* leaves documents and generator alone.
THEOREM SchemaWidens == Spec => SchemaOnlyWidens
<1>1. IInv /\ [Next]_vars => [Widening]_vars
  BY NextIsStep, WideningStep DEF IInv
<1>2. QED
  BY <1>1, Invariance, PTL DEF Spec, SchemaOnlyWidens, Widening

\* A document the step writes is described by the schema it leaves.
WriteDescribed ==
  \A k \in Keys :
    docs'[k] # docs[k] /\ docs'[k] \notin {NoRow, NonObject} =>
      describes(schema, schema', docs'[k])

\* Every step of the collection keeps to that.
LEMMA WriteStep ==
  ASSUME IInv, [Step]_vars
  PROVE  WriteDescribed
<1> USE DEF WriteDescribed
<1>1. ASSUME IInv, NEW obj \in Objects, NEW row \in Objects, NEW id \in Keys,
             schema' = merge_schema(schema, obj), docs' = [docs EXCEPT ![id] = row],
             row = obj \/ (row = with_id(obj, id))
      PROVE  WriteDescribed
  <2>1. describes(schema, schema', obj)
    BY <1>1, MergeDescribes DEF IInv, TypeOK
  <2>2. schema'[IdKey] # NoField
    BY <1>1, MergeWidens, IdKeyAssumption DEF IInv, TypeOK, widens
  <2>3. row = with_id(obj, id) => /\ \A f \in Fields \ {IdKey} : row[f] = obj[f]
                                  /\ row[IdKey] = id_value(id)
    BY IdKeyAssumption DEF with_id, Objects
  <2>4. id_value(id) # NoValue /\ id_value(id).ty \in {"Int", "String"}
    BY AbsentAssumption DEF id_value, Values, Prims
  <2>5. describes(schema, schema', row)
    BY <1>1, <2>1, <2>2, <2>3, <2>4 DEF describes
  <2> QED BY <1>1, <2>5 DEF IInv, TypeOK
<1>2. ASSUME IInv, NEW k \in Keys, NEW d \in {NoRow, NonObject}, docs' = [docs EXCEPT ![k] = d]
      PROVE  WriteDescribed
  BY <1>2 DEF IInv, TypeOK
<1>3. ASSUME UNCHANGED docs \/ docs' = EmptyStore
      PROVE  WriteDescribed
  BY <1>3 DEF EmptyStore
<1>4. ASSUME IInv, NEW item \in Known, Add(item)
      PROVE  WriteDescribed
  <2>1. item \in Objects
    BY <1>4, SuppliedType DEF Add, AddGenerated, AddOwnId
  <2>2. CASE AddGenerated(item)
    <3>1. PICK id \in next : /\ schema' = merge_schema(schema, with_id(item, id))
                             /\ docs' = [docs EXCEPT ![id] = with_id(item, id)]
      BY <2>2 DEF AddGenerated, insert
    <3>2. id \in Keys /\ with_id(item, id) \in Objects
      BY <1>4, <2>1, NextType, WithIdType DEF IInv, Identified
    <3> QED BY <1>1, <1>4, <3>1, <3>2
  <2>3. CASE AddOwnId(item)
    <3>1. item[IdKey].text \in Keys
      BY <2>1, <2>3, IdText DEF AddOwnId, has_id
    <3> QED BY <1>1, <1>4, <2>1, <2>3, <3>1 DEF AddOwnId, insert
  <2>4. QED
    BY <1>4, <2>2, <2>3 DEF Add
<1>5. ASSUME IInv, NEW item \in Known, BatchItem(item)
      PROVE  WriteDescribed
  <2>1. CASE UNCHANGED docs
    BY <1>3, <2>1
  <2>2. CASE item # NonObject /\ has_id(item) /\ BatchKeepsId(item)
    <3>1. item \in Objects /\ item[IdKey].text \in Keys
      BY <2>2, SuppliedType, IdText DEF has_id
    <3>2. /\ schema' = merge_schema(schema, item)
          /\ docs' = [docs EXCEPT ![item[IdKey].text] = item]
      BY <1>5, <2>2 DEF BatchItem, BatchKeepsId, insert
    <3> QED BY <1>1, <1>5, <3>1, <3>2
  <2>3. CASE item # NonObject /\ BatchGeneratesId(item)
    <3>1. PICK id \in next : docs' = [docs EXCEPT ![id] = with_id(item, id)]
      BY <2>3 DEF BatchGeneratesId, insert
    <3>2. schema' = merge_schema(schema, item) /\ item \in Objects
      BY <1>5, <2>3, SuppliedType DEF BatchItem
    <3>3. id \in Keys /\ with_id(item, id) \in Objects
      BY <1>5, <3>2, NextType, WithIdType DEF IInv, Identified
    <3> QED BY <1>1, <1>5, <3>1, <3>2, <3>3
  <2>4. QED
    BY <1>5, <2>1, <2>2, <2>3 DEF BatchItem, BatchRefusesId, BatchMissesId
<1>6. ASSUME IInv, NEW id \in Keys, NEW row \in Rows, replace(id, row)
      PROVE  WriteDescribed
  <2>1. CASE row = NonObject
    BY <1>2, <1>6, <2>1 DEF replace, insert
  <2>2. CASE row # NonObject
    BY <1>1, <1>6, <2>2 DEF replace, insert, ensure_update_schema_for_item, Rows
  <2>3. QED
    BY <2>1, <2>2
<1>7. ASSUME IInv, NEW id \in Keys, NEW item \in Known, Update(id, item)
      PROVE  WriteDescribed
  <2>1. ensure_id(item, id) \in Rows
    BY SuppliedType, EnsureIdType DEF Rows, Identified
  <2> QED BY <1>6, <1>7, <2>1 DEF Update
<1>8. ASSUME IInv, NEW id \in Keys, NEW item \in Known, UpdatePartial(id, item)
      PROVE  WriteDescribed
  <2> DEFINE merged == merge_json_values(docs[id], item)
  <2>1. docs[id] \in Rows
    BY <1>8 DEF UpdatePartial, vacant, IInv, TypeOK
  <2>2. merged \in Rows
    BY <2>1, SuppliedType, MergeJsonType
  <2>3. ensure_id(merged, id) \in Rows
    BY <2>2, EnsureIdType DEF Rows, Identified
  <2>4. replace(id, ensure_id(merged, id))
    BY <1>8 DEF UpdatePartial
  <2> HIDE DEF merged
  <2> QED BY <1>6, <1>8, <2>3, <2>4
<1>9. ASSUME NEW id \in Keys, Delete(id)
      PROVE  WriteDescribed
  BY <1>2, <1>9 DEF Delete
<1>10. CASE \/ AddBatch \/ EndBatch \/ Clear \/ UNCHANGED vars
           \/ \E keep \in BOOLEAN : LoadFromJson(keep)
           \/ \E dict \in Schemas[id_type] : LoadSchema(dict)
  <2>1. UNCHANGED docs \/ docs' = EmptyStore
    BY <1>10 DEF AddBatch, EndBatch, Clear, vars, LoadFromJson, LoadSchema
  <2> QED BY <1>3, <2>1
<1>11. QED
  BY <1>4, <1>5, <1>7, <1>8, <1>9, <1>10 DEF Step

\* A document that is written is described by the schema.
THEOREM WritesDescribed == Spec => WritesAreDescribed
<1>1. IInv /\ [Next]_vars => [WriteDescribed]_vars
  BY NextIsStep, WriteStep DEF IInv
<1>2. QED
  BY <1>1, Invariance, PTL DEF Spec, WritesAreDescribed, WriteDescribed

\* With caller-managed ids, an insert leaves stored documents alone.
LEMMA InsertStep ==
  ASSUME IInv, id_type = "None", NEW item, Add(item) \/ BatchItem(item), NEW k \in stored
  PROVE  docs'[k] = docs[k]
<1>1. next = {}
  BY NextType DEF IInv
<1>2. docs \in [Keys -> Rows \cup {NoRow}] /\ ~vacant(k) /\ k \in Keys
  BY DEF IInv, TypeOK, stored, vacant
<1>3. UNCHANGED docs \/ (vacant(item[IdKey].text) /\ insert(item[IdKey].text, item))
  BY <1>1 DEF Add, AddGenerated, AddOwnId, BatchItem, BatchKeepsId, BatchRefusesId,
              BatchGeneratesId, BatchMissesId
<1>4. QED
  BY <1>2, <1>3 DEF insert, vacant

\* The generator, if it is ahead and advances, finds a vacant id and stays ahead.
AdvanceFinds ==
  (/\ Ahead
   /\ current' # current
   /\ id_type = "Int" => current' > current)
  => vacant(current') /\ Ahead'

\* Every step of the collection keeps to that.
LEMMA AdvanceStep ==
  ASSUME IInv, [Step]_vars
  PROVE  AdvanceFinds
<1> USE DEF AdvanceFinds
<1>0. id_type' = id_type /\ id_type \in {"Int", "Uuid", "None"}
  BY StrategyStays DEF IInv
<1>1. ASSUME IInv, NEW row, id_type = "Int", Ahead, current' \in Numbers, current' > current,
             insert(current', row)
      PROVE  vacant(current') /\ Ahead'
  <2>1. docs \in [Keys -> Rows \cup {NoRow}] /\ stored \subseteq Numbers
    BY <1>1 DEF IInv, TypeOK, IntKeysOnly
  <2>2. current \in Int /\ current' \in Int /\ current' \in Keys
    BY <1>1, MaxIdAssumption DEF IInv, TypeOK, Numbers, NoId, Keys
  <2>3. \A k \in stored : k \in Int /\ k <= current
    BY <1>1, <2>1, MaxIdAssumption DEF Ahead, Numbers
  <2>4. vacant(current')
    BY <1>1, <2>2, <2>3 DEF stored, vacant
  <2>5. stored' \subseteq stored \cup {current'}
    BY <1>1, <2>1 DEF insert, stored, vacant
  <2>6. Ahead'
    BY <1>1, <2>2, <2>3, <2>5 DEF Ahead
  <2> QED BY <2>4, <2>6
<1>2. ASSUME IInv, NEW id \in next, generated(id), NEW row, insert(id, row)
      PROVE  AdvanceFinds
  <2>1. CASE id_type = "Int"
    BY <1>1, <1>2, <2>1, NextType DEF generated, IInv
  <2>2. CASE id_type = "Uuid"
    <3>1. id \in fresh
      BY <2>2 DEF next
    <3> QED BY <1>0, <1>2, <2>2, <3>1 DEF IInv, FreshUnused, generated, Ahead
  <2>3. CASE id_type = "None"
    BY <1>2, <2>3, NextType DEF IInv
  <2>4. QED
    BY <1>0, <2>1, <2>2, <2>3
<1>3. ASSUME UNCHANGED current
      PROVE  AdvanceFinds
  BY <1>3
<1>4. ASSUME NEW item \in Known, Add(item)
      PROVE  AdvanceFinds
  BY <1>2, <1>3, <1>4, <1>4 DEF Add, AddGenerated, AddOwnId
<1>5. ASSUME NEW item \in Known, BatchItem(item)
      PROVE  AdvanceFinds
  <2>1. CASE item # NonObject /\ BatchGeneratesId(item)
    BY <1>2, <1>4, <2>1 DEF BatchGeneratesId
  <2>2. CASE id_type = "Int" /\ is_u64(item[IdKey]) /\ keep_up(item[IdKey].text)
             /\ insert(item[IdKey].text, item)
    <3>1. UNCHANGED current \/ (current' = item[IdKey].text /\ current' \in Numbers)
      BY <2>2 DEF keep_up, is_u64
    <3> QED BY <1>1, <1>4, <2>2, <3>1
  <2>3. CASE UNCHANGED current
    BY <2>3, <1>3
  <2>4. QED
    BY <1>5, <2>1, <2>2, <2>3 DEF BatchItem, BatchKeepsId, BatchRefusesId, BatchMissesId
<1>6. QED
  BY <1>3, <1>4, <1>4, <1>5
  DEF Step, vars, AddBatch, LoadFromJson, BeginBatch, EndBatch, Update, UpdatePartial,
      replace, Delete, Clear, LoadSchema

\* A generator that is ahead and advances reaches a vacant id and stays ahead.
THEOREM AdvanceFresh == Spec => AdvanceIsFresh
<1>1. IInv /\ [Next]_vars => [AdvanceFinds]_vars
  BY NextIsStep, AdvanceStep DEF IInv
<1>2. QED
  BY <1>1, Invariance, PTL DEF Spec, AdvanceIsFresh, AdvanceFinds

\* Every step of the collection is a step of the document store.
LEMMA StoreStep ==
  ASSUME IInv, [Step]_vars
  PROVE  [Store!Next]_docs
<1> USE DEF Store!Next, Store!Create, Store!Replace, Store!Remove, Store!RemoveAll,
            Store!Only, Store!Empty, id_text
<1>1. docs \in [Keys -> Rows \cup {NoRow}] /\ DocStep
  BY NextDocStep DEF IInv, TypeOK
<1>2. CASE UNCHANGED docs
  BY <1>2
<1>3. CASE docs' = EmptyStore
  BY <1>3 DEF EmptyStore
<1>4. ASSUME NEW k \in Keys, docs' = [docs EXCEPT ![k] = NoRow]
      PROVE  Store!Next
  BY <1>4
<1>5. ASSUME NEW k \in Keys, NEW d, docs' = [docs EXCEPT ![k] = d]
      PROVE  docs'[k] = d /\ Store!Only(k)
  BY <1>1, <1>5
<1>6. ASSUME NEW k \in Keys, NEW d \in Identified,
             docs' = [docs EXCEPT ![k] = d], d[IdKey].text = k
      PROVE  Store!Next
  <2>1. CASE docs[k] = NoRow
    <3>1. Store!Create(k)
      BY <1>5, <1>6, <2>1
    <3> QED BY <3>1
  <2>2. CASE docs[k] # NoRow
    <3>1. Store!Replace(k)
      BY <1>5, <1>6, <2>2
    <3> QED BY <3>1
  <2>3. QED BY <2>1, <2>2
<1>7. ASSUME NEW k \in stored, NEW d \in Identified \cup {NonObject},
             docs' = [docs EXCEPT ![k] = d]
      PROVE  Store!Next
  <2>1. k \in Keys /\ docs[k] # NoRow
    BY DEF stored, vacant
  <2>2. Store!Replace(k)
    BY <1>5, <1>7, <2>1
  <2> QED BY <2>1, <2>2
<1>8. QED
  BY <1>1, <1>2, <1>3, <1>4, <1>6, <1>7 DEF DocStep

\* The collection implements the abstract document store.
THEOREM Refinement == Spec => ImplementsStore
<1>1. Init => Store!Init
  BY DEF Init, EmptyStore, Store!Init, Store!Empty
<1>2. IInv /\ [Next]_vars => [Store!Next]_docs
  BY NextIsStep, StoreStep DEF IInv
<1>3. QED
  BY <1>1, <1>2, Invariance, PTL DEF Spec, ImplementsStore, Store!Spec
=============================================================================
