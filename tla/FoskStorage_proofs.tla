-------------------------- MODULE FoskStorage_proofs --------------------------
(***************************************************************************)
(* Theorems about FoskStorage, for every value of its constants: what a    *)
(* save and a load do to a collection, and the promises of the collection  *)
(* itself, which survive loads and restarts.                               *)
(***************************************************************************)
EXTENDS FoskStorage, FoskCollection_proofs, FiniteSetTheorems, SequenceTheorems

(* The file.                                                               *)

\* The ids of the documents a file was written from.
saved(f) == {k \in Keys : f.from[k] # NoRow}

\* order is the order in which the rows of the file were read.
ordered_by(f, order) ==
  /\ order \in SetToSeqs(saved(f))
  /\ f.rows = [i \in DOMAIN order |-> f.from[order[i]]]

\* A file holds documents, none of which names a UUID in unborn, in some order.
Saved(f, unborn) ==
  /\ DOMAIN f = {"rows", "from"}
  /\ f.from \in [Keys -> Rows \cup {NoRow}]
  /\ IsFiniteSet(saved(f))
  /\ \A k \in saved(f) :
       LET row == f.from[k] IN
       row = NonObject \/ row[IdKey] = NoValue \/ row[IdKey].text \notin unborn
  /\ \E order \in SetToSeqs(saved(f)) : ordered_by(f, order)

\* Of the file f, in this order, n rows are in the collection and nothing else;
\* the generator is on the largest of their ids.
Loaded(f, order, n) ==
  /\ docs = [k \in Keys |-> IF \E i \in 1..n : order[i] = k THEN f.from[k] ELSE NoRow]
  /\ Cardinality(stored) = n
  /\ id_type = "Int" => \A i \in 1..n : order[i] \in Numbers /\ order[i] <= maxId

\* A load under way has added the first n rows of the file.
LoadOK ==
  loading =>
    /\ inBatch
    /\ DOMAIN queue = {"rows", "of"}
    /\ Saved(queue.of, fresh)
    /\ queue.of # Torn
    /\ \E order \in SetToSeqs(saved(queue.of)), n \in 0..Len(queue.of.rows) :
         /\ ordered_by(queue.of, order)
         /\ queue.rows = SubSeq(queue.of.rows, n + 1, Len(queue.of.rows))
         /\ exact => Loaded(queue.of, order, n)

\* What an operation finds when it starts.
SInv ==
  /\ IInv
  /\ IsFiniteSet(stored)
  /\ file = Torn \/ Saved(file, fresh)
  /\ saving \in BOOLEAN
  /\ LoadOK
-----------------------------------------------------------------------------
(* Lemmas.                                                                 *)

\* The rows of a file, one for each document it was written from.
LEMMA RowsOfFile ==
  ASSUME NEW f, NEW unborn, Saved(f, unborn), NEW order, ordered_by(f, order)
  PROVE  /\ f.rows \in Seq(Rows)
         /\ Len(f.rows) \in Nat
         /\ \A i \in 1..Len(f.rows) : order[i] \in saved(f) /\ f.rows[i] = f.from[order[i]]
         /\ \A i, j \in 1..Len(f.rows) : i # j => order[i] # order[j]
<1> DEFINE N == Cardinality(saved(f))
<1>1. N \in Nat
  BY FS_CardinalityType DEF Saved
<1>2. /\ order \in [1..N -> saved(f)]
      /\ \A i, j \in 1..N : i # j => order[i] # order[j]
  BY DEF ordered_by, SetToSeqs
<1>3. f.rows = [i \in 1..N |-> f.from[order[i]]]
  BY <1>2 DEF ordered_by
<1>4. \A i \in 1..N : f.from[order[i]] \in Rows
  BY <1>2 DEF Saved, saved
<1> HIDE DEF N
<1>5. f.rows \in Seq(Rows) /\ Len(f.rows) = N
  BY <1>1, <1>3, <1>4
<1>6. QED
  BY <1>1, <1>2, <1>3, <1>5

\* What is left of a sequence after its first n elements.
LEMMA RestOfFile ==
  ASSUME NEW S, NEW rows \in Seq(S), NEW n \in 0..Len(rows)
  PROVE  LET rest == SubSeq(rows, n + 1, Len(rows)) IN
         /\ Len(rest) = Len(rows) - n
         /\ rest # <<>> => /\ n < Len(rows)
                           /\ Head(rest) = rows[n + 1]
                           /\ Tail(rest) = SubSeq(rows, n + 2, Len(rows))
<1> DEFINE rest == SubSeq(rows, n + 1, Len(rows))
<1>1. Len(rows) \in Nat /\ \A i \in (n + 1)..Len(rows) : rows[i] \in S
  BY LenProperties, ElementOfSeq
<1>2. rest \in Seq(S) /\ Len(rest) = Len(rows) - n
  BY <1>1, SubSeqProperties
<1>3. ASSUME rest # <<>>
      PROVE  /\ n < Len(rows)
             /\ Head(rest) = rows[n + 1]
             /\ Tail(rest) = SubSeq(rows, n + 2, Len(rows))
  <2>1. n < Len(rows)
    BY <1>1, <1>2, <1>3, EmptySeq
  <2>2. n + 1 \in 1..Len(rows) /\ Len(rows) \in (n + 1)..Len(rows) /\ (n + 1) + 1 = n + 2
    BY <1>1, <2>1
  <2> HIDE DEF rest
  <2>3. Head(SubSeq(rows, n + 1, Len(rows))) = rows[n + 1]
        /\ Tail(SubSeq(rows, n + 1, Len(rows))) = SubSeq(rows, n + 2, Len(rows))
    BY <2>2, HeadTailOfSubSeq
  <2> QED BY <2>1, <2>3 DEF rest
<1>4. QED
  BY <1>2, <1>3

\* A file keeps naming only produced UUIDs: a UUID is produced once.
LEMMA SavedShrinks ==
  ASSUME NEW f, NEW unborn, NEW fewer \in SUBSET unborn, Saved(f, unborn)
  PROVE  Saved(f, fewer)
BY DEF Saved

\* A document under its own id that the batch takes goes under that id, and
\* the generator of an Int collection has it behind or under it.
LEMMA ExactItem ==
  ASSUME IInv, NEW k \in Keys, NEW row \in Rows, filed_under_own_id(k, row),
         BatchItem(row), inBatch'
  PROVE  /\ docs' = [docs EXCEPT ![k] = row]
         /\ id_type = "Int" => /\ k \in Numbers
                               /\ k <= maxId'
                               /\ maxId # NoId => maxId <= maxId'
<1>1. row # NonObject /\ has_id(row) /\ row[IdKey].text = k
  BY DEF filed_under_own_id
<1>2. BatchKeepsId(row)
  BY <1>1 DEF BatchItem, BatchRefusesId, leaves_loop
<1>3. docs' = [docs EXCEPT ![k] = row]
  BY <1>1, <1>2 DEF BatchKeepsId, insert
<1>4. ASSUME id_type = "Int"
      PROVE  k \in Numbers /\ k <= maxId' /\ (maxId # NoId => maxId <= maxId')
  <2>1. k \in Numbers /\ keep_up(k)
    BY <1>1, <1>2, <1>4 DEF BatchKeepsId, is_u64
  <2>2. k \in Int /\ maxId \in Int
    BY <2>1, MaxIdAssumption DEF Numbers, NoId, IInv, TypeOK
  <2> QED BY <2>1, <2>2 DEF keep_up
<1>5. QED
  BY <1>3, <1>4

\* The row a load adds next is a document, which names no UUID to come.
LEMMA NextRow ==
  ASSUME SInv, loading, queue.rows # <<>>,
         NEW order, ordered_by(queue.of, order), NEW n \in 0..Len(queue.of.rows),
         queue.rows = SubSeq(queue.of.rows, n + 1, Len(queue.of.rows))
  PROVE  /\ n < Len(queue.of.rows)
         /\ order[n + 1] \in saved(queue.of)
         /\ Head(queue.rows) = queue.of.from[order[n + 1]]
         /\ Head(queue.rows) \in Known
         /\ Tail(queue.rows) = SubSeq(queue.of.rows, n + 2, Len(queue.of.rows))
<1>1. Saved(queue.of, fresh)
  BY DEF SInv, LoadOK
<1>2. /\ queue.of.rows \in Seq(Rows)
      /\ Len(queue.of.rows) \in Nat
      /\ \A i \in 1..Len(queue.of.rows) :
           order[i] \in saved(queue.of) /\ queue.of.rows[i] = queue.of.from[order[i]]
  BY <1>1, RowsOfFile
<1>3. /\ n < Len(queue.of.rows)
      /\ Head(queue.rows) = queue.of.rows[n + 1]
      /\ Tail(queue.rows) = SubSeq(queue.of.rows, n + 2, Len(queue.of.rows))
  BY <1>2, RestOfFile
<1>4. n + 1 \in 1..Len(queue.of.rows)
  BY <1>2, <1>3
<1>5. order[n + 1] \in saved(queue.of) /\ Head(queue.rows) = queue.of.from[order[n + 1]]
  BY <1>2, <1>3, <1>4
<1>6. Head(queue.rows) \in Known
  BY <1>1, <1>5 DEF Saved, saved, Known, nameable
<1>7. QED
  BY <1>3, <1>5, <1>6

\* A step of the collection with its file is a step of the collection, or the
\* start of another process.
LEMMA StorageStep ==
  ASSUME SInv, [StorageNext]_<<vars, storage>>
  PROVE  [Step]_vars \/ (Restart /\ UNCHANGED id_type)
<1>1. CASE loading /\ queue.rows # <<>> /\ BatchItem(Head(queue.rows)) /\ UNCHANGED id_type
  <2>1. Head(queue.rows) \in Known
    BY <1>1, NextRow DEF SInv, LoadOK
  <2> QED BY <1>1, <2>1 DEF Step
<1>2. CASE ~loading /\ Operation /\ UNCHANGED id_type
  BY <1>2, NextIsStep DEF Next, SInv, IInv
<1>3. CASE \/ UNCHANGED vars
           \/ LoadFromJson(FALSE) /\ UNCHANGED id_type
           \/ EndBatch /\ UNCHANGED id_type
           \/ Restart /\ UNCHANGED id_type
  BY <1>3 DEF Step
<1>4. QED
  BY <1>1, <1>2, <1>3
  DEF StorageNext, CreateFile, WriteRows, LoadFromFile, LoadItem, EndLoad

\* A new process finds the collection as it was created, but for the UUIDs.
LEMMA RestartIInv ==
  ASSUME IInv, Restart, UNCHANGED id_type
  PROVE  IInv'
<1>1. docs' = [k \in Keys |-> NoRow] /\ stored' = {}
  BY DEF Restart, EmptyStore, stored, vacant
<1>2. new_schema \in SchemaDicts /\ new_schema[IdKey] # NoField
  BY NewSchemaType
<1>3. TypeOK'
  BY <1>1, <1>2 DEF Restart, leaves_loop, IInv, TypeOK
<1>4. FreshUnused'
  BY <1>1, NamesAssumption DEF Restart, IInv, TypeOK, FreshUnused, vacant, Keys
<1>5. QED
  BY <1>1, <1>2, <1>3, <1>4
  DEF Restart, leaves_loop, IInv, RowsCarryId, IntKeysOnly, MaxIdIsCurrent, NamesProduced

\* At most one document is added by a step.
LEMMA StoredFinite ==
  ASSUME IInv, [Step]_vars, IsFiniteSet(stored)
  PROVE  IsFiniteSet(stored')
<1>1. docs \in [Keys -> Rows \cup {NoRow}]
  BY DEF IInv, TypeOK
<1>2. stored' \subseteq stored \/ \E k \in Keys : stored' \subseteq stored \cup {k}
  BY <1>1, NextDocStep DEF DocStep, EmptyStore, stored, vacant
<1>3. QED
  BY <1>2, FS_AddElement, FS_Subset

\* What a save writes is a file of the documents stored.
LEMMA WrittenIsSaved ==
  ASSUME SInv, NEW rows \in get_all
  PROVE  Saved([rows |-> rows, from |-> docs], fresh)
<1> DEFINE f == [rows |-> rows, from |-> docs]
<1>1. DOMAIN f = {"rows", "from"} /\ f.from = docs /\ f.rows = rows
  OBVIOUS
<1> HIDE DEF f
<1>2. saved(f) = stored
  BY <1>1 DEF saved, stored, vacant
<1>3. \A k \in saved(f) : nameable(f.from[k])
  BY <1>1, <1>2 DEF SInv, IInv, NamesProduced
<1>4. \E order \in SetToSeqs(saved(f)) : ordered_by(f, order)
  BY <1>1, <1>2 DEF get_all, ordered_by
<1>5. Saved(f, fresh)
  BY <1>1, <1>2, <1>3, <1>4 DEF SInv, IInv, TypeOK, Saved, nameable
<1>6. QED
  BY <1>5 DEF f

\* The file is torn, or holds documents.
LEMMA FileKeeps ==
  ASSUME SInv, [StorageNext]_<<vars, storage>>
  PROVE  (file = Torn \/ Saved(file, fresh))' /\ saving' \in BOOLEAN
<1>1. fresh' \subseteq fresh
  BY StorageStep, FreshShrinks DEF Restart
<1>2. CASE file' = Torn
  BY <1>2 DEF SInv, StorageNext, CreateFile, WriteRows, LoadFromFile, LoadItem, EndLoad, Restart, storage
<1>3. CASE WriteRows
  <2>1. PICK rows \in get_all : file' = [rows |-> rows, from |-> docs]
    BY <1>3 DEF WriteRows
  <2>2. fresh' = fresh /\ saving' = FALSE
    BY <1>3 DEF WriteRows, vars
  <2>3. Saved(file', fresh')
    BY <2>1, <2>2, WrittenIsSaved
  <2> QED BY <2>2, <2>3
<1>4. CASE file' = file /\ file # Torn /\ saving' \in BOOLEAN
  <2>1. Saved(file', fresh')
    BY <1>1, <1>4, SavedShrinks DEF SInv
  <2> QED BY <1>4, <2>1
<1>5. QED
  BY <1>2, <1>3, <1>4
  DEF SInv, StorageNext, CreateFile, LoadFromFile, LoadItem, EndLoad, Restart, storage

\* A load starts with an empty collection and all the rows of the file.
LEMMA LoadStarts ==
  ASSUME SInv, LoadFromFile, UNCHANGED id_type
  PROVE  LoadOK'
<1>1. /\ file # Torn /\ Saved(file, fresh)
      /\ queue' = [rows |-> file.rows, of |-> file]
      /\ fresh' = fresh /\ inBatch' = TRUE /\ docs' = EmptyStore
  BY DEF LoadFromFile, LoadFromJson, BeginBatch, SInv
<1>2. queue'.rows = file.rows /\ queue'.of = file /\ DOMAIN queue' = {"rows", "of"}
  BY <1>1
<1>3. PICK order \in SetToSeqs(saved(file)) : ordered_by(file, order)
  BY <1>1 DEF Saved
<1>4. file.rows \in Seq(Rows) /\ Len(file.rows) \in Nat
  BY <1>1, <1>3, RowsOfFile
<1>5. queue'.rows = SubSeq(file.rows, 0 + 1, Len(file.rows)) /\ 0 \in 0..Len(file.rows)
  BY <1>2, <1>4, SubSeqFull
<1>6. stored' = {}
  BY <1>1 DEF EmptyStore, stored, vacant
<1>7. Loaded(queue.of, order, 0)'
  BY <1>1, <1>2, <1>6, FS_EmptySet DEF Loaded, EmptyStore
<1>8. /\ inBatch' /\ queue'.of # Torn /\ DOMAIN queue' = {"rows", "of"}
      /\ Saved(queue'.of, fresh')
      /\ order \in SetToSeqs(saved(queue'.of)) /\ ordered_by(queue'.of, order)
      /\ 0 \in 0..Len(queue'.of.rows)
      /\ queue'.rows = SubSeq(queue'.of.rows, 0 + 1, Len(queue'.of.rows))
  BY <1>1, <1>2, <1>3, <1>5
<1>9. QED
  BY <1>7, <1>8 DEF LoadOK

\* A row that is added is one more document of the file, under its id.
LEMMA LoadedGrows ==
  ASSUME SInv, loading, exact, queue.rows # <<>>,
         NEW order, ordered_by(queue.of, order), NEW n \in 0..Len(queue.of.rows),
         queue.rows = SubSeq(queue.of.rows, n + 1, Len(queue.of.rows)),
         Loaded(queue.of, order, n),
         BatchItem(Head(queue.rows)), inBatch', UNCHANGED id_type, queue'.of = queue.of
  PROVE  Loaded(queue.of, order, n + 1)'
<1> DEFINE f == queue.of
           k == order[n + 1]
<1>1. /\ n < Len(f.rows) /\ k \in saved(f)
      /\ Head(queue.rows) = f.from[k] /\ Head(queue.rows) \in Rows
  BY NextRow DEF Known
<1>2. /\ Saved(f, fresh) /\ n \in Nat /\ Len(f.rows) \in Nat
      /\ \A i, j \in 1..Len(f.rows) : i # j => order[i] # order[j]
  BY RowsOfFile DEF SInv, LoadOK
<1>3. k \in Keys /\ f.from[k] # NoRow /\ filed_under_own_id(k, f.from[k])
  BY <1>1 DEF saved, exact
<1>4. docs = [j \in Keys |-> IF \E i \in 1..n : order[i] = j THEN f.from[j] ELSE NoRow]
  BY DEF Loaded
<1>5. docs' = [docs EXCEPT ![k] = f.from[k]]
  BY <1>1, <1>3, ExactItem DEF SInv
<1> HIDE DEF f, k
<1>6. docs' = [j \in Keys |-> IF \E i \in 1..(n + 1) : order[i] = j THEN f.from[j] ELSE NoRow]
  <2>1. ASSUME NEW j \in Keys
        PROVE  (\E i \in 1..(n + 1) : order[i] = j) <=> (j = k \/ \E i \in 1..n : order[i] = j)
    <3>1. 1..(n + 1) = 1..n \cup {n + 1}
      BY <1>2
    <3> QED BY <3>1 DEF k
  <2> QED BY <1>3, <1>4, <1>5, <2>1
<1>7. docs[k] = NoRow
  <2>1. ~\E i \in 1..n : order[i] = k
    BY <1>1, <1>2 DEF k
  <2> QED BY <1>3, <1>4, <2>1
<1>8. Cardinality(stored') = n + 1
  <2>1. stored' = stored \cup {k} /\ k \notin stored
    BY <1>3, <1>4, <1>5, <1>7 DEF stored, vacant
  <2>2. IsFiniteSet(stored) /\ Cardinality(stored) = n
    BY DEF SInv, Loaded
  <2> QED BY <2>1, <2>2, FS_AddElement
<1>9. ASSUME id_type = "Int", NEW i \in 1..(n + 1)
      PROVE  order[i] \in Numbers /\ order[i] <= maxId'
  <2>1. k \in Numbers /\ k <= maxId' /\ (maxId # NoId => maxId <= maxId')
    BY <1>1, <1>3, <1>9, ExactItem DEF SInv
  <2>2. CASE i \in 1..n
    <3>1. order[i] \in Numbers /\ order[i] <= maxId
      BY <1>9, <2>2 DEF Loaded
    <3>2. maxId \in Numbers \cup {NoId} /\ maxId' \in Numbers \cup {NoId}
      <4>1. IInv'
        BY StepIInv, NextRow DEF Step, SInv
      <4> QED BY <4>1 DEF SInv, IInv, TypeOK
    <3>3. maxId # NoId
      BY <3>1, MaxIdAssumption DEF Numbers, NoId
    <3> QED BY <2>1, <3>1, <3>2, <3>3, MaxIdAssumption DEF Numbers, NoId
  <2>3. CASE i = n + 1
    BY <2>1, <2>3 DEF k
  <2>4. QED
    BY <1>2, <2>2, <2>3
<1>10. QED
  BY <1>6, <1>8, <1>9 DEF Loaded, f

\* A row that is added leaves a load under way, of the rows after it.
LEMMA LoadContinues ==
  ASSUME SInv, LoadItem, UNCHANGED id_type
  PROVE  LoadOK'
<1> SUFFICES ASSUME loading'
             PROVE  LoadOK'
  BY DEF LoadOK
<1>1. /\ loading /\ queue.rows # <<>> /\ BatchItem(Head(queue.rows)) /\ inBatch'
      /\ queue' = [queue EXCEPT !.rows = Tail(@)]
  BY DEF LoadItem, loading
<1>2. PICK order \in SetToSeqs(saved(queue.of)), n \in 0..Len(queue.of.rows) :
        /\ ordered_by(queue.of, order)
        /\ queue.rows = SubSeq(queue.of.rows, n + 1, Len(queue.of.rows))
        /\ exact => Loaded(queue.of, order, n)
  BY <1>1 DEF SInv, LoadOK
<1>3. Saved(queue.of, fresh) /\ queue.of # Torn /\ DOMAIN queue = {"rows", "of"}
  BY <1>1 DEF SInv, LoadOK
<1>4. queue'.of = queue.of /\ queue'.rows = Tail(queue.rows) /\ DOMAIN queue' = {"rows", "of"}
  BY <1>1, <1>3
<1>5. /\ n < Len(queue.of.rows)
      /\ Tail(queue.rows) = SubSeq(queue.of.rows, n + 2, Len(queue.of.rows))
      /\ Head(queue.rows) \in Known
  BY <1>1, <1>2, NextRow
<1>6. Len(queue.of.rows) \in Nat
  BY <1>2, <1>3, RowsOfFile
<1>7. n + 1 \in 0..Len(queue.of.rows) /\ (n + 1) + 1 = n + 2
  BY <1>5, <1>6
<1>8. fresh' \subseteq fresh
  BY <1>1, <1>5, FreshShrinks DEF Step
<1>9. Saved(queue'.of, fresh')
  BY <1>3, <1>4, <1>8, SavedShrinks
<1>10. exact' <=> exact
  BY <1>4 DEF exact, filed_under_own_id, has_id
<1>11. exact => Loaded(queue.of, order, n + 1)'
  BY <1>1, <1>2, <1>4, LoadedGrows
<1>12. QED
  BY <1>1, <1>2, <1>3, <1>4, <1>5, <1>7, <1>9, <1>10, <1>11 DEF LoadOK

\* Every step keeps what is known of a load.
LEMMA LoadKeeps ==
  ASSUME SInv, [StorageNext]_<<vars, storage>>
  PROVE  LoadOK'
<1>1. CASE UNCHANGED <<vars, queue>>
  <2>1. UNCHANGED <<id_type, docs, fresh, inBatch, maxId, queue>>
    BY <1>1 DEF vars
  <2>2. exact' <=> exact
    BY <2>1 DEF exact, filed_under_own_id, has_id
  <2>3. \A order, n : Loaded(queue.of, order, n)' <=> Loaded(queue.of, order, n)
    BY <2>1 DEF Loaded, stored, vacant
  <2> QED BY <2>1, <2>2, <2>3 DEF SInv, LoadOK, loading
<1>2. CASE queue' = NotLoading
  BY <1>2 DEF LoadOK, loading
<1>3. CASE ~loading /\ UNCHANGED queue
  BY <1>3 DEF LoadOK, loading
<1>4. QED
  BY <1>1, <1>2, <1>3, LoadStarts, LoadContinues
  DEF StorageNext, CreateFile, WriteRows, EndLoad, Restart, storage
-----------------------------------------------------------------------------
(* The inductive invariant and the theorems.                               *)

\* The invariant holds initially.
LEMMA InitSInv == StorageInit => SInv
<1> SUFFICES ASSUME StorageInit PROVE SInv
  OBVIOUS
<1>1. IInv
  BY InitIInv DEF StorageInit
<1>2. stored = {}
  BY DEF StorageInit, Init, EmptyStore, stored, vacant
<1>3. QED
  BY <1>1, <1>2, FS_EmptySet DEF StorageInit, SInv, LoadOK, loading

\* Every step keeps the invariant.
LEMMA NextSInv == SInv /\ [StorageNext]_<<vars, storage>> => SInv'
<1> SUFFICES ASSUME SInv, [StorageNext]_<<vars, storage>> PROVE SInv'
  OBVIOUS
<1>1. CASE [Step]_vars
  <2>1. IInv' /\ IsFiniteSet(stored')
    BY <1>1, StepIInv, StoredFinite DEF SInv
  <2> QED BY <2>1, FileKeeps, LoadKeeps DEF SInv
<1>2. CASE Restart /\ UNCHANGED id_type
  <2>1. IInv'
    BY <1>2, RestartIInv DEF SInv
  <2>2. stored' = {}
    BY <1>2 DEF Restart, EmptyStore, stored, vacant
  <2>3. IsFiniteSet(stored')
    BY <2>2, FS_EmptySet
  <2> QED BY <2>1, <2>3, FileKeeps, LoadKeeps DEF SInv
<1>3. QED
  BY <1>1, <1>2, StorageStep

\* In every reachable state the file and a load under way agree with the
\* collection, whatever the order of the rows and whatever operations, saves,
\* loads and restarts led there.
THEOREM StorageInvariance == StorageSpec => []SInv
BY InitSInv, NextSInv, PTL DEF StorageSpec

\* Type correctness of the collection with its file.
THEOREM StorageTypeCorrect == StorageSpec => []StorageTypeOK
<1>1. SInv => StorageTypeOK
  BY DEF SInv, IInv, LoadOK, Saved, StorageTypeOK
<1>2. QED
  BY <1>1, StorageInvariance, PTL

\* A load of documents under their own ids holds those read so far and nothing
\* else, and loses none of them.
THEOREM LoadsRestore == StorageSpec => []LoadRestores
<1>1. ASSUME SInv, loading, exact
      PROVE  /\ \A k \in stored : docs[k] = queue.of.from[k]
             /\ Cardinality(stored) + Len(queue.rows) = Len(queue.of.rows)
  <2>1. PICK order \in SetToSeqs(saved(queue.of)), n \in 0..Len(queue.of.rows) :
          /\ ordered_by(queue.of, order)
          /\ queue.rows = SubSeq(queue.of.rows, n + 1, Len(queue.of.rows))
          /\ Loaded(queue.of, order, n)
    BY <1>1 DEF SInv, LoadOK
  <2>2. \A k \in stored : docs[k] = queue.of.from[k]
    BY <2>1 DEF Loaded, stored, vacant
  <2>3. queue.of.rows \in Seq(Rows) /\ Len(queue.of.rows) \in Nat
    BY <1>1, <2>1, RowsOfFile DEF SInv, LoadOK
  <2>4. Len(queue.rows) = Len(queue.of.rows) - n /\ Cardinality(stored) = n
    BY <2>1, <2>3, RestOfFile DEF Loaded
  <2> QED BY <2>2, <2>3, <2>4
<1>2. SInv => LoadRestores
  BY <1>1 DEF LoadRestores
<1>3. QED
  BY <1>2, StorageInvariance, PTL

\* At every moment of such a load the Int generator is on the largest id.
THEOREM LoadsKeepAhead == StorageSpec => []LoadIsAhead
<1>1. ASSUME SInv, loading, exact, id_type = "Int", NEW k \in stored
      PROVE  k <= current
  <2>1. PICK order \in SetToSeqs(saved(queue.of)), n \in 0..Len(queue.of.rows) :
          Loaded(queue.of, order, n)
    BY <1>1 DEF SInv, LoadOK
  <2>2. PICK i \in 1..n : order[i] = k
    BY <2>1 DEF Loaded, stored, vacant
  <2>3. k \in Numbers /\ k <= maxId
    BY <1>1, <2>1, <2>2 DEF Loaded
  <2>4. maxId \in Numbers \cup {NoId} /\ (maxId # NoId => current = maxId)
    BY <1>1 DEF SInv, IInv, TypeOK, MaxIdIsCurrent
  <2> QED BY <2>3, <2>4, MaxIdAssumption DEF Numbers, NoId
<1>2. SInv => LoadIsAhead
  BY <1>1 DEF LoadIsAhead, Ahead
<1>3. QED
  BY <1>2, StorageInvariance, PTL

\* With caller-managed ids no insert touches a stored document, the rows a load
\* adds included.
THEOREM InsertsAreSafe == StorageSpec => InsertNeverReplaces
<1> DEFINE A == id_type = "None" /\ (LoadItem \/ \E item \in Supplied : Add(item) \/ BatchItem(item))
                  => \A k \in stored : docs'[k] = docs[k]
<1>1. SInv => A
  BY InsertStep DEF SInv, LoadItem
<1>2. SInv /\ [StorageNext]_<<vars, storage>> => [A]_vars
  BY <1>1
<1>3. QED
  BY <1>2, StorageInvariance, PTL DEF StorageSpec, InsertNeverReplaces

\* A document that is written, by a load too, is described by the schema.
THEOREM LoadedDescribed == StorageSpec => WritesAreDescribed
<1>1. ASSUME Restart
      PROVE  WriteDescribed
  BY <1>1 DEF Restart, EmptyStore, WriteDescribed
<1>2. SInv /\ [StorageNext]_<<vars, storage>> => [WriteDescribed]_vars
  BY <1>1, StorageStep, WriteStep DEF SInv
<1>3. QED
  BY <1>2, StorageInvariance, PTL DEF StorageSpec, WritesAreDescribed, WriteDescribed

\* The collection with its file and its restarts implements the document store.
THEOREM StorageRefinement == StorageSpec => ImplementsStore
<1>1. StorageInit => Store!Init
  BY DEF StorageInit, Init, EmptyStore, Store!Init, Store!Empty
<1>2. ASSUME Restart
      PROVE  Store!Next
  BY <1>2 DEF Restart, EmptyStore, Store!Next, Store!RemoveAll, Store!Empty
<1>3. SInv /\ [StorageNext]_<<vars, storage>> => [Store!Next]_docs
  BY <1>2, StorageStep, StoreStep DEF SInv
<1>4. QED
  BY <1>1, <1>3, StorageInvariance, PTL DEF StorageSpec, ImplementsStore, Store!Spec
=============================================================================
