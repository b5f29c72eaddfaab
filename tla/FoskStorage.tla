----------------------------- MODULE FoskStorage -----------------------------
(***************************************************************************)
(* A collection and the file it is saved to: write_to_file and             *)
(* load_from_file of DbCollection, and the end of the process at any       *)
(* moment.                                                                 *)
(*                                                                         *)
(* write_to_file holds no lock while it creates, and so empties, the file; *)
(* only get_all takes the read lock.  load_from_file holds the write lock  *)
(* from before it reads the file until the batch loop returns, so its      *)
(* items are those of the file, in the order of the file.                  *)
(*                                                                         *)
(* A file with rows remembers the documents it was written from: that is   *)
(* history, which no action reads.                                         *)
(***************************************************************************)
EXTENDS FoskCollection, SequencesExt

CONSTANTS
  Torn,         \* what is in a file that is no JSON array: nothing, or a part
  NotLoading

VARIABLES
  file,         \* the file: Torn (also when there is none), or its rows
  saving,       \* a write_to_file is between File::create and its rows
  queue         \* the rows a load has still to add, and the file as it read it

storage == <<file, saving, queue>>

loading == queue # NotLoading

\* get_all returns the values of a HashMap: any order.
get_all == {[i \in DOMAIN s |-> docs[s[i]]] : s \in SetToSeqs(stored)}

StorageInit == Init /\ file = Torn /\ saving = FALSE /\ queue = NotLoading

\* (mutant: a file is created only if there is none)
CreateFile_Keeps ==
  /\ ~saving
  /\ saving' = TRUE
  /\ UNCHANGED <<file, queue, vars>>

CreateFile ==
  /\ ~saving
  /\ file' = Torn
  /\ saving' = TRUE
  /\ UNCHANGED <<queue, vars>>

\* The read lock is free: no batch is running.
WriteRows ==
  /\ saving
  /\ ~inBatch
  /\ \E rows \in get_all : file' = [rows |-> rows, from |-> docs]
  /\ saving' = FALSE
  /\ UNCHANGED <<queue, vars>>

\* (mutant: what is in the collection stays)
LoadFromFile_Keeps ==
  /\ ~inBatch
  /\ file # Torn
  /\ LoadFromJson(TRUE)
  /\ queue' = [rows |-> file.rows, of |-> file]
  /\ UNCHANGED <<file, saving>>

\* A file that is no JSON array is refused before anything changes.
LoadFromFile ==
  /\ ~inBatch
  /\ file # Torn
  /\ LoadFromJson(FALSE)
  /\ queue' = [rows |-> file.rows, of |-> file]
  /\ UNCHANGED <<file, saving>>

\* A refused row ends the load.
LoadItem ==
  /\ loading /\ queue.rows # <<>>
  /\ BatchItem(Head(queue.rows))
  /\ queue' = IF inBatch' THEN [queue EXCEPT !.rows = Tail(@)] ELSE NotLoading
  /\ UNCHANGED <<file, saving>>

EndLoad ==
  /\ loading /\ queue.rows = <<>>
  /\ EndBatch
  /\ queue' = NotLoading
  /\ UNCHANGED <<file, saving>>

\* The process ends; the next one opens the collection anew.  UUIDs are not
\* produced twice by any process.
Restart ==
  /\ docs' = EmptyStore
  /\ current' = NoId
  /\ schema' = new_schema
  /\ leaves_loop
  /\ saving' = FALSE
  /\ queue' = NotLoading
  /\ UNCHANGED <<fresh, file>>

StorageNext ==
  /\ \/ ~loading /\ Operation /\ UNCHANGED storage
     \/ CreateFile \/ WriteRows
     \/ LoadFromFile \/ LoadItem \/ EndLoad
     \/ Restart
  /\ UNCHANGED id_type

StorageSpec == StorageInit /\ [][StorageNext]_<<vars, storage>>
-----------------------------------------------------------------------------
(* Properties.                                                             *)

\* Every variable has its type, and a load under way has the rest of a file.
StorageTypeOK ==
  /\ TypeOK
  /\ file = Torn \/ (DOMAIN file = {"rows", "from"} /\ file.from \in [Keys -> Rows \cup {NoRow}])
  /\ saving \in BOOLEAN
  /\ loading => inBatch /\ queue.of # Torn /\ \E n \in 0..Len(queue.of.rows) :
                             queue.rows = SubSeq(queue.of.rows, n + 1, Len(queue.of.rows))

\* The row can be found again by the id it carries.
filed_under_own_id(k, row) == row # NonObject /\ has_id(row) /\ row[IdKey].text = k

exact == \A k \in Keys : queue.of.from[k] # NoRow => filed_under_own_id(k, queue.of.from[k])

\* Documents saved under their own ids come back under them, whatever the order
\* of the file, whatever the collection held before, also after a restart, and
\* although the file may be written again meanwhile: while they are loaded the
\* collection holds those read so far and nothing else, and at the end all.
\* (update can store a document under a key that is not its id: a file with
\* such a document comes back with other keys or fewer documents, or is refused
\* in the middle.)
LoadRestores ==
  loading /\ exact =>
    /\ \A k \in stored : docs[k] = queue.of.from[k]
    /\ Cardinality(stored) + Len(queue.rows) = Len(queue.of.rows)

\* Loading documents under numeric ids leaves the generator on the largest of
\* them at every moment, in whatever order they come and wherever it stood
\* before: the ids it goes on with are vacant.
LoadIsAhead == loading /\ exact => Ahead

\* With caller-managed ids no insert, at any point of a batch, of a load from a
\* file neither, touches a stored document.
InsertNeverReplaces ==
  [][id_type = "None" /\ (LoadItem \/ \E item \in Supplied : Add(item) \/ BatchItem(item)) =>
       \A k \in stored : docs'[k] = docs[k]]_vars
=============================================================================
