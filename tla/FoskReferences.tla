--------------------------- MODULE FoskReferences ---------------------------
(***************************************************************************)
(* The registry of collections (InternalDb) and the references between     *)
(* them (DbReferences).                                                    *)
(*                                                                         *)
(* create_reference and infer_reference hold the reference manager's write *)
(* guard from their first lookup to their answer, so one of them runs at a *)
(* time (call); but each lookup of a collection or of its schema takes the *)
(* registry's read guard for itself, so the registry may change between    *)
(* two lookups.  Each lookup is an action.  Changes of the registry and of *)
(* a collection's columns happen under one write guard and are one action. *)
(*                                                                         *)
(* A collection is reduced to its schema's column names.  All collections  *)
(* have the same id key and were created under their lower-case name,      *)
(* from which the conventional column is built.                            *)
(***************************************************************************)
EXTENDS Integers

CONSTANTS
  Colls,      \* collection names in lower case
  Names,      \* the spellings clients use, Colls among them
  Lower,      \* to_ascii_lowercase, from Names to Colls
  Cols,       \* column names
  IdKey,      \* the id column
  RefColumn,  \* get_reference_column_name of every collection
  Documents,  \* the columns of the documents clients add
  Dicts,      \* the columns of the schemas clients load
  Asks,       \* the references clients ask create_reference for
  NoRef, NoCall

VARIABLES
  tables,     \* the columns of every registered collection
  refs,       \* DbReferences.references
  call,       \* the create_reference or infer_reference that holds the guard
  pending,    \* the pairs infer_all_references has left after a schema load
  disturbed,  \* a collection or a column went away since call began
  settled     \* the registry has not changed since the last schema load

vars == <<tables, refs, call, pending, disturbed, settled>>

Edges  == [from : Names, col : Cols, to : Names, refcol : Cols]
Refs   == [edge : Edges, referrer : BOOLEAN]
Tables == SUBSET Cols
Calls  == [edge : Edges, infer : BOOLEAN, referrer : BOOLEAN,
           stage : {"get", "first", "second"}, seen : Tables]
Pairs  == Colls \X Colls

ASSUME NamesAssumption ==
  /\ Colls \subseteq Names /\ Lower \in [Names -> Colls]
  /\ \A c \in Colls : Lower[c] = c
ASSUME ColsAssumption ==
  /\ IdKey \in Cols /\ RefColumn \in [Colls -> Cols]
  /\ Documents \subseteq SUBSET Cols /\ Dicts \subseteq SUBSET Cols
ASSUME AsksAssumption == Asks \subseteq Edges
ASSUME AbsentAssumption ==
  /\ NoRef \notin Refs /\ NoCall \notin Calls

\* A registered collection has at least its id column.
NoTable == {}
registered(c) == tables[c] # NoTable
listed == {c \in Colls : registered(c)}

Init ==
  /\ tables = [c \in Colls |-> NoTable]
  /\ refs = [n \in Names |-> [k \in Cols |-> NoRef]]
  /\ call = NoCall
  /\ pending = {}
  /\ disturbed = FALSE
  /\ settled = FALSE
-----------------------------------------------------------------------------
(* The registry.                                                           *)

loses(new) ==
  \E c \in listed : new[c] = NoTable \/ ~(tables[c] \subseteq new[c])

\* The registry changes, and no reference is inferred.
becomes(new) ==
  /\ tables' = new
  /\ disturbed' = (disturbed \/ loses(new))
  /\ settled' = FALSE
  /\ UNCHANGED <<refs, call, pending>>

\* create and create_with_config replace a collection of the same name.
Create(n) == becomes([tables EXCEPT ![Lower[n]] = {IdKey}])

DropCollection(n) == becomes([tables EXCEPT ![Lower[n]] = NoTable])

Clear == becomes([c \in Colls |-> NoTable])

\* A document reaches the schema of its collection; columns stay.
Write(c, doc) ==
  /\ registered(c)
  /\ becomes([tables EXCEPT ![c] = tables[c] \cup doc])

\* Db::load_from_json creates every collection it names anew and fills it; a
\* refused document ends the load, what was loaded before it stays.
LoadFromJson(load) ==
  becomes([c \in Colls |-> IF c \in DOMAIN load THEN {IdKey} \cup load[c] ELSE tables[c]])

loads(load) ==
  /\ pending = {}
  /\ \A c \in DOMAIN load : IdKey \in load[c]
  /\ tables' = [c \in Colls |-> IF c \in DOMAIN load THEN load[c] ELSE tables[c]]
  /\ disturbed' = (disturbed \/ loses(tables'))
  /\ settled' = TRUE
  /\ UNCHANGED <<refs, call>>

other_pairs(S) == {p \in S \X S : p[1] # p[2]}

\* (mutant: only the references between the loaded collections)
LoadSchemas_Loaded(load) == loads(load) /\ pending' = other_pairs(DOMAIN load)

\* load_schemas_from_json (load_collection_schema_from_json: of one collection)
\* creates missing collections, replaces the schemas and lists all collections
\* for infer_all_references.  One load at a time has pairs left.
LoadSchemas(load) == loads(load) /\ pending' = other_pairs(listed')

\* A schema without the id column ends the load: those applied before it stay,
\* the missing collection it names has been created, nothing is inferred.
LoadSchemasFails(load) ==
  \E bad \in DOMAIN load, done \in SUBSET {c \in DOMAIN load : IdKey \in load[c]} :
    /\ IdKey \notin load[bad]
    /\ becomes([c \in Colls |-> IF c \in done THEN load[c]
                                ELSE IF c = bad /\ ~registered(c) THEN {IdKey}
                                ELSE tables[c]])
-----------------------------------------------------------------------------
(* The reference manager.                                                  *)

begin(edge, infer) ==
  /\ call = NoCall
  /\ call' = [edge |-> edge, infer |-> infer, referrer |-> FALSE,
              stage |-> IF infer THEN "get" ELSE "first", seen |-> NoTable]
  /\ disturbed' = FALSE
  /\ UNCHANGED <<tables, refs, settled>>

CreateReference(edge) == begin(edge, FALSE) /\ UNCHANGED pending

\* The column is the conventional one, the referenced column is the id.
inferred(n, m) == [from |-> n, col |-> RefColumn[Lower[m]], to |-> m, refcol |-> IdKey]

InferReference(n, m) == begin(inferred(n, m), TRUE) /\ UNCHANGED pending

\* infer_all_references goes through the listed pairs in HashMap order.
InferNext ==
  \E p \in pending :
    /\ begin(inferred(p[1], p[2]), TRUE)
    /\ pending' = pending \ {p}

running(stage) == call # NoCall /\ call.stage = stage

answer == call' = NoCall

\* infer_reference looks the referenced collection up, for each side again.
Get ==
  /\ running("get")
  /\ IF registered(Lower[call.edge.to])
     THEN call' = [call EXCEPT !.stage = "first"]
     ELSE answer
  /\ UNCHANGED <<tables, refs, pending, disturbed, settled>>

\* schema_of the referring collection.
LookUpFirst ==
  /\ running("first")
  /\ call' = [call EXCEPT !.stage = "second", !.seen = tables[Lower[call.edge.from]]]
  /\ UNCHANGED <<tables, refs, pending, disturbed, settled>>

\* (mutant: the two schemas are taken for one another on the inverse side)
valid_Swapped ==
  LET other == tables[Lower[call.edge.to]]
      a == IF call.referrer THEN call.edge.refcol ELSE call.edge.col
      b == IF call.referrer THEN call.edge.col ELSE call.edge.refcol
  IN  /\ call.seen # NoTable /\ other # NoTable
      /\ a \in call.seen /\ b \in other

\* Both schemas, the second one read now, have their column.
valid ==
  LET other == tables[Lower[call.edge.to]] IN
  /\ call.seen # NoTable /\ other # NoTable
  /\ call.edge.col \in call.seen /\ call.edge.refcol \in other

\* (mutant: the inverse is filed under the referring column)
slot_Referring == IF call.referrer THEN <<call.edge.to, call.edge.col>> ELSE <<call.edge.from, call.edge.col>>

\* Where a side of the reference is filed: collection as spelled, and column.
slot == IF call.referrer THEN <<call.edge.to, call.edge.refcol>> ELSE <<call.edge.from, call.edge.col>>

insert == refs' = [refs EXCEPT ![slot[1]][slot[2]] = [edge |-> call.edge, referrer |-> call.referrer]]

\* (mutant: the first side is validated and not filed)
RegisterForward_Unfiled ==
  /\ running("second") /\ ~call.referrer /\ valid
  /\ call' = [call EXCEPT !.referrer = TRUE, !.seen = NoTable,
                          !.stage = IF call.infer THEN "get" ELSE "first"]
  /\ UNCHANGED <<tables, refs, pending, disturbed, settled>>

\* schema_of the referenced collection, and the first side is filed.
RegisterForward ==
  /\ running("second") /\ ~call.referrer /\ valid
  /\ insert
  /\ call' = [call EXCEPT !.referrer = TRUE, !.seen = NoTable,
                          !.stage = IF call.infer THEN "get" ELSE "first"]
  /\ UNCHANGED <<tables, pending, disturbed, settled>>

\* The second side is filed and the call returns true.
RegisterInverse ==
  /\ running("second") /\ call.referrer /\ valid
  /\ insert
  /\ answer
  /\ UNCHANGED <<tables, pending, disturbed, settled>>

\* A schema or a column is missing: false, the first side stays if it was filed.
Refuse ==
  /\ running("second") /\ ~valid
  /\ answer
  /\ UNCHANGED <<tables, refs, pending, disturbed, settled>>

Manager == Get \/ LookUpFirst \/ RegisterForward \/ RegisterInverse \/ Refuse

Loads(S) == UNION {[C -> S] : C \in SUBSET Colls}

Next ==
  \/ \E n \in Names : Create(n) \/ DropCollection(n)
  \/ Clear
  \/ \E c \in Colls, doc \in Documents : Write(c, doc)
  \/ \E load \in Loads(Documents) : LoadFromJson(load)
  \/ \E load \in Loads(Dicts) : LoadSchemas(load) \/ LoadSchemasFails(load)
  \/ \E edge \in Asks : CreateReference(edge)
  \/ \E n, m \in Names : InferReference(n, m)
  \/ InferNext
  \/ Manager

Spec == Init /\ [][Next]_vars

-----------------------------------------------------------------------------
(* What reads the references.                                              *)

entries(n) == {refs[n][k] : k \in Cols} \ {NoRef}

\* (mutant: the columns are not exchanged when target refers to c)
expansions_SameSides(c, target) ==
  IF ~registered(target) THEN {}
  ELSE {[own |-> r.edge.col, other |-> r.edge.refcol] :
          r \in {r \in entries(c) : target \in {Lower[r.edge.to], Lower[r.edge.from]}}}

\* expand_object of a row of c: the documents of target whose column "other"
\* equals the row's column "own", by an entry of c from or to target.
expansions(c, target) ==
  IF ~registered(target) THEN {}
  ELSE   {[own |-> r.edge.col, other |-> r.edge.refcol] :
            r \in {r \in entries(c) : Lower[r.edge.to] = target}}
    \cup {[own |-> r.edge.refcol, other |-> r.edge.col] :
            r \in {r \in entries(c) : Lower[r.edge.from] = target}}

\* SchemaWithRefs::new.
outbound_refs(n) == {r \in entries(n) : r.referrer}
inbound_refs(n)  == {r \in entries(n) : ~r.referrer}
-----------------------------------------------------------------------------
(* Properties.                                                             *)

\* Every variable has its type.
TypeOK ==
  /\ tables \in [Colls -> Tables]
  /\ refs \in [Names -> [Cols -> Refs \cup {NoRef}]]
  /\ call \in Calls \cup {NoCall}
  /\ pending \subseteq Pairs
  /\ disturbed \in BOOLEAN /\ settled \in BOOLEAN

\* Expansion and SchemaWithRefs read an entry by its own account: the entry in
\* the slot of a collection and a column names exactly them on its side.
EntriesInPlace ==
  \A n \in Names, k \in Cols : refs[n][k] # NoRef =>
    LET r == refs[n][k] IN
    IF r.referrer THEN r.edge.to = n /\ r.edge.refcol = k
                  ELSE r.edge.from = n /\ r.edge.col = k

\* The inverse side repeats the lookups of the first: it is refused only when a
\* collection or a column went away in between, so that otherwise false means
\* that nothing was registered.
HalfOnlyIfDisturbed ==
  [][Refuse \/ (Get /\ call' = NoCall) => ~call.referrer \/ disturbed]_vars

\* A call that returns true leaves both sides registered, whatever other calls
\* and registry changes ran around it; a column that refers to itself has one
\* slot for both.
GrantedBothWays ==
  [][RegisterInverse =>
       \A e \in {call.edge} :
         /\ refs'[e.to][e.refcol] = [edge |-> e, referrer |-> TRUE]
         /\ <<e.from, e.col>> # <<e.to, e.refcol>> =>
              refs'[e.from][e.col] = [edge |-> e, referrer |-> FALSE]]_vars

\* Inference finds a reference from p[1] to p[2].
conventional(p) ==
  /\ p[1] # p[2] /\ registered(p[1]) /\ registered(p[2])
  /\ RefColumn[p[2]] \in tables[p[1]] /\ IdKey \in tables[p[2]]

\* After a schema load, every pair of collections whose conventional column
\* exists has a reference in that column, once the load has returned and unless
\* the registry changed again.
LoadInfersAll ==
  settled /\ pending = {} /\ call = NoCall =>
    \A p \in Pairs : conventional(p) => refs[p[1]][RefColumn[p[2]]] # NoRef

\* An expansion to another collection joins the two columns of a reference
\* between the two.
ExpandsAlongReferences ==
  \A c, target \in Colls : c # target => \A x \in expansions(c, target) :
    \E r \in entries(c) :
      \/ r.edge.from = c /\ Lower[r.edge.to] = target /\ x.own = r.edge.col /\ x.other = r.edge.refcol
      \/ r.edge.to = c /\ Lower[r.edge.from] = target /\ x.own = r.edge.refcol /\ x.other = r.edge.col

\* expand_row of the referring collection follows a reference that has just been
\* granted under the collection's own name, as long as its target is registered.
\* (Under another spelling it is granted too, and never looked up.)
GrantedIsFollowed ==
  [][RegisterInverse =>
       \A e \in {call.edge} : e.from = Lower[e.from] /\ registered(Lower[e.to]) =>
         [own |-> e.col, other |-> e.refcol] \in expansions(e.from, Lower[e.to])']_vars

\* The inductive invariant.  A call on its second side has filed the first; if
\* nothing was lost it finds again the columns it has seen.  A pair a load still
\* owes a reference is pending or being inferred with what the load left.
FirstSideFiled ==
  call # NoCall /\ call.referrer =>
    refs[call.edge.from][call.edge.col] = [edge |-> call.edge, referrer |-> FALSE]

SeenStays ==
  call # NoCall /\ ~disturbed =>
    /\ call.stage = "second" => call.seen \subseteq tables[Lower[call.edge.from]]
    /\ call.referrer =>
         /\ call.edge.col \in tables[Lower[call.edge.from]]
         /\ call.edge.refcol \in tables[Lower[call.edge.to]]
         /\ call.stage = "second" => call.edge.col \in call.seen

inferring(p) ==
  /\ call # NoCall /\ ~call.referrer /\ call.edge = inferred(p[1], p[2])
  /\ call.stage = "second" => call.seen = tables[p[1]]

OwedIsPending ==
  settled => \A p \in Pairs : conventional(p) =>
    p \in pending \/ refs[p[1]][RefColumn[p[2]]] # NoRef \/ inferring(p)

IInv == TypeOK /\ EntriesInPlace /\ FirstSideFiled /\ SeenStays /\ OwedIsPending

-----------------------------------------------------------------------------
(* What the documentation promises and the code does not do.               *)

\* db.rs:812 registers the inverse side of a reference: it stays registered.
InverseStays ==
  [][\A n \in Names, k \in Cols :
       refs[n][k] # NoRef /\ refs[n][k].referrer => refs'[n][k] = refs[n][k]]_vars
=============================================================================
