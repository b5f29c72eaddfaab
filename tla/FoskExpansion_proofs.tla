------------------------ MODULE FoskExpansion_proofs ------------------------
(***************************************************************************)
(* Proofs about FoskReferences and FoskExpansion for any collections,      *)
(* columns, documents, schemas and asked-for references, any rows, and     *)
(* chains of any length.                                                   *)
(***************************************************************************)
EXTENDS FoskExpansion, FoskLemmas

-----------------------------------------------------------------------------
(* The references.  Three lemmas show that the kinds of step preserve      *)
(* IInv: a change of the registry, the start of a call, and the steps of   *)
(* the call that holds the manager's guard.  The properties follow from    *)
(* IInv.                                                                   *)

\* A spelling of a collection's name denotes a collection, and a collection's
\* name in lower case is one of its spellings and denotes itself.
LEMMA LowerFacts ==
  /\ \A n \in Names : Lower[n] \in Colls
  /\ \A c \in Colls : c \in Names /\ Lower[c] = c
BY NamesAssumption

\* The convention of the column name gives a reference between any two names.
LEMMA InferredFacts ==
  ASSUME NEW n \in Names, NEW m \in Names
  PROVE  /\ inferred(n, m) \in Edges
         /\ inferred(n, m).from = n /\ inferred(n, m).to = m
         /\ inferred(n, m).col = RefColumn[Lower[m]] /\ inferred(n, m).refcol = IdKey
BY LowerFacts, ColsAssumption DEF inferred, Edges

\* A change of the registry that is not marked as a loss keeps every column.
LEMMA KeepsColumns ==
  ASSUME TypeOK, NEW new, new \in [Colls -> Tables], ~loses(new), NEW c \in Colls
  PROVE  tables[c] \subseteq new[c]
BY DEF TypeOK, Tables, loses, listed, registered, NoTable

\* Nothing is registered and nothing runs at first.
LEMMA InitInv == Init => IInv
<1> SUFFICES ASSUME Init PROVE IInv
  OBVIOUS
<1>1. TypeOK
  BY DEF Init, TypeOK, Tables, NoTable
<1>2. EntriesInPlace
  BY DEF Init, EntriesInPlace
<1>3. FirstSideFiled /\ SeenStays /\ OwedIsPending
  BY DEF Init, FirstSideFiled, SeenStays, OwedIsPending
<1> QED
  BY <1>1, <1>2, <1>3 DEF IInv

\* A change of the registry with no inference to follow.
LEMMA BecomesInv ==
  ASSUME IInv, NEW new \in [Colls -> Tables], becomes(new)
  PROVE  IInv'
<1> USE DEF becomes
<1>1. TypeOK'
  BY DEF IInv, TypeOK, loses
<1>2. EntriesInPlace'
  BY DEF IInv, EntriesInPlace
<1>3. FirstSideFiled'
  BY DEF IInv, FirstSideFiled
<1>4. SeenStays'
  <2>1. CASE call # NoCall /\ ~disturbed'
    <3>1. ~disturbed /\ ~loses(new)
      BY <2>1
    <3>2. Lower[call.edge.from] \in Colls /\ Lower[call.edge.to] \in Colls
      BY <2>1, LowerFacts DEF IInv, TypeOK, Calls, Edges
    <3>3. /\ tables[Lower[call.edge.from]] \subseteq new[Lower[call.edge.from]]
          /\ tables[Lower[call.edge.to]] \subseteq new[Lower[call.edge.to]]
      BY <3>1, <3>2, KeepsColumns DEF IInv
    <3> QED
      BY <2>1, <3>1, <3>3 DEF IInv, SeenStays
  <2>2. CASE ~(call # NoCall /\ ~disturbed')
    BY <2>2 DEF SeenStays
  <2> QED
    BY <2>1, <2>2
<1>5. OwedIsPending'
  BY DEF OwedIsPending
<1> QED
  BY <1>1, <1>2, <1>3, <1>4, <1>5 DEF IInv

\* Every pair of collections is owed a reference after a schema load.
LEMMA LoadSchemasInv ==
  ASSUME IInv, NEW load \in Loads(Dicts), LoadSchemas(load)
  PROVE  IInv'
<1> USE DEF LoadSchemas, loads
<1>1. tables' \in [Colls -> Tables]
  <2>1. \A c \in DOMAIN load : load[c] \in Tables
    BY ColsAssumption DEF Loads, Tables
  <2> QED
    BY <2>1 DEF IInv, TypeOK
<1>2. listed' \subseteq Colls
  BY DEF listed
<1>3. TypeOK'
  BY <1>1, <1>2 DEF IInv, TypeOK, loses, other_pairs, Pairs
<1>4. EntriesInPlace'
  BY DEF IInv, EntriesInPlace
<1>5. FirstSideFiled'
  BY DEF IInv, FirstSideFiled
<1>6. SeenStays'
  <2>1. CASE call # NoCall /\ ~disturbed'
    <3>1. ~disturbed /\ ~loses(tables')
      BY <2>1
    <3>2. Lower[call.edge.from] \in Colls /\ Lower[call.edge.to] \in Colls
      BY <2>1, LowerFacts DEF IInv, TypeOK, Calls, Edges
    <3>3. /\ tables[Lower[call.edge.from]] \subseteq tables'[Lower[call.edge.from]]
          /\ tables[Lower[call.edge.to]] \subseteq tables'[Lower[call.edge.to]]
      BY <1>1, <3>1, <3>2, KeepsColumns DEF IInv
    <3> QED
      BY <2>1, <3>1, <3>3 DEF IInv, SeenStays
  <2>2. CASE ~(call # NoCall /\ ~disturbed')
    BY <2>2 DEF SeenStays
  <2> QED
    BY <2>1, <2>2
<1>7. OwedIsPending'
  <2> SUFFICES ASSUME NEW p \in Pairs, conventional(p)'
               PROVE  p \in pending'
    BY DEF OwedIsPending
  <2>1. p = <<p[1], p[2]>> /\ p[1] \in Colls /\ p[2] \in Colls
    BY DEF Pairs
  <2> QED
    BY <2>1 DEF conventional, listed, other_pairs
<1> QED
  BY <1>3, <1>4, <1>5, <1>6, <1>7 DEF IInv

\* A call that begins has filed nothing; a pair taken off the list is inferred.
LEMMA BeginInv ==
  ASSUME IInv, NEW edge \in Edges, NEW infer \in BOOLEAN, begin(edge, infer),
         pending' \subseteq pending,
         \A p \in pending : p \in pending' \/ edge = inferred(p[1], p[2])
  PROVE  IInv'
<1> DEFINE new == [edge |-> edge, infer |-> infer, referrer |-> FALSE,
                   stage |-> IF infer THEN "get" ELSE "first", seen |-> NoTable]
<1>1. /\ call = NoCall /\ call' = new /\ ~disturbed' /\ disturbed' \in BOOLEAN
      /\ UNCHANGED <<tables, refs, settled>>
  BY DEF begin
<1>2. new \in Calls /\ new # NoCall
  <2>1. new \in Calls
    BY DEF Calls, Tables, NoTable
  <2> QED
    BY <2>1, AbsentAssumption
<1>3. new.referrer = FALSE /\ new.stage # "second" /\ new.edge = edge
  OBVIOUS
<1> HIDE DEF new
<1>4. TypeOK'
  BY <1>1, <1>2 DEF IInv, TypeOK
<1>5. EntriesInPlace'
  BY <1>1 DEF IInv, EntriesInPlace
<1>6. FirstSideFiled' /\ SeenStays'
  BY <1>1, <1>3 DEF FirstSideFiled, SeenStays
<1>7. OwedIsPending'
  <2> SUFFICES ASSUME settled', NEW p \in Pairs, conventional(p)',
                      p \notin pending', refs[p[1]][RefColumn[p[2]]] = NoRef
               PROVE  inferring(p)'
    BY <1>1 DEF OwedIsPending
  <2>1. p \in pending
    BY <1>1 DEF IInv, OwedIsPending, conventional, registered, inferring
  <2>2. edge = inferred(p[1], p[2])
    BY <2>1
  <2> QED
    BY <1>1, <1>2, <1>3, <2>2 DEF inferring, inferred
<1> QED
  BY <1>4, <1>5, <1>6, <1>7 DEF IInv

\* A step of the call that files nothing and stays on its side.
LEMMA LookUpInv ==
  ASSUME IInv, (Get /\ call' # NoCall) \/ LookUpFirst
  PROVE  IInv'
<1>1. /\ call \in Calls /\ call # NoCall
      /\ UNCHANGED <<tables, refs, pending, disturbed, settled>>
      /\ Lower[call.edge.from] \in Colls
  BY LowerFacts DEF IInv, TypeOK, Get, LookUpFirst, running, Calls, Edges
<1>2. tables[Lower[call.edge.from]] \in Tables
  BY <1>1 DEF IInv, TypeOK
<1>3. \/ call' = [call EXCEPT !.stage = "first"]
      \/ call' = [call EXCEPT !.stage = "second", !.seen = tables[Lower[call.edge.from]]]
  BY DEF Get, LookUpFirst, answer
<1>4. /\ call' \in Calls /\ call'.edge = call.edge /\ call'.referrer = call.referrer
      /\ call'.stage = "second" => call'.seen = tables[Lower[call.edge.from]]
  BY <1>1, <1>2, <1>3 DEF Calls
<1>5. TypeOK'
  BY <1>1, <1>4 DEF IInv, TypeOK
<1>6. EntriesInPlace'
  BY <1>1 DEF IInv, EntriesInPlace
<1>7. FirstSideFiled'
  BY <1>1, <1>4 DEF IInv, FirstSideFiled
<1>8. SeenStays'
  BY <1>1, <1>4 DEF IInv, SeenStays
<1>9. OwedIsPending'
  <2> SUFFICES ASSUME settled', NEW p \in Pairs, conventional(p)', inferring(p)
               PROVE  inferring(p)'
    BY <1>1 DEF IInv, OwedIsPending, conventional, registered, inferred
  <2>1. p[1] \in Names /\ p[2] \in Names /\ Lower[p[1]] = p[1]
    BY LowerFacts DEF Pairs
  <2>2. call.edge.from = p[1]
    BY <2>1, InferredFacts DEF inferring
  <2> QED
    BY <1>1, <1>4, <2>1, <2>2, AbsentAssumption DEF inferring, inferred
<1> QED
  BY <1>5, <1>6, <1>7, <1>8, <1>9 DEF IInv

\* The column of the first schema a call has read, and the slot of its side.
LEMMA SlotFacts ==
  ASSUME IInv, call # NoCall
  PROVE  /\ call \in Calls /\ call.edge \in Edges
         /\ slot[1] \in Names /\ slot[2] \in Cols
         /\ Lower[call.edge.from] \in Colls /\ Lower[call.edge.to] \in Colls
BY LowerFacts DEF IInv, TypeOK, Calls, Edges, slot

\* What a call files is in its place, and nothing else moves.
LEMMA InsertFacts ==
  ASSUME IInv, call # NoCall, insert
  PROVE  /\ refs' \in [Names -> [Cols -> Refs \cup {NoRef}]]
         /\ EntriesInPlace'
         /\ refs'[slot[1]][slot[2]] = [edge |-> call.edge, referrer |-> call.referrer]
         /\ \A n \in Names, k \in Cols :
              n # slot[1] \/ k # slot[2] => refs'[n][k] = refs[n][k]
<1> DEFINE r == [edge |-> call.edge, referrer |-> call.referrer]
<1>1. r \in Refs /\ slot[1] \in Names /\ slot[2] \in Cols
  BY SlotFacts DEF Refs, Calls
<1>2. refs \in [Names -> [Cols -> Refs \cup {NoRef}]]
  BY DEF IInv, TypeOK
<1>3. refs' = [refs EXCEPT ![slot[1]][slot[2]] = r]
  BY DEF insert
<1>4. /\ refs' \in [Names -> [Cols -> Refs \cup {NoRef}]]
      /\ refs'[slot[1]][slot[2]] = r
      /\ \A n \in Names, k \in Cols :
           n # slot[1] \/ k # slot[2] => refs'[n][k] = refs[n][k]
  BY <1>1, <1>2, <1>3
<1>5. IF r.referrer THEN r.edge.to = slot[1] /\ r.edge.refcol = slot[2]
                    ELSE r.edge.from = slot[1] /\ r.edge.col = slot[2]
  BY DEF slot
<1>6. EntriesInPlace'
  <2> SUFFICES ASSUME NEW n \in Names, NEW k \in Cols, refs'[n][k] # NoRef
               PROVE  IF refs'[n][k].referrer
                      THEN refs'[n][k].edge.to = n /\ refs'[n][k].edge.refcol = k
                      ELSE refs'[n][k].edge.from = n /\ refs'[n][k].edge.col = k
    BY DEF EntriesInPlace
  <2>1. CASE n = slot[1] /\ k = slot[2]
    BY <1>4, <1>5, <2>1
  <2>2. CASE n # slot[1] \/ k # slot[2]
    BY <1>4, <2>2 DEF IInv, EntriesInPlace
  <2> QED
    BY <2>1, <2>2
<1> QED
  BY <1>4, <1>6

\* A reference filed anywhere leaves every slot that was taken taken.
LEMMA InsertKeeps ==
  ASSUME IInv, call # NoCall, insert, NEW n \in Names, NEW k \in Cols,
         refs[n][k] # NoRef
  PROVE  refs'[n][k] # NoRef
<1>1. [edge |-> call.edge, referrer |-> call.referrer] \in Refs
  BY SlotFacts DEF Refs, Calls
<1> QED
  BY <1>1, InsertFacts, AbsentAssumption

\* The first side.
LEMMA ForwardInv ==
  ASSUME IInv, RegisterForward
  PROVE  IInv'
<1> DEFINE stage == IF call.infer THEN "get" ELSE "first"
<1>1. /\ call # NoCall /\ call.stage = "second" /\ ~call.referrer /\ valid /\ insert
      /\ call' = [call EXCEPT !.referrer = TRUE, !.seen = NoTable, !.stage = stage]
      /\ UNCHANGED <<tables, pending, disturbed, settled>>
  BY DEF RegisterForward, running
<1>2. call \in Calls /\ slot = <<call.edge.from, call.edge.col>> /\ call.referrer = FALSE
  BY <1>1, SlotFacts DEF slot, Calls
<1>3. /\ call' \in Calls /\ call'.edge = call.edge /\ call'.referrer = TRUE
      /\ call'.stage # "second"
  BY <1>1, <1>2 DEF Calls, Tables, NoTable
<1>4. TypeOK'
  BY <1>1, <1>3, InsertFacts DEF IInv, TypeOK
<1>5. EntriesInPlace'
  BY <1>1, InsertFacts
<1>6. FirstSideFiled'
  BY <1>1, <1>2, <1>3, InsertFacts DEF FirstSideFiled
<1>7. SeenStays'
  BY <1>1, <1>3 DEF IInv, SeenStays, valid
<1>8. OwedIsPending'
  <2> SUFFICES ASSUME settled, NEW p \in Pairs, conventional(p), p \notin pending
               PROVE  refs'[p[1]][RefColumn[p[2]]] # NoRef
    BY <1>1 DEF OwedIsPending, conventional, registered
  <2>1. p[1] \in Names /\ p[2] \in Names /\ Lower[p[2]] = p[2] /\ RefColumn[p[2]] \in Cols
    BY LowerFacts, ColsAssumption DEF Pairs
  <2>2. CASE refs[p[1]][RefColumn[p[2]]] # NoRef
    BY <1>1, <2>1, <2>2, InsertKeeps
  <2>3. CASE inferring(p)
    <3>1. slot = <<p[1], RefColumn[p[2]]>>
      BY <1>2, <2>1, <2>3, InferredFacts DEF inferring
    <3>2. [edge |-> call.edge, referrer |-> call.referrer] \in Refs
      BY <1>1, SlotFacts DEF Refs, Calls
    <3> QED
      BY <1>1, <3>1, <3>2, InsertFacts, AbsentAssumption
  <2> QED
    BY <2>2, <2>3 DEF IInv, OwedIsPending
<1> QED
  BY <1>4, <1>5, <1>6, <1>7, <1>8 DEF IInv

\* The call ends: only a call on its first side may have owed a reference, and
\* it is not refused, because the load has not been followed by a change.
LEMMA EndInv ==
  ASSUME IInv, RegisterInverse \/ Refuse \/ (Get /\ call' = NoCall)
  PROVE  IInv'
<1>1. /\ call # NoCall /\ call' = NoCall
      /\ UNCHANGED <<tables, pending, disturbed, settled>>
  BY DEF RegisterInverse, Refuse, Get, running, answer
<1>2. insert \/ refs' = refs
  BY DEF RegisterInverse, Refuse, Get
<1>3. refs' \in [Names -> [Cols -> Refs \cup {NoRef}]] /\ EntriesInPlace'
  <2>1. CASE insert
    BY <1>1, <2>1, InsertFacts
  <2>2. CASE refs' = refs
    BY <2>2 DEF IInv, TypeOK, EntriesInPlace
  <2> QED
    BY <1>2, <2>1, <2>2
<1>4. TypeOK'
  BY <1>1, <1>3 DEF IInv, TypeOK
<1>5. FirstSideFiled' /\ SeenStays'
  BY <1>1 DEF FirstSideFiled, SeenStays
<1>6. OwedIsPending'
  <2> SUFFICES ASSUME settled, NEW p \in Pairs, conventional(p), p \notin pending
               PROVE  refs'[p[1]][RefColumn[p[2]]] # NoRef
    BY <1>1 DEF OwedIsPending, conventional, registered
  <2>1. p[1] \in Names /\ p[2] \in Names /\ Lower[p[1]] = p[1] /\ Lower[p[2]] = p[2]
        /\ RefColumn[p[2]] \in Cols
    BY LowerFacts, ColsAssumption DEF Pairs
  <2>2. ~inferring(p)
    <3> SUFFICES ASSUME inferring(p) PROVE FALSE
      OBVIOUS
    <3>1. /\ ~call.referrer /\ call.edge.from = p[1] /\ call.edge.to = p[2]
          /\ call.edge.col = RefColumn[p[2]] /\ call.edge.refcol = IdKey
      BY <2>1, InferredFacts DEF inferring
    <3>2. registered(Lower[call.edge.to])
      BY <2>1, <3>1 DEF conventional
    <3>3. call.stage = "second" => valid
      BY <2>1, <3>1 DEF inferring, conventional, valid, registered
    <3>4. Get => call' # NoCall
      BY <1>1, <3>2, SlotFacts, AbsentAssumption DEF Get, Calls
    <3> QED
      BY <1>1, <3>1, <3>3, <3>4 DEF RegisterInverse, Refuse, running
  <2>3. refs[p[1]][RefColumn[p[2]]] # NoRef
    BY <2>2 DEF IInv, OwedIsPending
  <2> QED
    BY <1>1, <1>2, <2>1, <2>3, InsertKeeps
<1> QED
  BY <1>4, <1>5, <1>6, <1>3 DEF IInv

\* Every step keeps the invariant.
LEMMA NextInv == IInv /\ [Next]_vars => IInv'
<1> SUFFICES ASSUME IInv, [Next]_vars PROVE IInv'
  OBVIOUS
<1>1. ASSUME NEW n \in Names, Create(n) \/ DropCollection(n) PROVE IInv'
  <2>1. {IdKey} \in Tables /\ NoTable \in Tables
    BY ColsAssumption DEF Tables, NoTable
  <2>2. PICK new \in [Colls -> Tables] : becomes(new)
    BY <1>1, <2>1 DEF Create, DropCollection, IInv, TypeOK
  <2> QED
    BY <2>2, BecomesInv
<1>2. ASSUME Clear PROVE IInv'
  <2>1. [c \in Colls |-> NoTable] \in [Colls -> Tables]
    BY DEF Tables, NoTable
  <2> QED
    BY <1>2, <2>1, BecomesInv DEF Clear
<1>3. ASSUME NEW c \in Colls, NEW doc \in Documents, Write(c, doc) PROVE IInv'
  <2>1. tables[c] \cup doc \in Tables
    BY ColsAssumption DEF IInv, TypeOK, Tables
  <2>2. [tables EXCEPT ![c] = tables[c] \cup doc] \in [Colls -> Tables]
    BY <2>1 DEF IInv, TypeOK
  <2> QED
    BY <1>3, <2>2, BecomesInv DEF Write
<1>4. ASSUME NEW load \in Loads(Documents), LoadFromJson(load) PROVE IInv'
  <2> DEFINE new == [c \in Colls |-> IF c \in DOMAIN load THEN {IdKey} \cup load[c] ELSE tables[c]]
  <2>1. \A c \in DOMAIN load : {IdKey} \cup load[c] \in Tables
    BY ColsAssumption DEF Loads, Tables
  <2>2. new \in [Colls -> Tables]
    BY <2>1 DEF IInv, TypeOK
  <2> QED
    BY <1>4, <2>2, BecomesInv DEF LoadFromJson
<1>5. ASSUME NEW load \in Loads(Dicts), LoadSchemas(load) PROVE IInv'
  BY <1>5, LoadSchemasInv
<1>6. ASSUME NEW load \in Loads(Dicts), LoadSchemasFails(load) PROVE IInv'
  <2>1. \A c \in DOMAIN load : load[c] \in Tables
    BY ColsAssumption DEF Loads, Tables
  <2>2. PICK bad \in DOMAIN load, done \in SUBSET {c \in DOMAIN load : IdKey \in load[c]} :
          becomes([c \in Colls |-> IF c \in done THEN load[c]
                                   ELSE IF c = bad /\ ~registered(c) THEN {IdKey}
                                   ELSE tables[c]])
    BY <1>6 DEF LoadSchemasFails
  <2> DEFINE new == [c \in Colls |-> IF c \in done THEN load[c]
                                     ELSE IF c = bad /\ ~registered(c) THEN {IdKey}
                                     ELSE tables[c]]
  <2>3. \A c \in Colls : new[c] \in Tables
    BY <2>1, ColsAssumption DEF IInv, TypeOK, Tables
  <2>4. new \in [Colls -> Tables]
    BY <2>3
  <2> HIDE DEF new
  <2>5. becomes(new)
    BY <2>2 DEF new
  <2> QED
    BY <2>4, <2>5, BecomesInv
<1>7. ASSUME NEW edge \in Asks, CreateReference(edge) PROVE IInv'
  BY <1>7, AsksAssumption, BeginInv DEF CreateReference
<1>8. ASSUME NEW n \in Names, NEW m \in Names, InferReference(n, m) PROVE IInv'
  BY <1>8, InferredFacts, BeginInv DEF InferReference
<1>9. ASSUME InferNext PROVE IInv'
  <2>1. PICK p \in pending : begin(inferred(p[1], p[2]), TRUE) /\ pending' = pending \ {p}
    BY <1>9 DEF InferNext
  <2>2. p[1] \in Names /\ p[2] \in Names
    BY LowerFacts DEF IInv, TypeOK, Pairs
  <2> QED
    BY <2>1, <2>2, InferredFacts, BeginInv
<1>10. ASSUME Manager PROVE IInv'
  BY <1>10, LookUpInv, ForwardInv, EndInv DEF Manager
<1>11. ASSUME UNCHANGED vars PROVE IInv'
  <2>1. UNCHANGED <<tables, refs, call, pending, disturbed, settled>>
    BY <1>11 DEF vars
  <2>2. TypeOK' /\ EntriesInPlace' /\ FirstSideFiled' /\ SeenStays'
    BY <2>1 DEF IInv, TypeOK, EntriesInPlace, FirstSideFiled, SeenStays
  <2>3. OwedIsPending'
    BY <2>1 DEF IInv, OwedIsPending, conventional, registered, inferring, inferred
  <2> QED
    BY <2>2, <2>3 DEF IInv
<1> QED
  BY <1>1, <1>2, <1>3, <1>4, <1>5, <1>6, <1>7, <1>8, <1>9, <1>10, <1>11 DEF Next
-----------------------------------------------------------------------------
(* The theorems.                                                           *)

\* The invariant of the reference manager: types, entries in their slots, the
\* first side filed before the second, nothing seen is lost unmarked, and every
\* reference a load owes is pending or under way.
THEOREM Invariance == Spec => []IInv
<1>1. IInv /\ [Next]_vars => IInv'
  BY NextInv
<1> QED
  BY InitInv, <1>1, PTL DEF Spec

\* A call that runs to its second side without a collection or column being lost
\* is not refused there (register_reference, DbReferences::create).
THEOREM RefusedBefore == Spec => HalfOnlyIfDisturbed
<1> DEFINE A == Refuse \/ (Get /\ call' = NoCall) => ~call.referrer \/ disturbed
<1>1. IInv => [A]_vars
  <2> SUFFICES ASSUME IInv, Refuse \/ (Get /\ call' = NoCall), call.referrer, ~disturbed
               PROVE  FALSE
    OBVIOUS
  <2>1. call # NoCall
    BY DEF Refuse, Get, running
  <2>2. /\ call.edge.col \in tables[Lower[call.edge.from]]
        /\ call.edge.refcol \in tables[Lower[call.edge.to]]
        /\ call.stage = "second" => call.edge.col \in call.seen
    BY <2>1 DEF IInv, SeenStays
  <2>3. CASE Refuse
    BY <2>2, <2>3 DEF Refuse, running, valid, NoTable
  <2>4. CASE Get /\ call' = NoCall
    BY <2>1, <2>2, <2>4, SlotFacts, AbsentAssumption DEF Get, registered, NoTable, Calls
  <2> QED
    BY <2>3, <2>4
<1> QED
  BY Invariance, <1>1, PTL DEF Spec, HalfOnlyIfDisturbed

\* true means both: whatever happened to the registry while the call ran, both
\* sides are filed when create_reference or infer_reference returns true.
THEOREM TrueMeansBoth == Spec => GrantedBothWays
<1> DEFINE A ==
      RegisterInverse =>
        \A e \in {call.edge} :
          /\ refs'[e.to][e.refcol] = [edge |-> e, referrer |-> TRUE]
          /\ <<e.from, e.col>> # <<e.to, e.refcol>> =>
               refs'[e.from][e.col] = [edge |-> e, referrer |-> FALSE]
<1>1. IInv => A
  <2> SUFFICES ASSUME IInv, RegisterInverse, NEW e, e = call.edge
               PROVE  /\ refs'[e.to][e.refcol] = [edge |-> e, referrer |-> TRUE]
                      /\ <<e.from, e.col>> # <<e.to, e.refcol>> =>
                           refs'[e.from][e.col] = [edge |-> e, referrer |-> FALSE]
    OBVIOUS
  <2>1. call # NoCall /\ insert /\ call.referrer
    BY DEF RegisterInverse, running
  <2>2. slot = <<e.to, e.refcol>> /\ call.referrer = TRUE
    BY <2>1, SlotFacts DEF slot, Calls
  <2>3. e.from \in Names /\ e.col \in Cols
    BY <2>1, SlotFacts DEF Edges
  <2>4. refs[e.from][e.col] = [edge |-> e, referrer |-> FALSE]
    BY <2>1 DEF IInv, FirstSideFiled
  <2> QED
    BY <2>1, <2>2, <2>3, <2>4, InsertFacts
<1>2. IInv => [A]_vars
  BY <1>1
<1> QED
  BY Invariance, <1>2, PTL DEF Spec, GrantedBothWays

\* infer_all_references reaches every pair of collections that can have a
\* conventional reference, in whatever order the pairs come.
THEOREM LoadsInfer == Spec => []LoadInfersAll
<1>1. IInv => LoadInfersAll
  BY DEF IInv, OwedIsPending, LoadInfersAll, inferring
<1> QED
  BY Invariance, <1>1, PTL

\* expand_object joins a collection to another one only along the columns of a
\* reference between the two.
THEOREM ExpansionsFollow == Spec => []ExpandsAlongReferences
<1>1. IInv => ExpandsAlongReferences
  <2> SUFFICES ASSUME IInv, NEW c \in Colls, NEW target \in Colls, c # target,
                      NEW x \in expansions(c, target)
               PROVE  \E r \in entries(c) :
                        \/ r.edge.from = c /\ Lower[r.edge.to] = target
                           /\ x.own = r.edge.col /\ x.other = r.edge.refcol
                        \/ r.edge.to = c /\ Lower[r.edge.from] = target
                           /\ x.own = r.edge.refcol /\ x.other = r.edge.col
    BY DEF ExpandsAlongReferences
  <2>1. PICK r \in entries(c) :
          \/ Lower[r.edge.to] = target /\ x = [own |-> r.edge.col, other |-> r.edge.refcol]
          \/ Lower[r.edge.from] = target /\ x = [own |-> r.edge.refcol, other |-> r.edge.col]
    BY DEF expansions
  <2>2. r.edge.from = c \/ r.edge.to = c
    BY LowerFacts DEF entries, IInv, EntriesInPlace
  <2> QED
    BY <2>1, <2>2, LowerFacts
<1> QED
  BY Invariance, <1>1, PTL

\* expand_object of the referring collection follows every reference that was
\* granted under the collection's own name.
THEOREM GrantedFollowed == Spec => GrantedIsFollowed
<1> DEFINE A ==
      RegisterInverse =>
        \A e \in {call.edge} : e.from = Lower[e.from] /\ registered(Lower[e.to]) =>
          [own |-> e.col, other |-> e.refcol] \in expansions(e.from, Lower[e.to])'
<1>1. IInv => [A]_vars
  <2> SUFFICES ASSUME IInv, RegisterInverse, NEW e, e = call.edge,
                      e.from = Lower[e.from], registered(Lower[e.to])
               PROVE  [own |-> e.col, other |-> e.refcol] \in expansions(e.from, Lower[e.to])'
    OBVIOUS
  <2>1. call # NoCall /\ insert /\ call.referrer /\ tables' = tables
    BY DEF RegisterInverse, running
  <2>2. /\ e \in Edges /\ slot = <<e.to, e.refcol>> /\ call.referrer = TRUE
        /\ e.from \in Names /\ e.col \in Cols
    BY <2>1, SlotFacts DEF slot, Calls, Edges
  <2>3. refs[e.from][e.col] = [edge |-> e, referrer |-> FALSE]
    BY <2>1 DEF IInv, FirstSideFiled
  <2>4. \/ refs'[e.from][e.col] = [edge |-> e, referrer |-> FALSE]
        \/ refs'[e.from][e.col] = [edge |-> e, referrer |-> TRUE]
    BY <2>1, <2>2, <2>3, InsertFacts
  <2>5. refs'[e.from][e.col] \in Refs /\ refs'[e.from][e.col].edge = e
    <3>1. [edge |-> e, referrer |-> FALSE] \in Refs /\ [edge |-> e, referrer |-> TRUE] \in Refs
      BY <2>2 DEF Refs
    <3>2. [edge |-> e, referrer |-> FALSE].edge = e /\ [edge |-> e, referrer |-> TRUE].edge = e
      OBVIOUS
    <3> QED
      BY ONLY <2>4, <3>1, <3>2
  <2>6. refs'[e.from][e.col] \in entries(e.from)'
    BY <2>2, <2>5, AbsentAssumption DEF entries
  <2> QED
    BY <2>1, <2>5, <2>6 DEF expansions, registered
<1> QED
  BY Invariance, <1>1, PTL DEF Spec, GrantedIsFollowed
-----------------------------------------------------------------------------
(* What an expansion yields.                                               *)
(*                                                                         *)
(* At one name of the chain the objects are always the row, or the row     *)
(* with an array under that name: entries read columns, which no array     *)
(* replaces.  Whatever the order of the entries, one that finds its column *)
(* has put an array there at the end.  The names follow by induction, from *)
(* the last to the first.                                                  *)

\* The references of a collection are finitely many: a step files one at most.
FiniteEntries == \A n \in Names : IsFiniteSet(entries(n))

LEMMA RefsChange == [Next]_vars => refs' = refs \/ insert
BY DEF Next, vars, Create, DropCollection, Clear, Write, LoadFromJson, LoadSchemas, LoadSchemasFails,
       becomes, loads, CreateReference, InferReference, InferNext, begin, Manager, Get, LookUpFirst,
       RegisterForward, RegisterInverse, Refuse

LEMMA EntriesFinite == Spec => []FiniteEntries
<1>1. Init => FiniteEntries
  <2> SUFFICES ASSUME Init, NEW n \in Names PROVE IsFiniteSet(entries(n))
    BY DEF FiniteEntries
  <2>1. entries(n) = {}
    BY DEF Init, entries
  <2> QED
    BY <2>1, FS_EmptySet
<1>2. IInv /\ FiniteEntries /\ [Next]_vars => FiniteEntries'
  <2> SUFFICES ASSUME IInv, FiniteEntries, [Next]_vars, NEW n \in Names PROVE IsFiniteSet(entries(n)')
    BY DEF FiniteEntries
  <2> DEFINE x == [edge |-> call.edge, referrer |-> call.referrer]
  <2>1. entries(n)' \subseteq entries(n) \cup {x}
    <3>1. refs \in [Names -> [Cols -> Refs \cup {NoRef}]]
      BY DEF IInv, TypeOK
    <3>2. CASE refs' = refs
      BY <3>2 DEF entries
    <3>3. CASE insert
      <4> DEFINE s == slot
      <4>1. refs' = [refs EXCEPT ![s[1]][s[2]] = x]
        BY <3>3 DEF insert
      <4> HIDE DEF x, s
      <4>2. \A k \in Cols : refs'[n][k] = refs[n][k] \/ refs'[n][k] = x
        BY <3>1, <4>1
      <4> QED
        BY <4>2 DEF entries
    <3> QED
      BY <3>2, <3>3, RefsChange
  <2>2. IsFiniteSet(entries(n) \cup {x})
    BY FS_AddElement DEF FiniteEntries
  <2> QED
    BY <2>1, <2>2, FS_Subset
<1> QED
  BY <1>1, <1>2, Invariance, PTL DEF Spec
-----------------------------------------------------------------------------
(* One name of a chain.                                                    *)

\* The row with some array under t, and what has been put there.
puts(row, t, W) == {put(row, t, X) : X \in W}
objects_of(row, t, W) == {row} \cup puts(row, t, W)

LEMMA PutFacts ==
  ASSUME NEW row, NEW t, NEW W, NEW o \in objects_of(row, t, W), NEW k, k # t
  PROVE  /\ k \in DOMAIN o <=> k \in DOMAIN row
         /\ k \in DOMAIN row => o[k] = row[k]
         /\ \A X : put(o, t, X) = put(row, t, X)
<1>1. CASE o = row
  BY <1>1
<1>2. ASSUME NEW Y \in W, o = put(row, t, Y)
      PROVE  /\ k \in DOMAIN o <=> k \in DOMAIN row
             /\ k \in DOMAIN row => o[k] = row[k]
             /\ \A X : put(o, t, X) = put(row, t, X)
  <2>1. /\ DOMAIN o = DOMAIN row \cup {t}
        /\ \A j \in DOMAIN row : j # t => o[j] = row[j]
    BY <1>2 DEF put
  <2>2. ASSUME NEW X PROVE put(o, t, X) = put(row, t, X)
    BY <2>1 DEF put
  <2> QED
    BY <2>1, <2>2
<1> QED
  BY <1>1, <1>2 DEF objects_of, puts

\* The arrays of expansions of the documents found.
arrays_of(t, column, value, rest) ==
  LET rows == found(t, column, value) IN
  {X \in SUBSET UNION {rest[t][d] : d \in rows} : \A d \in rows : X \cap rest[t][d] # {}}

\* Every document of t has an answer, and only answers it should have.
answered(t, A, B) == \A d \in rows_of(t) : A[t][d] # {} /\ A[t][d] \subseteq B[t][d]

LEMMA FilteredFacts ==
  ASSUME NEW t, NEW column, NEW value, NEW A, NEW B, answered(t, A, B)
  PROVE  /\ get_filtered_by_columns_values(t, column, value, A) # {}
         /\ get_filtered_by_columns_values(t, column, value, A) \subseteq arrays_of(t, column, value, B)
<1> DEFINE rows == found(t, column, value)
           choices == {f \in [rows -> UNION {A[t][d] : d \in rows}] : \A d \in rows : f[d] \in A[t][d]}
<1>1. \A d \in rows : A[t][d] # {} /\ A[t][d] \subseteq B[t][d]
  BY DEF found, answered
<1>2. get_filtered_by_columns_values(t, column, value, A) = {{f[d] : d \in rows} : f \in choices}
  BY DEF get_filtered_by_columns_values
<1> HIDE DEF rows
<1>3. choices # {}
  <2> DEFINE f == [d \in rows |-> CHOOSE x : x \in A[t][d]]
  <2>1. \A d \in rows : f[d] \in A[t][d]
    BY <1>1
  <2> HIDE DEF f
  <2>2. f \in [rows -> UNION {A[t][d] : d \in rows}]
    BY <2>1 DEF f
  <2> QED
    BY <2>1, <2>2
<1>4. ASSUME NEW f \in choices PROVE {f[d] : d \in rows} \in arrays_of(t, column, value, B)
  <2> DEFINE X == {f[d] : d \in rows}
  <2>1. \A d \in rows : f[d] \in B[t][d]
    BY <1>1
  <2>2. X \in SUBSET UNION {B[t][d] : d \in rows}
    BY <2>1
  <2>3. \A d \in rows : X \cap B[t][d] # {}
    BY <2>1
  <2> HIDE DEF X
  <2>4. X \in {Y \in SUBSET UNION {B[t][d] : d \in rows} : \A d \in rows : Y \cap B[t][d] # {}}
    BY <2>2, <2>3
  <2> QED
    BY <2>4 DEF arrays_of, rows, X
<1> HIDE DEF choices
<1> DEFINE results == {{f[d] : d \in rows} : f \in choices}
<1>5. results # {}
  <2>1. PICK f : f \in choices
    BY <1>3
  <2>2. {f[d] : d \in rows} \in results
    BY <2>1
  <2> QED
    BY <2>2
<1>6. results \subseteq arrays_of(t, column, value, B)
  BY <1>4
<1>7. get_filtered_by_columns_values(t, column, value, A) = results
  BY <1>2
<1> HIDE DEF results
<1> QED
  BY <1>5, <1>6, <1>7

\* The entry leads from the row to t by one of its sides.
leads(r, row, t) ==
  /\ registered(t)
  /\ \/ Lower[r.edge.to] = t /\ r.edge.col \in DOMAIN row
     \/ Lower[r.edge.from] = t /\ r.edge.refcol \in DOMAIN row

\* What following one side makes of an object.
LEMMA FollowFacts ==
  ASSUME NEW row, NEW t, NEW W, NEW o \in objects_of(row, t, W), NEW own, own # t, NEW other, NEW A,
         own \in DOMAIN row /\ registered(t) =>
           /\ get_filtered_by_columns_values(t, other, row[own], A) # {}
           /\ get_filtered_by_columns_values(t, other, row[own], A) \subseteq W
  PROVE  /\ follow(o, t, own, other, A) # {}
         /\ follow(o, t, own, other, A) \subseteq objects_of(row, t, W)
         /\ o \in puts(row, t, W) \/ (own \in DOMAIN row /\ registered(t))
            => follow(o, t, own, other, A) \subseteq puts(row, t, W)
<1>1. CASE own \in DOMAIN row /\ registered(t)
  <2> DEFINE R == get_filtered_by_columns_values(t, other, row[own], A)
  <2>1. R # {} /\ R \subseteq W
    BY <1>1
  <2>2. own \in DOMAIN o /\ o[own] = row[own] /\ \A X : put(o, t, X) = put(row, t, X)
    BY <1>1, PutFacts
  <2>3. follow(o, t, own, other, A) = {put(o, t, X) : X \in R}
    BY <1>1, <2>2 DEF follow
  <2> HIDE DEF R
  <2>4. {put(o, t, X) : X \in R} = {put(row, t, X) : X \in R}
    BY <2>2
  <2>5. {put(row, t, X) : X \in R} # {} /\ {put(row, t, X) : X \in R} \subseteq puts(row, t, W)
    BY <2>1 DEF puts
  <2> QED
    BY <2>3, <2>4, <2>5 DEF objects_of
<1>2. CASE ~(own \in DOMAIN row /\ registered(t))
  <2>1. ~(own \in DOMAIN o /\ registered(t))
    BY <1>2, PutFacts
  <2>2. follow(o, t, own, other, A) = {o}
    BY <2>1 DEF follow
  <2> QED
    BY <1>2, <2>2
<1> QED
  BY <1>1, <1>2

\* What following one side makes of a set of objects.
all_follow(objects, t, own, other, A) == UNION {follow(o, t, own, other, A) : o \in objects}

LEMMA FollowAll ==
  ASSUME NEW row, NEW t, NEW W, NEW objects \in SUBSET objects_of(row, t, W), objects # {},
         NEW own, own # t, NEW other, NEW A,
         own \in DOMAIN row /\ registered(t) =>
           /\ get_filtered_by_columns_values(t, other, row[own], A) # {}
           /\ get_filtered_by_columns_values(t, other, row[own], A) \subseteq W
  PROVE  /\ all_follow(objects, t, own, other, A) # {}
         /\ all_follow(objects, t, own, other, A) \subseteq objects_of(row, t, W)
         /\ objects \subseteq puts(row, t, W) \/ (own \in DOMAIN row /\ registered(t))
            => all_follow(objects, t, own, other, A) \subseteq puts(row, t, W)
<1>1. \A o \in objects :
        /\ follow(o, t, own, other, A) # {}
        /\ follow(o, t, own, other, A) \subseteq objects_of(row, t, W)
        /\ o \in puts(row, t, W) \/ (own \in DOMAIN row /\ registered(t))
           => follow(o, t, own, other, A) \subseteq puts(row, t, W)
  BY FollowFacts
<1> QED
  BY <1>1 DEF all_follow

\* What an entry makes of a set of objects.
visited(row, t, W, objects, next) ==
  /\ next # {} /\ next \subseteq objects_of(row, t, W)
  /\ objects \subseteq puts(row, t, W) => next \subseteq puts(row, t, W)

LEMMA VisitFacts ==
  ASSUME NEW row, NEW t, NEW W, NEW objects \in SUBSET objects_of(row, t, W), objects # {},
         NEW r, r.edge.col # t, r.edge.refcol # t, NEW A,
         Lower[r.edge.to] = t /\ r.edge.col \in DOMAIN row /\ registered(t) =>
           /\ get_filtered_by_columns_values(t, r.edge.refcol, row[r.edge.col], A) # {}
           /\ get_filtered_by_columns_values(t, r.edge.refcol, row[r.edge.col], A) \subseteq W,
         Lower[r.edge.from] = t /\ r.edge.refcol \in DOMAIN row /\ registered(t) =>
           /\ get_filtered_by_columns_values(t, r.edge.col, row[r.edge.refcol], A) # {}
           /\ get_filtered_by_columns_values(t, r.edge.col, row[r.edge.refcol], A) \subseteq W
  PROVE  /\ visited(row, t, W, objects, visit(objects, r, t, A))
         /\ leads(r, row, t) => visit(objects, r, t, A) \subseteq puts(row, t, W)
<1> DEFINE forward == IF Lower[r.edge.to] # t THEN objects
                      ELSE UNION {follow(o, t, r.edge.col, r.edge.refcol, A) : o \in objects}
           backward == IF Lower[r.edge.from] # t THEN forward
                       ELSE UNION {follow(o, t, r.edge.refcol, r.edge.col, A) : o \in forward}
<1>1. visit(objects, r, t, A) = backward
  BY DEF visit
<1>2. /\ visited(row, t, W, objects, forward)
      /\ Lower[r.edge.to] = t /\ r.edge.col \in DOMAIN row /\ registered(t) => forward \subseteq puts(row, t, W)
  <2>1. CASE Lower[r.edge.to] # t
    BY <2>1 DEF visited
  <2>2. CASE Lower[r.edge.to] = t
    <3> DEFINE next == all_follow(objects, t, r.edge.col, r.edge.refcol, A)
    <3>1. /\ next # {} /\ next \subseteq objects_of(row, t, W)
          /\ objects \subseteq puts(row, t, W) \/ (r.edge.col \in DOMAIN row /\ registered(t))
             => next \subseteq puts(row, t, W)
      BY <2>2, FollowAll
    <3>2. forward = next
      BY <2>2 DEF all_follow
    <3> HIDE DEF next, forward
    <3> QED
      BY <3>1, <3>2 DEF visited
  <2> QED
    BY <2>1, <2>2
<1> HIDE DEF forward
<1>3. /\ visited(row, t, W, forward, backward)
      /\ Lower[r.edge.from] = t /\ r.edge.refcol \in DOMAIN row /\ registered(t) => backward \subseteq puts(row, t, W)
  <2>1. forward # {} /\ forward \in SUBSET objects_of(row, t, W)
    BY <1>2 DEF visited
  <2>2. CASE Lower[r.edge.from] # t
    BY <2>1, <2>2 DEF visited
  <2>3. CASE Lower[r.edge.from] = t
    <3> DEFINE next == all_follow(forward, t, r.edge.refcol, r.edge.col, A)
    <3>1. /\ next # {} /\ next \subseteq objects_of(row, t, W)
          /\ forward \subseteq puts(row, t, W) \/ (r.edge.refcol \in DOMAIN row /\ registered(t))
             => next \subseteq puts(row, t, W)
      BY <2>1, <2>3, FollowAll
    <3>2. backward = next
      BY <2>3 DEF all_follow
    <3> HIDE DEF next, backward
    <3> QED
      BY <3>1, <3>2 DEF visited
  <2> QED
    BY <2>2, <2>3
<1> HIDE DEF backward
<1> QED
  BY <1>1, <1>2, <1>3 DEF visited, leads

\* The column pairs by which references lead from the row to t.
open_ways(c, row, t) == {w \in ways(c, t) : registered(t) /\ w[1] \in DOMAIN row}
arrays(c, row, t, B) == UNION {arrays_of(t, w[2], row[w[1]], B) : w \in open_ways(c, row, t)}

LEMMA JoinsIs ==
  ASSUME NEW c, NEW row, NEW t, NEW B
  PROVE  joins(c, row, t, B) = IF open_ways(c, row, t) = {} THEN {row} ELSE puts(row, t, arrays(c, row, t, B))
BY DEF joins, open_ways, arrays, arrays_of, puts

\* The entries of c that name t, t another collection, are references between the two.
LEMMA NamedFacts ==
  ASSUME IInv, NEW c \in Colls, NEW t \in Colls, c # t, NEW r \in named(c, t), NEW row
  PROVE  /\ r.edge.col \in Cols /\ r.edge.refcol \in Cols
         /\ Lower[r.edge.to] = t => <<r.edge.col, r.edge.refcol>> \in ways(c, t)
         /\ Lower[r.edge.from] = t => <<r.edge.refcol, r.edge.col>> \in ways(c, t)
<1>1. r \in entries(c)
  BY DEF named
<1>2. PICK k \in Cols : r = refs[c][k] /\ r # NoRef
  BY <1>1 DEF entries
<1>3. c \in Names /\ Lower[c] = c
  BY LowerFacts
<1>4. r.edge.to = c \/ r.edge.from = c
  BY <1>2, <1>3 DEF IInv, EntriesInPlace
<1>5. r \in Refs
  BY <1>2, <1>3 DEF IInv, TypeOK
<1>6. r.edge.col \in Cols /\ r.edge.refcol \in Cols
  BY <1>5 DEF Refs, Edges
<1>7. ASSUME Lower[r.edge.to] = t PROVE <<r.edge.col, r.edge.refcol>> \in ways(c, t)
  BY <1>1, <1>3, <1>4, <1>7 DEF ways
<1>8. ASSUME Lower[r.edge.from] = t PROVE <<r.edge.refcol, r.edge.col>> \in ways(c, t)
  BY <1>1, <1>3, <1>4, <1>8 DEF ways
<1> QED
  BY <1>6, <1>7, <1>8

\* Where there is a way there is an entry that leads.
LEMMA WayFacts ==
  ASSUME NEW c, NEW t, NEW row, open_ways(c, row, t) # {}
  PROVE  \E r \in named(c, t) : leads(r, row, t)
<1>1. PICK w \in ways(c, t) : registered(t) /\ w[1] \in DOMAIN row
  BY DEF open_ways
<1>2. CASE \E r \in entries(c) : Lower[r.edge.to] = t /\ w = <<r.edge.col, r.edge.refcol>>
  BY <1>1, <1>2 DEF named, leads
<1>3. CASE \E r \in entries(c) : Lower[r.edge.from] = t /\ w = <<r.edge.refcol, r.edge.col>>
  BY <1>1, <1>3 DEF named, leads
<1> QED
  BY <1>1, <1>2, <1>3 DEF ways

\* An entry takes a set of objects to another.
LEMMA EntryFacts ==
  ASSUME IInv, NEW c \in Colls, NEW t \in Colls, c # t, NEW row, NEW A, NEW B, answered(t, A, B),
         NEW r \in named(c, t), NEW objects \in SUBSET objects_of(row, t, arrays(c, row, t, B)), objects # {}
  PROVE  /\ visited(row, t, arrays(c, row, t, B), objects, visit(objects, r, t, A))
         /\ leads(r, row, t) => visit(objects, r, t, A) \subseteq puts(row, t, arrays(c, row, t, B))
<1> DEFINE W == arrays(c, row, t, B)
<1>1. t \notin Cols
  BY RowsAssumption
<1>2. r.edge.col # t /\ r.edge.refcol # t
  BY <1>1, NamedFacts
<1>3. ASSUME NEW own, NEW other, <<own, other>> \in ways(c, t), own \in DOMAIN row, registered(t)
      PROVE  /\ get_filtered_by_columns_values(t, other, row[own], A) # {}
             /\ get_filtered_by_columns_values(t, other, row[own], A) \subseteq W
  <2>1. <<own, other>> \in open_ways(c, row, t)
    BY <1>3 DEF open_ways
  <2>2. arrays_of(t, other, row[own], B) \subseteq W
    BY <2>1 DEF arrays
  <2>3. /\ get_filtered_by_columns_values(t, other, row[own], A) # {}
        /\ get_filtered_by_columns_values(t, other, row[own], A) \subseteq arrays_of(t, other, row[own], B)
    BY FilteredFacts
  <2> HIDE DEF W
  <2> QED
    BY <2>2, <2>3
<1>4. Lower[r.edge.to] = t /\ r.edge.col \in DOMAIN row /\ registered(t) =>
        /\ get_filtered_by_columns_values(t, r.edge.refcol, row[r.edge.col], A) # {}
        /\ get_filtered_by_columns_values(t, r.edge.refcol, row[r.edge.col], A) \subseteq W
  BY <1>3, NamedFacts
<1>5. Lower[r.edge.from] = t /\ r.edge.refcol \in DOMAIN row /\ registered(t) =>
        /\ get_filtered_by_columns_values(t, r.edge.col, row[r.edge.refcol], A) # {}
        /\ get_filtered_by_columns_values(t, r.edge.col, row[r.edge.refcol], A) \subseteq W
  BY <1>3, NamedFacts
<1> HIDE DEF W
<1>6. objects \in SUBSET objects_of(row, t, W)
  BY DEF W
<1>7. /\ visited(row, t, W, objects, visit(objects, r, t, A))
      /\ leads(r, row, t) => visit(objects, r, t, A) \subseteq puts(row, t, W)
  BY <1>2, <1>4, <1>5, <1>6, VisitFacts
<1> QED
  BY <1>7 DEF W

\* All the entries, in any order.
all_visit(order, row, t, A) == FoldLeft(LAMBDA objects, r : visit(objects, r, t, A), {row}, order)

LEMMA FoldFacts ==
  ASSUME IInv, NEW c \in Colls, NEW t \in Colls, c # t, NEW row, NEW A, NEW B, answered(t, A, B),
         NEW n \in Nat, NEW order \in [1..n -> named(c, t)],
         \A r \in named(c, t) : \E i \in 1..n : order[i] = r
  PROVE  /\ all_visit(order, row, t, A) # {}
         /\ all_visit(order, row, t, A) \subseteq joins(c, row, t, B)
<1> DEFINE W == arrays(c, row, t, B)
           V == named(c, t)
           D == (SUBSET objects_of(row, t, W)) \ {{}}
           P == SUBSET puts(row, t, W)
           base == {row}
           G == [a \in D |-> [r \in V |-> visit(a, r, t, A)]]
           is_fold(F) == F = [X \in SUBSET (1..n) |->
                                IF X = {} THEN base ELSE visit(F[X \ {Max(X)}], order[Max(X)], t, A)]
           H == CHOOSE F : is_fold(F)
<1>1. base \in D
  BY DEF objects_of
<1>2. \A a \in D, r \in V :
        /\ visit(a, r, t, A) \in D
        /\ leads(r, row, t) => visit(a, r, t, A) \in P
        /\ a \in P => visit(a, r, t, A) \in P
  BY EntryFacts DEF visited
<1>3. all_visit(order, row, t, A) = H[1..n]
  <2>1. DOMAIN order = 1..n
    OBVIOUS
  <2> QED
    BY <2>1 DEF all_visit, FoldLeft, MapThenFoldSet
<1>4. joins(c, row, t, B) = IF open_ways(c, row, t) = {} THEN {row} ELSE puts(row, t, W)
  BY JoinsIs
<1>5. open_ways(c, row, t) = {} => D = {{row}}
  <2> SUFFICES ASSUME open_ways(c, row, t) = {} PROVE D = {{row}}
    OBVIOUS
  <2>1. W = {}
    BY DEF arrays
  <2>2. objects_of(row, t, W) = {row}
    BY <2>1 DEF objects_of, puts
  <2> QED
    BY <2>2
<1>6. {} \notin D
  OBVIOUS
<1> HIDE DEF D, P, W, base
<1>7. G \in [D -> [V -> D]] /\ \A a \in D, r \in V : G[a][r] = visit(a, r, t, A)
  BY <1>2
<1> HIDE DEF G
<1>8. PICK F : is_left_fold(F, n, D, base, G, order)
  BY <1>1, <1>7, FoldExists
<1>9. /\ F \in [SUBSET (1..n) -> D] /\ F[{}] = base
      /\ \A X \in SUBSET (1..n) : X # {} => F[X] = G[F[X \ {Max(X)}]][order[Max(X)]]
  BY <1>8 DEF is_left_fold
<1>10. ASSUME NEW X \in SUBSET (1..n), X # {}
       PROVE  F[X] = visit(F[X \ {Max(X)}], order[Max(X)], t, A)
  <2>1. PICK m \in 1..n : m = Max(X)
    BY <1>10, MaxFacts
  <2>2. X \ {m} \in SUBSET (1..n) /\ order[m] \in V
    OBVIOUS
  <2>3. F[X \ {m}] \in D
    BY <1>9, <2>2
  <2> HIDE DEF V
  <2> QED
    BY <1>7, <1>9, <1>10, <2>1, <2>2, <2>3
<1>11. is_fold(F)
  BY <1>9, <1>10
<1>12. is_fold(H)
  BY <1>11
<1> HIDE DEF H
<1>13. ASSUME NEW E, is_fold(E)
       PROVE  /\ E[{}] = base
              /\ \A X \in SUBSET (1..n) : X # {} => E[X] = visit(E[X \ {Max(X)}], order[Max(X)], t, A)
  BY <1>13
<1> HIDE DEF is_fold
<1>14. F[1..n] = H[1..n]
  <2>1. F[{}] = H[{}]
    BY <1>11, <1>12, <1>13
  <2>2. \A X \in SUBSET (1..n) : X # {} /\ F[X \ {Max(X)}] = H[X \ {Max(X)}] => F[X] = H[X]
    BY <1>11, <1>12, <1>13
  <2> QED
    BY <2>1, <2>2, FoldsAgree
<1>15. F[1..n] \in D
  BY <1>9
<1>16. ASSUME open_ways(c, row, t) # {} PROVE F[1..n] \in P
  <2> DEFINE T == {r \in V : leads(r, row, t)}
  <2>1. PICK r \in V : leads(r, row, t)
    BY <1>16, WayFacts
  <2>2. PICK i \in 1..n : order[i] = r
    OBVIOUS
  <2>3. order[i] \in T
    BY <2>1, <2>2
  <2>4. reaching(D, V, G, P, T)
    BY <1>2, <1>7 DEF reaching
  <2> HIDE DEF T, V
  <2>5. order \in [1..n -> V]
    BY DEF V
  <2> QED
    BY <1>8, <2>3, <2>4, <2>5, FoldReaches
<1> DEFINE last == H[1..n]
<1>17. last # {} /\ last \subseteq joins(c, row, t, B)
  <2>1. last \in D /\ last # {}
    BY <1>6, <1>14, <1>15
  <2>2. CASE open_ways(c, row, t) = {}
    BY <1>4, <1>5, <2>1, <2>2
  <2>3. CASE open_ways(c, row, t) # {}
    <3>1. last \in P
      BY <1>14, <1>16, <2>3
    <3>2. last \subseteq puts(row, t, W)
      BY <3>1 DEF P
    <3> HIDE DEF last
    <3> QED
      BY <1>4, <2>1, <2>3, <3>2
  <2> QED
    BY <2>1, <2>2, <2>3
<1> QED
  BY <1>3, <1>17

\* One name of a chain: there is an answer, and every answer is as it should be.
LEMMA ExpandFacts ==
  ASSUME IInv, FiniteEntries, NEW c \in Colls, NEW t \in Colls, c # t, NEW row,
         NEW A, NEW B, answered(t, A, B)
  PROVE  expand_object(c, row, t, A) # {} /\ expand_object(c, row, t, A) \subseteq joins(c, row, t, B)
<1> DEFINE S == named(c, t)
           n == Cardinality(S)
           last(order) == all_visit(order, row, t, A)
           results == UNION {last(order) : order \in SetToSeqs(S)}
<1>1. IsFiniteSet(S)
  <2>1. c \in Names
    BY LowerFacts
  <2>2. S \subseteq entries(c)
    BY DEF named
  <2> QED
    BY <2>1, <2>2, FS_Subset DEF FiniteEntries
<1> HIDE DEF S
<1>2. n \in Nat /\ SetToSeqs(S) # {}
  BY <1>1, OrderFacts
<1>3. ASSUME NEW order \in SetToSeqs(S)
      PROVE  last(order) # {} /\ last(order) \subseteq joins(c, row, t, B)
  <2>1. order \in [1..n -> S] /\ \A r \in S : \E i \in 1..n : order[i] = r
    BY <1>1, OrderFacts
  <2> HIDE DEF n
  <2> QED
    BY <1>2, <2>1, FoldFacts DEF S
<1>4. expand_object(c, row, t, A) = results
  BY DEF expand_object, all_visit, S
<1> HIDE DEF last
<1>5. results # {}
  <2>1. PICK order : order \in SetToSeqs(S)
    BY <1>2
  <2> QED
    BY <1>3, <2>1
<1>6. results \subseteq joins(c, row, t, B)
  BY <1>3
<1> QED
  BY <1>4, <1>5, <1>6
-----------------------------------------------------------------------------
(* Chains.                                                                 *)

\* The definition of a function by its last name, over the last n names.
name(chain, i) == chain[Len(chain) - i + 1]

is_answers(g, chain, n) ==
  g = [i \in 0..n |-> [d \in Colls |-> [x \in Rows[d] |->
         IF i = 0 THEN {x} ELSE expand_object(d, x, name(chain, i), g[i - 1])]]]
is_allowed(g, chain, n) ==
  g = [i \in 0..n |-> [d \in Colls |-> [x \in Rows[d] |->
         IF i = 0 THEN {x} ELSE joins(d, x, name(chain, i), g[i - 1])]]]

LEMMA AnswersExist ==
  ASSUME NEW chain
  PROVE  \A n \in Nat : \E g : is_answers(g, chain, n)
<1> DEFINE S == {n \in Nat : \E g : is_answers(g, chain, n)}
           at(g, i) == [d \in Colls |-> [x \in Rows[d] |->
                          IF i = 0 THEN {x} ELSE expand_object(d, x, name(chain, i), g[i - 1])]]
<1>1. 0 \in S
  <2> DEFINE g == [i \in 0..0 |-> [d \in Colls |-> [x \in Rows[d] |-> {x}]]]
  <2>1. is_answers(g, chain, 0)
    <3>1. \A i \in 0..0 : i = 0
      OBVIOUS
    <3> QED
      BY <3>1 DEF is_answers
  <2> QED
    BY <2>1
<1>2. ASSUME NEW n \in Nat, n \in S PROVE n + 1 \in S
  <2>1. PICK g : g = [i \in 0..n |-> at(g, i)]
    BY <1>2 DEF is_answers
  <2> DEFINE h == [i \in 0..(n + 1) |-> IF i = n + 1 THEN at(g, n + 1) ELSE g[i]]
  <2>2. ASSUME NEW i \in 0..(n + 1) PROVE h[i] = at(h, i)
    <3>1. ASSUME i # 0 PROVE h[i - 1] = g[i - 1]
      <4>1. i - 1 \in 0..(n + 1) /\ i - 1 # n + 1
        BY <3>1
      <4> QED
        BY <4>1
    <3>2. at(g, i) = at(h, i)
      <4> HIDE DEF h
      <4> QED
        BY <3>1
    <3>3. h[i] = at(g, i)
      <4>1. CASE i = n + 1
        BY <4>1
      <4>2. CASE i # n + 1
        <5>1. i \in 0..n
          BY <4>2
        <5>2. h[i] = g[i]
          BY <4>2
        <5> HIDE DEF h, at
        <5> QED
          BY <2>1, <5>1, <5>2
      <4> QED
        BY <4>1, <4>2
    <3> HIDE DEF h, at
    <3> QED
      BY <3>2, <3>3
  <2> DEFINE f == [i \in 0..(n + 1) |-> at(h, i)]
  <2>3. h = f
    BY <2>2
  <2>4. is_answers(h, chain, n + 1)
    <3> HIDE DEF h
    <3> QED
      BY <2>3 DEF is_answers
  <2> QED
    BY <2>4
<1> HIDE DEF S
<1>3. Nat \subseteq S
  BY <1>1, <1>2, SetInduction
<1> QED
  BY <1>3 DEF S

\* The same for what expansions should be.
LEMMA AllowedExist ==
  ASSUME NEW chain
  PROVE  \A n \in Nat : \E g : is_allowed(g, chain, n)
<1> DEFINE S == {n \in Nat : \E g : is_allowed(g, chain, n)}
           at(g, i) == [d \in Colls |-> [x \in Rows[d] |->
                          IF i = 0 THEN {x} ELSE joins(d, x, name(chain, i), g[i - 1])]]
<1>1. 0 \in S
  <2> DEFINE g == [i \in 0..0 |-> [d \in Colls |-> [x \in Rows[d] |-> {x}]]]
  <2>1. is_allowed(g, chain, 0)
    <3>1. \A i \in 0..0 : i = 0
      OBVIOUS
    <3> QED
      BY <3>1 DEF is_allowed
  <2> QED
    BY <2>1
<1>2. ASSUME NEW n \in Nat, n \in S PROVE n + 1 \in S
  <2>1. PICK g : g = [i \in 0..n |-> at(g, i)]
    BY <1>2 DEF is_allowed
  <2> DEFINE h == [i \in 0..(n + 1) |-> IF i = n + 1 THEN at(g, n + 1) ELSE g[i]]
  <2>2. ASSUME NEW i \in 0..(n + 1) PROVE h[i] = at(h, i)
    <3>1. ASSUME i # 0 PROVE h[i - 1] = g[i - 1]
      <4>1. i - 1 \in 0..(n + 1) /\ i - 1 # n + 1
        BY <3>1
      <4> QED
        BY <4>1
    <3>2. at(g, i) = at(h, i)
      <4> HIDE DEF h
      <4> QED
        BY <3>1
    <3>3. h[i] = at(g, i)
      <4>1. CASE i = n + 1
        BY <4>1
      <4>2. CASE i # n + 1
        <5>1. i \in 0..n
          BY <4>2
        <5>2. h[i] = g[i]
          BY <4>2
        <5> HIDE DEF h, at
        <5> QED
          BY <2>1, <5>1, <5>2
      <4> QED
        BY <4>1, <4>2
    <3> HIDE DEF h, at
    <3> QED
      BY <3>2, <3>3
  <2> DEFINE f == [i \in 0..(n + 1) |-> at(h, i)]
  <2>3. h = f
    BY <2>2
  <2>4. is_allowed(h, chain, n + 1)
    <3> HIDE DEF h
    <3> QED
      BY <2>3 DEF is_allowed
  <2> QED
    BY <2>4
<1> HIDE DEF S
<1>3. Nat \subseteq S
  BY <1>1, <1>2, SetInduction
<1> QED
  BY <1>3 DEF S

\* Along the last i names, the first of them another collection than d.
right(chain, A, B, i) ==
  \A d \in Colls : \A x \in Rows[d] : i = 0 \/ d # name(chain, i) =>
    A[i][d][x] # {} /\ A[i][d][x] \subseteq B[i][d][x]

LEMMA ChainFacts ==
  ASSUME IInv, FiniteEntries, NEW n \in Nat, NEW chain \in [1..n -> Colls],
         \A i \in 2..n : chain[i] # chain[i - 1],
         NEW A, is_answers(A, chain, n), NEW B, is_allowed(B, chain, n)
  PROVE  right(chain, A, B, n)
<1>1. \A d \in Colls : \A x \in Rows[d] : A[0][d][x] = {x} /\ B[0][d][x] = {x}
  <2>1. 0 \in 0..n
    OBVIOUS
  <2>2. A[0] = [d \in Colls |-> [x \in Rows[d] |-> {x}]]
    BY <2>1 DEF is_answers
  <2>3. B[0] = [d \in Colls |-> [x \in Rows[d] |-> {x}]]
    BY <2>1 DEF is_allowed
  <2> QED
    BY <2>2, <2>3
<1>2. ASSUME NEW i \in 1..n, NEW d \in Colls, NEW x \in Rows[d]
      PROVE  /\ A[i][d][x] = expand_object(d, x, name(chain, i), A[i - 1])
             /\ B[i][d][x] = joins(d, x, name(chain, i), B[i - 1])
  <2>1. i \in 0..n /\ i # 0
    OBVIOUS
  <2>2. A[i] = [e \in Colls |-> [y \in Rows[e] |-> expand_object(e, y, name(chain, i), A[i - 1])]]
    BY <2>1 DEF is_answers
  <2>3. B[i] = [e \in Colls |-> [y \in Rows[e] |-> joins(e, y, name(chain, i), B[i - 1])]]
    BY <2>1 DEF is_allowed
  <2> QED
    BY <2>2, <2>3
<1>3. ASSUME NEW i \in 1..n
      PROVE  name(chain, i) \in Colls /\ (i # 1 => name(chain, i) # name(chain, i - 1))
  <2>1. Len(chain) = n
    OBVIOUS
  <2>2. n - i + 1 \in 1..n /\ (i # 1 => n - (i - 1) + 1 \in 2..n /\ (n - (i - 1) + 1) - 1 = n - i + 1)
    OBVIOUS
  <2> QED
    BY <2>1, <2>2 DEF name
<1> DEFINE S == {i \in Nat : i <= n => right(chain, A, B, i)}
<1>4. 0 \in S
  BY <1>1 DEF right
<1>5. ASSUME NEW j \in Nat, j \in S PROVE j + 1 \in S
  <2> DEFINE i == j + 1
             t == name(chain, i)
  <2> SUFFICES ASSUME i <= n PROVE right(chain, A, B, i)
    BY <1>5
  <2>1. i \in 1..n /\ i - 1 = j /\ j <= n /\ (i # 1 => j # 0) /\ (i = 1 => j = 0)
    OBVIOUS
  <2>2. right(chain, A, B, j)
    BY <1>5, <2>1
  <2>3. t \in Colls /\ (j = 0 \/ t # name(chain, j))
    BY <1>3, <2>1
  <2> HIDE DEF t, i
  <2>4. answered(t, A[j], B[j])
    <3>1. rows_of(t) \subseteq Rows[t]
      BY DEF rows_of
    <3> QED
      BY <2>2, <2>3, <3>1 DEF right, answered
  <2>5. ASSUME NEW d \in Colls, NEW x \in Rows[d], d # t
        PROVE  A[i][d][x] # {} /\ A[i][d][x] \subseteq B[i][d][x]
    <3>1. /\ expand_object(d, x, t, A[j]) # {}
          /\ expand_object(d, x, t, A[j]) \subseteq joins(d, x, t, B[j])
      BY <2>3, <2>4, <2>5, ExpandFacts
    <3>2. A[i][d][x] = expand_object(d, x, t, A[j]) /\ B[i][d][x] = joins(d, x, t, B[j])
      BY <1>2, <2>1 DEF t
    <3> QED
      BY <3>1, <3>2
  <2>6. i # 0
    BY <2>1
  <2> QED
    BY <2>5, <2>6 DEF right, t
<1> HIDE DEF S
<1>6. n \in S
  BY <1>4, <1>5, SetInduction
<1> QED
  BY <1>6 DEF S

\* The definitions of expand_row and expansions_of are such functions.
LEMMA RowAnswers ==
  ASSUME NEW n \in Nat, NEW chain \in [1..n -> Colls]
  PROVE  \E A : is_answers(A, chain, n) /\ \A c, row : expand_row(c, row, chain) = A[n][c][row]
<1> DEFINE is(g) == g = [i \in 0..n |-> [d \in Colls |-> [x \in Rows[d] |->
             IF i = 0 THEN {x} ELSE expand_object(d, x, chain[n - i + 1], g[i - 1])]]]
           A == CHOOSE g : is(g)
<1>1. Len(chain) = n
  OBVIOUS
<1>2. \A g : is(g) <=> is_answers(g, chain, n)
  BY <1>1 DEF is_answers, name
<1>3. ASSUME NEW c, NEW row PROVE expand_row(c, row, chain) = A[n][c][row]
  BY <1>1 DEF expand_row
<1> HIDE DEF is
<1>4. is(A)
  BY <1>2, AnswersExist
<1> QED
  BY <1>2, <1>3, <1>4

LEMMA RowAllowed ==
  ASSUME NEW n \in Nat, NEW chain \in [1..n -> Colls]
  PROVE  \E B : is_allowed(B, chain, n) /\ \A c, row : expansions_of(c, row, chain) = B[n][c][row]
<1> DEFINE is(g) == g = [i \in 0..n |-> [d \in Colls |-> [x \in Rows[d] |->
             IF i = 0 THEN {x} ELSE joins(d, x, chain[n - i + 1], g[i - 1])]]]
           B == CHOOSE g : is(g)
<1>1. Len(chain) = n
  OBVIOUS
<1>2. \A g : is(g) <=> is_allowed(g, chain, n)
  BY <1>1 DEF is_allowed, name
<1>3. ASSUME NEW c, NEW row PROVE expansions_of(c, row, chain) = B[n][c][row]
  BY <1>1 DEF expansions_of
<1> HIDE DEF is
<1>4. is(B)
  BY <1>2, AllowedExist
<1> QED
  BY <1>2, <1>3, <1>4

\* Whatever references the calls have left, in whatever order the entries come, and
\* however long the chain: an expansion has an answer, which is the row with the
\* documents joined to it by one reference, expanded in their turn.
THEOREM ExpansionsJoin == Spec => []ExpansionJoins
<1>1. IInv /\ FiniteEntries => ExpansionJoins
  <2> SUFFICES ASSUME IInv, FiniteEntries, NEW c \in Colls, NEW row \in Rows[c],
                      NEW n \in 1..MaxChain, NEW chain \in [1..n -> Colls], apart(c, chain)
               PROVE  /\ expand_row(c, row, chain) # {}
                      /\ expand_row(c, row, chain) \subseteq expansions_of(c, row, chain)
    BY DEF ExpansionJoins, Chains, listed
  <2>1. n \in Nat /\ 1 \in 1..n /\ n # 0 /\ Len(chain) = n /\ DOMAIN chain = 1..n
    OBVIOUS
  <2>2. chain[1] # c
    BY <2>1 DEF apart
  <2>3. \A i \in 2..n : chain[i] # chain[i - 1]
    <3>1. \A i \in 2..n : i \in 1..n /\ i # 1
      BY <2>1
    <3> QED
      BY <2>1, <3>1 DEF apart
  <2>4. PICK A : is_answers(A, chain, n) /\ \A d, x : expand_row(d, x, chain) = A[n][d][x]
    BY <2>1, RowAnswers
  <2>5. PICK B : is_allowed(B, chain, n) /\ \A d, x : expansions_of(d, x, chain) = B[n][d][x]
    BY <2>1, RowAllowed
  <2>6. right(chain, A, B, n)
    BY <2>1, <2>3, <2>4, <2>5, ChainFacts
  <2>7. name(chain, n) = chain[1]
    <3>1. n - n + 1 = 1
      BY <2>1
    <3> QED
      BY <2>1, <3>1 DEF name
  <2> QED
    BY <2>2, <2>4, <2>5, <2>6, <2>7 DEF right
<1> QED
  BY <1>1, Invariance, EntriesFinite, PTL
===============================================================================
