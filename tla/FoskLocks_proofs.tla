-------------------------- MODULE FoskLocks_proofs --------------------------
(***************************************************************************)
(* Calls that take the locks in the order reference manager, registry,     *)
(* collection never wait for each other in a circle, whatever the number   *)
(* of clients and collections and whether or not readers queue behind      *)
(* parked writers; and all calls of OrderedCalls do.                       *)
(***************************************************************************)
EXTENDS FoskLocks, SequenceTheorems, TLAPS

-----------------------------------------------------------------------------
(* Paths.                                                                  *)

\* Every stack of the path is ordered and stays above rank n.
Above(p, n) ==
  /\ p \in Paths
  /\ \A i \in 1..Len(p) :
       ordered(p[i]) /\ \A j \in 1..Len(p[i]) : rank(p[i][j].lock) > n

\* The empty path has no stack that could be out of order.
LEMMA EmptyAbove == ASSUME NEW n PROVE Above(<<>>, n)
  BY DEF Above, Paths

\* A rank is one of three numbers.
LEMMA RankType == ASSUME NEW l PROVE rank(l) \in 1..3
  BY DEF rank

\* What the lock constructors return.
LEMMA GuardTypes ==
  /\ Read("rm") \in Guards /\ rank(Read("rm").lock) = 1
  /\ Write("rm") \in Guards /\ rank(Write("rm").lock) = 1
  /\ Read("db") \in Guards /\ rank(Read("db").lock) = 2
  /\ Write("db") \in Guards /\ rank(Write("db").lock) = 2
  /\ \A c \in Colls : /\ Read(c) \in Guards /\ rank(Read(c).lock) = 3
                      /\ Write(c) \in Guards /\ rank(Write(c).lock) = 3
  BY CollsAssumption DEF Read, Write, Guards, Locks, rank

\* A guard put under an ordered stack of higher rank leaves it ordered.
LEMMA PushUnder ==
  ASSUME NEW g \in Guards, NEW s \in Stacks, NEW n \in Int, ordered(s),
         \A j \in 1..Len(s) : rank(s[j].lock) > rank(g.lock), rank(g.lock) > n
  PROVE  /\ <<g>> \o s \in Stacks
         /\ ordered(<<g>> \o s)
         /\ \A j \in 1..Len(<<g>> \o s) : rank((<<g>> \o s)[j].lock) > n
<1> DEFINE r == <<g>> \o s
<1>1. r \in Stacks /\ Len(r) = Len(s) + 1 /\ r[1] = g
  BY DEF Stacks
<1>2. \A j \in 2..Len(r) : r[j] = s[j - 1] /\ j - 1 \in 1..Len(s)
  BY DEF Stacks
<1>3. \A j \in 1..Len(r) : rank(r[j].lock) \in Int
  BY RankType
<1>4. \A j \in 2..Len(r) : rank(r[j].lock) > rank(g.lock)
  BY <1>2
<1>5. Len(s) \in Nat /\ rank(g.lock) \in Int
  BY RankType DEF Stacks
<1> HIDE DEF r
<1>6. \A j \in 1..Len(r) : rank(r[j].lock) > n
  BY <1>1, <1>3, <1>4, <1>5
<1>7. ordered(r)
  <2> SUFFICES ASSUME NEW i \in 1..Len(r), NEW j \in 1..Len(r), i < j
               PROVE  rank(r[i].lock) < rank(r[j].lock)
    BY DEF ordered
  <2>1. CASE i = 1
    BY <2>1, <1>1, <1>3, <1>4, <1>5
  <2>2. CASE i # 1
    <3>1. i \in 2..Len(r) /\ j \in 2..Len(r) /\ i - 1 < j - 1
      BY <2>2, <1>1, <1>5
    <3>2. rank(s[i - 1].lock) < rank(s[j - 1].lock)
      BY <3>1, <1>2 DEF ordered
    <3> QED BY <3>1, <3>2, <1>2
  <2> QED BY <2>1, <2>2
<1> QED BY <1>1, <1>6, <1>7 DEF r

\* A body that stays above g may run while g is held.
LEMMA UnderAbove ==
  ASSUME NEW g \in Guards, NEW body, NEW n \in Int, Above(body, rank(g.lock)), rank(g.lock) > n
  PROVE  Above(Under(g, body), n)
<1> DEFINE q == Under(g, body)
           f == [i \in 1..Len(body) |-> <<g>> \o body[i]]
<1>1. body \in Seq(Stacks) /\ Len(body) \in Nat /\ rank(g.lock) \in Int
  BY RankType DEF Above, Paths
<1>2. \A i \in 1..Len(body) :
        /\ f[i] \in Stacks /\ ordered(f[i])
        /\ \A j \in 1..Len(f[i]) : rank(f[i][j].lock) > n
  <2> SUFFICES ASSUME NEW i \in 1..Len(body)
               PROVE  /\ f[i] \in Stacks /\ ordered(f[i])
                      /\ \A j \in 1..Len(f[i]) : rank(f[i][j].lock) > n
    OBVIOUS
  <2>1. body[i] \in Stacks
    BY <1>1
  <2>2. ordered(body[i]) /\ \A j \in 1..Len(body[i]) : rank(body[i][j].lock) > rank(g.lock)
    BY DEF Above
  <2> QED BY <2>1, <2>2, PushUnder
<1>3. f \in Seq(Stacks) /\ Len(f) = Len(body)
  BY <1>1, <1>2, IsASeq
<1>4. <<g>> \in Stacks /\ <<>> \in Stacks
  BY DEF Stacks
<1>5. << <<g>> >> \in Seq(Stacks) /\ << <<>> >> \in Seq(Stacks)
  BY <1>4
<1>6. q = << <<g>> >> \o f \o << <<>> >>
  BY DEF Under
<1> HIDE DEF f, q
<1>7. q \in Seq(Stacks) /\ Len(q) = Len(f) + 2
  BY <1>3, <1>5, <1>6
<1>8. /\ q[1] = <<g>> /\ q[Len(f) + 2] = <<>>
      /\ \A i \in 2..(Len(f) + 1) : q[i] = f[i - 1]
  BY <1>3, <1>5, <1>6
<1>9. ASSUME NEW i \in 1..Len(q)
      PROVE  ordered(q[i]) /\ \A j \in 1..Len(q[i]) : rank(q[i][j].lock) > n
  <2>1. CASE i = 1
    <3>1. q[i] = <<g>>
      BY <2>1, <1>8
    <3> QED BY <3>1, <1>1 DEF ordered
  <2>2. CASE i = Len(f) + 2
    <3>1. q[i] = <<>>
      BY <2>2, <1>8
    <3> QED BY <3>1 DEF ordered
  <2>3. CASE i \in 2..(Len(f) + 1)
    <3>1. q[i] = f[i - 1] /\ i - 1 \in 1..Len(body)
      BY <2>3, <1>8, <1>3, <1>1
    <3> QED BY <3>1, <1>2
  <2> QED BY <2>1, <2>2, <2>3, <1>7, <1>3, <1>1
<1> QED BY <1>7, <1>9 DEF Above, Paths, q

\* One path after the other.
LEMMA ConcatAbove ==
  ASSUME NEW p, NEW q, NEW n, Above(p, n), Above(q, n)
  PROVE  Above(p \o q, n)
<1>1. p \in Seq(Stacks) /\ q \in Seq(Stacks)
  BY DEF Above, Paths
<1>2. p \o q \in Seq(Stacks) /\ Len(p \o q) = Len(p) + Len(q)
  BY <1>1
<1>3. \A i \in 1..Len(p \o q) :
        \/ i \in 1..Len(p) /\ (p \o q)[i] = p[i]
        \/ i - Len(p) \in 1..Len(q) /\ (p \o q)[i] = q[i - Len(p)]
  BY <1>1, <1>2
<1>4. \A i \in 1..Len(p \o q) :
        /\ ordered((p \o q)[i])
        /\ \A j \in 1..Len((p \o q)[i]) : rank((p \o q)[i][j].lock) > n
  BY <1>3 DEF Above
<1> QED BY <1>2, <1>4 DEF Above, Paths

\* A path that stays above a rank stays above a lower one.
LEMMA LowerAbove ==
  ASSUME NEW p, NEW m \in Int, NEW n \in Int, Above(p, m), n <= m
  PROVE  Above(p, n)
<1>1. \A i \in 1..Len(p) : \A j \in 1..Len(p[i]) :
        rank(p[i][j].lock) \in Int /\ rank(p[i][j].lock) > m
  BY RankType DEF Above
<1> QED BY <1>1 DEF Above
-----------------------------------------------------------------------------
(* The calls.                                                              *)

\* A collection's lock may be taken while the two others are held.
LEMMA ReadCollAbove ==
  ASSUME NEW c \in Colls, NEW n \in Int, n < 3
  PROVE  Above(read_coll(c), n) /\ Above(write_coll(c), n)
  BY EmptyAbove, GuardTypes, UnderAbove DEF read_coll, write_coll

\* The registry's lock may be taken while only the manager's is held.
LEMMA ReadDbAbove ==
  ASSUME NEW n \in Int, n < 2
  PROVE  Above(read_db, n) /\ Above(write_db, n)
  BY EmptyAbove, GuardTypes, UnderAbove DEF read_db, write_db

\* The lookups that run under the manager's guard.
LEMMA SidesAbove ==
  ASSUME NEW c \in Colls, NEW ref \in Colls
  PROVE  Above(create_side(c, ref), 1) /\ Above(infer_side(c, ref), 1)
<1>1. \A d \in Colls : Above(schema_of(d), 1)
  BY ReadCollAbove, GuardTypes, UnderAbove DEF schema_of
<1>2. Above(create_side(c, ref), 1)
  BY <1>1, ConcatAbove DEF create_side
<1>3. Above(read_db, 1) /\ Above(read_coll(ref), 1)
  BY ReadDbAbove, ReadCollAbove
<1>4. Above(read_db \o read_coll(ref), 1)
  BY <1>3, ConcatAbove
<1>5. Above(read_db \o read_coll(ref) \o read_coll(ref), 1)
  BY <1>3, <1>4, ConcatAbove
<1>6. Above(infer_side(c, ref), 1)
  BY <1>2, <1>5, ConcatAbove DEF infer_side
<1> QED BY <1>2, <1>6

\* A reference is made, on one side or on both, in lock order.
LEMMA ReferenceCallAbove ==
  ASSUME NEW side, Above(side, 1), NEW p \in reference_call(side)
  PROVE  Above(p, 0)
<1>1. PICK other \in {<<>>, side} : p = read_db \o Under(Write("rm"), side \o other)
  BY DEF reference_call
<1>2. Above(side \o other, 1)
  BY EmptyAbove, ConcatAbove
<1>3. Above(Under(Write("rm"), side \o other), 0)
  BY <1>2, GuardTypes, UnderAbove
<1> QED BY <1>1, <1>3, ReadDbAbove, ConcatAbove

\* create_reference and infer_reference take the locks in order.
LEMMA ReferencesAbove ==
  ASSUME NEW c \in Colls, NEW ref \in Colls
  PROVE  /\ \A p \in create_reference(c, ref) : Above(p, 0)
         /\ \A p \in infer_reference(c, ref) : Above(p, 0)
  BY SidesAbove, ReferenceCallAbove DEF create_reference, infer_reference

\* write_to_json reads one collection after the other.
LEMMA WriteToJsonAbove ==
  ASSUME NEW c \in Colls, NEW d \in Colls
  PROVE  Above(write_to_json(<<c, d>>), 0)
<1> DEFINE order == <<c, d>>
           f == [i \in 1..4 |-> IF i % 2 = 1 THEN <<Read(order[(i + 1) \div 2])>> ELSE <<>>]
<1>1. \A i \in 1..4 : i % 2 = 1 => order[(i + 1) \div 2] \in Colls
  OBVIOUS
<1>2. \A e \in Colls : <<Read(e)>> \in Stacks
  BY GuardTypes DEF Stacks
<1>3. <<>> \in Stacks
  BY DEF Stacks
<1>4. \A i \in 1..4 : f[i] = <<>> \/ \E e \in Colls : f[i] = <<Read(e)>>
  BY <1>1
<1>5. f \in Seq(Stacks) /\ Len(f) = 4
  BY <1>2, <1>3, <1>4, IsASeq
<1> HIDE DEF f
<1>6. ASSUME NEW i \in 1..4
      PROVE  ordered(f[i]) /\ \A j \in 1..Len(f[i]) : rank(f[i][j].lock) > 2
  <2>1. CASE f[i] = <<>>
    BY <2>1 DEF ordered
  <2>2. ASSUME NEW e \in Colls, f[i] = <<Read(e)>>
        PROVE  ordered(f[i]) /\ \A j \in 1..Len(f[i]) : rank(f[i][j].lock) > 2
    BY <2>2, GuardTypes DEF ordered
  <2> QED BY <2>1, <2>2, <1>4
<1>7. Above(f, 2)
  BY <1>5, <1>6 DEF Above, Paths
<1>8. Above(Under(Read("db"), f), 0)
  BY <1>7, GuardTypes, UnderAbove
<1> QED BY <1>8 DEF f, write_to_json

\* Every call of OrderedCalls takes its locks in order.
LEMMA CallsInOrder ==
  ASSUME NEW call \in OrderedCalls
  PROVE  Above(call.path, 0) /\ call.todo \subseteq Pairs
<1>1. Above(read_db, 0) /\ Above(write_db, 0)
  BY ReadDbAbove
<1>2. Above(get_collection_refs, 0)
  BY <1>1, EmptyAbove, GuardTypes, UnderAbove, ConcatAbove DEF get_collection_refs
<1>3. \A c \in Colls : Above(read_coll(c), 0) /\ Above(write_coll(c), 0)
  BY ReadCollAbove
<1>4. \A c \in Colls, n \in {0, 2} : Above(load_schema(c), n)
  BY ReadCollAbove, ConcatAbove DEF load_schema, get_config, set_schema
<1>5. \A c \in Colls : Above(query(c), 0)
  <2> TAKE c \in Colls
  <2>1. Above(schema_of(c), 0)
    BY ReadCollAbove, GuardTypes, UnderAbove DEF schema_of
  <2>2. Above(schema_of(c) \o read_db, 0)
    BY <1>1, <2>1, ConcatAbove
  <2> QED BY <1>3, <2>2, ConcatAbove DEF query
<1>6. \A c \in Colls : Above(load_collection_schema(c), 0)
  <2> TAKE c \in Colls
  <2>1. Above(Under(Write("db"), load_schema(c)), 0)
    BY <1>4, GuardTypes, UnderAbove
  <2> QED BY <1>1, <2>1, ConcatAbove DEF load_collection_schema
<1>7. \A p \in OtherPairs : Above(write_to_json(<<p[1], p[2]>>), 0)
  BY WriteToJsonAbove DEF OtherPairs, Pairs
<1>8. \A q \in Pairs : /\ \A p \in create_reference(q[1], q[2]) : Above(p, 0)
                       /\ \A p \in infer_reference(q[1], q[2]) : Above(p, 0)
  BY ReferencesAbove DEF Pairs
<1>9. \/ \E p : call = Simple(p) /\ Above(p, 0)
      \/ \E c \in Colls : call = [path |-> load_collection_schema(c), todo |-> OtherPairs]
  BY <1>1, <1>2, <1>3, <1>4, <1>5, <1>7, <1>8 DEF OrderedCalls
<1>10. CASE \E p : call = Simple(p) /\ Above(p, 0)
  BY <1>10 DEF Simple
<1>11. CASE \E c \in Colls : call = [path |-> load_collection_schema(c), todo |-> OtherPairs]
  BY <1>6, <1>11 DEF OtherPairs
<1> QED BY <1>9, <1>10, <1>11
-----------------------------------------------------------------------------
(* The clients.                                                            *)

\* The stacks a client holds and those it has yet to pass are ordered.
Inv ==
  /\ TypeOK
  /\ LockOrder
  /\ \A t \in Clients : \A i \in 1..Len(path[t]) : ordered(path[t][i])

\* Inv holds initially.
LEMMA InitInv == Init => Inv
  BY DEF Init, Inv, TypeOK, LockOrder, Stacks, Paths, ordered

\* A step to the next stack of its path leaves a client in order.
LEMMA StepInv ==
  ASSUME Inv, NEW t \in Clients, path[t] # <<>>, step(t), parked' \subseteq Clients
  PROVE  Inv'
<1>1. path[t] \in Seq(Stacks) /\ Len(path[t]) \in Nat \ {0}
  BY DEF Inv, TypeOK, Paths
<1>2. /\ Head(path[t]) \in Stacks /\ Head(path[t]) = path[t][1]
      /\ Tail(path[t]) \in Seq(Stacks) /\ Len(Tail(path[t])) = Len(path[t]) - 1
      /\ \A i \in 1..Len(Tail(path[t])) : Tail(path[t])[i] = path[t][i + 1]
  BY <1>1
<1>3. ordered(Head(path[t]))
  BY <1>1, <1>2 DEF Inv
<1>4. \A i \in 1..Len(Tail(path[t])) : ordered(Tail(path[t])[i])
  BY <1>1, <1>2 DEF Inv
<1>5. TypeOK'
  BY <1>2 DEF Inv, TypeOK, step, Paths
<1>6. LockOrder'
  BY <1>3 DEF Inv, TypeOK, LockOrder, step
<1>7. \A u \in Clients : \A i \in 1..Len(path'[u]) : ordered(path'[u][i])
  <2> TAKE u \in Clients
  <2>1. CASE u = t
    BY <2>1, <1>4 DEF Inv, TypeOK, step
  <2>2. CASE u # t
    BY <2>2 DEF Inv, TypeOK, step
  <2> QED BY <2>1, <2>2
<1> QED BY <1>5, <1>6, <1>7 DEF Inv

\* A client starts on a path that is in order.
LEMMA StartInv ==
  ASSUME Inv, NEW t \in Clients, NEW p, Above(p, 0), path' = [path EXCEPT ![t] = p],
         todo' \in [Clients -> SUBSET Pairs], called' \subseteq Clients,
         UNCHANGED <<guards, parked>>
  PROVE  Inv'
<1>1. TypeOK'
  BY DEF Inv, TypeOK, Above
<1>2. \A u \in Clients : \A i \in 1..Len(path'[u]) : ordered(path'[u][i])
  <2> TAKE u \in Clients
  <2>1. CASE u = t
    BY <2>1 DEF Inv, TypeOK, Above
  <2>2. CASE u # t
    BY <2>2 DEF Inv, TypeOK
  <2> QED BY <2>1, <2>2
<1> QED BY <1>1, <1>2 DEF Inv, LockOrder

\* Every step of clients that make calls of OrderedCalls preserves Inv.
LEMMA NextInv ==
  ASSUME Calls \subseteq OrderedCalls, Inv, [Next]_vars
  PROVE  Inv'
<1>1. ASSUME NEW t \in Clients, Call(t)
      PROVE  Inv'
  <2>1. PICK call \in Calls : /\ path' = [path EXCEPT ![t] = call.path]
                              /\ todo' = [todo EXCEPT ![t] = call.todo]
    BY <1>1 DEF Call
  <2>2. Above(call.path, 0) /\ call.todo \subseteq Pairs
    BY CallsInOrder
  <2>3. todo' \in [Clients -> SUBSET Pairs] /\ called' \subseteq Clients
    BY <1>1, <2>1, <2>2 DEF Inv, TypeOK, Call
  <2> QED BY <1>1, <2>1, <2>2, <2>3, StartInv DEF Call
<1>2. ASSUME NEW t \in Clients, Infer(t)
      PROVE  Inv'
  <2>1. PICK p \in todo[t] :
          /\ todo' = [todo EXCEPT ![t] = todo[t] \ {p}]
          /\ \E call \in infer_reference(p[1], p[2]) : path' = [path EXCEPT ![t] = call]
    BY <1>2 DEF Infer
  <2>2. PICK call \in infer_reference(p[1], p[2]) : path' = [path EXCEPT ![t] = call]
    BY <2>1
  <2>3. p \in Pairs
    BY DEF Inv, TypeOK
  <2>4. Above(call, 0)
    BY <2>3, ReferencesAbove DEF Pairs
  <2>5. todo' \in [Clients -> SUBSET Pairs] /\ called' \subseteq Clients
    BY <1>2, <2>1 DEF Inv, TypeOK, Infer
  <2> QED BY <1>2, <2>2, <2>4, <2>5, StartInv DEF Infer
<1>3. ASSUME NEW t \in Clients, Acquire(t)
      PROVE  Inv'
  BY <1>3, StepInv DEF Acquire, waiting, Inv, TypeOK
<1>4. ASSUME NEW t \in Clients, Park(t)
      PROVE  Inv'
  BY <1>4 DEF Park, Inv, TypeOK, LockOrder
<1>5. ASSUME NEW t \in Clients, Drop(t)
      PROVE  Inv'
  BY <1>5, StepInv DEF Drop, Inv, TypeOK
<1>6. CASE UNCHANGED vars
  BY <1>6 DEF vars, Inv, TypeOK, LockOrder
<1> QED BY <1>1, <1>2, <1>3, <1>4, <1>5, <1>6 DEF Next, Proceed

\* Clients take their guards in the order manager, registry, collection.
THEOREM GuardsInOrder ==
  ASSUME Calls \subseteq OrderedCalls
  PROVE  Spec => []LockOrder
<1>1. Inv => LockOrder
  BY DEF Inv
<1>2. Inv /\ [Next]_vars => Inv'
  BY NextInv
<1> QED BY <1>1, <1>2, InitInv, PTL DEF Spec

\* A client waits for a lock of higher rank than all it holds.
LEMMA WaitsUp ==
  ASSUME Inv, NEW t \in Clients, waiting(t)
  PROVE  /\ wanted(t) \in Guards
         /\ \A h \in held(t) : rank(h.lock) < rank(wanted(t).lock)
<1>1. path[t] \in Seq(Stacks) /\ path[t] # <<>> /\ guards[t] \in Seq(Guards)
  BY DEF Inv, TypeOK, Paths, Stacks, waiting
<1>2. PICK g \in Guards : Head(path[t]) = Append(guards[t], g)
  BY DEF waiting
<1> DEFINE s == Append(guards[t], g)
<1>3. ordered(s)
  <2>1. Head(path[t]) = path[t][1] /\ 1 \in 1..Len(path[t])
    BY <1>1
  <2>2. ordered(path[t][1])
    BY <2>1 DEF Inv
  <2> QED BY <1>2, <2>1, <2>2
<1>4. /\ Len(s) = Len(guards[t]) + 1 /\ s[Len(guards[t]) + 1] = g
      /\ \A i \in 1..Len(guards[t]) : s[i] = guards[t][i]
  BY <1>1
<1>5. wanted(t) = g
  BY <1>2, <1>4 DEF wanted
<1> HIDE DEF s
<1>6. ASSUME NEW i \in 1..Len(guards[t])
      PROVE  rank(guards[t][i].lock) < rank(g.lock)
  <2>1. i \in 1..Len(s) /\ Len(guards[t]) + 1 \in 1..Len(s) /\ i < Len(guards[t]) + 1
    BY <1>1, <1>4
  <2>2. rank(s[i].lock) < rank(s[Len(guards[t]) + 1].lock)
    BY <1>3, <2>1 DEF ordered
  <2> QED BY <2>2, <1>4
<1> QED BY <1>5, <1>6 DEF held

\* Among clients that wait, one waits for a lock of highest rank.
LEMMA Highest ==
  ASSUME NEW S, S # {}
  PROVE  \E t \in S : \A u \in S : rank(wanted(u).lock) <= rank(wanted(t).lock)
<1>1. \A t \in S : rank(wanted(t).lock) \in 1..3
  BY RankType
<1>2. CASE \E t \in S : rank(wanted(t).lock) = 3
  BY <1>1, <1>2
<1>3. CASE /\ ~\E t \in S : rank(wanted(t).lock) = 3
           /\ \E t \in S : rank(wanted(t).lock) = 2
  BY <1>1, <1>3
<1>4. CASE /\ ~\E t \in S : rank(wanted(t).lock) = 3
           /\ ~\E t \in S : rank(wanted(t).lock) = 2
  BY <1>1, <1>4
<1> QED BY <1>2, <1>3, <1>4

\* Who is kept waiting by a guard that is held waits for less than its holder.
LEMMA HolderWaitsHigher ==
  ASSUME Inv, NEW t \in Clients, NEW u \in Clients, waiting(u),
         NEW h \in held(u), h.lock = wanted(t).lock
  PROVE  rank(wanted(t).lock) < rank(wanted(u).lock)
  BY WaitsUp

\* In lock order, clients never wait for each other in a circle: the one that
\* waits for the highest lock is kept waiting by nobody who waits himself.
LEMMA InvNoDeadlock == Inv => NoDeadlock
<1> SUFFICES ASSUME Inv, NEW S \in SUBSET Clients, S # {},
                    \A t \in S : \E u \in S : waiting(t) /\ Blocks(u, t)
             PROVE  FALSE
  BY DEF NoDeadlock
<1>1. PICK t \in S : \A u \in S : rank(wanted(u).lock) <= rank(wanted(t).lock)
  BY Highest
<1>2. \A u \in S : rank(wanted(u).lock) \in Int
  BY RankType
<1>3. \A u \in S, v \in S : \A h \in held(v) :
        h.lock = wanted(u).lock => rank(wanted(u).lock) < rank(wanted(v).lock)
  BY HolderWaitsHigher
<1>4. \A v \in S : \A h \in held(v) : h.lock # wanted(t).lock
  BY <1>1, <1>2, <1>3
<1>5. PICK u \in S : Blocks(u, t)
  OBVIOUS
<1>6. wanted(u) = Write(wanted(t).lock)
  BY <1>4, <1>5 DEF Blocks
<1>7. PICK v \in S : Blocks(v, u)
  OBVIOUS
<1>8. wanted(u).mode = "write" /\ wanted(u).lock = wanted(t).lock
  BY <1>6 DEF Write
<1>9. \E h \in held(v) : h.lock = wanted(u).lock
  BY <1>7, <1>8 DEF Blocks
<1> QED BY <1>4, <1>8, <1>9

\* Whatever the number of clients and collections, and whether readers queue
\* behind writers or not, calls of OrderedCalls never deadlock.
THEOREM DeadlockFree ==
  ASSUME Calls \subseteq OrderedCalls
  PROVE  Spec => []NoDeadlock
<1>1. Inv /\ [Next]_vars => Inv'
  BY NextInv
<1> QED BY <1>1, InitInv, InvNoDeadlock, PTL DEF Spec
=============================================================================
