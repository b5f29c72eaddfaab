---------------------------- MODULE DocumentStore ----------------------------
(***************************************************************************)
(* What a collection promises its users, whatever its id strategy: a map   *)
(* from keys to documents in which every step concerns one document (or    *)
(* removes them all), a document comes into being under its own id, and a  *)
(* stored object never loses its id field.                                 *)
(***************************************************************************)
CONSTANTS
  Keys,      \* the id texts
  Objects,   \* the objects a collection may hold: they have an id field
  IdOf(_),   \* the id text of such an object
  NonObject, \* a document that is no object
  NoRow      \* nothing is stored under a key

VARIABLE rows

Empty == [k \in Keys |-> NoRow]

Init == rows = Empty

\* The step concerns no other key than k.
Only(k) == rows' = [rows EXCEPT ![k] = rows'[k]]

Create(k) ==
  /\ rows[k] = NoRow
  /\ rows'[k] \in Objects
  /\ IdOf(rows'[k]) = k
  /\ Only(k)

Replace(k) ==
  /\ rows[k] # NoRow
  /\ rows'[k] \in Objects \cup {NonObject}
  /\ Only(k)

Remove(k) == rows' = [rows EXCEPT ![k] = NoRow]

RemoveAll == rows' = Empty

Next ==
  \/ \E k \in Keys : Create(k) \/ Replace(k) \/ Remove(k)
  \/ RemoveAll

Spec == Init /\ [][Next]_rows
=============================================================================
