---------------------------- MODULE FoskExpansion ----------------------------
(***************************************************************************)
(* Expansion of rows: what expand_row and expand_list of DbCollection do   *)
(* with the references that the calls of FoskReferences have left.         *)
(*                                                                         *)
(* An expansion changes nothing, so it adds no action; it is the set of    *)
(* its possible answers in a state.  The references of a collection and    *)
(* the rows of another come out of HashMaps: the first in an order that    *)
(* matters, the second in one that does not, so that an array is the set   *)
(* of its rows.  Nothing else runs during an expansion here.  No column    *)
(* has the name of a collection.                                           *)
(***************************************************************************)
EXTENDS FoskReferences, FiniteSets, Sequences, SequencesExt

CONSTANTS
  Rows,      \* the documents that clients keep in each collection
  MaxChain   \* the names in the chains asked for

ASSUME RowsAssumption ==
  /\ \A c \in Colls : \A row \in Rows[c] : DOMAIN row \subseteq Cols
  /\ Colls \cap Cols = {}
  /\ MaxChain \in Nat

rows_of(c) == IF registered(c) THEN Rows[c] ELSE {}

\* The keys of an object are columns and, after an expansion, names of collections.
put(object, key, value) ==
  [k \in DOMAIN object \cup {key} |-> IF k = key THEN value ELSE object[k]]

found(t, column, value) == {row \in rows_of(t) : column \in DOMAIN row /\ row[column] = value}

\* The documents of t with the value in the column, each expanded in some way;
\* answers has what the rest of the chain makes of the rows of every collection.
get_filtered_by_columns_values(t, column, value, answers) ==
  LET rows == found(t, column, value)
      choices == {f \in [rows -> UNION {answers[t][row] : row \in rows}] :
                    \A row \in rows : f[row] \in answers[t][row]}
  IN  {{f[row] : row \in rows} : f \in choices}

\* One side of an entry: the rows of t take the place of what is under its name.
follow(object, t, own, other, answers) ==
  IF registered(t) /\ own \in DOMAIN object
  THEN {put(object, t, rows) : rows \in get_filtered_by_columns_values(t, other, object[own], answers)}
  ELSE {object}

\* Both sides of an entry are tried, the referenced collection first.
visit(objects, r, target, answers) ==
  LET forward == IF Lower[r.edge.to] # target THEN objects
                 ELSE UNION {follow(o, target, r.edge.col, r.edge.refcol, answers) : o \in objects}
  IN  IF Lower[r.edge.from] # target THEN forward
      ELSE UNION {follow(o, target, r.edge.refcol, r.edge.col, answers) : o \in forward}

\* The entries that name target; the others change nothing.
named(c, target) == {r \in entries(c) : target \in {Lower[r.edge.to], Lower[r.edge.from]}}

\* The entries of c in any order.
expand_object(c, object, target, answers) ==
  UNION {FoldLeft(LAMBDA objects, r : visit(objects, r, target, answers), {object}, order)
           : order \in SetToSeqs(named(c, target))}

\* (mutant: the rows found are expanded along the whole chain's first name only)
expand_row_Once(c, row, chain) ==
  IF chain = <<>> THEN {row}
  ELSE expand_object(c, row, Head(chain), [d \in Colls |-> [x \in Rows[d] |-> {x}]])

\* The chain is that of the names in "a.b.c"; answers[n] is along its last n names.
expand_row(c, row, chain) ==
  LET name(n) == chain[Len(chain) - n + 1]
      answers[n \in 0..Len(chain)] ==
        [d \in Colls |-> [x \in Rows[d] |->
           IF n = 0 THEN {x} ELSE expand_object(d, x, name(n), answers[n - 1])]]
  IN  answers[Len(chain)][c][row]
-----------------------------------------------------------------------------
(* What an expansion promises.                                             *)

\* The references between two collections, seen from a row of c: the column of the
\* row and that of target.
ways(c, target) ==
    {<<r.edge.col, r.edge.refcol>> :
       r \in {r \in entries(c) : r.edge.from = c /\ Lower[r.edge.to] = target}}
  \cup {<<r.edge.refcol, r.edge.col>> :
       r \in {r \in entries(c) : r.edge.to = c /\ Lower[r.edge.from] = target}}

\* The row, and under the name of target the rows that one reference leads to, each
\* of them in some way of the rest of the chain.
joins(c, row, target, rest) ==
  LET open == {w \in ways(c, target) : registered(target) /\ w[1] \in DOMAIN row}
      arrays(w) == LET rows == found(target, w[2], row[w[1]]) IN
                   {X \in SUBSET UNION {rest[target][d] : d \in rows} :
                      \A d \in rows : X \cap rest[target][d] # {}}
  IN  IF open = {} THEN {row}
      ELSE {put(row, target, X) : X \in UNION {arrays(w) : w \in open}}

expansions_of(c, row, chain) ==
  LET name(n) == chain[Len(chain) - n + 1]
      allowed[n \in 0..Len(chain)] ==
        [d \in Colls |-> [x \in Rows[d] |->
           IF n = 0 THEN {x} ELSE joins(d, x, name(n), allowed[n - 1])]]
  IN  allowed[Len(chain)][c][row]

\* Chains in which no collection follows itself: expanded into itself a collection
\* also follows its references to others.
Chains == UNION {[1..n -> Colls] : n \in 1..MaxChain}
apart(c, chain) == \A i \in DOMAIN chain : chain[i] # IF i = 1 THEN c ELSE chain[i - 1]

\* In every state the references and the registry get into, also with dropped
\* collections, with entries of two references in one collection and with halves of
\* references, and in whatever order the HashMap has the entries: an expansion gives
\* the row with the documents joined to it by one reference, expanded in their turn.
\* Where there is one reference, that is the only answer.
ExpansionJoins ==
  call = NoCall =>
    \A c \in listed : \A row \in Rows[c] : \A chain \in {x \in Chains : apart(c, x)} :
      /\ expand_row(c, row, chain) # {}
      /\ expand_row(c, row, chain) \subseteq expansions_of(c, row, chain)
=============================================================================
