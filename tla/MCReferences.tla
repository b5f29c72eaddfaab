---------------------------- MODULE MCReferences ----------------------------
(* Small instances of FoskReferences: people (p), orders (o), invoices (i).*)
EXTENDS FoskExpansion

CONSTANTS p, o, i, O

Same == [c \in Colls |-> c]
Spelled == [n \in Names |-> IF n = O THEN o ELSE n]
Conventional == [c \in Colls |-> IF c = p THEN "p_id" ELSE "other_id"]

Edge(from, col, to, refcol) == [from |-> from, col |-> col, to |-> to, refcol |-> refcol]

\* Two references from o to p, and one that uses the columns of the first the other
\* way round.  (Inference asks for references of a collection to itself.)
MCAsks == {Edge(o, "p_id", p, "id"), Edge(o, "id", p, "id"), Edge(p, "id", o, "p_id")}

ThreeAsks == {Edge(o, "p_id", p, "id"), Edge(i, "p_id", p, "id")}

\* Documents with equal and different ids, and without a column.
Row(id, p_id) == [k \in {"id", "p_id"} |-> IF k = "id" THEN id ELSE p_id]
MCRows == [c \in Colls |-> IF c = p THEN {[id |-> 1], Row(2, 2)}
                          ELSE {Row(1, 2), Row(2, 1), Row(3, 1)}]
=============================================================================
