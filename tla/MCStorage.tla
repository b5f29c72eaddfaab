------------------------------ MODULE MCStorage ------------------------------
(* Small instances of FoskStorage, with each of the three id strategies.   *)
EXTENDS FoskStorage

CONSTANTS a, b

V(ty, text) == [ty |-> ty, text |-> text]
Item(id, x) == [f \in {"id", "x"} |-> IF f = "id" THEN id ELSE x]

\* Int: a missing id, numeric ids, an id of the wrong type.  None: ids of both
\* JSON types, also as the same text, and no id.  Uuid: a and b are UUIDs, and
\* clients reuse them once they have been handed out.
MCItems ==
  [Int |-> {Item(NoValue, NoValue),
            Item(V("Int", 1), NoValue),
            Item(V("String", a), NoValue)},
   None |-> {NonObject,
             Item(NoValue, V("Int", 0)),
             Item(V("String", a), NoValue),
             Item(V("Int", 1), NoValue),
             Item(V("String", 1), V("Null", a))},
   Uuid |-> {Item(NoValue, V("Null", a)),
             Item(V("String", a), NoValue),
             Item(V("String", b), NoValue),
             Item(V("Int", 1), NoValue)}]

MCFields == {"id", "x"}
MCSchemas == [strategy \in IdTypes |-> {}]
=============================================================================
