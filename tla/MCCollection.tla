---------------------------- MODULE MCCollection ----------------------------
(* Small instances of FoskCollection: one id field, one other field.       *)
EXTENDS FoskCompactSchema

CONSTANTS a, b

MCFields == {"id", "x"}

V(ty, text) == [ty |-> ty, text |-> text]
Item(id, x) == [f \in MCFields |-> IF f = "id" THEN id ELSE x]

member(name, spec) == [name |-> name, spec |-> spec]

\* Markers that agree with the configuration and ones that do not, two markers,
\* two keys for one field, an id column that may be NULL, none at all, and types
\* no schema has.
MCTexts ==
  {<<member("id", <<"Id">>)>>,
   <<member("id", <<"Int">>), member("id", <<"Int", "!">>), member("x", <<"Null">>)>>,
   <<member("id", <<"Id">>), member("id", <<"Int">>)>>,
   <<member("id", <<"None:", "String">>), member("x", <<"Float", "!">>)>>,
   <<member("id", <<"Id">>), member("x", <<"Uuid">>)>>,
   <<member("id", <<"Int", "!">>), member("x", <<"Id">>)>>,
   <<member("x", <<"Float">>)>>,
   <<member("id", <<"Id">>), member("x", <<"Null", "!">>)>>,
   <<member("id", <<"Id">>), member("x", <<"Float", "!", "!">>)>>,
   <<member("id", <<"Id">>), member("x", <<"!", "Float">>)>>,
   <<member("id", <<"Id">>), member("x", <<>>)>>,
   <<member("id", <<"Id">>), member("x", NotString)>>}

MCSchemas == [t \in {"Int"} |-> UNION {apply_schema_to_collection(t, text) : text \in MCTexts}]

\* A missing id, ids in both orders, a fraction and a string id, a null
\* column.
MCItems == [t \in {"Int"} |-> {NonObject,
             Item(NoValue, NoValue),
             Item(V("Int", 0), V("Null", a)),
             Item(V("Int", 1), NoValue),
             Item(V("Int", 2), V("Float", a)),
             Item(V("Float", a), NoValue),
             Item(V("String", a), NoValue)}]
=============================================================================
