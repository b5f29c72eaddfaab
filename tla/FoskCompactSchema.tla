-------------------------- MODULE FoskCompactSchema --------------------------
(***************************************************************************)
(* The compact schemas a collection loads: parse_compact_schema and what   *)
(* apply_schema_to_collection lets through.                                *)
(*                                                                         *)
(* A text is the members of the JSON object in the order of its keys: the  *)
(* field a key names once trimmed, and its type, a sequence of tokens (the *)
(* words, "None:" and "!"), or NotString.  Two keys that differ in blanks  *)
(* name one field; a key of blanks alone is refused and left out.  What is *)
(* refused has no result: the result is a set.                             *)
(***************************************************************************)
EXTENDS FoskCollection, SequencesExt

CONSTANTS NotString, NoMarker

parsed(ty, nullable, marker) == [field |-> [ty |-> ty, nullable |-> nullable], marker |-> marker]

\* "None:" and a type that ids may have.
parse_none_marker(name) ==
  IF Len(name) = 1 /\ name[1] \in {"Int", "Float", "String"}
  THEN {parsed(name[1], FALSE, "None")}
  ELSE {}

\* A type of JSON, nullable unless a "!" ends it; Null! is refused.
parse_plain_type(spec) ==
  LET banged == Len(spec) = 2 /\ spec[2] = "!" IN
  IF (Len(spec) = 1 \/ banged) /\ spec[1] \in Prims /\ ~(banged /\ spec[1] = "Null")
  THEN {parsed(spec[1], ~banged, NoMarker)}
  ELSE {}

parse_type_spec(spec) ==
  CASE spec = <<>>         -> {}
    [] spec = <<"Id">>     -> {parsed("Int", FALSE, "Int")}
    [] spec = <<"Uuid">>   -> {parsed("String", FALSE, "Uuid")}
    [] Head(spec) = "None:" -> parse_none_marker(Tail(spec))
    [] OTHER               -> parse_plain_type(spec)

DbConfig(strategy, key) == [id_type |-> strategy, id_key |-> key]
NoConfig == DbConfig(NoMarker, NoMarker)

\* The field of a later key replaces that of an earlier one, but the marker stays.
parse_member(done, member) ==
  {[schema |-> [done.schema EXCEPT ![member.name] = p.field],
    config |-> IF p.marker = NoMarker THEN done.config
               ELSE DbConfig(p.marker, member.name)]
   : p \in {p \in parse_type_spec(member.spec) :
              p.marker = NoMarker \/ done.config = NoConfig}}

parse_compact_schema(text) ==
  FoldLeft(LAMBDA results, member :
             IF member.spec = NotString THEN {}
             ELSE UNION {parse_member(done, member) : done \in results},
           {[schema |-> [f \in Fields |-> NoField], config |-> NoConfig]}, text)

\* An ID marker must be the collection's own strategy and key.  What
\* is left to validate_schema_config, LoadSchema validates.
apply_schema_to_collection(strategy, text) ==
  {p.schema : p \in {p \in parse_compact_schema(text) :
                       p.config \in {NoConfig, DbConfig(strategy, IdKey)}}}
=============================================================================
