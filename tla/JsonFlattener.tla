---------------------------- MODULE JsonFlattener -----------------------------
(***************************************************************************)
(* JSONFlattener of pkg/jsonx: the walk over a JSON value.  It is recursive *)
(* and stands apart from EsStatistics, which uses it and is proved about.   *)
(***************************************************************************)
EXTENDS Sequences

\* Mutant: the name of a nested value is the last key alone.
RECURSIVE FullFlattenJSON_LastKey(_, _, _, _)
FullFlattenJSON_LastKey(fieldname, value, convertString, convertBool) ==
  CASE value.t = "map" ->
         UNION {FullFlattenJSON_LastKey(k, value.v[k], convertString, convertBool) :
                  k \in DOMAIN value.v}
    [] value.t = "num" \/ (value.t = "string" /\ convertString)
                       \/ (value.t = "bool" /\ convertBool) -> {<<fieldname, value>>}
    [] OTHER -> {}

\* The assignments to Fields that FullFlattenJSON makes; lists and nulls make
\* none.  It fails for no value that encoding/json produces.
RECURSIVE FullFlattenJSON(_, _, _, _)
FullFlattenJSON(fieldname, value, convertString, convertBool) ==
  CASE value.t = "map" ->
         UNION {FullFlattenJSON(fieldname \o k, value.v[k], convertString, convertBool) :
                  k \in DOMAIN value.v}
    [] value.t = "num" \/ (value.t = "string" /\ convertString)
                       \/ (value.t = "bool" /\ convertBool) -> {<<fieldname, value>>}
    [] OTHER -> {}
===============================================================================
