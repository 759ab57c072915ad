------------------------------ MODULE Conversions ------------------------------
(***************************************************************************)
(* pkg/conv, pkg/types/utils.go and pkg/input/map.go: how configuration     *)
(* values and the texts of a server become numbers, flags and lists.        *)
(*                                                                          *)
(* A text is abstracted to its class: "int" and "float" are decimal         *)
(* numbers, "hex" an integer that needs a base prefix, "true" and "false"   *)
(* what strconv.ParseBool reads, "yes" and "no" the two word lists, "text"  *)
(* anything else and "" the empty text.                                     *)
(***************************************************************************)
EXTENDS Sequences

\* Both copies of ToFloat64: a float, an integer in any base, a bool, a word.
ToFloat64(class) == class \in {"int", "float", "hex", "true", "false", "yes", "no"}

\* ToInt tries Atoi, which takes no base prefix.
ToInt(class) == class \in {"int", "float", "true", "false", "yes", "no"}

\* strings.Split(text, ","): a key that is not set gives one empty element.
ParseSlice(items) == IF items = <<>> THEN <<"">> ELSE items

\* Anything that is not a bool, the empty text included, is false.
ParseBool(class) == class = "true"
===============================================================================
