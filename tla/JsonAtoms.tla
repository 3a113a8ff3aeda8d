----------------------------- MODULE JsonAtoms -----------------------------
(***************************************************************************)
(* What JSON values are made of, and how a schema's "type" names it.  A    *)
(* node is an atom, or the kind alone of an object or an array.  The text  *)
(* of an atom is all that tells two of its kind apart, and a fraction is   *)
(* never a whole number here.                                              *)
(***************************************************************************)

Null == [kind |-> "null"]
Atom(kind, value) == [kind |-> kind, is |-> value]

\* jsonschema.validate of one node: a whole number is a number too.
KindIs(node, type) ==
  \/ node.kind = type
  \/ type = "number" /\ node.kind = "integer"

\* The name infer_schema gives to the kind of a value; it has none for integers.
JsonType(node) == IF node.kind = "integer" THEN "number" ELSE node.kind

=============================================================================
