---------------------------- MODULE JsonSchemas ----------------------------
(***************************************************************************)
(* JSON values as the tools take them, and JSON Schemas as the Python      *)
(* dictionaries the code builds: a function from the keywords that are     *)
(* present.  "type" is a set, whether the code writes a name or a list.    *)
(* jsonschema.validate checks neither "format" nor "description".          *)
(***************************************************************************)
EXTENDS Integers, Sequences, FiniteSets, Dicts, JsonAtoms

JsonText(value) == [kind |-> "string", json |-> value]    \* json.dumps(value), as a string
Object(fields) == [kind |-> "object", fields |-> fields]
Array(items) == [kind |-> "array", items |-> items]

\* A text "{...}" or "[...]" that parses; one that does not is an atom, and stays
\* what it was sent as.
IsJsonText(value) == "json" \in DOMAIN value /\ value.json.kind \in {"object", "array"}

Types(schema) == Get(schema, "type", {})
Properties(schema) == Get(schema, "properties", EmptyDict)
Items(schema) == Get(schema, "items", EmptyDict)
IsEmpty(dict) == DOMAIN dict = {}

\* jsonschema.validate(value, schema) raises nothing.
RECURSIVE Conforms(_, _)
Conforms(value, schema) ==
  /\ "type" \in DOMAIN schema => \E type \in schema.type : KindIs(value, type)
  /\ "enum" \in DOMAIN schema => value \in schema.enum
  /\ value.kind = "object" =>
       /\ Get(schema, "required", {}) \subseteq DOMAIN value.fields
       /\ \A key \in DOMAIN Properties(schema) \cap DOMAIN value.fields :
            Conforms(value.fields[key], Properties(schema)[key])
  /\ value.kind = "array" =>
       \A i \in DOMAIN value.items : Conforms(value.items[i], Items(schema))

=============================================================================
