--------------------------- MODULE InputContracts --------------------------
(***************************************************************************)
(* From the signature and the docstring of an SDK method to the arguments  *)
(* that reach it: the parameter schema 01_build_registry_from_sdk derives  *)
(* from annotations, defaults, documented types and names, the hand-       *)
(* written SCHEMA_RULES over it, the descriptions load_registry lays over  *)
(* its fields, and what the dispatcher does to the arguments of a call     *)
(* before the SDK sees them.  An upgrade may change the method; a refresh  *)
(* follows.                                                                *)
(*                                                                         *)
(* A method is [parameters, doc, documented]: documented is what its       *)
(* authors meant the docstring doc to say, a history value.  A parameter   *)
(* is [annotation, default, suffix], suffix what _apply_name_heuristics    *)
(* looks for in its name.  An annotation is a record with a form:          *)
(* "unknown" stands for a missing one, Any, and the classes and generics   *)
(* the builder does not know.                                              *)
(***************************************************************************)
EXTENDS JsonSchemas, DocStrings

CONSTANTS
  Method,               \* what releases make of the method
  SchemaRules,          \* the rules for the tool: a set of [path, value]
  FieldDescriptions,    \* those of the tool: parameter -> field -> description
  ArgumentValue,        \* what clients send
  MaxAnnotationDepth    \* the 6 of _schema_from_annotation

VARIABLES
  method,       \* of the installed release
  parameters    \* the schema a client is shown

inputVars == <<method, parameters>>

Unknown == [form |-> "unknown"]
NoDefault == [kind |-> "empty"]      \* inspect._empty
NoKnowledge == EmptyDict             \* None, for "no knowledge"

OrString(schema) == IF IsEmpty(schema) THEN [type |-> {"string"}] ELSE schema

\* The types of Literal values; True is an int, so a mix of the two is "integer".
LiteralType(values) ==
  IF \A v \in values : v.kind = "boolean" THEN "boolean"
  ELSE IF \A v \in values : v.kind \in {"boolean", "integer"} THEN "integer"
  ELSE "string"

\* Mutant: a field that some branch requires is required of all.
MergeBranchesStrictly(branches) ==
  [type |-> {"object"},
   properties |-> [field \in UNION {DOMAIN branches[i].properties : i \in DOMAIN branches} |->
     branches[CHOOSE i \in DOMAIN branches :
                field \in DOMAIN branches[i].properties].properties[field]],
   required |-> UNION {branches[i].required : i \in DOMAIN branches}]

\* Mutant: the merged object requires nothing.
MergeBranchesLoosely(branches) == [MergeBranchesStrictly(branches) EXCEPT !.required = {}]

\* Union of the properties, the first branch first; what every branch requires.
MergeBranches(branches) ==
  LET Having(field) == {i \in DOMAIN branches : field \in DOMAIN branches[i].properties}
      fields == UNION {DOMAIN branches[i].properties : i \in DOMAIN branches}
      First(field) == CHOOSE i \in Having(field) : \A j \in Having(field) : i <= j
  IN  [type |-> {"object"},
       properties |-> [field \in fields |-> branches[First(field)].properties[field]],
       required |-> {field \in fields :
                       \A i \in DOMAIN branches : field \in branches[i].required}]

RECURSIVE SchemaFromAnnotation(_, _)
SchemaFromAnnotation(a, depth) ==
  IF depth > MaxAnnotationDepth THEN NoKnowledge
  ELSE CASE a.form = "union" ->
              LET branches == a.branches      \* without None
                  Schema(i) == SchemaFromAnnotation(branches[i], depth + 1)
              IN  IF Len(branches) = 1 THEN Schema(1)
                  ELSE IF \A i \in DOMAIN branches : branches[i].form = "typeddict"
                       THEN MergeBranches([i \in DOMAIN branches |-> Schema(i)])
                       ELSE NoKnowledge
         [] a.form = "literal" -> [type |-> {LiteralType(a.values)}, enum |-> a.values]
         [] a.form = "typeddict" ->
              [type |-> {"object"},
               properties |-> [field \in DOMAIN a.fields |->
                 OrString(SchemaFromAnnotation(a.fields[field], depth + 1))],
               required |-> a.required]
         [] a.form = "list" ->
              [type |-> {"array"}, items |-> OrString(SchemaFromAnnotation(a.item, depth + 1))]
         [] a.form = "dict" -> [type |-> {"object"}]
         [] a.form = "scalar" -> [type |-> {a.of}]
         [] OTHER -> NoKnowledge

\* A schema for a bare kind: arrays are taken for arrays of strings.
SchemaOfKind(kind) ==
  IF kind = "array"
  THEN [type |-> {"array"}, items |-> [type |-> {"string"}]]
  ELSE [type |-> {kind}]

SchemaFromDefault(default) ==
  SchemaOfKind(IF default.kind \in {"empty", "null"} THEN "string" ELSE default.kind)

NameHeuristics(suffix, schema) ==
  CASE Types(schema) = {"string"} /\ suffix = "collection" -> SchemaOfKind("array")
    [] Types(schema) = {"string"} /\ suffix = "map" -> SchemaOfKind("object")
    [] OTHER -> schema

\* The type: a contract that is recognized, else the default, refined by the docstring.
TypeSchema(p, meta) ==
  LET known == SchemaFromAnnotation(p.annotation, 0)
      hinted == p.default.kind \in {"empty", "null"} /\ meta.type # ""
      guessed == IF hinted THEN SchemaOfKind(KindOfHint(meta.type))
                 ELSE SchemaFromDefault(p.default)
  IN  IF IsEmpty(known) THEN NameHeuristics(p.suffix, guessed) ELSE known

\* The format of an array is that of its elements.
WithFormat(schema, format) ==
  IF format = NoFormat THEN schema
  ELSE IF Types(schema) = {"array"}
       THEN [schema EXCEPT !.items = Put(@, "format", format)]
       ELSE Put(schema, "format", format)

\* "f'{name} parameter'"
DefaultDescription == <<"parameter">>

ParameterSchema(p, meta) ==
  IF meta.description = <<>>
  THEN Put(TypeSchema(p, meta), "description", DefaultDescription)
  ELSE WithFormat(Put(TypeSchema(p, meta), "description", WithoutMarker(meta.description)),
                  FormatOf(meta.description))

Undocumented == [type |-> "", description |-> <<>>]

\* Mutant: parameters without an annotation get no schema.
SchemaFromAnnotated(s, doc) ==
  [type |-> {"object"},
   properties |-> [name \in {n \in DOMAIN s : s[n].annotation # Unknown} |->
                     ParameterSchema(s[name], Get(ParseParamDocMeta(doc), name, Undocumented))],
   required |-> {name \in DOMAIN s : s[name].default = NoDefault}]

\* def json_schema_from_signature(sig, doc, hints)
SchemaFromSignature(s, doc) ==
  LET meta == ParseParamDocMeta(doc)
  IN  [type |-> {"object"},
       properties |-> [name \in DOMAIN s |->
                         ParameterSchema(s[name], Get(meta, name, Undocumented))],
       required |-> {name \in DOMAIN s : s[name].default = NoDefault}]

\* A rule creates the path it sets, where the schema does not have it.
RECURSIVE WalkAndSet(_, _, _)
WalkAndSet(dict, path, value) ==
  Put(dict, Head(path),
      IF Len(path) = 1 THEN value
      ELSE WalkAndSet(Get(dict, Head(path), EmptyDict), Tail(path), value))

RECURSIVE ApplySchemaRules(_, _)
ApplySchemaRules(schema, rules) ==
  IF rules = {} THEN schema
  ELSE LET rule == CHOOSE r \in rules : TRUE
       IN  ApplySchemaRules(WalkAndSet(schema, rule.path, rule.value), rules \ {rule})

BuiltSchema(m) == ApplySchemaRules(SchemaFromSignature(m.parameters, m.doc), SchemaRules)

\* fes-mcp loads the registry.  -------------------------------------------

\* def _normalize_parameters_schema(raw)
Normalized(schema) ==
  [key \in DOMAIN schema \cup {"type", "properties", "required"} |->
     CASE key \in DOMAIN schema -> schema[key]
       [] key = "type" -> {"object"}
       [] key = "properties" -> EmptyDict
       [] OTHER -> {}]

\* "props[field].setdefault('description', description)", for the fields there are
Described(property, fields) ==
  IF IsEmpty(Properties(property)) THEN property
  ELSE [property EXCEPT !.properties = [field \in DOMAIN @ |->
         IF field \in DOMAIN fields /\ "description" \notin DOMAIN @[field]
         THEN Put(@[field], "description", fields[field])
         ELSE @[field]]]

\* def _apply_field_descriptions(tool_id, entry)
ApplyFieldDescriptions(schema) ==
  [schema EXCEPT !.properties = [name \in DOMAIN @ |->
     IF name \in DOMAIN FieldDescriptions
     THEN Described(@[name], FieldDescriptions[name]) ELSE @[name]]]

LoadedSchema(m) == ApplyFieldDescriptions(Normalized(BuiltSchema(m)))

Schemas == [m \in Method |-> LoadedSchema(m)]

\* The call.  ------------------------------------------------------------

\* A parameter without a type is free-form: its strings are parsed too.
WantsStructure(schema, name) ==
  /\ name \in DOMAIN Properties(schema)
  /\ LET property == Properties(schema)[name]
     IN  "type" \in DOMAIN property => {"object", "array"} \cap Types(property) # {}

CoerceJsonStrings(arguments, schema) ==
  [name \in DOMAIN arguments |->
     IF IsJsonText(arguments[name]) /\ WantsStructure(schema, name)
     THEN arguments[name].json ELSE arguments[name]]

Refused == Null

\* The arguments the SDK method is called with.  A schema that jsonschema refuses as
\* one would switch the validation off (SchemaError); those built here have only
\* keywords with values of the right form, so that branch is never taken.
Dispatched(arguments) ==
  LET coerced == CoerceJsonStrings(arguments, parameters)
  IN  IF Conforms(Object(coerced), parameters) THEN Object(coerced) ELSE Refused

InputInit ==
  /\ method \in Method
  /\ parameters = Schemas[method]

\* The upgrade, the refresh after it and a server start.
Rebuild(m) ==
  /\ m # method
  /\ method' = m
  /\ parameters' = Schemas[m]

InputNext == \E m \in Method : Rebuild(m)

\* Properties.  ---------------------------------------------------------

\* Every parameter of the signature is advertised, and nothing is required that
\* is not one.
InputTypeOK ==
  /\ method \in Method
  /\ DOMAIN method.parameters \subseteq DOMAIN parameters.properties
  /\ parameters.required \subseteq DOMAIN method.parameters

\* The reference: the values Python's typing gives an annotation.  None is
\* passed by leaving the argument out.
RECURSIVE Inhabits(_, _)
Inhabits(value, a) ==
  CASE a.form = "scalar" -> KindIs(value, a.of)
    [] a.form = "dict" -> value.kind = "object"
    [] a.form = "literal" -> value \in a.values
    [] a.form = "list" ->
         value.kind = "array" /\ \A i \in DOMAIN value.items : Inhabits(value.items[i], a.item)
    [] a.form = "typeddict" ->
         /\ value.kind = "object"
         /\ a.required \subseteq DOMAIN value.fields
         /\ \A key \in DOMAIN value.fields \cap DOMAIN a.fields :
              Inhabits(value.fields[key], a.fields[key])
    [] a.form = "union" -> \E i \in DOMAIN a.branches : Inhabits(value, a.branches[i])
    [] OTHER -> TRUE

Agree(branches) ==
  \A i, j \in DOMAIN branches :
    \A field \in DOMAIN branches[i].fields \cap DOMAIN branches[j].fields :
      branches[i].fields[field] = branches[j].fields[field]

\* Annotations the builder knows to the last part: literals of one kind,
\* unions of one branch besides None or of contracts that agree on the fields
\* they share.
RECURSIVE Recognized(_)
Recognized(a) ==
  CASE a.form = "list" -> Recognized(a.item)
    [] a.form = "typeddict" -> \A field \in DOMAIN a.fields : Recognized(a.fields[field])
    [] a.form = "literal" -> Cardinality({value.kind : value \in a.values}) = 1
    [] a.form = "union" ->
         /\ \A i \in DOMAIN a.branches : Recognized(a.branches[i])
         /\ Len(a.branches) > 1 =>
              /\ \A i \in DOMAIN a.branches : a.branches[i].form = "typeddict"
              /\ Agree(a.branches)
    [] OTHER -> a.form # "unknown"

\* What the authors documented of a parameter.
About(name) ==
  Get(method.documented, name, [type |-> "", words |-> <<>>, format |-> NoFormat])

\* Without an annotation, what the default or else the documented type lets one pass.
ByConvention(value, name) ==
  LET p == method.parameters[name]
      kind == IF p.default.kind \in {"empty", "null"} THEN KindOfHint(About(name).type)
              ELSE p.default.kind
  IN  /\ KindIs(value, kind)
      /\ kind = "string" => p.suffix = "plain"
      /\ kind = "array" => \A i \in DOMAIN value.items : value.items[i].kind = "string"

Meant(value, name) ==
  LET p == method.parameters[name]
  IN  IF p.annotation = Unknown THEN ByConvention(value, name)
      ELSE Recognized(p.annotation) /\ Inhabits(value, p.annotation)

AllowedByRules(name, value) ==
  \A rule \in SchemaRules : rule.path = <<"properties", name, "enum">> => value \in rule.value

Alone(name, value) == Put(EmptyDict, name, value)
Optional(names) == \A name \in names : method.parameters[name].default # NoDefault

\* An argument the signature means reaches the SDK as it was sent, also when
\* the client sent an object or an array as JSON text; a text that looks like
\* JSON stays a text where a text is meant.
MeantCallsArrive ==
  \A name \in DOMAIN method.parameters : Optional(DOMAIN method.parameters \ {name}) =>
    \A value \in ArgumentValue :
      (Meant(value, name) /\ AllowedByRules(name, value)) =>
        /\ Dispatched(Alone(name, value)) = Object(Alone(name, value))
        /\ value.kind \in {"object", "array"} =>
             Dispatched(Alone(name, JsonText(value))) = Object(Alone(name, value))

\* A value is as good as some branch of its contract for each of its parts,
\* and lacks nothing that all branches require.
RECURSIVE Acceptable(_, _)
Acceptable(value, a) ==
  CASE a.form = "list" ->
         value.kind = "array" /\ \A i \in DOMAIN value.items : Acceptable(value.items[i], a.item)
    [] a.form = "typeddict" ->
         /\ value.kind = "object"
         /\ a.required \subseteq DOMAIN value.fields
         /\ \A key \in DOMAIN value.fields \cap DOMAIN a.fields :
              Acceptable(value.fields[key], a.fields[key])
    [] a.form = "union" /\ Len(a.branches) > 1 ->
         /\ value.kind = "object"
         /\ \A key \in DOMAIN value.fields :
              LET having == {i \in DOMAIN a.branches : key \in DOMAIN a.branches[i].fields}
              IN  having = {} \/ \E i \in having :
                    Acceptable(value.fields[key], a.branches[i].fields[key])
         /\ \A key \in a.branches[1].required :
              (\A j \in DOMAIN a.branches : key \in a.branches[j].required)
                => key \in DOMAIN value.fields
    [] a.form = "union" /\ Len(a.branches) = 1 -> Acceptable(value, a.branches[1])
    [] OTHER -> Inhabits(value, a)

\* What the contract of a recognized parameter or a hand-written rule excludes
\* never reaches the SDK, however it is sent: a payload that lacks a required
\* field, an item or a field of another type, a value outside an enum.
IncompleteCallsAreStopped ==
  \A name \in DOMAIN method.parameters : \A value \in ArgumentValue :
    \A sent \in {value, JsonText(value)} :
      LET arrived == Dispatched(Alone(name, sent))
          p == method.parameters[name]
      IN  arrived # Refused =>
            /\ AllowedByRules(name, arrived.fields[name])
            /\ Recognized(p.annotation) => Acceptable(arrived.fields[name], p.annotation)

FieldsOf(a) ==
  CASE a.form = "typeddict" -> DOMAIN a.fields
    [] a.form = "union" -> UNION {DOMAIN a.branches[i].fields :
                                    i \in {j \in DOMAIN a.branches : a.branches[j].form = "typeddict"}}
    [] OTHER -> {}

\* Every parameter is advertised with the words its docstring has for it, and no
\* others, and with the format where clients look for it; and a description laid
\* over a field is on a field that the SDK's contract has.
DocumentationArrives ==
  \A name \in DOMAIN method.parameters :
    LET property == parameters.properties[name]
        carrier == IF Types(property) = {"array"} THEN Items(property) ELSE property
    IN  /\ property.description = IF About(name).words = <<>> THEN DefaultDescription
                                  ELSE About(name).words
        /\ Get(carrier, "format", NoFormat) = About(name).format
        /\ \A field \in DOMAIN Properties(property) :
             "description" \in DOMAIN Properties(property)[field] =>
               field \in FieldsOf(method.parameters[name].annotation)

=============================================================================
