--------------------------- MODULE OutputSchemas ---------------------------
(***************************************************************************)
(* scripts/06_capture_output_schemas: every advertised read tool is run    *)
(* once against a live instance, the shape of each result is merged into   *)
(* what earlier captures found, and the file is rewritten at the end.      *)
(* load_registry attaches the shapes to the tools as their output schemas. *)
(*                                                                         *)
(* The instance answers with any of ResultsOf[tool], and other instances   *)
(* with others; the script may be killed at any moment.  Nothing else      *)
(* writes the file, but its owner may delete a torn one.                   *)
(***************************************************************************)
EXTENDS JsonTrees

CONSTANTS
  ReadTool,
  Derive,        \* DERIVE: the tools with a required argument -> [source, keys]
  SkippedTools,  \* SKIP
  ResultsOf,     \* what a tool may return
  MaxDepth, SampleItems, MaxProps,   \* _MAX_DEPTH, _SAMPLE_ITEMS, _MAX_PROPS
  MaxCaptures    \* bound, for TLC

ASSUME OutputConstants ==
  /\ DOMAIN Derive \subseteq ReadTool
  /\ SkippedTools \subseteq ReadTool
  /\ DOMAIN ResultsOf = ReadTool
  /\ \A tool \in ReadTool : \A result \in ResultsOf[tool] : IsTree(result)
  /\ "result" \in FieldName     \* what a result is wrapped under
  /\ MaxDepth \in Nat /\ SampleItems \in Nat \ {0} /\ MaxProps \in Nat \ {0} /\ MaxCaptures \in Nat

VARIABLES
  schemaFile,   \* output_schemas.json: [whole, schemas: tool -> schema]
  capture,      \* the script that runs: [schemas, results, left], or NoCapture
  captures,     \* how many have started
  observed      \* history: [file, run], each tool -> the results distilled into it

outputVars == <<schemaFile, capture, captures, observed>>

NoCapture == [left |-> {}, running |-> FALSE]

\* The shapes.  A schema keeps its places from the top of the result. -----

\* Mutant: a merge keeps whatever properties there are.
KeepsAlways(a, b, place) == TRUE

\* Mutant: a null beside a record loses the properties of the record.
KeepsOfBoth(a, b, place) == PropertiesAt(a, place) # {} /\ PropertiesAt(b, place) # {}

\* Of an object in both: properties of both are merged, those of one are kept
\* only when the other was never an object.
KeepsProperties(a, b, place) ==
  \/ PropertiesAt(a, place) # {} /\ PropertiesAt(b, place) # {}
  \/ ("object" \in a[place]) # ("object" \in b[place])

\* A place that only one of the two has is taken over with all below it.
MergeSchemas(a, b) ==
  LET both == DOMAIN a \cap DOMAIN b
  IN  [place \in {p \in DOMAIN a \cup DOMAIN b :
                    \A object \in Enclosing(p) \cap both : KeepsProperties(a, b, object)} |->
         Get(a, place, {}) \cup Get(b, place, {})]

\* for v in value[:_SAMPLE_ITEMS]: items = merge_schemas(items, infer_schema(v))
MergeAll(schemas) ==
  LET merged[n \in 0..Len(schemas)] ==
        IF n = 0 THEN EmptyDict ELSE MergeSchemas(merged[n - 1], schemas[n])
  IN  merged[Len(schemas)]

\* {k: infer_schema(v) for k, v in value.items()}
Together(schemas) ==
  [place \in UNION {DOMAIN schemas[child] : child \in DOMAIN schemas} |->
     UNION {Get(schemas[child], place, {}) : child \in DOMAIN schemas}]

IsRecord(value, path) ==
  Len(path) < MaxDepth /\ Cardinality(Children(value, path)) \in 1..MaxProps

\* The properties or items of what is at a path, from what was inferred of its
\* children.  The depth is the length of the path.
InferBelow(value, path, infer) ==
  LET children == Children(value, path)
      sampled == Min({SampleItems, Cardinality(children)})
  IN  CASE value[path].kind = "object" /\ IsRecord(value, path) ->
             Together([child \in children |-> infer[child]])
        [] value[path].kind = "array" ->
             MergeAll([i \in 1..sampled |-> infer[Append(path, Item(i))]])
        [] OTHER -> EmptyDict

\* The value as a whole is at "top" in the result.
InferSchema(value, top) ==
  LET infer[path \in DOMAIN value] ==
        Put(InferBelow(value, path, infer), top \o Place(path), {JsonType(value[path]), "null"})
  IN  infer[<<>>]

\* structuredContent: server.py wraps a result that is not a dict.
Wrapper(result) == IF result[<<>>].kind = "object" THEN <<>> ELSE <<Key("result")>>

SchemaForResult(result) == Put(InferSchema(result, Wrapper(result)), <<>>, {"object"})

\* A failure the SDK returns as a value; invoke raises DispatchError for it.
IsSdkError(result) ==
  LET candidate == IF result[<<>>].kind = "array" /\ Cardinality(Children(result, <<>>)) = 1
                   THEN <<Item(1)>> ELSE <<>>
      field(name) == Append(candidate, Key(name))
  IN  \/ /\ result[candidate].kind = "object"
         /\ \/ Get(result, field("ok"), Null) = Atom("boolean", "false")
            \/ Children(result, candidate) \in {{field("error")}, {field("error"), field("status_code")}}
      \/ result[candidate] = Atom("string", "Error:")

\* An argument for a tool can be taken from the result of its source.
Rows(result) == IF result[<<>>].kind = "array" THEN Children(result, <<>>) ELSE {<<>>}
Derivable(tool, results) ==
  LET source == Derive[tool].source
  IN  /\ source \in DOMAIN results
      /\ \E row \in Rows(results[source]), key \in Derive[tool].keys :
           Get(results[source], Append(row, Key(key)), Null) # Null

\* The script.  ----------------------------------------------------------

NoFile == [whole |-> TRUE, schemas |-> EmptyDict]

OutputInit ==
  /\ schemaFile = NoFile
  /\ capture = NoCapture
  /\ captures = 0
  /\ observed = [file |-> EmptyDict, run |-> EmptyDict]

StartCapture ==
  /\ ~capture.running
  /\ captures < MaxCaptures
  /\ schemaFile.whole     \* json.loads raises on a torn file
  /\ capture' = [running |-> TRUE, left |-> ReadTool, schemas |-> schemaFile.schemas,
                 results |-> EmptyDict]
  /\ captures' = captures + 1
  /\ observed' = [observed EXCEPT !.run = observed.file]
  /\ UNCHANGED schemaFile

\* The tools without required arguments come first.
Reached(tool) ==
  /\ capture.running
  /\ tool \in capture.left
  /\ tool \in DOMAIN Derive => capture.left \subseteq DOMAIN Derive

Skips(tool) ==
  tool \in SkippedTools \/ (tool \in DOMAIN Derive /\ ~Derivable(tool, capture.results))

SkipOrFail(tool) ==
  /\ Reached(tool)
  /\ capture' = [capture EXCEPT !.left = @ \ {tool}]
  /\ UNCHANGED <<schemaFile, captures, observed>>

CaptureTool(tool, result) ==
  /\ Reached(tool)
  /\ ~Skips(tool)
  /\ ~IsSdkError(result)
  /\ capture' = [capture EXCEPT
       !.left = @ \ {tool},
       !.results = Put(@, tool, result),
       !.schemas = Put(@, tool, MergeSchemas(Get(@, tool, EmptyDict),
                                             SchemaForResult(result)))]
  /\ observed' = [observed EXCEPT
       !.run = Put(@, tool, Get(@, tool, {}) \cup {result})]
  /\ UNCHANGED <<schemaFile, captures>>

WriteSchemas ==
  /\ capture.running
  /\ capture.left = {}
  /\ schemaFile' = [whole |-> TRUE, schemas |-> capture.schemas]
  /\ capture' = NoCapture
  /\ observed' = [file |-> observed.run, run |-> EmptyDict]
  /\ UNCHANGED captures

\* A kill, in the middle of the write too.
KillCapture ==
  /\ capture.running
  /\ capture' = NoCapture
  /\ \/ UNCHANGED <<schemaFile, observed>>
     \/ /\ capture.left = {}
        /\ schemaFile' = [whole |-> FALSE, schemas |-> EmptyDict]
        /\ observed' = [file |-> EmptyDict, run |-> EmptyDict]
  /\ UNCHANGED captures

DeleteTornFile ==
  /\ ~schemaFile.whole
  /\ schemaFile' = NoFile
  /\ UNCHANGED <<capture, captures, observed>>

OutputNext ==
  \/ StartCapture
  \/ \E tool \in ReadTool : SkipOrFail(tool)
  \/ \E tool \in ReadTool : \E result \in ResultsOf[tool] : CaptureTool(tool, result)
  \/ WriteSchemas
  \/ KillCapture
  \/ DeleteTornFile

OutputSpec == OutputInit /\ [][OutputNext]_outputVars

\* What a server that starts now attaches to a tool; {} is no output schema.
Advertised(tool) ==
  IF schemaFile.whole THEN Get(schemaFile.schemas, tool, EmptyDict) ELSE EmptyDict

\* Properties.  ---------------------------------------------------------

\* The file is whole or has nothing of use, and a tool is processed once a run.
OutputTypeOK ==
  /\ schemaFile.whole \in BOOLEAN
  /\ DOMAIN schemaFile.schemas \subseteq ReadTool
  /\ captures \in 0..MaxCaptures
  /\ capture.left \subseteq ReadTool
  /\ capture.running => DOMAIN capture.results \cap capture.left = {}

Sampled(path) == \A n \in DOMAIN path : IsKey(path[n]) \/ path[n][2] <= SampleItems
FullySampled(result) == \A path \in DOMAIN result : Sampled(path)

\* jsonschema.validate of the structured content: what the schema has a place
\* for has one of the types it allows there.
Accepts(schema, result) ==
  /\ <<>> \in DOMAIN schema => "object" \in schema[<<>>]
  /\ \A path \in DOMAIN result :
       LET place == Wrapper(result) \o Place(path)
       IN  place \in DOMAIN schema => \E type \in schema[place] : KindIs(result[path], type)

\* The advertised output schema accepts every result it was distilled from
\* (except the ones with items beyond the sample), over all the captures that
\* were merged into it, their order and the kills between them: a client that
\* validates never rejects what the tool was seen to return.
ResultsConform ==
  \A tool \in DOMAIN observed.file : \A result \in observed.file[tool] :
    FullySampled(result) => Accepts(Advertised(tool), result)

\* The reference: what a schema must be, given what was seen in the results it
\* stands for, without a merge in any order.  An object that is not a record
\* (too deep, empty, or too large) is closed: it says nothing of its keys.
Sighting(result, path) ==
  [at |-> Wrapper(result) \o Place(path),
   type |-> JsonType(result[path]),
   closed |-> result[path].kind = "object" /\ ~IsRecord(result, path)]

WrapperSighting == [at |-> <<>>, type |-> "object", closed |-> FALSE]

Sightings(result) ==
  {Sighting(result, path) : path \in {p \in DOMAIN result : Sampled(p)}}
  \cup (IF Wrapper(result) = <<>> THEN {} ELSE {WrapperSighting})

\* A place is kept unless it lies in an object seen closed, with every type seen
\* there and null, which the top level never admits.
Open(seen, place) == \A s \in seen : s.closed => s.at \notin Enclosing(place)

NullAt(place) == IF place = <<>> THEN {} ELSE {"null"}

Shape(seen) ==
  [place \in {p \in {s.at : s \in seen} : Open(seen, p)} |->
     {s.type : s \in {s \in seen : s.at = place}} \cup NullAt(place)]

ShapeOf(results) == Shape(UNION {Sightings(result) : result \in results})

\* A schema is a function of the set of results it stands for, whatever the
\* order in which they were captured: every property and type seen is there,
\* and the keys of a data-keyed map never come back once one was seen.  Holds
\* of the file and of the run under way.
SchemasAreOrderFree ==
  /\ \A tool \in DOMAIN observed.file : schemaFile.schemas[tool] = ShapeOf(observed.file[tool])
  /\ capture.running => \A tool \in DOMAIN observed.run :
       capture.schemas[tool] = ShapeOf(observed.run[tool])

=============================================================================
