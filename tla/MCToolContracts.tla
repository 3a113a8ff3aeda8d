-------------------------- MODULE MCToolContracts --------------------------
(***************************************************************************)
(* Values for ToolContracts: methods of one parameter (or three), every    *)
(* form of annotation, of guess and of docstring; results that are records,*)
(* data-keyed maps, lists, nulls and failures.                             *)
(***************************************************************************)
EXTENDS ToolContracts, TLC

Text == Atom("string", "text")
One == Atom("integer", "1")
Half == Atom("number", "0.5")
True == Atom("boolean", "true")
False == Atom("boolean", "false")
None == Array(<<>>)

\* Signatures.
Scalar(type) == [form |-> "scalar", of |-> type]
ListOf(a) == [form |-> "list", item |-> a]
Union(branches) == [form |-> "union", branches |-> branches]
TypedDict(fields, required) == [form |-> "typeddict", fields |-> fields, required |-> required]

Email == "email" :> Scalar("string")
User == TypedDict(Email @@ ("groups" :> ListOf(Scalar("string"))), {"email"})
Athena == TypedDict(Email @@ ("region" :> Scalar("string")), {"email", "region"})
Redshift == TypedDict(Email @@ ("port" :> Scalar("integer")), {"email"})

Annotations ==
  {Unknown, Scalar("string"), Scalar("number"), Union(<<Scalar("integer")>>),
   Union(<<Scalar("string"), Scalar("integer")>>), [form |-> "dict"],
   ListOf(Scalar("integer")), ListOf(Unknown), User, ListOf(User),
   Union(<<Athena, Redshift>>),
   [form |-> "literal", values |-> {Text}], [form |-> "literal", values |-> {True, One}]}

Parameter(annotation, default, suffix) ==
  [annotation |-> annotation, default |-> default, suffix |-> suffix]

\* Docstrings, as authors write them in either style.
Line(indent, text) == [indent |-> indent, text |-> text]
Words(says) == [kind |-> "words", says |-> says, format |-> NoFormat]
Field(name, type) == [kind |-> "field", name |-> name, types |-> <<type, "optional">>]
Rule == Line(0, [kind |-> "rule"])
AboutIt(type, words, format) == [type |-> type, words |-> words, format |-> format]

Marked(about) ==
  IF about.format = NoFormat THEN about.words
  ELSE [about.words EXCEPT ![Len(about.words)].format = about.format]

Indented(indent, texts) == [i \in DOMAIN texts |-> Line(indent, texts[i])]

NumpyParam(name, about) ==
  <<Line(0, Field(name, about.type))>> \o Indented(4, Marked(about))

GoogleParam(name, about) ==
  LET body == Marked(about)
      first == IF body = <<>> THEN <<>> ELSE <<Head(body)>>
  IN  <<Line(4, [kind |-> "google", name |-> name, types |-> <<about.type>>, first |-> first])>>
      \o Indented(8, IF body = <<>> THEN <<>> ELSE Tail(body))

Rendered(documented, style) ==
  LET names == SetToSeq(DOMAIN documented)
  IN  IF style = "numpy"
      THEN <<Line(0, Words("summary")), Line(0, [kind |-> "title", name |-> "Parameters"]), Rule>>
           \o FoldLeft(LAMBDA text, name : text \o NumpyParam(name, documented[name]), <<>>, names)
           \o <<Line(0, [kind |-> "blank"]), Line(0, [kind |-> "title", name |-> "Returns"]), Rule,
                Line(0, Field("p", "dict")), Line(4, Words("result"))>>
      ELSE <<Line(0, Words("summary")), Line(0, [kind |-> "section", name |-> "Parameters"])>>
           \o FoldLeft(LAMBDA text, name : text \o GoogleParam(name, documented[name]), <<>>, names)
           \o <<Line(0, [kind |-> "section", name |-> "Returns"]), Line(4, Words("result"))>>

MethodOf(params, documented, style) ==
  [parameters |-> params, documented |-> documented, doc |-> Rendered(documented, style)]

\* Several parameters; one description goes over lines, one of them like a header.
Several(style) ==
  MethodOf(("p" :> Parameter(User, NoDefault, "plain")) @@
           ("action" :> Parameter(Unknown, Text, "plain")) @@
           ("names" :> Parameter(Unknown, Null, "collection")),
           ("p" :> AboutIt("dict", <<>>, NoFormat)) @@
           ("action" :> AboutIt("str", <<Words("what"), Field("mode", "full"), Words("more")>>, "uri")) @@
           ("names" :> AboutIt("str", <<Words("whose")>>, "email")),
           style)

MCMethod ==
  {MethodOf("p" :> Parameter(a, NoDefault, "plain"), EmptyDict, "numpy") : a \in Annotations} \cup
  {MethodOf("p" :> Parameter(Unknown, d, "plain"), "p" :> AboutIt(h, <<Words("what")>>, "email"),
            IF d = Null THEN "google" ELSE "numpy") :
     d \in {NoDefault, Null}, h \in {"list", "dict", "bool"}} \cup
  {MethodOf("p" :> Parameter(Unknown, d, s), "p" :> AboutIt("str", <<>>, NoFormat), "numpy") :
     d \in {Null, One, None}, s \in {"collection", "map"}} \cup
  {Several("numpy"), Several("google"),
   MethodOf("action" :> Parameter(Scalar("string"), Null, "plain"), EmptyDict, "numpy")}

MCFieldDescriptions == "p" :> (("email" :> "The user's email address.") @@ ("gone" :> "Dropped."))

MCSchemaRules == {[path |-> <<"properties", "action", "enum">>, value |-> {Text}]}

MCArgumentValue ==
  {Null, Text, Atom("string", "other"), One, Half, True, JsonText(None), None, Array(<<Text>>), Array(<<One>>),
   Object(EmptyDict), Object("email" :> Text), Object("email" :> One),
   Object(("email" :> Text) @@ ("groups" :> Array(<<One>>))),
   Object(("email" :> Text) @@ ("port" :> One)), Object("region" :> Text),
   Array(<<Object("email" :> Text)>>), Array(<<Object(EmptyDict)>>)}

\* Results.
CONSTANTS getDashboards, getDashboard, getReport

Oid == Object("oid" :> Text)
Failure == Object(("ok" :> False) @@ ("error" :> Text))
Big == Object(("oid" :> One) @@ ("k1" :> Text) @@ ("k2" :> Text))

MCResults ==
  {Null, Oid, Object("oid" :> Null), Object("n" :> One), Object(EmptyDict), Big, None,
   Object("oid" :> Object("oid" :> Object("n" :> One))),
   Array(<<Oid, Big>>), Array(<<Oid, Null>>), Array(<<Text, Half, Oid>>),
   Array(<<Failure>>), Object("result" :> Text)}

\* A value as a tree: its node, and the trees of what it holds, one step down.
RECURSIVE TreeOf(_)
TreeOf(value) ==
  LET Below(step, child) ==
        LET tree == TreeOf(child)
        IN  [path \in {<<step>> \o p : p \in DOMAIN tree} |-> tree[Tail(path)]]
      node == IF value.kind \in {"object", "array"} THEN [kind |-> value.kind] ELSE value
      parts == CASE value.kind = "object" ->
                      {Below(Key(name), value.fields[name]) : name \in DOMAIN value.fields}
                 [] value.kind = "array" ->
                      {Below(Item(i), value.items[i]) : i \in DOMAIN value.items}
                 [] OTHER -> {}
  IN  FoldSet(LAMBDA part, tree : tree @@ part, <<>> :> node, parts)

Trees(values) == {TreeOf(value) : value \in values}

MCResultsOf ==
  (getDashboards :> Trees(MCResults)) @@ (getDashboard :> Trees({Oid})) @@ (getReport :> Trees({Oid}))
MCDerive == getDashboard :> [source |-> getDashboards, keys |-> {"oid", "_id"}]
=============================================================================
