----------------------------- MODULE DocStrings -----------------------------
(***************************************************************************)
(* What 01_build_registry_from_sdk reads in the docstring of an SDK method *)
(* about its parameters: two parsers, one for each style, run over the     *)
(* lines, and NumPy's wins.                                                *)
(*                                                                         *)
(* A line is [indent, text].  A text is what the patterns of the parsers   *)
(* tell apart:                                                             *)
(*   "blank", "rule"               nothing, and a line of dashes           *)
(*   "title", "section" + name     "Returns" and "Returns:"                *)
(*   "field" + name, types         "action : str, optional"                *)
(*   "google" + name, types, first "action (str, optional): What it does"  *)
(*   "words" + says, format        prose, and the "(format: ...)" at its   *)
(*                                 end, or NoFormat                        *)
(* types is the list between the commas, first a sequence of at most one   *)
(* text.  A description is the sequence of the texts that make it up.      *)
(***************************************************************************)
EXTENDS Naturals, SequencesExt, Dicts

NoName == ""
NoFormat == ""

Outside == [stage |-> "outside", name |-> NoName, type |-> "", said |-> <<>>, meta |-> EmptyDict]

\* flush_current()
Flushed(state) ==
  [state EXCEPT !.name = NoName,
     !.meta = IF state.name = NoName THEN @
              ELSE Put(@, state.name, [type |-> state.type, description |-> state.said])]

\* A header begins the parameter it names.
Begun(state, text, said) ==
  [Flushed(state) EXCEPT !.name = text.name, !.type = Head(text.types), !.said = said]

Finished(state) == [Flushed(state) EXCEPT !.stage = "done"]
Said(state, text) == [state EXCEPT !.said = Append(@, text)]

GoogleEnd == {"Returns", "Return", "Raises", "Notes", "Examples"}
NumpyEnd == {"Returns", "Yields", "Raises", "Notes", "Examples"}

\* def _parse_param_doc_meta_google(doc), a line of it
GoogleLine(state, line) ==
  LET text == line.text
  IN  CASE state.stage = "outside" ->
             IF text.kind = "section" /\ text.name = "Parameters"
             THEN [state EXCEPT !.stage = "inside"] ELSE state
        [] state.stage = "done" -> state
        [] text.kind = "section" /\ text.name \in GoogleEnd -> Finished(state)
        [] text.kind = "google" -> Begun(state, text, text.first)
        [] state.name # NoName /\ text.kind # "blank" /\ line.indent > 0 -> Said(state, text)
        [] OTHER -> state

\* Mutant: a header is one at any indentation.
IsHeaderAnywhere(line) == line.text.kind = "field"

IsHeader(line) == line.text.kind = "field" /\ line.indent = 0

\* def _parse_param_doc_meta_numpy(doc), a line of it
NumpyLine(state, line) ==
  LET text == line.text
  IN  CASE state.stage = "outside" ->
             IF text.kind = "title" /\ text.name = "Parameters"
             THEN [state EXCEPT !.stage = "heading"] ELSE state
        [] state.stage = "heading" ->
             IF text.kind = "rule" THEN [state EXCEPT !.stage = "inside"] ELSE state
        [] state.stage = "done" -> state
        [] text.kind = "title" /\ text.name \in NumpyEnd /\ line.indent = 0 -> Finished(state)
        [] IsHeader(line) -> Begun(state, text, <<>>)
        [] state.name # NoName /\ text.kind # "blank" /\ line.indent >= 4 -> Said(state, text)
        [] OTHER -> state

\* def _parse_param_doc_meta(doc)
ParseParamDocMeta(doc) ==
  LET google == Flushed(FoldLeft(GoogleLine, Outside, doc)).meta
      numpy  == Flushed(FoldLeft(NumpyLine, Outside, doc)).meta
  IN  [name \in DOMAIN google \cup DOMAIN numpy |->
         IF name \in DOMAIN numpy THEN numpy[name] ELSE google[name]]

\* def _split_format_marker(description)
FormatOf(description) ==
  IF description # <<>> /\ Last(description).kind = "words"
  THEN Last(description).format ELSE NoFormat

WithoutMarker(description) ==
  IF FormatOf(description) = NoFormat THEN description
  ELSE [description EXCEPT ![Len(description)].format = NoFormat]

\* def _schema_type_from_doc_hint(doc_hint), by the first word of the type
KindOfHint(hint) ==
  CASE hint \in {"list", "tuple", "sequence"} -> "array"
    [] hint \in {"dict", "mapping"} -> "object"
    [] hint = "bool" -> "boolean"
    [] hint = "int" -> "integer"
    [] hint = "float" -> "number"
    [] OTHER -> "string"

=============================================================================
