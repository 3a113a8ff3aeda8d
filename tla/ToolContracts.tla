--------------------------- MODULE ToolContracts ---------------------------
(***************************************************************************)
(* The two contracts a tool advertises, composed: its parameter schema,    *)
(* rebuilt at every refresh (InputContracts), and its output schema, which *)
(* no refresh touches and captures accumulate (OutputSchemas).             *)
(***************************************************************************)
EXTENDS InputContracts, OutputSchemas

vars == <<inputVars, outputVars>>

Init == InputInit /\ OutputInit

Next ==
  \/ InputNext /\ UNCHANGED outputVars
  \/ OutputNext /\ UNCHANGED inputVars

Spec == Init /\ [][Next]_vars

\* Of both components.
TypeOK == InputTypeOK /\ OutputTypeOK

=============================================================================
