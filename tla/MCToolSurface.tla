--------------------------- MODULE MCToolSurface ---------------------------
(***************************************************************************)
(* Values for ToolSurface: five tools in three modules, one excluded.      *)
(* Releases rename tool 2 to 3, or replace it by 3 and 5, bring it back,   *)
(* and turn a read into a write.  The ids of 3 and 5 begin with that of 2. *)
(***************************************************************************)
EXTENDS ToolSurface, TLC

CONSTANTS dashboard, folder, migration

MCModuleOf == (1 :> folder) @@ (2 :> dashboard) @@ (3 :> dashboard) @@ (4 :> migration)
              @@ (5 :> dashboard)
MCStartsWith == {<<t, MCModuleOf[t]>> : t \in Tool} \cup {<<3, 2>>, <<5, 2>>}
MCSimilar == {<<2, 3>>, <<3, 2>>, <<2, 5>>, <<5, 2>>}

Method(prefix, verb) == [prefix |-> prefix, verb |-> verb, deprecated |-> FALSE]
Read == Method("read", TRUE)
Plain == Method("other", FALSE)
Alias == [Read EXCEPT !.deprecated = TRUE]

MCFirstRelease == (1 :> Plain) @@ (2 :> Read)
MCRelease ==
  {MCFirstRelease, (1 :> Plain) @@ (2 :> Alias) @@ (3 :> Read),
   (1 :> Method("other", TRUE)) @@ (3 :> Plain) @@ (4 :> Read) @@ (5 :> Read)}

MCAllowlist == <<ToolLine(1, TRUE), ToolLine(2, FALSE)>>
=============================================================================
