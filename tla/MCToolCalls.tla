---------------------------- MODULE MCToolCalls ----------------------------
(***************************************************************************)
(* Values for ToolCalls: a modern and a legacy client that show dialogs    *)
(* and one that does not, for two users of one instance, who share a cache *)
(* of one client and a pool of one thread or two.                          *)
(***************************************************************************)
EXTENDS ToolCalls

CONSTANTS modern, legacy, plain, alice, bob, acme, get, delete, first, second

MCCredentialOf ==
  [c \in Conn |-> [domain |-> acme, token |-> IF c = legacy THEN bob ELSE alice]]

Asks(conn, tool, args) == [conn |-> conn, tool |-> tool, args |-> args]

MCRequest ==
  {Asks(modern, delete, first), Asks(modern, delete, second),
   Asks(legacy, delete, first), Asks(legacy, get, first),
   Asks(plain, delete, first)}
=============================================================================
