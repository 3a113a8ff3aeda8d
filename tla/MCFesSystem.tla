---------------------------- MODULE MCFesSystem ----------------------------
(***************************************************************************)
(* Values for FesSystem: one Sisense instance, users who leave the TLS box *)
(* alone or tick it, a login page that is open for one instant.            *)
(***************************************************************************)
EXTENDS FesSystem, TLC

CONSTANTS acme, globex, mcp, alice, bob

MCTargetOf == [r \in Resource |-> acme]
MCUser == [token : SisenseToken, ssl_verify : {TRUE}]
MCUserSelfSigned == [token : SisenseToken, ssl_verify : BOOLEAN]
=============================================================================
