------------------------------ MODULE Sessions ------------------------------
(***************************************************************************)
(* What signing in to the authorization server promises, with no tokens,   *)
(* no codes, no clocks and no handlers: logins are opened, an open login   *)
(* is completed at most once, by a credential the deployment allows, and   *)
(* starts one session; for as long as the session lasts, everything that   *)
(* is issued for it shows the client and the resource of its login and the *)
(* credential it was completed with.  Logins and sessions end at any time. *)
(*                                                                         *)
(* SisenseAuth implements this module.                                     *)
(***************************************************************************)
EXTENDS Naturals, Dicts

CONSTANTS Client, Resource, Credential

VARIABLES
  last,       \* no login beyond this number was ever opened
  open,       \* the logins that can be completed, with what was asked
  sessions    \* what the tokens of each session show

vars == <<last, open, sessions>>

Init == last = 0 /\ open = EmptyDict /\ sessions = EmptyDict

\* Entries go, none comes or changes.
Shrinks(after, before) ==
  /\ DOMAIN after \subseteq DOMAIN before
  /\ \A k \in DOMAIN after : after[k] = before[k]

\* A login is opened under a number never used before; others may end.
Open(client, resource) ==
  /\ last' \in Nat
  /\ last < last'
  /\ Shrinks(open', Put(open, last', [client |-> client, resource |-> resource]))
  /\ Shrinks(sessions', sessions)

\* An open login is completed with a credential: it is open no more.
Complete(login, credential) ==
  /\ login \in DOMAIN open
  /\ last' \in Nat
  /\ last <= last'
  /\ open' = Pop(open, {login})
  /\ sessions' = Put(sessions, login, [clients     |-> {open[login].client},
                                       resources   |-> {open[login].resource},
                                       credentials |-> {credential}])

\* Logins expire or are evicted, sessions expire or are revoked, or all of it is
\* lost; what is left is what it was.
End ==
  /\ last' \in Nat
  /\ last <= last'
  /\ Shrinks(open', open)
  /\ Shrinks(sessions', sessions)

Next ==
  \/ \E client \in Client, resource \in Resource : Open(client, resource)
  \/ \E login \in DOMAIN open, credential \in Credential : Complete(login, credential)
  \/ End

Spec == Init /\ [][Next]_vars
=============================================================================
