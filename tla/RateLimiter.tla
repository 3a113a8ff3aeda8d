---------------------------- MODULE RateLimiter ----------------------------
(***************************************************************************)
(* auth.py, class _RateLimiter, as the two services use it: one instance   *)
(* in front of POST /login (auth.py:306, per client IP) and one in front   *)
(* of POST /register (authserver.py:79).  Any client IP calls allow() at   *)
(* any time; calls run one at a time, on the event loop.                   *)
(*                                                                         *)
(* What the limiter promises is stated about the calls it has admitted,    *)
(* all of them (the history variable admitted), and not about its table,   *)
(* from which old entries and whole keys are dropped.                      *)
(***************************************************************************)
EXTENDS SlidingWindow

CONSTANTS Key,      \* client IPs
          MaxTime   \* bound on the clock, for TLC

ASSUME ClockBound == MaxTime \in Nat

VARIABLES attempts,  \* self._attempts
          now,       \* time.time()
          admitted   \* history: every entry ever admitted, per key

vars == <<attempts, now, admitted>>

Init ==
  /\ attempts = EmptyDict
  /\ now = 0
  /\ admitted = [k \in Key |-> {}]

\* def allow(self, key)
Allow(key) ==
  /\ attempts' = AfterCall(attempts, key, now)
  /\ admitted' =
       IF Admits(attempts, key, now)
       THEN [admitted EXCEPT ![key] = @ \cup
               {[at |-> now, nth |-> Cardinality(Recent(attempts, key, now))]}]
       ELSE admitted
  /\ UNCHANGED now

Tick == now < MaxTime /\ now' = now + 1 /\ UNCHANGED <<attempts, admitted>>

Next == Tick \/ \E key \in Key : Allow(key)

Spec == Init /\ [][Next]_vars
-----------------------------------------------------------------------------
\* Every list the table keeps is at most as long as the budget of its key: what
\* the table stores per IP does not grow with the calls that are refused.
TypeOK ==
  /\ DOMAIN attempts \subseteq Key
  /\ \A k \in DOMAIN attempts :
       attempts[k] \subseteq Entry /\ Cardinality(attempts[k]) <= MaxAttempts
  /\ now \in Nat
  /\ admitted \in [Key -> SUBSET Entry]

\* The admitted calls of a key in the window that ends at time t.
AdmittedIn(key, t) == {e \in admitted[key] : e.at <= t /\ Within(e, t)}

\* The point of the limiter (auth.py:74): whatever the calls of the other keys
\* make the cleanup drop, no window of window_seconds, wherever it ends, holds
\* more than max_attempts admitted calls of one key.
WindowBound ==
  \A k \in Key : \A t \in 0..now : Cardinality(AdmittedIn(k, t)) <= MaxAttempts

\* The other half: a call is refused only when max_attempts calls of that key
\* really were admitted in the window that ends now.  Refused calls and other
\* keys' calls never count, so hammering cannot extend anybody's lockout.
RefusalIsEarned ==
  [][\A k \in Key :
       Allow(k) /\ ~Admits(attempts, k, now)
         => Cardinality(AdmittedIn(k, now)) >= MaxAttempts]_vars
=============================================================================
