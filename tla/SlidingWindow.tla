--------------------------- MODULE SlidingWindow ---------------------------
(***************************************************************************)
(* auth.py, class _RateLimiter: what one call of allow() computes.         *)
(*                                                                         *)
(* The limiter's state is a dictionary from a client IP to the list of the *)
(* times of its admitted calls.  The clock does not run backwards, so the  *)
(* list is ordered by time, and the model keeps it as the set of its       *)
(* entries [at, nth]: an entry is appended behind the nth entries the list *)
(* held, which tells apart two calls admitted at the same instant.         *)
(***************************************************************************)
EXTENDS Naturals, FiniteSets, Dicts

CONSTANTS MaxAttempts,  \* max_attempts
          Window,       \* window_seconds
          MaxKeys       \* 10_000, the size of the table that triggers a cleanup

ASSUME LimiterConstants ==
  /\ MaxAttempts \in Nat
  /\ Window \in Nat \ {0}
  /\ MaxKeys \in Nat

Entry == [at : Nat, nth : Nat]

\* t > now - window_seconds, in natural numbers
Within(entry, now) == entry.at + Window > now

Recent(attempts, key, now) ==
  {e \in Get(attempts, key, {}) : Within(e, now)}

Admits(attempts, key, now) ==
  Cardinality(Recent(attempts, key, now)) < MaxAttempts

\* v[-1] of the list v
IsLast(entry, list) == \A e \in list : e.at <= entry.at

\* Mutant: v[0] for v[-1], which forgets a key that is still calling.
StillActiveByFirst(attempts, now) ==
  {k \in DOMAIN attempts :
     attempts[k] # {} /\ \A e \in attempts[k] : Within(e, now)}

\* The keys the cleanup keeps: "if v and v[-1] > now - self._window".
StillActive(attempts, now) ==
  {k \in DOMAIN attempts :
     \E last \in attempts[k] : IsLast(last, attempts[k]) /\ Within(last, now)}

\* Mutant: the refused call is appended too.
AfterCallCountingRefusals(attempts, key, now) ==
  LET recent == Recent(attempts, key, now)
  IN  Put(attempts, key, recent \cup {[at |-> now, nth |-> Cardinality(recent)]})

\* The table once the call is counted: a refused call is not, and cleans nothing.
AfterCall(attempts, key, now) ==
  LET recent   == Recent(attempts, key, now)
      counted  == recent \cup {[at |-> now, nth |-> Cardinality(recent)]}
      extended == Put(attempts, key, counted)
  IN  IF ~Admits(attempts, key, now)
      THEN Put(attempts, key, recent)
      ELSE IF Cardinality(DOMAIN extended) > MaxKeys
           THEN Keep(extended, StillActive(extended, now))
           ELSE extended
=============================================================================
