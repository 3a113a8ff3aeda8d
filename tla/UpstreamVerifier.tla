-------------------------- MODULE UpstreamVerifier --------------------------
(***************************************************************************)
(* upstream.py, class UpstreamTokenVerifier: how fes-mcp, the resource     *)
(* server, decides whether the (domain, token) pair injected into a        *)
(* request is still good.  A pair is checked with Sisense in a worker      *)
(* thread, the success is remembered for verify_ttl seconds, and the       *)
(* memory is bounded and evicted in LRU order.                             *)
(*                                                                         *)
(* _is_verified suspends at its one await, so any number of checks of the  *)
(* same pair run at a time, and their answers are applied in any order and *)
(* any time after Sisense gave them.  Sisense is its own process here: it  *)
(* answers a check at some moment of the wait, revokes a token at any time *)
(* and is sometimes unreachable.                                           *)
(***************************************************************************)
EXTENDS Naturals, SequencesExt, Dicts

CONSTANTS
  Pair,            \* (domain, token) pairs an upstream injects
  AllowedPair,     \* those whose domain origin_allowed accepts
  Request,         \* slots for the requests being verified at a time
  VerifyTtl,       \* settings.verify_ttl
  MaxEntries,      \* MAX_VERIFIED_ENTRIES
  MaxTime          \* bound on the clock, for TLC

ASSUME VerifierConstants ==
  /\ AllowedPair \subseteq Pair
  /\ VerifyTtl \in Nat
  /\ MaxEntries \in Nat
  /\ MaxTime \in Nat

VARIABLES
  now,        \* time.monotonic()
  verified,   \* self._verified: the expiry of each remembered pair
  recency,    \* the order of self._verified, least recently used first
  checks,     \* the coroutines that wait for Sisense, by request
  revoked,    \* Sisense: when each revoked token was revoked
  vouched,    \* history: when Sisense last accepted each pair
  granted     \* history: the last request let through, as {[pair, arrived]}

vars == <<now, verified, recency, checks, revoked, vouched, granted>>

Answers == {"waiting", "accepted", "refused"}

Init ==
  /\ now = 0
  /\ verified = EmptyDict
  /\ recency = <<>>
  /\ checks = EmptyDict
  /\ revoked = EmptyDict
  /\ vouched = EmptyDict
  /\ granted = {}
-----------------------------------------------------------------------------
\* self._verified.move_to_end(key)
MoveToEnd(order, pair) == Append(RemoveFirst(order, pair), pair)

\* "expiry is not None and expiry > now"
Remembered(pair) == pair \in DOMAIN verified /\ verified[pair] > now

Grant(pair, arrived) == granted' = {[pair |-> pair, arrived |-> arrived]}

\* Mutant: origin_allowed is not asked.
VerifyTokenAnyOrigin(r, pair, headersOk) ==
  /\ r \notin DOMAIN checks
  /\ IF ~headersOk
     THEN UNCHANGED <<recency, checks, granted>>
     ELSE IF Remembered(pair)
          THEN /\ recency' = MoveToEnd(recency, pair)
               /\ Grant(pair, now)
               /\ UNCHANGED checks
          ELSE /\ checks' = Put(checks, r,
                    [pair |-> pair, now |-> now, answer |-> "waiting"])
               /\ UNCHANGED <<recency, granted>>
  /\ UNCHANGED <<now, verified, revoked, vouched>>

\* verify_token up to the await: a request without both headers, with a
\* malformed URL or for a domain that is not allowed gets None at once (headersOk
\* is whether the headers are there and well formed), a remembered pair passes,
\* any other waits for Sisense with the time of its arrival.
VerifyToken(r, pair, headersOk) ==
  /\ r \notin DOMAIN checks
  /\ IF ~headersOk \/ pair \notin AllowedPair
     THEN UNCHANGED <<recency, checks, granted>>
     ELSE IF Remembered(pair)
          THEN /\ recency' = MoveToEnd(recency, pair)
               /\ Grant(pair, now)
               /\ UNCHANGED checks
          ELSE /\ checks' = Put(checks, r,
                    [pair |-> pair, now |-> now, answer |-> "waiting"])
               /\ UNCHANGED <<recency, granted>>
  /\ UNCHANGED <<now, verified, revoked, vouched>>

\* Sisense answers a check: a revoked token is refused; a good one is accepted,
\* or refused when Sisense cannot be reached.
SisenseAnswers(r) ==
  /\ r \in DOMAIN checks
  /\ checks[r].answer = "waiting"
  /\ \E answer \in {"accepted", "refused"} :
       /\ answer = "accepted" => checks[r].pair \notin DOMAIN revoked
       /\ checks' = [checks EXCEPT ![r].answer = answer]
       /\ vouched' = IF answer = "accepted"
                     THEN Put(vouched, checks[r].pair, now)
                     ELSE vouched
  /\ UNCHANGED <<now, verified, recency, revoked, granted>>

\* Mutant: the lifetime counts from the moment the answer is handled.
ExpiryFromAnswer(check) == now + VerifyTtl

\* The expiry stored with a success: it counts from before the await.
Expiry(check) == check.now + VerifyTtl

\* Mutant: the bound is enforced before the pair is added.
KeptBeforeInsert(order, pair) ==
  LET excess == IF Len(order) > MaxEntries THEN Len(order) - MaxEntries ELSE 0
  IN  MoveToEnd(SubSeq(order, excess + 1, Len(order)), pair)

\* The pair becomes the most recently used, and the least recently used ones
\* beyond the bound are popped.
KeptAfterInsert(order, pair) ==
  LET touched == MoveToEnd(order, pair)
      excess  == IF Len(touched) > MaxEntries THEN Len(touched) - MaxEntries ELSE 0
  IN  SubSeq(touched, excess + 1, Len(touched))

\* The coroutine resumes with a success.
Accept(r) ==
  /\ r \in DOMAIN checks
  /\ checks[r].answer = "accepted"
  /\ recency' = KeptAfterInsert(recency, checks[r].pair)
  /\ verified' = Keep(Put(verified, checks[r].pair, Expiry(checks[r])), ToSet(recency'))
  /\ checks' = Pop(checks, {r})
  /\ Grant(checks[r].pair, checks[r].now)
  /\ UNCHANGED <<now, revoked, vouched>>

\* Mutant: a pair that could not be checked passes on its remembered success,
\* however old.
RefuseUnlessKnown(r) ==
  /\ r \in DOMAIN checks
  /\ checks[r].answer = "refused"
  /\ checks' = Pop(checks, {r})
  /\ IF checks[r].pair \in DOMAIN verified
     THEN Grant(checks[r].pair, checks[r].now)
     ELSE UNCHANGED granted
  /\ UNCHANGED <<now, verified, recency, revoked, vouched>>

\* The coroutine resumes with a SisenseLoginError, whatever its cause.
Refuse(r) ==
  /\ r \in DOMAIN checks
  /\ checks[r].answer = "refused"
  /\ verified' = Pop(verified, {checks[r].pair})
  /\ recency' = RemoveFirst(recency, checks[r].pair)
  /\ checks' = Pop(checks, {r})
  /\ UNCHANGED <<now, revoked, vouched, granted>>
-----------------------------------------------------------------------------
\* Sisense revokes a token, for good.
Revoke(pair) ==
  /\ pair \notin DOMAIN revoked
  /\ revoked' = Put(revoked, pair, now)
  /\ UNCHANGED <<now, verified, recency, checks, vouched, granted>>

\* The process restarts and forgets; requests in flight are lost.
Restart ==
  /\ verified' = EmptyDict
  /\ recency' = <<>>
  /\ checks' = EmptyDict
  /\ UNCHANGED <<now, revoked, vouched, granted>>

Tick ==
  /\ now < MaxTime
  /\ now' = now + 1
  /\ UNCHANGED <<verified, recency, checks, revoked, vouched, granted>>

Next ==
  \/ Tick
  \/ Restart
  \/ \E pair \in Pair : Revoke(pair)
  \/ \E r \in Request :
       \/ \E pair \in Pair, headersOk \in BOOLEAN : VerifyToken(r, pair, headersOk)
       \/ SisenseAnswers(r)
       \/ Accept(r)
       \/ Refuse(r)

Spec == Init /\ [][Next]_vars
-----------------------------------------------------------------------------
\* Only pairs whose origin is allowed are ever checked, remembered or let
\* through, and the LRU order ranks each remembered pair once.
TypeOK ==
  /\ now \in Nat
  /\ DOMAIN verified \subseteq AllowedPair
  /\ \A p \in DOMAIN verified : verified[p] \in Nat
  /\ IsInjective(recency) /\ ToSet(recency) = DOMAIN verified
  /\ DOMAIN checks \subseteq Request
  /\ \A r \in DOMAIN checks :
       checks[r] \in [pair : AllowedPair, now : Nat, answer : Answers]
  /\ DOMAIN revoked \subseteq Pair /\ \A p \in DOMAIN revoked : revoked[p] \in Nat
  /\ DOMAIN vouched \subseteq AllowedPair /\ \A p \in DOMAIN vouched : vouched[p] \in Nat
  /\ granted \subseteq [pair : AllowedPair, arrived : Nat]

\* A request that arrived at time t within verify_ttl of the event at time v, or
\* before it.
WithinTtl(t, v) == t <= v \/ t < v + VerifyTtl

\* upstream.py:49, "A token revoked on the Sisense side therefore turns into an
\* HTTP 401 within at most that TTL": no request that arrives verify_ttl seconds
\* or more after the revocation is let through, whatever checks of the pair were
\* in flight at the revocation and in whatever order their answers came.
RevocationTakesEffect ==
  \A g \in granted :
    g.pair \in DOMAIN revoked => WithinTtl(g.arrived, revoked[g.pair])

\* upstream.py:51, "fail closed": every request let through has an acceptance by
\* Sisense behind it that is no older than verify_ttl, however often Sisense was
\* unreachable, entries evicted and the process restarted in between.
FailsClosed ==
  \A g \in granted : g.pair \in DOMAIN vouched /\ WithinTtl(g.arrived, vouched[g.pair])

\* upstream.py:38: concurrent successes never push the memory past its bound.
MemoryIsBounded == Cardinality(DOMAIN verified) <= MaxEntries
=============================================================================
