-------------------------- MODULE FesSystemProofs --------------------------
(***************************************************************************)
(* The promises of the two services together, for every set of users,      *)
(* clients and concurrent calls, from what SisenseAuthProofs and           *)
(* UpstreamVerifierProofs prove of each of them alone.                     *)
(*                                                                         *)
(* Every step of the system is a step of fes-auth, or leaves it alone, and *)
(* likewise for fes-mcp; so each keeps its own inductive invariant, and    *)
(* what is left is an invariant of the calls: the pair a call carries is   *)
(* that of the sign-in of its token, fes-mcp checks the pair it carries,   *)
(* and nothing it checks is older than the call.                           *)
(***************************************************************************)
EXTENDS FesSystem, TLAPS

Vault == INSTANCE SisenseAuthProofs
Verifier == INSTANCE UpstreamVerifierProofs WITH
              AllowedPair <- {p \in Pair : p.domain \in RsOrigins}, Request <- Call
-----------------------------------------------------------------------------
(* The instances of the two modules that the proofs are about. *)

LEMMA VaultSteps ==
  /\ Auth!Init = Vault!Init /\ Auth!vars = Vault!vars
  /\ Auth!Tick = Vault!Tick /\ Auth!Restart = Vault!Restart
  /\ Auth!AuthorizeStep = Vault!AuthorizeStep
  /\ Auth!LoginStep = Vault!LoginStep
  /\ \A code : Auth!LoadExpiredCode(code) = Vault!LoadExpiredCode(code)
  /\ \A code : Auth!ExchangeAuthorizationCode(code) = Vault!ExchangeAuthorizationCode(code)
  /\ \A refresh : Auth!LoadExpiredRefreshToken(refresh) = Vault!LoadExpiredRefreshToken(refresh)
  /\ \A refresh : Auth!RejectScopes(refresh) = Vault!RejectScopes(refresh)
  /\ \A refresh : Auth!ExchangeRefreshToken(refresh) = Vault!ExchangeRefreshToken(refresh)
  /\ \A access : Auth!RevokeToken(access) = Vault!RevokeToken(access)
BY DEF Auth!Resources, Vault!Resources, Auth!LiveTokens, Vault!LiveTokens, Auth!Init,
       Vault!Init, Auth!Restart, Vault!Restart, Auth!Tick, Vault!Tick,
       Auth!TargetFromResource, Vault!TargetFromResource, Auth!Expired, Vault!Expired,
       Auth!EvictedBefore, Vault!EvictedBefore, Auth!SweepPending, Vault!SweepPending,
       Auth!DeadAccessTokens, Vault!DeadAccessTokens, Auth!SweepExpiredTokens,
       Vault!SweepExpiredTokens, Auth!Authorize, Vault!Authorize, Auth!ShowLogin,
       Vault!ShowLogin, Auth!LoginDomain, Vault!LoginDomain, Auth!SubmitLogin,
       Vault!SubmitLogin, Auth!FailLogin, Vault!FailLogin, Auth!IssueCode,
       Vault!IssueCode, Auth!FinishLogin, Vault!FinishLogin, Auth!Linked, Vault!Linked,
       Auth!RevokeInternal, Vault!RevokeInternal, Auth!MintPair, Vault!MintPair,
       Auth!LoadExpiredCode, Vault!LoadExpiredCode, Auth!ExchangeAuthorizationCode,
       Vault!ExchangeAuthorizationCode, Auth!LoadExpiredRefreshToken,
       Vault!LoadExpiredRefreshToken, Auth!RejectScopes, Vault!RejectScopes,
       Auth!PriorResource, Vault!PriorResource, Auth!ExchangeRefreshToken,
       Vault!ExchangeRefreshToken, Auth!RevokedCredentials, Vault!RevokedCredentials,
       Auth!RevokeToken, Vault!RevokeToken, Auth!AuthorizeStep, Vault!AuthorizeStep,
       Auth!LoginStep, Vault!LoginStep, Auth!NoCredential, Vault!NoCredential,
       Auth!tokens, Vault!tokens, Auth!history, Vault!history, Auth!vars, Vault!vars,
       Auth!Put, Vault!Put, Auth!Pop, Vault!Pop, Auth!Keep, Vault!Keep, Auth!Get,
       Vault!Get, Auth!EmptyDict, Vault!EmptyDict, Auth!Restrict, Vault!Restrict,
       Auth!Cardinality, Vault!Cardinality, Auth!LoginLimiter!AfterCall,
       Vault!LoginLimiter!AfterCall, Auth!LoginLimiter!Admits,
       Vault!LoginLimiter!Admits, Auth!LoginLimiter!Recent, Vault!LoginLimiter!Recent,
       Auth!LoginLimiter!Within, Vault!LoginLimiter!Within, Auth!LoginLimiter!IsLast,
       Vault!LoginLimiter!IsLast, Auth!LoginLimiter!StillActive,
       Vault!LoginLimiter!StillActive, Auth!LoginLimiter!Put, Vault!LoginLimiter!Put,
       Auth!LoginLimiter!Keep, Vault!LoginLimiter!Keep, Auth!LoginLimiter!Get,
       Vault!LoginLimiter!Get, Auth!LoginLimiter!Restrict, Vault!LoginLimiter!Restrict,
       Auth!LoginLimiter!Cardinality, Vault!LoginLimiter!Cardinality

LEMMA VerifierSteps ==
  /\ Rs!Init = Verifier!Init /\ Rs!vars = Verifier!vars
  /\ Rs!Next = Verifier!Next
BY DEF Rs!Init, Verifier!Init, Rs!vars, Verifier!vars, Rs!Next, Verifier!Next, Rs!Tick,
       Verifier!Tick, Rs!Restart, Verifier!Restart, Rs!Revoke, Verifier!Revoke,
       Rs!VerifyToken, Verifier!VerifyToken, Rs!SisenseAnswers, Verifier!SisenseAnswers,
       Rs!Accept, Verifier!Accept, Rs!Refuse, Verifier!Refuse, Rs!Remembered,
       Verifier!Remembered, Rs!Grant, Verifier!Grant, Rs!MoveToEnd, Verifier!MoveToEnd,
       Rs!KeptAfterInsert, Verifier!KeptAfterInsert, Rs!Expiry, Verifier!Expiry, Rs!Put,
       Verifier!Put, Rs!Pop, Verifier!Pop, Rs!Keep, Verifier!Keep, Rs!EmptyDict,
       Verifier!EmptyDict, Rs!Restrict, Verifier!Restrict, Rs!RemoveFirst, Verifier!RemoveFirst,
       Rs!RemoveAt, Verifier!RemoveAt, Rs!SelectInSeq, Verifier!SelectInSeq,
       Rs!Min, Verifier!Min, Rs!ToSet, Verifier!ToSet

-----------------------------------------------------------------------------
(* fes-auth in the system is the provider. *)

\* Nothing outside fes-auth touches what it keeps.
AuthStutters == UNCHANGED <<now, authVars>>

LEMMA ProviderIsClient == Provider => Vault!ClientStep /\ now' = now /\ Outside
<1> SUFFICES ASSUME Provider PROVE Vault!ClientStep /\ now' = now
  BY DEF Provider
<1>1. Vault!ClientStep
  <2>1. CASE Auth!AuthorizeStep
    BY <2>1, VaultSteps DEF Vault!ClientStep
  <2>2. CASE \/ Auth!ShowLogin
             \/ \E p \in Post, login \in 1..minted, csrfMatches \in BOOLEAN, ip \in Ip,
                   domain \in Domain, user \in User :
                  Auth!SubmitLogin(p, login, csrfMatches, ip, domain, user)
             \/ \E p \in Post : Auth!FailLogin(p) \/ Auth!FinishLogin(p)
    <3>1. Auth!LoginStep
      BY <2>2 DEF Auth!LoginStep
    <3> QED BY <3>1, VaultSteps DEF Vault!ClientStep
  <2>3. CASE \E code \in DOMAIN auth_codes :
               Auth!LoadExpiredCode(code) \/ Auth!ExchangeAuthorizationCode(code)
    BY <2>3, VaultSteps DEF Vault!ClientStep
  <2>4. CASE \E refresh \in DOMAIN refresh_tokens :
               \/ Auth!LoadExpiredRefreshToken(refresh)
               \/ Auth!RejectScopes(refresh)
               \/ Auth!ExchangeRefreshToken(refresh)
    BY <2>4, VaultSteps DEF Vault!ClientStep
  <2> QED BY <2>1, <2>2, <2>3, <2>4 DEF Provider
<1>2. now' = now
  BY <1>1 DEF Vault!ClientStep, Vault!AuthorizeStep, Vault!Authorize, Vault!LoginStep,
     Vault!ShowLogin, Vault!SubmitLogin, Vault!FailLogin, Vault!FinishLogin,
     Vault!LoadExpiredCode, Vault!ExchangeAuthorizationCode, Vault!LoadExpiredRefreshToken,
     Vault!RejectScopes, Vault!ExchangeRefreshToken, Vault!vars
<1> QED BY <1>1, <1>2

LEMMA RejectRevokes ==
  ASSUME NEW c, Reject(c)
  PROVE  AuthStutters \/ (Vault!RevokeToken(calls[c].token) /\ calls[c].token \in DOMAIN access_tokens)
BY VaultSteps DEF Reject, RejectedTokens, AuthStutters

LEMMA OthersStutter ==
  ASSUME \/ RestartRs
         \/ \E pair \in Pair : Revoke(pair)
         \/ \E c \in Call :
              \/ \E token \in DOMAIN access_tokens, claimed \in Domain \cup {NoTarget} :
                   Forward(c, token, claimed)
              \/ Unreachable(c) \/ Receive(c) \/ SisenseAnswers(c) \/ Resume(c) \/ Respond(c)
         \/ UNCHANGED vars
  PROVE  AuthStutters
BY DEF RestartRs, Revoke, Forward, Unreachable, Receive, SisenseAnswers, Resume, Respond,
       AuthStutters, vars, Rs!Restart, Rs!Revoke, Rs!VerifyToken, Rs!SisenseAnswers,
       Rs!Accept, Rs!Refuse

LEMMA StepsOfAuth == [Next]_vars => [Vault!Next]_(Vault!vars)
<1> SUFFICES ASSUME [Next]_vars PROVE [Vault!Next]_(Vault!vars)
  OBVIOUS
<1>1. AuthStutters => UNCHANGED Vault!vars
  BY DEF AuthStutters, authVars, Vault!vars, Vault!tokens, Vault!history
<1>2. Vault!ClientStep => Vault!Next
  BY DEF Vault!ClientStep, Vault!Next, Vault!TokenStep
<1>3. CASE Tick \/ RestartAuth
  BY <1>3, VaultSteps DEF Tick, RestartAuth, Vault!Next
<1>4. CASE Provider
  BY <1>4, <1>2, ProviderIsClient
<1>5. ASSUME NEW c \in Call, Reject(c) PROVE [Vault!Next]_(Vault!vars)
  BY <1>5, <1>1, RejectRevokes DEF Vault!Next, Vault!TokenStep
<1> QED BY <1>1, <1>3, <1>4, <1>5, OthersStutter DEF Next

\* Whatever fes-mcp, Sisense and the calls do, fes-auth is the provider that
\* SisenseAuth describes.
THEOREM SystemRunsTheProvider == Spec => Auth!Spec
<1>1. Init => Auth!Init
  BY DEF Init
<1>2. [Next]_vars => [Auth!Next]_(Auth!vars)
  <2>1. Auth!TokenStep <=> Vault!TokenStep
    BY VaultSteps DEF Auth!TokenStep, Vault!TokenStep
  <2>2. Auth!Next <=> Vault!Next
    BY <2>1, VaultSteps DEF Auth!Next, Vault!Next
  <2>3. UNCHANGED Vault!vars => UNCHANGED Auth!vars
    BY DEF Auth!vars, Auth!tokens, Auth!history, Vault!vars, Vault!tokens, Vault!history
  <2> QED BY <2>2, <2>3, StepsOfAuth
<1> QED BY <1>1, <1>2, PTL DEF Spec, Auth!Spec

LEMMA VaultInvariant == Spec => []Vault!IInv
<1>1. Vault!ProviderConstants
  BY SystemConstants DEF SystemConstants, Auth!ProviderConstants, Vault!ProviderConstants,
     Auth!Resources, Vault!Resources
<1>2. Vault!Spec => []Vault!IInv
  BY <1>1, Vault!InductiveInvariant DEF Vault!InductiveInvariant
<1>3. Init => Vault!Init
  BY VaultSteps DEF Init
<1> QED BY <1>2, <1>3, StepsOfAuth, PTL DEF Spec, Vault!Spec
-----------------------------------------------------------------------------
(* The calls. *)

CallRecord == [token : 1..MaxSecrets, pair : Pair, owner : Vault!Credential, since : Nat,
               at : {"sent", "checking", "running", "rejected"}]

\* A call that is being checked is exactly one that waits for Sisense, and fes-mcp
\* checks the pair that the call carries.
TypedCall(c) ==
  /\ calls[c] \in CallRecord
  /\ calls[c].since <= now
  /\ calls[c].at = "checking" <=> c \in DOMAIN checks
  /\ c \in DOMAIN checks => checks[c].pair = calls[c].pair

\* A call carries the pair of the sign-in its token descends from, also when the
\* token is gone.
FaithfulCall(c) ==
  /\ calls[c].token \in DOMAIN grants
  /\ calls[c].owner = Vault!SignInOf(calls[c].token).credential
  /\ calls[c].pair = PairOf(calls[c].owner)
  /\ calls[c].pair.domain \in AllowedOrigins
  /\ calls[c].at = "rejected" => calls[c].pair \in refused

CallsInv ==
  /\ DOMAIN calls \subseteq Call
  /\ \A c \in DOMAIN calls : TypedCall(c) /\ FaithfulCall(c)
  /\ \A r \in DOMAIN checks : checks[r] \in [pair : Pair, now : Nat, answer : Rs!Answers]
  /\ refused \subseteq Pair

LEMMA InitCalls == Init => CallsInv
BY DEF Init, Rs!Init, Rs!EmptyDict, EmptyDict, CallsInv

\* A step of fes-auth that is no restart.
AuthRuns ==
  \/ Vault!Tick \/ Vault!ClientStep \/ AuthStutters
  \/ \E access \in DOMAIN access_tokens : Vault!RevokeToken(access)

\* The sign-in of a token does not change while a call with it is under way.
LEMMA SignInsStay ==
  ASSUME Vault!IInv, AuthRuns
  PROVE  \A t \in DOMAIN grants :
           /\ t \in DOMAIN grants'
           /\ grants'[t] = grants[t]
           /\ sign_ins'[grants[t].login] = sign_ins[grants[t].login]
<1>1. CASE Vault!ClientStep
  BY <1>1, Vault!HistoryGrows, SystemConstants DEF Vault!HistoryGrows, SystemConstants,
     Auth!ProviderConstants, Vault!ProviderConstants, Auth!Resources, Vault!Resources
<1>2. CASE UNCHANGED <<sign_ins, grants>>
  BY <1>2
<1>3. Vault!Tick \/ AuthStutters => UNCHANGED <<sign_ins, grants>>
  BY DEF Vault!Tick, AuthStutters, authVars, Vault!history
<1>4. (\E access \in DOMAIN access_tokens : Vault!RevokeToken(access))
        => UNCHANGED <<sign_ins, grants>>
  BY DEF Vault!RevokeToken, Vault!history
<1> QED BY <1>1, <1>2, <1>3, <1>4 DEF AuthRuns

\* A call keeps its token, its pair and its owner, and so its faith.
LEMMA CallStaysFaithful ==
  ASSUME Vault!IInv, AuthRuns, NEW c \in DOMAIN calls, FaithfulCall(c),
         refused \subseteq refused',
         calls'[c].token = calls[c].token,
         calls'[c].owner = calls[c].owner,
         calls'[c].pair = calls[c].pair,
         calls'[c].at = "rejected" => calls[c].at = "rejected" \/ calls[c].pair \in refused'
  PROVE  FaithfulCall(c)'
BY SignInsStay DEF FaithfulCall, Vault!SignInOf, PairOf

\* So do all calls that a step leaves alone.
LEMMA CallsStay ==
  ASSUME Vault!IInv, AuthRuns, CallsInv, now' \in Nat, now <= now',
         DOMAIN calls' \subseteq DOMAIN calls,
         \A c \in DOMAIN calls' : calls'[c] = calls[c] /\ (c \in DOMAIN checks <=> c \in DOMAIN checks'),
         \A r \in DOMAIN checks' : r \in DOMAIN checks /\ checks'[r] = checks[r],
         refused' = refused
  PROVE  CallsInv'
<1>1. now \in Nat
  BY DEF Vault!IInv, Vault!Counters
<1>2. ASSUME NEW c \in DOMAIN calls' PROVE TypedCall(c)'
  <2>1. TypedCall(c) /\ calls'[c] = calls[c] /\ calls[c].since \in Nat
    BY DEF CallsInv, TypedCall, CallRecord
  <2> QED BY <1>1, <2>1 DEF TypedCall
<1>3. ASSUME NEW c \in DOMAIN calls' PROVE FaithfulCall(c)'
  BY CallStaysFaithful DEF CallsInv
<1> QED BY <1>2, <1>3 DEF CallsInv

LEMMA ForwardCalls ==
  ASSUME Vault!IInv, CallsInv, NEW c \in Call, NEW token \in DOMAIN access_tokens, NEW claimed,
         Forward(c, token, claimed)
  PROVE  CallsInv'
<1> DEFINE call == [token |-> token, pair |-> PairOf(credentials[token]),
                    owner |-> Vault!SignInOf(token).credential, since |-> now, at |-> "sent"]
<1>1. /\ c \notin DOMAIN calls \cup DOMAIN checks
      /\ token \in DOMAIN credentials
      /\ DOMAIN calls' = DOMAIN calls \cup {c}
      /\ calls'[c] = call
      /\ \A d \in DOMAIN calls : calls'[d] = calls[d]
      /\ UNCHANGED <<now, authVars, rsVars, sisenseVars, refused>>
  BY DEF Forward, Serves, Injected, Put, Auth!SignInOf, Vault!SignInOf
<1>2. /\ checks' = checks /\ grants' = grants /\ sign_ins' = sign_ins
      /\ refused' = refused /\ now' = now
  BY <1>1 DEF authVars, rsVars
<1>3. /\ now \in Nat
      /\ token \in DOMAIN grants /\ token \in 1..MaxSecrets
      /\ credentials[token] \in Vault!Credential
      /\ credentials[token] = Vault!SignInOf(token).credential
      /\ credentials[token].domain \in AllowedOrigins
  <2>1. /\ now \in Nat /\ minted \in 0..MaxSecrets
        /\ DOMAIN credentials \subseteq DOMAIN grants /\ DOMAIN grants \subseteq 1..minted
        /\ credentials[token] \in Vault!Credential
        /\ grants[token].login \in DOMAIN sign_ins
    BY <1>1 DEF Vault!IInv, Vault!Counters, Vault!TokenInv, Vault!TokenTypeOK
  <2>2. MaxSecrets \in Nat
    BY SystemConstants DEF SystemConstants, Auth!ProviderConstants
  <2>3. /\ credentials[token] = Vault!SignInOf(token).credential
        /\ Vault!SignInOf(token).credential.domain \in AllowedOrigins
    BY <1>1, <2>1 DEF Vault!IInv, Vault!TokenInv, Vault!VaultIsFaithful,
       Vault!SignInsAreConfined, Vault!SignInOf
  <2> QED BY <1>1, <2>1, <2>2, <2>3
<1>4. PairOf(credentials[token]) \in Pair
  BY <1>3, SystemConstants DEF SystemConstants, PairOf, Pair, Vault!Credential
<1>5. TypedCall(c)' /\ FaithfulCall(c)'
  BY <1>1, <1>2, <1>3, <1>4 DEF TypedCall, FaithfulCall, CallRecord, PairOf, Vault!SignInOf
<1>6. ASSUME NEW d \in DOMAIN calls PROVE TypedCall(d)' /\ FaithfulCall(d)'
  BY <1>1, <1>2, <1>6 DEF CallsInv, TypedCall, FaithfulCall, Vault!SignInOf, PairOf
<1> QED BY <1>1, <1>2, <1>5, <1>6 DEF CallsInv

LEMMA ReceiveCalls ==
  ASSUME Vault!IInv, CallsInv, NEW c \in Call, Receive(c) PROVE CallsInv'
<1>1. /\ c \in DOMAIN calls /\ calls[c].at = "sent" /\ c \notin DOMAIN checks
      /\ now' = now /\ now \in Nat
      /\ UNCHANGED <<authVars, now>>
  BY DEF Receive, Rs!VerifyToken, Vault!IInv, Vault!Counters
<1>2. /\ calls[c] \in CallRecord
      /\ TypedCall(c) /\ FaithfulCall(c)
  BY <1>1 DEF CallsInv, TypedCall
<1>3. PICK at \in {"checking", "running", "rejected"} :
        /\ calls' = [calls EXCEPT ![c].at = at]
        /\ IF at = "checking"
           THEN checks' = Rs!Put(checks, c, [pair |-> calls[c].pair, now |-> now, answer |-> "waiting"])
           ELSE checks' = checks
        /\ refused' = IF at = "rejected" THEN refused \cup {calls[c].pair} ELSE refused
  BY <1>1, <1>2 DEF Receive, Rs!VerifyToken, TurnAway, LetThrough, Hold, CallRecord, Pair
<1>4. /\ DOMAIN calls' = DOMAIN calls
      /\ calls'[c] = [calls[c] EXCEPT !.at = at]
      /\ \A d \in DOMAIN calls \ {c} : calls'[d] = calls[d]
      /\ c \in DOMAIN checks' <=> at = "checking"
      /\ DOMAIN checks' \ {c} = DOMAIN checks
      /\ \A d \in DOMAIN checks : checks'[d] = checks[d]
      /\ c \in DOMAIN checks' => checks'[c] = [pair |-> calls[c].pair, now |-> now, answer |-> "waiting"]
  BY <1>1, <1>3 DEF Rs!Put
<1>5. AuthRuns /\ refused \subseteq refused'
  BY <1>1, <1>3 DEF AuthRuns, AuthStutters
<1>6. TypedCall(c)'
  BY <1>1, <1>2, <1>3, <1>4 DEF TypedCall, CallRecord
<1>7. FaithfulCall(c)'
  BY <1>1, <1>2, <1>3, <1>4, <1>5, CallStaysFaithful DEF CallRecord
<1>8. ASSUME NEW d \in DOMAIN calls \ {c} PROVE TypedCall(d)' /\ FaithfulCall(d)'
  BY <1>1, <1>4, <1>5, CallStaysFaithful DEF CallsInv, TypedCall
<1>9. ASSUME NEW d \in DOMAIN checks' PROVE checks'[d] \in [pair : Pair, now : Nat, answer : Rs!Answers]
  BY <1>1, <1>2, <1>4 DEF CallsInv, CallRecord, Rs!Answers
<1>10. refused' \subseteq Pair
  BY <1>2, <1>3 DEF CallsInv, CallRecord
<1> QED BY <1>4, <1>6, <1>7, <1>8, <1>9, <1>10 DEF CallsInv

LEMMA AnswerCalls ==
  ASSUME Vault!IInv, CallsInv, NEW c \in Call, SisenseAnswers(c) PROVE CallsInv'
<1>1. PICK answer \in {"accepted", "refused"} : checks' = [checks EXCEPT ![c].answer = answer]
  BY DEF SisenseAnswers, Rs!SisenseAnswers
<1>2. UNCHANGED <<now, authVars, calls, refused>> /\ now \in Nat
  BY DEF SisenseAnswers, Rs!SisenseAnswers, proxyVars, Vault!IInv, Vault!Counters
<1>3. /\ DOMAIN checks' = DOMAIN checks
      /\ \A r \in DOMAIN checks : /\ checks'[r] \in [pair : Pair, now : Nat, answer : Rs!Answers]
                                  /\ checks'[r].pair = checks[r].pair
  BY <1>1 DEF CallsInv, Rs!Answers
<1>4. ASSUME NEW d \in DOMAIN calls' PROVE TypedCall(d)' /\ FaithfulCall(d)'
  <2>1. AuthRuns
    BY <1>2 DEF AuthRuns, AuthStutters
  <2> QED BY <1>2, <1>3, <2>1, CallStaysFaithful DEF CallsInv, TypedCall
<1> QED BY <1>2, <1>3, <1>4 DEF CallsInv

LEMMA ResumeCalls ==
  ASSUME Vault!IInv, CallsInv, NEW c \in Call, Resume(c) PROVE CallsInv'
<1>1. /\ UNCHANGED <<now, authVars>> /\ now \in Nat
      /\ c \in DOMAIN checks
      /\ DOMAIN checks' = DOMAIN checks \ {c}
      /\ \A d \in DOMAIN checks' : checks'[d] = checks[d]
  BY DEF Resume, Rs!Accept, Rs!Refuse, Rs!Pop, Rs!Restrict, Vault!IInv, Vault!Counters
<1>2. AuthRuns
  BY <1>1 DEF AuthRuns, AuthStutters
<1>3. CASE c \notin DOMAIN calls
  <2>1. calls' = calls /\ refused' = refused
    BY <1>3 DEF Resume, proxyVars
  <2> QED BY <1>1, <1>2, <1>3, <2>1, CallsStay
<1>4. CASE c \in DOMAIN calls
  <2>1. PICK at \in {"running", "rejected"} :
          /\ calls' = [calls EXCEPT ![c].at = at]
          /\ refused' = IF at = "rejected" THEN refused \cup {calls[c].pair} ELSE refused
    BY <1>4 DEF Resume, LetThrough, TurnAway
  <2>2. calls[c] \in CallRecord /\ TypedCall(c) /\ FaithfulCall(c)
    BY <1>4 DEF CallsInv, TypedCall
  <2>3. /\ DOMAIN calls' = DOMAIN calls
        /\ calls'[c] = [calls[c] EXCEPT !.at = at]
        /\ \A d \in DOMAIN calls \ {c} : calls'[d] = calls[d]
        /\ refused \subseteq refused'
    BY <1>4, <2>1
  <2>4. TypedCall(c)'
    BY <1>1, <2>2, <2>3 DEF TypedCall, CallRecord
  <2>5. FaithfulCall(c)'
    BY <1>2, <1>4, <2>1, <2>2, <2>3, CallStaysFaithful DEF CallRecord
  <2>6. ASSUME NEW d \in DOMAIN calls \ {c} PROVE TypedCall(d)' /\ FaithfulCall(d)'
    BY <1>1, <1>2, <2>3, CallStaysFaithful DEF CallsInv, TypedCall
  <2>7. refused' \subseteq Pair
    BY <2>1, <2>2 DEF CallsInv, CallRecord
  <2> QED BY <1>1, <2>3, <2>4, <2>5, <2>6, <2>7 DEF CallsInv
<1> QED BY <1>3, <1>4

LEMMA CallsStep == ASSUME Vault!IInv, CallsInv, [Next]_vars PROVE CallsInv'
<1>1. now \in Nat
  BY DEF Vault!IInv, Vault!Counters
<1>2. CASE Tick
  <2>1. Vault!Tick /\ Outside
    BY <1>2, VaultSteps DEF Tick
  <2> QED BY <1>1, <2>1, CallsStay DEF AuthRuns, Outside, rsVars, proxyVars, Vault!Tick
<1>3. CASE Provider
  BY <1>1, <1>3, ProviderIsClient, CallsStay DEF AuthRuns, Outside, rsVars, proxyVars
<1>4. CASE RestartAuth
  BY <1>4 DEF RestartAuth, CallsInv, EmptyDict, rsVars
<1>5. CASE RestartRs
  <2>1. /\ AuthRuns /\ now' = now /\ refused' = refused
        /\ DOMAIN checks' = {}
        /\ DOMAIN calls' = {c \in DOMAIN calls : calls[c].at \notin {"checking", "running"}}
        /\ \A c \in DOMAIN calls' : calls'[c] = calls[c]
    BY <1>5 DEF RestartRs, Rs!Restart, Rs!EmptyDict, Pop, Restrict, AuthRuns, AuthStutters
  <2>2. \A c \in DOMAIN calls' : c \notin DOMAIN checks
    BY <2>1 DEF CallsInv, TypedCall
  <2> QED BY <1>1, <2>1, <2>2, CallsStay
<1>6. ASSUME NEW pair \in Pair, Revoke(pair) PROVE CallsInv'
  <2>1. AuthRuns /\ UNCHANGED <<now, calls, refused, checks>>
    BY <1>6 DEF Revoke, Rs!Revoke, AuthRuns, AuthStutters, proxyVars
  <2> QED BY <1>1, <2>1, CallsStay
<1>7. ASSUME NEW c \in Call, Unreachable(c) \/ Respond(c) \/ Reject(c) PROVE CallsInv'
  <2>1. /\ calls' = Pop(calls, {c})
        /\ UNCHANGED <<rsVars, refused>>
    BY <1>7 DEF Unreachable, Respond, Reject
  <2>2. AuthRuns
    BY <1>7, RejectRevokes DEF Unreachable, Respond, AuthRuns, AuthStutters
  <2>3. now' = now
    BY <1>7, RejectRevokes DEF Unreachable, Respond, Reject
  <2> QED BY <1>1, <2>1, <2>2, <2>3, CallsStay DEF Pop, Restrict, rsVars
<1>8. CASE UNCHANGED vars
  BY <1>1, <1>8, CallsStay DEF vars, rsVars, proxyVars, AuthRuns, AuthStutters
<1> QED BY <1>2, <1>3, <1>4, <1>5, <1>6, <1>7, <1>8, ForwardCalls, ReceiveCalls, AnswerCalls,
           ResumeCalls DEF Next

LEMMA CallsInvariant == Spec => []CallsInv
BY VaultInvariant, InitCalls, CallsStep, PTL DEF Spec

\* The proxy's handlers and the resource server's checks are about the same pair.
THEOREM SystemTypeCorrect == Spec => []TypeOK
<1>1. CallsInv => TypeOK
  BY DEF CallsInv, TypedCall, CallRecord, TypeOK
<1> QED BY CallsInvariant, <1>1, PTL

\* Every tool runs as the user who signed in for the presented token, on the
\* instance of that sign-in, for any number of users, sessions and calls.
THEOREM ToolsRunAsSignedIn == Spec => []ToolRunsAsSignedIn
<1>1. CallsInv => ToolRunsAsSignedIn
  BY DEF CallsInv, FaithfulCall, ToolRunsAsSignedIn, Running
<1> QED BY CallsInvariant, <1>1, PTL
-----------------------------------------------------------------------------
(* fes-mcp in the system is the verifier. *)

LEMMA StepsOfRs == ASSUME CallsInv, [Next]_vars PROVE [Rs!Next]_(Rs!vars)
<1>1. (UNCHANGED now /\ UNCHANGED <<rsVars, sisenseVars>>) => UNCHANGED Rs!vars
  BY DEF rsVars, sisenseVars, Rs!vars
<1>2. CASE Tick
  BY <1>2 DEF Tick, Auth!Tick, Outside, rsVars, sisenseVars, Rs!Next, Rs!Tick
<1>3. CASE Provider
  BY <1>1, <1>3, ProviderIsClient DEF Outside
<1>4. CASE RestartAuth
  BY <1>1, <1>4 DEF RestartAuth, Auth!Restart
<1>5. CASE RestartRs \/ \E pair \in Pair : Revoke(pair)
  BY <1>5 DEF RestartRs, Revoke, Rs!Next
<1>6. ASSUME NEW c \in Call,
             \/ \E token \in DOMAIN access_tokens, claimed \in Domain \cup {NoTarget} :
                  Forward(c, token, claimed)
             \/ Unreachable(c) \/ Respond(c)
      PROVE  UNCHANGED Rs!vars
  BY <1>1, <1>6 DEF Forward, Unreachable, Respond
<1>7. ASSUME NEW c \in Call, Reject(c) PROVE UNCHANGED Rs!vars
  BY <1>1, <1>7 DEF Reject
<1>8. ASSUME NEW c \in Call, Receive(c) PROVE Rs!Next
  <2>1. calls[c].pair \in Pair
    BY <1>8 DEF Receive, CallsInv, TypedCall, CallRecord
  <2> QED BY <1>8, <2>1 DEF Receive, Rs!Next
<1>9. ASSUME NEW c \in Call, SisenseAnswers(c) \/ Resume(c) PROVE Rs!Next
  BY <1>9 DEF SisenseAnswers, Resume, Rs!Next
<1>10. CASE UNCHANGED vars
  BY <1>1, <1>10 DEF vars
<1> QED BY <1>2, <1>3, <1>4, <1>5, <1>6, <1>7, <1>8, <1>9, <1>10 DEF Next

\* Whatever fes-auth and the calls do, fes-mcp is the verifier that
\* UpstreamVerifier describes.
THEOREM SystemRunsTheVerifier == Spec => Rs!Spec
<1>1. Init => Rs!Init
  BY DEF Init
<1>2. CallsInv /\ [Next]_vars => [Rs!Next]_(Rs!vars)
  BY StepsOfRs
<1> QED BY <1>1, <1>2, CallsInvariant, PTL DEF Spec, Rs!Spec

LEMMA VerifierInvariant == Spec => []Verifier!IInv
<1>1. Verifier!VerifierConstants
  BY SystemConstants DEF SystemConstants, Rs!VerifierConstants, Verifier!VerifierConstants
<1>2. Verifier!Spec => []Verifier!IInv
  BY <1>1, Verifier!InductiveInvariant DEF Verifier!InductiveInvariant
<1>3. Init => Verifier!Init
  BY VerifierSteps DEF Init
<1>4. UNCHANGED Rs!vars => UNCHANGED Verifier!vars
  BY DEF Rs!vars, Verifier!vars
<1>5. CallsInv /\ [Next]_vars => [Verifier!Next]_(Verifier!vars)
  BY <1>4, StepsOfRs, VerifierSteps
<1> QED BY <1>2, <1>3, <1>5, CallsInvariant, PTL DEF Spec, Verifier!Spec
-----------------------------------------------------------------------------
(* Revocation reaches the tools. *)

\* Sisense accepted the pair of a running call no longer than verify_ttl before
\* the call reached the proxy; a check began after its call did.
CallsAreYoung ==
  \A c \in DOMAIN calls :
    /\ calls[c].at = "checking" => calls[c].since <= checks[c].now
    /\ calls[c].at = "running" =>
         /\ calls[c].pair \in DOMAIN vouched
         /\ Rs!WithinTtl(calls[c].since, vouched[calls[c].pair])

\* Acceptances only get younger.
LEMMA VouchedGrows ==
  ASSUME Verifier!IInv, [Rs!Next]_(Rs!vars)
  PROVE  \A p \in DOMAIN vouched :
           /\ p \in DOMAIN vouched' /\ vouched[p] \in Nat /\ vouched'[p] \in Nat
           /\ vouched[p] <= vouched'[p]
<1>1. /\ now \in Nat
      /\ \A p \in DOMAIN vouched : vouched[p] \in Nat /\ vouched[p] <= now
  BY DEF Verifier!IInv, Verifier!TimesOK
<1>2. ASSUME NEW r, Rs!SisenseAnswers(r)
      PROVE  vouched' = vouched \/ vouched' = Rs!Put(vouched, checks[r].pair, now)
  BY <1>2 DEF Rs!SisenseAnswers
<1>3. vouched' = vouched \/ \E p : vouched' = Rs!Put(vouched, p, now)
  BY <1>2 DEF Rs!Next, Rs!vars, Rs!Tick, Rs!Restart, Rs!Revoke, Rs!VerifyToken, Rs!Accept,
              Rs!Refuse
<1>4. CASE vouched' = vouched
  BY <1>1, <1>4
<1>5. ASSUME NEW q, vouched' = Rs!Put(vouched, q, now)
      PROVE  \A p \in DOMAIN vouched :
               /\ p \in DOMAIN vouched' /\ vouched[p] \in Nat /\ vouched'[p] \in Nat
               /\ vouched[p] <= vouched'[p]
  <2>1. \A p \in DOMAIN vouched : p \in DOMAIN vouched' /\ vouched'[p] \in {now, vouched[p]}
    BY <1>5 DEF Rs!Put
  <2> QED BY <1>1, <2>1
<1> QED BY <1>3, <1>4, <1>5

\* Calls that a step leaves alone stay young, as do those that end.
LEMMA YoungStay ==
  ASSUME Verifier!IInv, CallsInv, CallsAreYoung, [Rs!Next]_(Rs!vars),
         NEW c \in DOMAIN calls, calls'[c] = calls[c],
         calls[c].at = "checking" => checks'[c].now = checks[c].now
  PROVE  /\ calls'[c].at = "checking" => calls'[c].since <= checks'[c].now
         /\ calls'[c].at = "running" =>
              /\ calls'[c].pair \in DOMAIN vouched'
              /\ Rs!WithinTtl(calls'[c].since, vouched'[calls'[c].pair])
<1>1. CASE calls[c].at = "checking"
  BY <1>1 DEF CallsAreYoung
<1>2. CASE calls[c].at = "running"
  <2>1. /\ calls[c].pair \in DOMAIN vouched
        /\ Rs!WithinTtl(calls[c].since, vouched[calls[c].pair])
    BY <1>2 DEF CallsAreYoung
  <2>2. /\ calls[c].since \in Nat /\ VerifyTtl \in Nat
    BY SystemConstants DEF SystemConstants, Rs!VerifierConstants, CallsInv, TypedCall,
       CallRecord
  <2>3. /\ calls[c].pair \in DOMAIN vouched'
        /\ vouched[calls[c].pair] \in Nat /\ vouched'[calls[c].pair] \in Nat
        /\ vouched[calls[c].pair] <= vouched'[calls[c].pair]
    BY <2>1, VouchedGrows
  <2>4. Rs!WithinTtl(calls[c].since, vouched'[calls[c].pair])
    BY <2>1, <2>2, <2>3 DEF Rs!WithinTtl
  <2> QED BY <1>2, <2>3, <2>4
<1> QED BY <1>1, <1>2

\* A remembered success is younger than verify_ttl.
LEMMA ReceiveYoung ==
  ASSUME Verifier!IInv, CallsInv, CallsAreYoung, NEW c \in Call, Receive(c)
  PROVE  CallsAreYoung'
<1> DEFINE pair == calls[c].pair
<1>1. /\ c \in DOMAIN calls /\ calls[c].at = "sent"
      /\ UNCHANGED <<now, verified, vouched>>
      /\ Rs!VerifyToken(c, pair, TRUE)
      /\ DOMAIN calls' = DOMAIN calls
      /\ \A d \in DOMAIN calls \ {c} : calls'[d] = calls[d]
  BY DEF Receive, Rs!VerifyToken, LetThrough, TurnAway, Hold
<1>2. [Rs!Next]_(Rs!vars)
  <2>1. pair \in Pair
    BY <1>1 DEF CallsInv, TypedCall, CallRecord
  <2> QED BY <1>1, <2>1 DEF Rs!Next
<1>3. /\ calls[c] \in CallRecord /\ calls[c].since \in Nat /\ now \in Nat
      /\ calls[c].since <= now /\ VerifyTtl \in Nat
      /\ c \notin DOMAIN checks
  BY <1>1, SystemConstants DEF SystemConstants, Rs!VerifierConstants, CallsInv, TypedCall,
     CallRecord, Verifier!IInv, Verifier!TimesOK
<1>4. \A d \in DOMAIN checks : d # c /\ checks'[d] = checks[d]
  BY <1>1, <1>3 DEF Rs!VerifyToken, Rs!Put
<1>5. ASSUME NEW d \in DOMAIN calls \ {c}
      PROVE  /\ calls'[d].at = "checking" => calls'[d].since <= checks'[d].now
             /\ calls'[d].at = "running" =>
                  /\ calls'[d].pair \in DOMAIN vouched'
                  /\ Rs!WithinTtl(calls'[d].since, vouched'[calls'[d].pair])
  <2>1. calls[d].at = "checking" => checks'[d].now = checks[d].now
    BY <1>4 DEF CallsInv, TypedCall
  <2> QED BY <1>1, <1>2, <2>1, YoungStay
<1>6. CASE pair.domain \notin RsOrigins
  <2>1. calls'[c].at = "rejected"
    BY <1>1, <1>3, <1>6 DEF Receive, TurnAway, CallRecord
  <2> QED BY <1>1, <1>5, <2>1 DEF CallsAreYoung
<1>7. CASE pair.domain \in RsOrigins /\ Rs!Remembered(pair)
  <2>1. calls'[c].at = "running" /\ calls'[c].since = calls[c].since /\ calls'[c].pair = pair
    BY <1>1, <1>3, <1>7 DEF Receive, LetThrough, CallRecord
  <2>2. /\ pair \in DOMAIN vouched /\ vouched[pair] \in Nat /\ verified[pair] \in Nat
        /\ now < verified[pair] /\ verified[pair] <= vouched[pair] + VerifyTtl
    BY <1>7, <1>3 DEF Rs!Remembered, Verifier!IInv, Verifier!TimesOK, Verifier!MemoryIsYoung
  <2>3. Rs!WithinTtl(calls[c].since, vouched[pair])
    BY <1>3, <2>2 DEF Rs!WithinTtl
  <2> QED BY <1>1, <1>5, <2>1, <2>2, <2>3 DEF CallsAreYoung
<1>8. CASE pair.domain \in RsOrigins /\ ~Rs!Remembered(pair)
  <2>1. calls'[c].at = "checking" /\ calls'[c].since = calls[c].since
    BY <1>1, <1>3, <1>8 DEF Receive, Hold, CallRecord
  <2>2. pair \in {p \in Pair : p.domain \in RsOrigins}
    BY <1>3, <1>8 DEF CallRecord
  <2>3. checks' = Rs!Put(checks, c, [pair |-> pair, now |-> now, answer |-> "waiting"])
    BY <1>1, <1>8, <2>2 DEF Rs!VerifyToken
  <2>4. checks'[c].now = now
    BY <2>3 DEF Rs!Put
  <2> QED BY <1>1, <1>3, <1>5, <2>1, <2>4 DEF CallsAreYoung
<1> QED BY <1>6, <1>7, <1>8

\* A check that Sisense accepts was begun before, and after its call.
LEMMA ResumeYoung ==
  ASSUME Verifier!IInv, CallsInv, CallsAreYoung, NEW c \in Call, Resume(c)
  PROVE  CallsAreYoung'
<1>1. /\ c \in DOMAIN checks
      /\ UNCHANGED <<now, vouched>>
      /\ DOMAIN calls' = DOMAIN calls
      /\ \A d \in DOMAIN calls \ {c} : calls'[d] = calls[d]
      /\ \A d \in DOMAIN checks \ {c} : checks'[d] = checks[d]
  BY DEF Resume, Rs!Accept, Rs!Refuse, LetThrough, TurnAway, proxyVars, Rs!Pop, Rs!Restrict
<1>2. [Rs!Next]_(Rs!vars)
  BY DEF Resume, Rs!Next
<1>3. ASSUME NEW d \in DOMAIN calls \ {c}
      PROVE  /\ calls'[d].at = "checking" => calls'[d].since <= checks'[d].now
             /\ calls'[d].at = "running" =>
                  /\ calls'[d].pair \in DOMAIN vouched'
                  /\ Rs!WithinTtl(calls'[d].since, vouched'[calls'[d].pair])
  <2>1. calls[d].at = "checking" => checks'[d].now = checks[d].now
    BY <1>1 DEF CallsInv, TypedCall
  <2> QED BY <1>1, <1>2, <2>1, YoungStay
<1>4. CASE c \notin DOMAIN calls
  BY <1>1, <1>3, <1>4 DEF CallsAreYoung
<1>5. CASE c \in DOMAIN calls
  <2>1. /\ calls[c] \in CallRecord /\ calls[c].at = "checking"
        /\ checks[c].pair = calls[c].pair
    BY <1>1, <1>5 DEF CallsInv, TypedCall
  <2>2. CASE Rs!Accept(c) /\ LetThrough(c)
    <3>1. /\ calls'[c].at = "running" /\ calls'[c].since = calls[c].since
          /\ calls'[c].pair = calls[c].pair
      BY <1>5, <2>1, <2>2 DEF LetThrough, CallRecord
    <3>2. /\ calls[c].pair \in DOMAIN vouched /\ checks[c].now <= vouched[calls[c].pair]
          /\ vouched[calls[c].pair] \in Nat /\ checks[c].now \in Nat
      BY <1>1, <2>1, <2>2 DEF Rs!Accept, Verifier!IInv, Verifier!TimesOK,
         Verifier!ArrivalsPrecedeAcceptance
    <3>3. calls[c].since <= checks[c].now /\ calls[c].since \in Nat
      BY <1>5, <2>1 DEF CallsAreYoung, CallRecord
    <3>4. Rs!WithinTtl(calls[c].since, vouched[calls[c].pair])
      BY <3>2, <3>3 DEF Rs!WithinTtl
    <3> QED BY <1>1, <1>3, <3>1, <3>2, <3>4 DEF CallsAreYoung
  <2>3. CASE TurnAway(c)
    <3>1. calls'[c].at = "rejected"
      BY <1>5, <2>1, <2>3 DEF TurnAway, CallRecord
    <3> QED BY <1>1, <1>3, <3>1 DEF CallsAreYoung
  <2> QED BY <1>5, <2>2, <2>3 DEF Resume
<1> QED BY <1>4, <1>5

LEMMA YoungStep ==
  ASSUME Verifier!IInv, CallsInv, CallsAreYoung, [Next]_vars
  PROVE  CallsAreYoung'
<1>1. [Rs!Next]_(Rs!vars)
  BY StepsOfRs
<1>2. ASSUME \A c \in DOMAIN calls' :
               /\ c \in DOMAIN calls /\ calls'[c] = calls[c]
               /\ calls[c].at = "checking" => checks'[c].now = checks[c].now
      PROVE  CallsAreYoung'
  BY <1>1, <1>2, YoungStay DEF CallsAreYoung
<1>3. ASSUME NEW c \in Call, NEW token \in DOMAIN access_tokens, NEW claimed,
             Forward(c, token, claimed)
      PROVE  CallsAreYoung'
  <2>1. /\ DOMAIN calls' = DOMAIN calls \cup {c} /\ c \notin DOMAIN calls
        /\ calls'[c].at = "sent"
        /\ \A d \in DOMAIN calls : calls'[d] = calls[d]
        /\ checks' = checks
    BY <1>3 DEF Forward, Put, rsVars
  <2> QED BY <1>1, <2>1, YoungStay DEF CallsAreYoung
<1>4. ASSUME NEW c \in Call, SisenseAnswers(c) PROVE CallsAreYoung'
  <2>1. /\ c \in DOMAIN checks /\ calls' = calls
        /\ \E answer : checks' = [checks EXCEPT ![c].answer = answer]
    BY <1>4 DEF SisenseAnswers, Rs!SisenseAnswers, proxyVars
  <2>2. \A d \in DOMAIN checks : checks'[d].now = checks[d].now
    BY <2>1 DEF CallsInv
  <2> QED BY <1>2, <2>1, <2>2 DEF CallsInv, TypedCall
<1>5. CASE RestartRs
  BY <1>2, <1>5 DEF RestartRs, Pop, Restrict
<1>6. CASE RestartAuth
  BY <1>2, <1>6 DEF RestartAuth, EmptyDict
<1>7. CASE \/ Tick \/ Provider \/ \E pair \in Pair : Revoke(pair)
           \/ UNCHANGED vars
  <2>1. calls' = calls /\ checks' = checks
    BY <1>7, ProviderIsClient DEF Tick, Outside, Revoke, Rs!Revoke, vars, rsVars, proxyVars
  <2> QED BY <1>2, <2>1
<1>8. ASSUME NEW c \in Call, Unreachable(c) \/ Reject(c) \/ Respond(c) PROVE CallsAreYoung'
  <2>1. calls' = Pop(calls, {c}) /\ checks' = checks
    BY <1>8 DEF Unreachable, Reject, Respond, rsVars
  <2> QED BY <1>2, <2>1 DEF Pop, Restrict
<1> QED BY <1>3, <1>4, <1>5, <1>6, <1>7, <1>8, ReceiveYoung, ResumeYoung DEF Next

\* A call that reaches the proxy verify_ttl or more after its credential was
\* revoked runs no tool, whatever was in flight, for every lifetime and bound.
THEOREM RevocationReaches == Spec => []RevocationReachesTools
<1>1. Init => CallsAreYoung
  BY DEF Init, CallsAreYoung, EmptyDict
<1>2. CallsInv /\ Verifier!IInv /\ CallsAreYoung => RevocationReachesTools
  <2> SUFFICES ASSUME CallsInv, Verifier!IInv, CallsAreYoung, NEW c \in Running,
                      calls[c].pair \in DOMAIN revoked
               PROVE  Rs!WithinTtl(calls[c].since, revoked[calls[c].pair])
    BY DEF RevocationReachesTools
  <2>1. /\ calls[c].pair \in DOMAIN vouched
        /\ Rs!WithinTtl(calls[c].since, vouched[calls[c].pair])
    BY DEF CallsAreYoung, Running
  <2>2. /\ vouched[calls[c].pair] <= revoked[calls[c].pair]
        /\ vouched[calls[c].pair] \in Nat /\ revoked[calls[c].pair] \in Nat
    BY <2>1 DEF Verifier!IInv, Verifier!TimesOK, Verifier!NothingVouchedAfterRevocation
  <2>3. calls[c].since \in Nat /\ VerifyTtl \in Nat
    BY SystemConstants DEF SystemConstants, Rs!VerifierConstants, CallsInv, TypedCall,
       CallRecord, Running
  <2> QED BY <2>1, <2>2, <2>3 DEF Rs!WithinTtl
<1> QED BY <1>1, <1>2, YoungStep, CallsInvariant, VerifierInvariant, PTL DEF Spec
-----------------------------------------------------------------------------
(* What ends a session. *)

LEMMA LossStep ==
  ASSUME Vault!IInv, CallsInv, [Next]_vars, NEW r \in DOMAIN refresh_tokens,
         r \notin DOMAIN refresh_tokens'
  PROVE  \/ Auth!Expired(refresh_tokens[r])
         \/ sign_ins' = EmptyDict
         \/ \E s \in DOMAIN refresh_tokens' : grants'[s].login = grants[r].login
         \/ PairOf(Auth!SignInOf(r).credential) \in refused
<1>1. Vault!ProviderConstants
  BY SystemConstants DEF SystemConstants, Auth!ProviderConstants, Vault!ProviderConstants,
     Auth!Resources, Vault!Resources
<1>2. ~AuthStutters
  BY DEF AuthStutters, authVars
<1>3. CASE Tick
  BY <1>3, VaultSteps DEF Tick, Vault!Tick, Vault!tokens
<1>4. CASE Provider
  <2>1. Vault!ClientStep
    BY <1>4, ProviderIsClient
  <2>2. \/ Vault!Expired(refresh_tokens[r])
        \/ \E s \in DOMAIN refresh_tokens' : grants'[s].login = grants[r].login
    BY <1>1, <2>1, Vault!SessionsGoOn DEF Vault!SessionsGoOn
  <2> QED BY <2>2 DEF Auth!Expired, Vault!Expired
<1>5. CASE RestartAuth
  BY <1>5 DEF RestartAuth, Auth!Restart, Auth!EmptyDict, EmptyDict
<1>6. ASSUME NEW c \in Call, Reject(c)
      PROVE  PairOf(Auth!SignInOf(r).credential) \in refused
  <2> DEFINE token == calls[c].token
  <2>1. token \in DOMAIN access_tokens /\ Vault!RevokeToken(token)
    BY <1>2, <1>6, RejectRevokes
  <2>2. grants[r].login = grants[token].login
    BY <1>1, <2>1, Vault!RevocationIsPrivate DEF Vault!RevocationIsPrivate
  <2>3. PairOf(Vault!SignInOf(token).credential) \in refused
    BY <1>6 DEF Reject, CallsInv, FaithfulCall
  <2> QED BY <2>2, <2>3 DEF Auth!SignInOf, Vault!SignInOf
<1> QED BY <1>2, <1>3, <1>4, <1>5, <1>6, OthersStutter DEF Next

\* A session ends only by its own expiry, a restart of fes-auth, its rotation, or
\* after a 401 to its own credential, for any number of users and calls.
THEOREM SessionLossesAreEarned == Spec => SessionLossIsEarned
<1>1. Vault!IInv /\ CallsInv /\ [Next]_vars =>
        [\A r \in DOMAIN refresh_tokens \ DOMAIN refresh_tokens' :
           \/ Auth!Expired(refresh_tokens[r])
           \/ sign_ins' = EmptyDict
           \/ \E s \in DOMAIN refresh_tokens' : grants'[s].login = grants[r].login
           \/ PairOf(Auth!SignInOf(r).credential) \in refused]_vars
  BY LossStep
<1> QED BY <1>1, VaultInvariant, CallsInvariant, PTL DEF Spec, SessionLossIsEarned
=============================================================================
