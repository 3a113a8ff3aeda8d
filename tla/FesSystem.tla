----------------------------- MODULE FesSystem -----------------------------
(***************************************************************************)
(* The two services together: fes-auth (SisenseAuth, and here the /mcp     *)
(* proxy of authserver.py), fes-mcp (UpstreamVerifier), Sisense, and the   *)
(* clients that call tools, sign in and refresh their tokens.              *)
(*                                                                         *)
(* proxy_mcp suspends twice, while the request travels to fes-mcp and      *)
(* while it closes the answer, and everything can happen to the session    *)
(* meanwhile: calls[c] holds what the handler read before.                 *)
(*                                                                         *)
(* What the login form holds of a user is a Sisense token and the choice   *)
(* of the "self-signed certificate" box.                                   *)
(***************************************************************************)
EXTENDS Naturals, FiniteSets, Dicts

CONSTANTS Client, Resource, NoResource, Domain, NoTarget, TargetOf, AllowedOrigins, Ip,
          Post, LoginTtl, CodeTtl, AccessTtl, RefreshTtl, MaxPending, LoginAttempts,
          LoginWindow, LimiterKeys, MaxSecrets, MaxTime

CONSTANTS
  SisenseToken,   \* the tokens Sisense knows
  User,           \* what is typed into the form: a token and the TLS choice
  OwnResource,    \* the resources _audience_matches takes for this server's /mcp
  RsOrigins,      \* the origins fes-mcp allows
  RsSslVerify,    \* fes-mcp's settings.sisense_ssl_verify
  VerifyTtl, MaxEntries,
  Call            \* slots for the requests being proxied at a time

Pair == [domain : Domain, token : SisenseToken]

VARIABLES
  now, minted, pending_logins, login_attempts, posts, auth_codes, access_tokens,
  refresh_tokens, access_to_refresh, refresh_to_access, credentials, sign_ins, grants,
  verified, recency, checks, revoked, vouched, granted,
  calls,     \* the proxy's handlers that wait for fes-mcp
  refused    \* history: the pairs fes-mcp has answered with a 401

authVars == <<minted, pending_logins, login_attempts, posts, auth_codes, access_tokens,
              refresh_tokens, access_to_refresh, refresh_to_access, credentials,
              sign_ins, grants>>
rsVars == <<verified, recency, checks, granted>>
sisenseVars == <<revoked, vouched>>
proxyVars == <<calls, refused>>
vars == <<now, authVars, rsVars, sisenseVars, proxyVars>>

Auth == INSTANCE SisenseAuth
Rs == INSTANCE UpstreamVerifier WITH
        AllowedPair <- {p \in Pair : p.domain \in RsOrigins}, Request <- Call

ASSUME SystemConstants ==
  /\ Auth!ProviderConstants
  /\ Rs!VerifierConstants
  /\ User \subseteq [token : SisenseToken, ssl_verify : BOOLEAN]
  /\ OwnResource \subseteq Resource
  /\ RsOrigins \subseteq Domain
  /\ RsSslVerify \in BOOLEAN

Init ==
  /\ Auth!Init
  /\ Rs!Init
  /\ calls = EmptyDict
  /\ refused = {}
-----------------------------------------------------------------------------
(* authserver.py: the proxy. *)

\* The credential a vault entry stands for at Sisense.
PairOf(credential) == [domain |-> credential.domain, token |-> credential.user.token]

\* Mutant: a client's own X-Sisense-Url is forwarded.
InjectedBesideClaim(credential, claimed) ==
  [domain |-> IF claimed = NoTarget THEN credential.domain ELSE claimed,
   token |-> credential.user.token]

\* The headers the resource server sees: the client's own Authorization and
\* X-Sisense-Url (claimed) are skipped.
Injected(credential, claimed) == PairOf(credential)

\* access.expires_at, the audience check and the vault
Serves(token) ==
  /\ token \in DOMAIN access_tokens
  /\ ~Auth!Expired(access_tokens[token])
  /\ access_tokens[token].resource \in OwnResource \cup {NoResource}
  /\ token \in DOMAIN credentials

\* proxy_mcp up to client.send; a request it does not serve is challenged at once.
Forward(c, token, claimed) ==
  /\ c \notin DOMAIN calls \cup DOMAIN checks
  /\ Serves(token)
  /\ calls' = Put(calls, c,
       [token |-> token, pair |-> Injected(credentials[token], claimed),
        owner |-> Auth!SignInOf(token).credential, since |-> now, at |-> "sent"])
  /\ UNCHANGED <<now, authVars, rsVars, sisenseVars, refused>>

\* Mutant: a failing client.send is taken for a 401.
UnreachableRevokes(c) ==
  /\ c \in DOMAIN calls
  /\ calls' = Pop(calls, {c})
  /\ IF calls[c].token \in DOMAIN access_tokens
     THEN Auth!RevokeToken(calls[c].token)
     ELSE UNCHANGED <<now, authVars>>
  /\ UNCHANGED <<rsVars, sisenseVars, refused>>

\* client.send fails, before fes-mcp has the request, while it works on it (and goes
\* on), or on the way back: a 502, and nothing else.
Unreachable(c) ==
  /\ c \in DOMAIN calls
  /\ calls' = Pop(calls, {c})
  /\ UNCHANGED <<now, authVars, rsVars, sisenseVars, refused>>

\* Mutant: the 401 is passed on to the client, and the session is kept.
RejectedTokensNone(c) == {}

\* What the 401 of a call revokes: its own access token, if it still exists.
RejectedTokens(c) == {calls[c].token} \cap DOMAIN access_tokens

\* proxy_mcp from the 401 of the resource server on.
Reject(c) ==
  /\ c \in DOMAIN calls
  /\ calls[c].at = "rejected"
  /\ calls' = Pop(calls, {c})
  /\ IF RejectedTokens(c) = {}
     THEN UNCHANGED authVars
     ELSE \E access \in RejectedTokens(c) : Auth!RevokeToken(access)
  /\ UNCHANGED <<now, rsVars, sisenseVars, refused>>
-----------------------------------------------------------------------------
(* fes-mcp behind the proxy. *)

\* The call is let through: its tool runs, with the pair of its headers.
LetThrough(c) == calls' = [calls EXCEPT ![c].at = "running"] /\ UNCHANGED refused

TurnAway(c) ==
  /\ calls' = [calls EXCEPT ![c].at = "rejected"]
  /\ refused' = refused \cup {calls[c].pair}

Hold(c) == calls' = [calls EXCEPT ![c].at = "checking"] /\ UNCHANGED refused

\* The request arrives at fes-mcp.
Receive(c) ==
  /\ c \in DOMAIN calls
  /\ calls[c].at = "sent"
  /\ Rs!VerifyToken(c, calls[c].pair, TRUE)
  /\ IF calls[c].pair.domain \notin RsOrigins
     THEN TurnAway(c)
     ELSE IF Rs!Remembered(calls[c].pair) THEN LetThrough(c) ELSE Hold(c)
  /\ UNCHANGED authVars

SisenseAnswers(c) == Rs!SisenseAnswers(c) /\ UNCHANGED <<authVars, proxyVars>>

\* The check ends; nobody waits for it any more if fes-auth has restarted or given
\* the call up.
Resume(c) ==
  /\ \/ Rs!Accept(c) /\ IF c \in DOMAIN calls THEN LetThrough(c) ELSE UNCHANGED proxyVars
     \/ Rs!Refuse(c) /\ IF c \in DOMAIN calls THEN TurnAway(c) ELSE UNCHANGED proxyVars
  /\ UNCHANGED authVars

\* The tool's answer is streamed back to the client.
Respond(c) ==
  /\ c \in DOMAIN calls
  /\ calls[c].at = "running"
  /\ calls' = Pop(calls, {c})
  /\ UNCHANGED <<now, authVars, rsVars, sisenseVars, refused>>

\* Mutant: the proxy's handlers survive the connection they wait on.
RestartRsUnnoticed == Rs!Restart /\ UNCHANGED <<authVars, proxyVars>>

\* fes-mcp restarts: the requests it was working on end in a 502.
RestartRs ==
  /\ Rs!Restart
  /\ calls' = Pop(calls, {c \in DOMAIN calls : calls[c].at \in {"checking", "running"}})
  /\ UNCHANGED <<authVars, refused>>
-----------------------------------------------------------------------------
(* The rest of the world. *)

Outside == UNCHANGED <<rsVars, sisenseVars, proxyVars>>

\* The provider's own handlers.  Sisense accepts a sign-in at some moment of the
\* handler's wait, so the token may be revoked by the time it ends, but not when
\* it began; a form with a token revoked before can only fail, and is left out.
Provider ==
  /\ \/ Auth!AuthorizeStep
     \/ Auth!ShowLogin
     \/ \E p \in Post, login \in 1..minted, csrfMatches \in BOOLEAN, ip \in Ip,
           domain \in Domain, user \in User :
          /\ PairOf([domain |-> domain, user |-> user]) \notin DOMAIN revoked
          /\ Auth!SubmitLogin(p, login, csrfMatches, ip, domain, user)
     \/ \E p \in Post : Auth!FailLogin(p) \/ Auth!FinishLogin(p)
     \/ \E code \in DOMAIN auth_codes :
          Auth!LoadExpiredCode(code) \/ Auth!ExchangeAuthorizationCode(code)
     \/ \E refresh \in DOMAIN refresh_tokens :
          \/ Auth!LoadExpiredRefreshToken(refresh)
          \/ Auth!RejectScopes(refresh)
          \/ Auth!ExchangeRefreshToken(refresh)
  /\ Outside

\* fes-auth restarts: its sessions and the requests it was proxying are gone.
RestartAuth ==
  /\ Auth!Restart
  /\ calls' = EmptyDict
  /\ UNCHANGED <<rsVars, sisenseVars, refused>>

Revoke(pair) == Rs!Revoke(pair) /\ UNCHANGED <<authVars, proxyVars>>

Tick == Auth!Tick /\ Outside

Next ==
  \/ Tick
  \/ Provider
  \/ RestartAuth
  \/ RestartRs
  \/ \E pair \in Pair : Revoke(pair)
  \/ \E c \in Call :
       \/ \E token \in DOMAIN access_tokens, claimed \in Domain \cup {NoTarget} :
            Forward(c, token, claimed)
       \/ Unreachable(c)
       \/ Reject(c)
       \/ Receive(c)
       \/ SisenseAnswers(c)
       \/ Resume(c)
       \/ Respond(c)

Spec == Init /\ [][Next]_vars

\* The refresh tokens of the sessions with a credential.
RefreshTokensOf(pair) ==
  {r \in DOMAIN refresh_tokens : PairOf(Auth!SignInOf(r).credential) = pair}

\* The sessions with a dead credential are not rotated for ever (no more of them
\* begin).  A client that rotates between every 401 of fes-mcp and the second lookup
\* of the proxy (authserver.py:186) would keep its session, and no fairness of the
\* services prevents that.
RotationsCease ==
  \A pair \in Pair :
    <>[][RefreshTokensOf(pair)' \subseteq RefreshTokensOf(pair) \/ pair \notin DOMAIN revoked]_vars

\* A client calls with one of the sessions with a credential.
ForwardWith(pair) ==
  \E c \in Call, token \in DOMAIN access_tokens :
    PairOf(Auth!SignInOf(token).credential) = pair /\ Forward(c, token, NoTarget)

\* The proxy still waits for the call.
Awaited(c) == c \in DOMAIN calls

\* Handlers run to their end; a call that is sent again and again gets through at
\* last, to fes-mcp, to Sisense and back; and somebody keeps calling with each
\* credential that has a session.
FairSpec ==
  /\ Spec
  /\ RotationsCease
  /\ \A c \in Call :
       /\ WF_vars(SisenseAnswers(c)) /\ WF_vars(Resume(c)) /\ WF_vars(Respond(c))
       /\ SF_vars(Receive(c)) /\ SF_vars(Reject(c))
       /\ SF_vars(Awaited(c) /\ SisenseAnswers(c))
       /\ SF_vars(Awaited(c) /\ Resume(c))
  /\ \A pair \in Pair : SF_vars(ForwardWith(pair))
-----------------------------------------------------------------------------
\* The proxy's handlers and the resource server's checks are about the same pair.
TypeOK ==
  /\ DOMAIN calls \subseteq Call
  /\ \A c \in DOMAIN calls :
       /\ calls[c].pair \in Pair
       /\ calls[c].at \in {"sent", "checking", "running", "rejected"}
       /\ calls[c].at = "checking" =>
            c \in DOMAIN checks /\ checks[c].pair = calls[c].pair
  /\ refused \subseteq Pair

Running == {c \in DOMAIN calls : calls[c].at = "running"}

\* Every tool runs as the user who signed in for the presented token, on the
\* instance of that sign-in, whatever headers the client sent and whatever
\* happened to the session while the call travelled (authserver.py:48).
ToolRunsAsSignedIn ==
  \A c \in Running :
    calls[c].pair = PairOf(calls[c].owner) /\ calls[c].pair.domain \in AllowedOrigins

\* README.md:135 of the repository, end to end: no call that reaches the proxy
\* verify_ttl seconds or more after its token was revoked in Sisense runs a tool.
RevocationReachesTools ==
  \A c \in Running :
    calls[c].pair \in DOMAIN revoked =>
      Rs!WithinTtl(calls[c].since, revoked[calls[c].pair])

\* A live session ends only by its own expiry, a restart of fes-auth, its rotation,
\* or after fes-mcp has answered a call with its own credential with a 401: not by
\* a 502, another user's 401, or a restart of fes-mcp ("invisible", README.md:146).
SessionLossIsEarned ==
  [][\A r \in DOMAIN refresh_tokens \ DOMAIN refresh_tokens' :
       \/ Auth!Expired(refresh_tokens[r])
       \/ sign_ins' = EmptyDict
       \/ \E s \in DOMAIN refresh_tokens' : grants'[s].login = grants[r].login
       \/ PairOf(Auth!SignInOf(r).credential) \in refused]_vars

\* README.md:139, "Server-side revocation therefore propagates with no manual
\* steps": verify_ttl after a revocation, a client that keeps calling, and does not
\* rotate for ever, is without a session on the dead credential at last, although a
\* 401 that finds its access token rotated away revokes nothing.
DeadCredentialLeaves ==
  \A pair \in Pair :
    pair \in DOMAIN revoked /\ revoked[pair] + VerifyTtl <= now
      ~> ~ \E a \in DOMAIN access_tokens : Serves(a) /\ PairOf(credentials[a]) = pair

\* credentials.py:3, "A credential is (domain, token, ssl_verify)", of which
\* "fes-auth injects one per request": the tool runs with the TLS choice of the
\* sign-in.
TlsChoiceReachesTheTool ==
  \A c \in Running : RsSslVerify = calls[c].owner.user.ssl_verify
=============================================================================
