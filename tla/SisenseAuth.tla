---------------------------- MODULE SisenseAuth ----------------------------
(***************************************************************************)
(* auth.py, class SisenseAuthProvider: the authorization server whose      *)
(* authorization step is a Sisense login, and the vault that maps every    *)
(* token it issues to the Sisense credential of the user who signed in.    *)
(*                                                                         *)
(* The provider runs on one event loop.  A handler is therefore atomic     *)
(* between two awaits that really suspend, and the only one that suspends  *)
(* with a decision behind it and another ahead is POST /login, which waits *)
(* for Sisense in a worker thread: it is the two actions SubmitLogin and   *)
(* FinishLogin (or FailLogin), with its local variables in posts[p].       *)
(* Loading a token and exchanging it suspends nowhere, so each exchange is *)
(* one action, which includes what the base class InMemoryOAuthProvider    *)
(* does.                                                                   *)
(*                                                                         *)
(* Login ids, authorization codes, access and refresh tokens are random    *)
(* strings that never repeat: the model numbers them in the order they are *)
(* minted.                                                                 *)
(***************************************************************************)
EXTENDS Naturals, FiniteSets, Dicts

CONSTANTS
  Client,            \* OAuth clients
  Resource,          \* RFC 8707 resource indicators a client may send
  NoResource,        \* the client sent none
  Domain,            \* normalized Sisense URLs
  NoTarget,          \* no usable ?target= in the resource
  TargetOf,          \* the normalized ?target= of each resource
  AllowedOrigins,    \* the URLs origin_allowed accepts
  User,              \* what is typed into the form: a Sisense account
  Ip,                \* client IPs
  Post,              \* slots for the POST /login handlers running at a time
  LoginTtl,          \* LOGIN_SESSION_TTL_SECONDS
  CodeTtl,           \* DEFAULT_AUTH_CODE_EXPIRY_SECONDS of the base class
  AccessTtl,         \* DEFAULT_ACCESS_TOKEN_EXPIRY_SECONDS of the base class
  RefreshTtl,        \* REFRESH_TOKEN_TTL_SECONDS
  MaxPending,        \* 10_000 pending logins
  LoginAttempts,     \* LOGIN_RATE_LIMIT_ATTEMPTS
  LoginWindow,       \* LOGIN_RATE_LIMIT_WINDOW_SECONDS
  LimiterKeys,       \* 10_000 keys of the limiter
  MaxSecrets,        \* bound on the secrets minted, for TLC
  MaxTime            \* bound on the clock, for TLC

Resources == Resource \cup {NoResource}

ASSUME ProviderConstants ==
  /\ NoResource \notin Resource
  /\ NoTarget \notin Domain
  /\ TargetOf \in [Resource -> Domain \cup {NoTarget}]
  /\ {LoginTtl, CodeTtl, AccessTtl, RefreshTtl, MaxSecrets, MaxTime} \subseteq Nat
  /\ AccessTtl <= RefreshTtl
  /\ MaxPending \in Nat \ {0}

VARIABLES
  now,                 \* time.time()
  minted,              \* how many secrets were minted so far
  pending_logins,      \* self._pending_logins
  login_attempts,      \* self._login_limiter._attempts
  posts,               \* the POST /login handlers that wait for Sisense
  auth_codes,          \* self.auth_codes
  access_tokens,       \* self.access_tokens
  refresh_tokens,      \* self.refresh_tokens
  access_to_refresh,   \* self._access_to_refresh_map
  refresh_to_access,   \* self._refresh_to_access_map
  credentials,         \* self._credentials, the vault
  sign_ins,            \* history: what each completed login was asked and given
  grants               \* history: the login and the expiry of each issued token

tokens == <<access_tokens, refresh_tokens, access_to_refresh, refresh_to_access>>
history == <<sign_ins, grants>>
vars == <<now, minted, pending_logins, login_attempts, posts, auth_codes, tokens,
          credentials, history>>

LoginLimiter == INSTANCE SlidingWindow
  WITH MaxAttempts <- LoginAttempts, Window <- LoginWindow, MaxKeys <- LimiterKeys
-----------------------------------------------------------------------------
Secret == 1..MaxSecrets
Credential == [domain : Domain, user : User]
NoCredential == [domain |-> NoTarget]

PendingLogin == [client : Client, resource : Resources,
                 target : Domain \cup {NoTarget}, expires_at : Nat]

LiveTokens == DOMAIN auth_codes \cup DOMAIN access_tokens \cup DOMAIN refresh_tokens

Init ==
  /\ now = 0
  /\ minted = 0
  /\ pending_logins = EmptyDict
  /\ login_attempts = EmptyDict
  /\ posts = EmptyDict
  /\ auth_codes = EmptyDict
  /\ access_tokens = EmptyDict
  /\ refresh_tokens = EmptyDict
  /\ access_to_refresh = EmptyDict
  /\ refresh_to_access = EmptyDict
  /\ credentials = EmptyDict
  /\ sign_ins = EmptyDict
  /\ grants = EmptyDict

\* The process restarts: everything it kept was in memory.
Restart ==
  /\ pending_logins' = EmptyDict
  /\ login_attempts' = EmptyDict
  /\ posts' = EmptyDict
  /\ auth_codes' = EmptyDict
  /\ access_tokens' = EmptyDict
  /\ refresh_tokens' = EmptyDict
  /\ access_to_refresh' = EmptyDict
  /\ refresh_to_access' = EmptyDict
  /\ credentials' = EmptyDict
  /\ sign_ins' = EmptyDict
  /\ grants' = EmptyDict
  /\ UNCHANGED <<now, minted>>

Tick ==
  /\ now < MaxTime
  /\ now' = now + 1
  /\ UNCHANGED <<minted, pending_logins, login_attempts, posts, auth_codes, tokens,
                 credentials, history>>
-----------------------------------------------------------------------------
(* Step 1: /authorize sends the user to the login page. *)

\* def _target_from_resource(resource)
TargetFromResource(resource) ==
  IF resource = NoResource THEN NoTarget ELSE TargetOf[resource]

\* "expires_at < now"
Expired(entry) == entry.expires_at < now

\* min(pending, key=expires_at) takes login a before login b; the dictionary
\* iterates in insertion order, which breaks ties.
EvictedBefore(logins, a, b) ==
  \/ logins[a].expires_at < logins[b].expires_at
  \/ logins[a].expires_at = logins[b].expires_at /\ a < b

\* Mutant: max for min, which evicts the login just created.
SweepPendingNewest(logins) ==
  LET alive == {l \in DOMAIN logins : ~Expired(logins[l])}
  IN  Keep(logins, {l \in alive :
        Cardinality({m \in alive : EvictedBefore(logins, m, l)}) < MaxPending})

\* def _sweep_pending(self): the loop evicts until the MaxPending last remain.
SweepPending(logins) ==
  LET alive == {l \in DOMAIN logins : ~Expired(logins[l])}
  IN  Keep(logins, {l \in alive :
        Cardinality({m \in alive : EvictedBefore(logins, l, m)}) < MaxPending})

\* Mutant: an expired access token is dead although its session is refreshable.
DeadAccessTokensRefreshable == {a \in DOMAIN access_tokens : Expired(access_tokens[a])}

\* The access tokens _sweep_expired_tokens deletes: the expired ones, but for
\* those whose refresh token is still live.
DeadAccessTokens ==
  {a \in DOMAIN access_tokens :
     /\ Expired(access_tokens[a])
     /\ ~ /\ a \in DOMAIN access_to_refresh
          /\ access_to_refresh[a] \in DOMAIN refresh_tokens
          /\ ~Expired(refresh_tokens[access_to_refresh[a]])}

\* def _sweep_expired_tokens(self)
SweepExpiredTokens ==
  LET deadCodes   == {c \in DOMAIN auth_codes : Expired(auth_codes[c])}
      deadAccess  == DeadAccessTokens
      deadRefresh == {access_to_refresh[a] : a \in deadAccess \cap DOMAIN access_to_refresh}
  IN  /\ auth_codes' = Pop(auth_codes, deadCodes)
      /\ access_tokens' = Pop(access_tokens, deadAccess)
      /\ refresh_tokens' = Pop(refresh_tokens, deadRefresh)
      /\ access_to_refresh' = Pop(access_to_refresh, deadAccess)
      /\ refresh_to_access' = Pop(refresh_to_access, deadRefresh)
      /\ credentials' = Pop(credentials, deadCodes \cup deadAccess \cup deadRefresh)

\* async def authorize(self, client, params)
Authorize(client, resource) ==
  LET login   == minted + 1
      pending == [client |-> client, resource |-> resource,
                  target |-> TargetFromResource(resource),
                  expires_at |-> now + LoginTtl]
  IN  /\ login <= MaxSecrets
      /\ minted' = login
      /\ pending_logins' = SweepPending(Put(pending_logins, login, pending))
      /\ SweepExpiredTokens
      /\ UNCHANGED <<now, login_attempts, posts, history>>
-----------------------------------------------------------------------------
(* Step 2: the login page. *)

\* GET /login: _valid_login_id sweeps, and then the page is rendered or refused.
ShowLogin ==
  /\ pending_logins' = SweepPending(pending_logins)
  /\ UNCHANGED <<now, minted, login_attempts, posts, auth_codes, tokens, credentials,
                 history>>

\* Mutant: what the form says wins over the connector URL's target.
LoginDomainFromForm(pending, formDomain) == formDomain

\* Mutant: the form is not consulted, even when the connector names no target.
LoginDomainTargetOnly(pending, formDomain) == pending.target

\* "pending_check.target or form.get('domain')"
LoginDomain(pending, formDomain) ==
  IF pending.target # NoTarget THEN pending.target ELSE formDomain

\* POST /login up to the await: the link must be valid, the CSRF token that of
\* the link and the IP within its budget, or the handler answers at once.
SubmitLogin(p, login, csrfMatches, ip, formDomain, user) ==
  LET logins == SweepPending(pending_logins)
  IN  /\ p \notin DOMAIN posts
      /\ pending_logins' = logins
      /\ IF login \in DOMAIN logins /\ csrfMatches
         THEN /\ login_attempts' = LoginLimiter!AfterCall(login_attempts, ip, now)
              /\ posts' =
                   IF LoginLimiter!Admits(login_attempts, ip, now)
                   THEN Put(posts, p,
                          [login |-> login, pending_check |-> logins[login],
                           credential |-> [domain |-> LoginDomain(logins[login], formDomain),
                                           user |-> user]])
                   ELSE posts
         ELSE UNCHANGED <<login_attempts, posts>>
      /\ UNCHANGED <<now, minted, auth_codes, tokens, credentials, history>>

\* Sisense refuses, cannot be reached, or the origin is not allowed: the form is
\* shown again, the login stays pending.
FailLogin(p) ==
  /\ p \in DOMAIN posts
  /\ posts' = Pop(posts, {p})
  /\ UNCHANGED <<now, minted, pending_logins, login_attempts, auth_codes, tokens,
                 credentials, history>>

\* def _issue_code(self, pending, credential)
IssueCode(login, pending, credential) ==
  LET code == minted + 1
  IN  /\ code <= MaxSecrets
      /\ minted' = code
      /\ auth_codes' = Put(auth_codes, code,
           [client |-> pending.client, resource |-> pending.resource,
            expires_at |-> now + CodeTtl])
      /\ credentials' = Put(credentials, code, credential)
      /\ sign_ins' = Put(sign_ins, login,
           [client |-> pending.client, resource |-> pending.resource,
            target |-> pending.target, credential |-> credential])
      /\ grants' = Put(grants, code, [login |-> login, expires_at |-> now + CodeTtl])

\* Mutant: the login checked before the await is used instead of the popped one.
FinishLoginFromCheck(p) ==
  /\ p \in DOMAIN posts
  /\ posts[p].credential.domain \in AllowedOrigins
  /\ posts' = Pop(posts, {p})
  /\ pending_logins' = Pop(pending_logins, {posts[p].login})
  /\ IssueCode(posts[p].login, posts[p].pending_check, posts[p].credential)
  /\ UNCHANGED <<now, login_attempts, tokens>>

\* POST /login after the await, the origin allowed and Sisense content: the
\* login is popped, and a login that is gone gets the invalid-link page.
FinishLogin(p) ==
  /\ p \in DOMAIN posts
  /\ posts[p].credential.domain \in AllowedOrigins
  /\ posts' = Pop(posts, {p})
  /\ pending_logins' = Pop(pending_logins, {posts[p].login})
  /\ IF posts[p].login \in DOMAIN pending_logins
     THEN IssueCode(posts[p].login, pending_logins[posts[p].login], posts[p].credential)
     ELSE UNCHANGED <<minted, auth_codes, credentials, history>>
  /\ UNCHANGED <<now, login_attempts, tokens>>
-----------------------------------------------------------------------------
(* Step 3: the tokens, and the vault across issuance, rotation, revocation. *)

\* The other token of a pair.
Linked(token) ==
  {access_to_refresh[t] : t \in {token} \cap DOMAIN access_to_refresh} \cup
  {refresh_to_access[t] : t \in {token} \cap DOMAIN refresh_to_access}

\* InMemoryOAuthProvider._revoke_internal
RevokeInternal(gone) ==
  /\ access_tokens' = Pop(access_tokens, gone)
  /\ refresh_tokens' = Pop(refresh_tokens, gone)
  /\ access_to_refresh' = Pop(access_to_refresh, gone)
  /\ refresh_to_access' = Pop(refresh_to_access, gone)

\* The pair the base class mints when the tokens in spent are exchanged, and
\* _map_tokens, which stamps it with the resource and the refresh lifetime and
\* gives it the credential, if there is one.
MintPair(spent, login, client, resource, credential) ==
  LET access  == minted + 1
      refresh == minted + 2
      kept    == Pop(credentials, spent)
  IN  /\ refresh <= MaxSecrets
      /\ minted' = refresh
      /\ access_tokens' = Put(Pop(access_tokens, spent), access,
           [client |-> client, resource |-> resource, expires_at |-> now + AccessTtl])
      /\ refresh_tokens' = Put(Pop(refresh_tokens, spent), refresh,
           [client |-> client, expires_at |-> now + RefreshTtl])
      /\ access_to_refresh' = Put(Pop(access_to_refresh, spent), access, refresh)
      /\ refresh_to_access' = Put(Pop(refresh_to_access, spent), refresh, access)
      /\ credentials' = IF credential = NoCredential
                        THEN kept
                        ELSE Put(Put(kept, access, credential), refresh, credential)
      /\ grants' = Put(Put(grants, access, [login |-> login, expires_at |-> now + AccessTtl]),
                       refresh, [login |-> login, expires_at |-> now + RefreshTtl])

\* POST /token with an authorization code that has expired: loading it deletes
\* it from the base class's dictionary, and from nothing else.
LoadExpiredCode(code) ==
  /\ code \in DOMAIN auth_codes
  /\ Expired(auth_codes[code])
  /\ auth_codes' = Pop(auth_codes, {code})
  /\ UNCHANGED <<now, minted, pending_logins, login_attempts, posts, tokens,
                 credentials, history>>

\* async def exchange_authorization_code(self, client, authorization_code)
ExchangeAuthorizationCode(code) ==
  /\ code \in DOMAIN auth_codes
  /\ ~Expired(auth_codes[code])
  /\ auth_codes' = Pop(auth_codes, {code})
  /\ MintPair({code}, grants[code].login, auth_codes[code].client,
              auth_codes[code].resource, Get(credentials, code, NoCredential))
  /\ UNCHANGED <<now, pending_logins, login_attempts, posts, sign_ins>>

\* POST /token with a refresh token that has expired: loading it revokes the
\* pair in the base class.
LoadExpiredRefreshToken(refresh) ==
  /\ refresh \in DOMAIN refresh_tokens
  /\ Expired(refresh_tokens[refresh])
  /\ RevokeInternal({refresh} \cup Linked(refresh))
  /\ UNCHANGED <<now, minted, pending_logins, login_attempts, posts, auth_codes,
                 credentials, history>>

\* Mutant: the credential is popped before the base class rejects the scopes.
RejectScopesAfterPop(refresh) ==
  /\ refresh \in DOMAIN refresh_tokens
  /\ ~Expired(refresh_tokens[refresh])
  /\ credentials' = Pop(credentials, {refresh})
  /\ UNCHANGED <<now, minted, pending_logins, login_attempts, posts, auth_codes, tokens,
                 history>>

\* exchange_refresh_token when the base class raises invalid_scope: the refresh
\* token survives, and what was only read before stays.
RejectScopes(refresh) ==
  /\ refresh \in DOMAIN refresh_tokens
  /\ ~Expired(refresh_tokens[refresh])
  /\ UNCHANGED vars

\* Mutant: the resource is looked up once the base class has revoked the access
\* token that carries it.
PriorResourceAfterRevoke(refresh) == NoResource

\* The resource of the access token being replaced, in exchange_refresh_token.
PriorResource(refresh) ==
  LET prior == Linked(refresh) \cap DOMAIN access_tokens
  IN  IF prior = {} THEN NoResource
      ELSE access_tokens[CHOOSE a \in prior : TRUE].resource

\* async def exchange_refresh_token(self, client, refresh_token, scopes)
ExchangeRefreshToken(refresh) ==
  /\ refresh \in DOMAIN refresh_tokens
  /\ ~Expired(refresh_tokens[refresh])
  /\ MintPair({refresh} \cup Linked(refresh), grants[refresh].login,
              refresh_tokens[refresh].client, PriorResource(refresh),
              Get(credentials, refresh, NoCredential))
  /\ UNCHANGED <<now, pending_logins, login_attempts, posts, auth_codes, sign_ins>>

\* Mutant: only the presented token's credential is dropped.
RevokedCredentialsHalf(token) == {token}

\* The keys revoke_token pops from the vault.
RevokedCredentials(token) == {token} \cup Linked(token)

\* async def revoke_token(self, token): the proxy calls it with an access token
\* when the resource server answers 401.
RevokeToken(access) ==
  /\ access \in DOMAIN access_tokens
  /\ credentials' = Pop(credentials, RevokedCredentials(access))
  /\ RevokeInternal({access} \cup Linked(access))
  /\ UNCHANGED <<now, minted, pending_logins, login_attempts, posts, auth_codes, history>>
-----------------------------------------------------------------------------
AuthorizeStep == \E client \in Client, resource \in Resources : Authorize(client, resource)

LoginStep ==
  \/ ShowLogin
  \/ \E p \in Post : FailLogin(p) \/ FinishLogin(p)
  \/ \E p \in Post, login \in 1..minted, csrfMatches \in BOOLEAN, ip \in Ip,
        formDomain \in Domain, user \in User :
       SubmitLogin(p, login, csrfMatches, ip, formDomain, user)

TokenStep ==
  \/ \E code \in DOMAIN auth_codes : LoadExpiredCode(code) \/ ExchangeAuthorizationCode(code)
  \/ \E refresh \in DOMAIN refresh_tokens :
       \/ LoadExpiredRefreshToken(refresh)
       \/ RejectScopes(refresh)
       \/ ExchangeRefreshToken(refresh)
  \/ \E access \in DOMAIN access_tokens : RevokeToken(access)

Next == Tick \/ Restart \/ AuthorizeStep \/ LoginStep \/ TokenStep

Spec == Init /\ [][Next]_vars
-----------------------------------------------------------------------------
\* Pending logins, and the handlers that wait for Sisense, belong to logins that
\* were minted; a handler always carries a real Sisense URL.
LoginTypeOK ==
  /\ DOMAIN pending_logins \subseteq 1..minted
  /\ \A l \in DOMAIN pending_logins : pending_logins[l] \in PendingLogin
  /\ DOMAIN posts \subseteq Post
  /\ \A p \in DOMAIN posts :
       posts[p] \in [login : 1..minted, pending_check : PendingLogin, credential : Credential]

\* Every live token, and every token of the vault, was issued, and descends from
\* a completed login.
TokenTypeOK ==
  /\ \A c \in DOMAIN auth_codes :
       auth_codes[c] \in [client : Client, resource : Resources, expires_at : Nat]
  /\ \A a \in DOMAIN access_tokens :
       access_tokens[a] \in [client : Client, resource : Resources, expires_at : Nat]
  /\ \A r \in DOMAIN refresh_tokens :
       refresh_tokens[r] \in [client : Client, expires_at : Nat]
  /\ \A t \in DOMAIN credentials : credentials[t] \in Credential
  /\ LiveTokens \cup DOMAIN credentials \subseteq DOMAIN grants
  /\ DOMAIN grants \subseteq 1..minted
  /\ \A t \in DOMAIN grants : grants[t] \in [login : DOMAIN sign_ins, expires_at : Nat]
  /\ DOMAIN sign_ins \subseteq 1..minted
  /\ \A l \in DOMAIN sign_ins :
       sign_ins[l] \in [client : Client, resource : Resources,
                        target : Domain \cup {NoTarget}, credential : Credential]

\* The provider's dictionaries hold what their names say.
TypeOK ==
  /\ now \in Nat
  /\ minted \in 0..MaxSecrets
  /\ LoginTypeOK
  /\ TokenTypeOK

SignInOf(token) == sign_ins[grants[token].login]

\* Every live code, access token and refresh token reaches a credential, and it
\* is the one of the user who completed the login it descends from, through any
\* number of rotations, refused scopes, sweeps and revocations of other sessions
\* (the comment at auth.py:599: a rejected exchange must not strand a session).
SessionsHoldTheirSignIn ==
  \A t \in LiveTokens :
    t \in DOMAIN credentials /\ credentials[t] = SignInOf(t).credential

\* Codes and access tokens carry the resource their login asked for, and every
\* token belongs to the client that asked: rotation copies the audience from an
\* access token that may have expired long before (auth.py:364).
AudienceSurvives ==
  /\ \A c \in DOMAIN auth_codes :
       auth_codes[c].resource = SignInOf(c).resource /\ auth_codes[c].client = SignInOf(c).client
  /\ \A a \in DOMAIN access_tokens :
       access_tokens[a].resource = SignInOf(a).resource /\ access_tokens[a].client = SignInOf(a).client
  /\ \A r \in DOMAIN refresh_tokens : refresh_tokens[r].client = SignInOf(r).client

\* One completed login gives one session, however often its form is submitted at
\* the same time: at most one live code or access token, and at most one live
\* code or refresh token, descends from it (auth.py:499).
OneSessionPerLogin ==
  /\ \A s, t \in DOMAIN auth_codes \cup DOMAIN access_tokens :
       grants[s].login = grants[t].login => s = t
  /\ \A s, t \in DOMAIN auth_codes \cup DOMAIN refresh_tokens :
       grants[s].login = grants[t].login => s = t

\* Whatever the form says, the vault holds credentials for allowed origins only,
\* and for the instance the connector's URL names when it names one (auth.py:486).
CredentialsAreConfined ==
  \A t \in DOMAIN credentials :
    /\ credentials[t].domain \in AllowedOrigins
    /\ SignInOf(t).target # NoTarget => credentials[t].domain = SignInOf(t).target

\* The vault keeps no credential of a token that was revoked, rotated or
\* exchanged: what it holds belongs to a live token or to one that expired.
NoCredentialOutlivesRevocation ==
  \A t \in DOMAIN credentials : t \in LiveTokens \/ grants[t].expires_at < now

\* A flood of /authorize keeps the table at its bound and never evicts the login
\* the flood's last caller was just sent to.
AuthorizeAdmits ==
  [][AuthorizeStep => /\ minted' \in DOMAIN pending_logins'
                      /\ Cardinality(DOMAIN pending_logins') <= MaxPending]_vars

\* Somebody's /authorize, which sweeps, ends nobody's session: an unexpired code
\* and an unexpired refresh token stay, with their access tokens and credentials.
SweepSparesLiveSessions ==
  [][AuthorizeStep =>
       /\ \A c \in DOMAIN auth_codes :
            ~Expired(auth_codes[c]) => c \in DOMAIN auth_codes' \cap DOMAIN credentials'
       /\ \A r \in DOMAIN refresh_tokens :
            ~Expired(refresh_tokens[r]) =>
              /\ r \in DOMAIN refresh_tokens' \cap DOMAIN credentials'
              /\ refresh_to_access[r] \in DOMAIN access_tokens' \cap DOMAIN credentials']_vars

\* auth.py:361, _sweep_expired_tokens: "abandoned flows can't accumulate Sisense
\* credentials in memory".  After the sweep the vault holds credentials of live
\* tokens only.
SweepLeavesNoOrphan ==
  [][AuthorizeStep => DOMAIN credentials' \subseteq LiveTokens']_vars
-----------------------------------------------------------------------------
(* The sessions that all of this amounts to. *)

LiveOf(login) == {t \in LiveTokens : grants[t].login = login}

\* What the live tokens of a login carry, read from the tokens and the vault.
Shown(login) ==
  LET codes   == LiveOf(login) \cap DOMAIN auth_codes
      access  == LiveOf(login) \cap DOMAIN access_tokens
      refresh == LiveOf(login) \cap DOMAIN refresh_tokens
  IN  [clients     |-> {auth_codes[c].client : c \in codes}
                         \cup {access_tokens[a].client : a \in access}
                         \cup {refresh_tokens[r].client : r \in refresh},
       resources   |-> {auth_codes[c].resource : c \in codes}
                         \cup {access_tokens[a].resource : a \in access},
       credentials |-> {Get(credentials, t, NoCredential) : t \in LiveOf(login)}]

Promise == INSTANCE Sessions
  WITH Resource   <- Resources,
       Credential <- {k \in Credential : k.domain \in AllowedOrigins},
       last       <- minted,
       open       <- [l \in DOMAIN pending_logins |->
                        [client   |-> pending_logins[l].client,
                         resource |-> pending_logins[l].resource]],
       sessions   <- [l \in {grants[t].login : t \in LiveTokens} |-> Shown(l)]

\* The provider implements Sessions: whatever the interleaving of forms, sweeps,
\* rotations, refused scopes, expiries, revocations and restarts, a session starts
\* only by completing a login that is still open, once, and never changes its
\* client, its resource or its credential, or comes back, until it ends.
ImplementsSessions == Promise!Spec
=============================================================================
