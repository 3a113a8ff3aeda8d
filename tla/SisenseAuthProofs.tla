------------------------- MODULE SisenseAuthProofs -------------------------
(***************************************************************************)
(* The vault's invariants, for every set of clients, users, resources and  *)
(* concurrent form submissions, and every value of the lifetimes.          *)
(*                                                                         *)
(* The inductive invariant is in two halves: LoginInv about the pending    *)
(* logins and the handlers that wait for Sisense, TokenInv about the       *)
(* tokens and the vault.  Every action on tokens is one of three kinds,    *)
(* each with a lemma of its own: tokens are removed (sweep, lazy cleanup,  *)
(* revocation), a code is issued, or spent tokens are replaced by a pair.  *)
(*                                                                         *)
(* The authorization server also implements Sessions.  By the invariant,   *)
(* everything the live tokens of a login show is what the history says of  *)
(* it.  A step then maps to Open when it is /authorize, to Complete when   *)
(* it issues a code, and to End otherwise, for it leaves no session that   *)
(* was not there.                                                          *)
(***************************************************************************)
EXTENDS SisenseAuth, FiniteSetTheorems, TLAPS

\* A login still pending has not been completed.
PendingIsNotDone == DOMAIN pending_logins \cap DOMAIN sign_ins = {}

\* A handler that waits for Sisense holds what the login, if it is still there,
\* says, and a credential for the login's target.
PostsAreCurrent ==
  \A p \in DOMAIN posts :
    /\ posts[p].login \in DOMAIN pending_logins =>
         pending_logins[posts[p].login] = posts[p].pending_check
    /\ posts[p].pending_check.target # NoTarget =>
         posts[p].credential.domain = posts[p].pending_check.target

LoginInv == LoginTypeOK /\ PendingIsNotDone /\ PostsAreCurrent

\* Codes, access tokens and refresh tokens are different strings.
KindsAreDisjoint ==
  /\ DOMAIN auth_codes \cap DOMAIN access_tokens = {}
  /\ DOMAIN auth_codes \cap DOMAIN refresh_tokens = {}
  /\ DOMAIN access_tokens \cap DOMAIN refresh_tokens = {}

\* The two maps of the base class are inverse to each other and link exactly the
\* live access tokens with the live refresh tokens.
PairsAreIntact ==
  /\ DOMAIN access_to_refresh = DOMAIN access_tokens
  /\ DOMAIN refresh_to_access = DOMAIN refresh_tokens
  /\ \A a \in DOMAIN access_tokens :
       /\ access_to_refresh[a] \in DOMAIN refresh_tokens
       /\ refresh_to_access[access_to_refresh[a]] = a
       /\ grants[a].login = grants[access_to_refresh[a]].login
       /\ grants[a].expires_at <= grants[access_to_refresh[a]].expires_at
  /\ \A r \in DOMAIN refresh_tokens :
       /\ refresh_to_access[r] \in DOMAIN access_tokens
       /\ access_to_refresh[refresh_to_access[r]] = r

ExpiriesAreRecorded ==
  /\ \A c \in DOMAIN auth_codes : auth_codes[c].expires_at = grants[c].expires_at
  /\ \A a \in DOMAIN access_tokens : access_tokens[a].expires_at = grants[a].expires_at
  /\ \A r \in DOMAIN refresh_tokens : refresh_tokens[r].expires_at = grants[r].expires_at

\* Every completed login was given a credential for an allowed origin, and for
\* the connector's target when it names one.
SignInsAreConfined ==
  \A l \in DOMAIN sign_ins :
    /\ sign_ins[l].credential.domain \in AllowedOrigins
    /\ sign_ins[l].target # NoTarget => sign_ins[l].credential.domain = sign_ins[l].target

\* The vault never holds another credential than that of the token's own login.
VaultIsFaithful == \A t \in DOMAIN credentials : credentials[t] = SignInOf(t).credential

TokenInv ==
  /\ TokenTypeOK
  /\ KindsAreDisjoint
  /\ PairsAreIntact
  /\ ExpiriesAreRecorded
  /\ SignInsAreConfined
  /\ VaultIsFaithful
  /\ LiveTokens \subseteq DOMAIN credentials
  /\ AudienceSurvives
  /\ OneSessionPerLogin
  /\ NoCredentialOutlivesRevocation

Counters == now \in Nat /\ minted \in 0..MaxSecrets

IInv == Counters /\ LoginInv /\ TokenInv
-----------------------------------------------------------------------------
(* Dictionaries. *)

\* One dictionary is another without some keys.
Without(after, before, keys) ==
  /\ DOMAIN after = DOMAIN before \ keys
  /\ \A k \in DOMAIN after : after[k] = before[k]

\* One dictionary is another with one key set.
With(after, before, key, value) ==
  /\ DOMAIN after = DOMAIN before \cup {key}
  /\ after[key] = value
  /\ \A k \in DOMAIN before : k # key => after[k] = before[k]
-----------------------------------------------------------------------------
(* Removing tokens. *)

\* The tokens in gone disappear, with the credentials of those in forgotten.
Removal(gone, forgotten) ==
  /\ Without(auth_codes', auth_codes, gone)
  /\ Without(access_tokens', access_tokens, gone)
  /\ Without(refresh_tokens', refresh_tokens, gone)
  /\ Without(access_to_refresh', access_to_refresh, gone)
  /\ Without(refresh_to_access', refresh_to_access, gone)
  /\ Without(credentials', credentials, forgotten)
  /\ minted' \in minted..MaxSecrets
  /\ UNCHANGED <<now, history>>

\* A removal that takes both tokens of a pair, and leaves credentials behind only
\* of tokens that have expired, keeps the invariant.
LEMMA RemovalKeepsTokenInv ==
  ASSUME Counters, TokenInv, NEW gone, NEW forgotten, Removal(gone, forgotten),
         forgotten \subseteq gone,
         \A a \in DOMAIN access_tokens : a \in gone <=> access_to_refresh[a] \in gone,
         \A t \in (gone \cap LiveTokens) \ forgotten : grants[t].expires_at < now
  PROVE  TokenInv'
<1> USE DEF Removal, Without, Counters, history
<1>1. TokenTypeOK'
  BY DEF TokenInv, TokenTypeOK, LiveTokens
<1>2. KindsAreDisjoint'
  BY DEF TokenInv, KindsAreDisjoint
<1>3. PairsAreIntact'
  BY DEF TokenInv, PairsAreIntact
<1>4. ExpiriesAreRecorded'
  BY DEF TokenInv, ExpiriesAreRecorded
<1>5. SignInsAreConfined'
  BY DEF TokenInv, SignInsAreConfined
<1>6. VaultIsFaithful'
  BY DEF TokenInv, VaultIsFaithful, SignInOf
<1>7. (LiveTokens \subseteq DOMAIN credentials)'
  BY DEF TokenInv, LiveTokens
<1>8. AudienceSurvives'
  BY DEF TokenInv, AudienceSurvives, SignInOf
<1>9. OneSessionPerLogin'
  BY DEF TokenInv, OneSessionPerLogin
<1>10. NoCredentialOutlivesRevocation'
  BY DEF TokenInv, NoCredentialOutlivesRevocation, LiveTokens
<1> QED BY <1>1, <1>2, <1>3, <1>4, <1>5, <1>6, <1>7, <1>8, <1>9, <1>10 DEF TokenInv
-----------------------------------------------------------------------------
(* Issuing a code. *)

LEMMA IssueCodeKeepsTokenInv ==
  ASSUME Counters, TokenInv, NEW login \in 1..minted, NEW pending \in PendingLogin,
         NEW credential \in Credential,
         login \notin DOMAIN sign_ins,
         credential.domain \in AllowedOrigins,
         pending.target # NoTarget => credential.domain = pending.target,
         IssueCode(login, pending, credential),
         UNCHANGED <<now, tokens>>
  PROVE  TokenInv' /\ Counters'
<1> DEFINE code   == minted + 1
           entry  == [client |-> pending.client, resource |-> pending.resource,
                      expires_at |-> now + CodeTtl]
           signIn == [client |-> pending.client, resource |-> pending.resource,
                      target |-> pending.target, credential |-> credential]
           grant  == [login |-> login, expires_at |-> now + CodeTtl]
<1>1. /\ With(auth_codes', auth_codes, code, entry)
      /\ With(credentials', credentials, code, credential)
      /\ With(sign_ins', sign_ins, login, signIn)
      /\ With(grants', grants, code, grant)
      /\ minted' = code
      /\ code \in 1..MaxSecrets
  BY DEF IssueCode, With, Put, Counters
<1>2. /\ now' = now
      /\ access_tokens' = access_tokens
      /\ refresh_tokens' = refresh_tokens
      /\ access_to_refresh' = access_to_refresh
      /\ refresh_to_access' = refresh_to_access
  BY DEF tokens
<1>3. /\ code \notin DOMAIN grants
      /\ code \notin LiveTokens
      /\ code \notin DOMAIN credentials
  BY DEF Counters, TokenInv, TokenTypeOK
<1>4. \A t \in DOMAIN grants : grants[t].login \in DOMAIN sign_ins /\ grants[t].login # login
  BY DEF TokenInv, TokenTypeOK
<1>5. now + CodeTtl \in Nat
  BY ProviderConstants DEF Counters
<1> HIDE DEF code, entry, signIn, grant
<1> USE <1>1, <1>2, <1>3 DEF With
<1>6. /\ entry.client = signIn.client
      /\ entry.resource = signIn.resource
      /\ signIn.credential = credential
      /\ signIn.target = pending.target
      /\ grant.login = login
      /\ entry.expires_at = grant.expires_at
      /\ grant.expires_at = now + CodeTtl
  BY DEF entry, signIn, grant
<1>7. /\ \A t \in DOMAIN grants : grants'[t] = grants[t]
      /\ \A t \in DOMAIN grants : sign_ins'[grants[t].login] = SignInOf(t)
      /\ sign_ins'[grants'[code].login] = signIn
  <2>1. \A t \in DOMAIN grants : grants'[t] = grants[t]
    OBVIOUS
  <2>2. \A l \in DOMAIN sign_ins : l # login => sign_ins'[l] = sign_ins[l]
    OBVIOUS
  <2> QED BY <2>1, <2>2, <1>4, <1>6 DEF SignInOf
<1>8. LiveTokens' = LiveTokens \cup {code}
  BY DEF LiveTokens
<1>9. LiveTokens \subseteq DOMAIN grants /\ DOMAIN credentials \subseteq DOMAIN grants
  BY DEF TokenInv, TokenTypeOK
<1>10. TokenTypeOK'
  <2>1. entry \in [client : Client, resource : Resources, expires_at : Nat]
    BY <1>5 DEF entry, PendingLogin
  <2>2. signIn \in [client : Client, resource : Resources,
                    target : Domain \cup {NoTarget}, credential : Credential]
    BY DEF signIn, PendingLogin
  <2>3. grant \in [login : DOMAIN sign_ins', expires_at : Nat]
    BY <1>5 DEF grant
  <2>4. 1..minted \subseteq 1..minted' /\ login \in 1..minted' /\ code \in 1..minted'
    BY DEF Counters, code
  <2>5. \A t \in DOMAIN grants' : grants'[t] \in [login : DOMAIN sign_ins', expires_at : Nat]
    BY <1>7, <2>3 DEF TokenInv, TokenTypeOK
  <2>6. \A l \in DOMAIN sign_ins' :
          sign_ins'[l] \in [client : Client, resource : Resources,
                            target : Domain \cup {NoTarget}, credential : Credential]
    BY <2>2 DEF TokenInv, TokenTypeOK
  <2> QED BY <2>1, <2>4, <2>5, <2>6, <1>8, <1>9 DEF TokenInv, TokenTypeOK
<1>11. KindsAreDisjoint'
  BY DEF TokenInv, KindsAreDisjoint, LiveTokens
<1>12. PairsAreIntact'
  BY <1>7, <1>9 DEF TokenInv, PairsAreIntact, LiveTokens
<1>13. ExpiriesAreRecorded'
  BY <1>6, <1>7, <1>9 DEF TokenInv, ExpiriesAreRecorded, LiveTokens
<1>14. SignInsAreConfined'
  BY <1>6 DEF TokenInv, SignInsAreConfined
<1>15. VaultIsFaithful'
  <2>1. \A t \in DOMAIN credentials : credentials'[t] = credentials[t]
    OBVIOUS
  <2> QED BY <2>1, <1>6, <1>7, <1>9 DEF TokenInv, VaultIsFaithful, SignInOf
<1>16. (LiveTokens \subseteq DOMAIN credentials)'
  BY <1>8 DEF TokenInv
<1>17. AudienceSurvives'
  BY <1>6, <1>7, <1>9 DEF TokenInv, AudienceSurvives, LiveTokens, SignInOf
<1>18. OneSessionPerLogin'
  BY <1>4, <1>6, <1>7, <1>9 DEF TokenInv, OneSessionPerLogin, LiveTokens
<1>19. NoCredentialOutlivesRevocation'
  BY <1>7, <1>8, <1>9 DEF TokenInv, NoCredentialOutlivesRevocation
<1>20. Counters'
  BY DEF Counters, code
<1> QED BY <1>10, <1>11, <1>12, <1>13, <1>14, <1>15, <1>16, <1>17, <1>18, <1>19, <1>20
        DEF TokenInv
-----------------------------------------------------------------------------
(* Replacing spent tokens by a pair. *)

\* spent holds whole pairs, and every live token of the login.
LEMMA MintPairKeepsTokenInv ==
  ASSUME Counters, TokenInv, NEW spent, NEW login \in DOMAIN sign_ins,
         NEW client, NEW resource, NEW credential,
         client = sign_ins[login].client,
         resource = sign_ins[login].resource,
         credential = sign_ins[login].credential,
         \A a \in DOMAIN access_tokens : a \in spent <=> access_to_refresh[a] \in spent,
         \A t \in LiveTokens : t \in spent <=> grants[t].login = login,
         MintPair(spent, login, client, resource, credential),
         Without(auth_codes', auth_codes, spent),
         UNCHANGED <<now, sign_ins>>
  PROVE  TokenInv' /\ Counters'
<1> DEFINE access  == minted + 1
           refresh == minted + 2
           accessEntry  == [client |-> client, resource |-> resource,
                            expires_at |-> now + AccessTtl]
           refreshEntry == [client |-> client, expires_at |-> now + RefreshTtl]
           accessGrant  == [login |-> login, expires_at |-> now + AccessTtl]
           refreshGrant == [login |-> login, expires_at |-> now + RefreshTtl]
<1>1. /\ login \in 1..minted
      /\ client \in Client
      /\ resource \in Resources
      /\ credential \in Credential
  BY DEF TokenInv, TokenTypeOK
<1>2. credential # NoCredential
  BY <1>1, ProviderConstants DEF Credential, NoCredential
<1>3. /\ With(access_tokens', Pop(access_tokens, spent), access, accessEntry)
      /\ With(refresh_tokens', Pop(refresh_tokens, spent), refresh, refreshEntry)
      /\ With(access_to_refresh', Pop(access_to_refresh, spent), access, refresh)
      /\ With(refresh_to_access', Pop(refresh_to_access, spent), refresh, access)
  BY DEF MintPair, With, Put
<1>4. /\ DOMAIN credentials' = (DOMAIN credentials \ spent) \cup {access, refresh}
      /\ credentials'[access] = credential
      /\ credentials'[refresh] = credential
      /\ \A t \in DOMAIN credentials \ spent :
           t \notin {access, refresh} => credentials'[t] = credentials[t]
  <2> DEFINE kept == Pop(credentials, spent)
             once == Put(kept, access, credential)
  <2>1. credentials' = Put(once, refresh, credential)
    BY <1>2 DEF MintPair
  <2> HIDE DEF once, kept
  <2>2. With(once, kept, access, credential)
    BY DEF once, With, Put
  <2>3. With(credentials', once, refresh, credential)
    BY <2>1 DEF With, Put
  <2>4. Without(kept, credentials, spent)
    BY DEF kept, Without, Pop, Restrict
  <2>5. access # refresh
    BY DEF Counters
  <2> QED BY <2>2, <2>3, <2>4, <2>5 DEF With, Without
<1>5. /\ DOMAIN grants' = DOMAIN grants \cup {access, refresh}
      /\ grants'[access] = accessGrant
      /\ grants'[refresh] = refreshGrant
      /\ \A t \in DOMAIN grants : t \notin {access, refresh} => grants'[t] = grants[t]
  <2> DEFINE once == Put(grants, access, accessGrant)
  <2>1. grants' = Put(once, refresh, refreshGrant)
    BY DEF MintPair
  <2> HIDE DEF once
  <2>2. With(once, grants, access, accessGrant)
    BY DEF once, With, Put
  <2>3. With(grants', once, refresh, refreshGrant)
    BY <2>1 DEF With, Put
  <2>4. access # refresh
    BY DEF Counters
  <2> QED BY <2>2, <2>3, <2>4 DEF With
<1>6. /\ minted' = refresh
      /\ access \in 1..MaxSecrets
      /\ refresh \in 1..MaxSecrets
      /\ access # refresh
      /\ 1..minted \subseteq 1..minted'
      /\ access \in 1..minted'
      /\ refresh \in 1..minted'
      /\ access \notin 1..minted
      /\ refresh \notin 1..minted
  <2>1. minted' = refresh /\ refresh <= MaxSecrets
    BY DEF MintPair
  <2> QED BY <2>1, ProviderConstants DEF Counters
<1>7. /\ now + AccessTtl \in Nat
      /\ now + RefreshTtl \in Nat
      /\ now + AccessTtl <= now + RefreshTtl
      /\ now' = now
      /\ sign_ins' = sign_ins
  BY ProviderConstants DEF Counters
<1>8. /\ LiveTokens \subseteq DOMAIN grants
      /\ DOMAIN credentials \subseteq DOMAIN grants
      /\ DOMAIN grants \subseteq 1..minted
  BY DEF TokenInv, TokenTypeOK
<1>9. /\ Without(Pop(access_tokens, spent), access_tokens, spent)
      /\ Without(Pop(refresh_tokens, spent), refresh_tokens, spent)
      /\ Without(Pop(access_to_refresh, spent), access_to_refresh, spent)
      /\ Without(Pop(refresh_to_access, spent), refresh_to_access, spent)
  BY DEF Without, Pop, Restrict
<1>10. /\ accessEntry.client = client /\ accessEntry.resource = resource
       /\ accessEntry.expires_at = now + AccessTtl
       /\ refreshEntry.client = client /\ refreshEntry.expires_at = now + RefreshTtl
       /\ accessGrant.login = login /\ accessGrant.expires_at = now + AccessTtl
       /\ refreshGrant.login = login /\ refreshGrant.expires_at = now + RefreshTtl
  OBVIOUS
<1>11. /\ accessEntry \in [client : Client, resource : Resources, expires_at : Nat]
       /\ refreshEntry \in [client : Client, expires_at : Nat]
       /\ accessGrant \in [login : DOMAIN sign_ins, expires_at : Nat]
       /\ refreshGrant \in [login : DOMAIN sign_ins, expires_at : Nat]
  BY <1>1, <1>7
<1> HIDE DEF access, refresh, accessEntry, refreshEntry, accessGrant, refreshGrant
\* The dictionaries after the step, key by key.
<1>12. /\ DOMAIN access_tokens' = (DOMAIN access_tokens \ spent) \cup {access}
       /\ access_tokens'[access] = accessEntry
       /\ \A a \in DOMAIN access_tokens \ spent : access_tokens'[a] = access_tokens[a]
       /\ DOMAIN refresh_tokens' = (DOMAIN refresh_tokens \ spent) \cup {refresh}
       /\ refresh_tokens'[refresh] = refreshEntry
       /\ \A r \in DOMAIN refresh_tokens \ spent : refresh_tokens'[r] = refresh_tokens[r]
  BY <1>3, <1>6, <1>8, <1>9 DEF With, Without, LiveTokens
<1>13. /\ DOMAIN access_to_refresh' = (DOMAIN access_to_refresh \ spent) \cup {access}
       /\ access_to_refresh'[access] = refresh
       /\ \A a \in DOMAIN access_tokens \ spent : access_to_refresh'[a] = access_to_refresh[a]
       /\ DOMAIN refresh_to_access' = (DOMAIN refresh_to_access \ spent) \cup {refresh}
       /\ refresh_to_access'[refresh] = access
       /\ \A r \in DOMAIN refresh_tokens \ spent : refresh_to_access'[r] = refresh_to_access[r]
  BY <1>3, <1>6, <1>8, <1>9 DEF With, Without, LiveTokens, TokenInv, PairsAreIntact
<1>14. /\ \A t \in DOMAIN grants : t \notin {access, refresh} /\ grants'[t] = grants[t]
       /\ grants'[access].login = login
       /\ grants'[refresh].login = login
  BY <1>5, <1>6, <1>8, <1>10
<1>15. LiveTokens' = (LiveTokens \ spent) \cup {access, refresh}
  BY <1>12 DEF LiveTokens, Without
<1>16. \A t \in LiveTokens \ spent : grants[t].login # login
  OBVIOUS
<1>17. TokenTypeOK'
  <2>1. \A t \in DOMAIN grants' : grants'[t] \in [login : DOMAIN sign_ins', expires_at : Nat]
    BY <1>5, <1>7, <1>11, <1>14 DEF TokenInv, TokenTypeOK
  <2>2. \A a \in DOMAIN access_tokens' :
          access_tokens'[a] \in [client : Client, resource : Resources, expires_at : Nat]
    BY <1>11, <1>12 DEF TokenInv, TokenTypeOK
  <2>3. \A r \in DOMAIN refresh_tokens' :
          refresh_tokens'[r] \in [client : Client, expires_at : Nat]
    BY <1>11, <1>12 DEF TokenInv, TokenTypeOK
  <2>4. \A t \in DOMAIN credentials' : credentials'[t] \in Credential
    BY <1>1, <1>4, <1>8, <1>14 DEF TokenInv, TokenTypeOK
  <2>5. \A c \in DOMAIN auth_codes' :
          auth_codes'[c] \in [client : Client, resource : Resources, expires_at : Nat]
    BY DEF Without, TokenInv, TokenTypeOK
  <2>6. LiveTokens' \cup DOMAIN credentials' \subseteq DOMAIN grants'
    BY <1>4, <1>5, <1>8, <1>15
  <2>7. DOMAIN grants' \subseteq 1..minted'
    BY <1>5, <1>6, <1>8
  <2> QED BY <2>1, <2>2, <2>3, <2>4, <2>5, <2>6, <2>7, <1>6, <1>7 DEF TokenInv, TokenTypeOK
<1>18. KindsAreDisjoint'
  BY <1>6, <1>8, <1>12 DEF TokenInv, KindsAreDisjoint, Without, LiveTokens
<1>19. PairsAreIntact'
  <2>1. ASSUME NEW a \in DOMAIN access_tokens', a # access
        PROVE  /\ a \in DOMAIN access_tokens \ spent
               /\ access_to_refresh'[a] = access_to_refresh[a]
               /\ access_to_refresh[a] \in DOMAIN refresh_tokens \ spent
               /\ refresh_to_access'[access_to_refresh[a]] = a
               /\ grants'[a] = grants[a]
               /\ grants'[access_to_refresh[a]] = grants[access_to_refresh[a]]
    BY <2>1, <1>8, <1>12, <1>13, <1>14 DEF TokenInv, PairsAreIntact, LiveTokens
  <2>2. ASSUME NEW r \in DOMAIN refresh_tokens', r # refresh
        PROVE  /\ r \in DOMAIN refresh_tokens \ spent
               /\ refresh_to_access'[r] \in DOMAIN access_tokens \ spent
               /\ access_to_refresh'[refresh_to_access'[r]] = r
    BY <2>2, <1>12, <1>13 DEF TokenInv, PairsAreIntact
  <2> QED BY <2>1, <2>2, <1>5, <1>7, <1>10, <1>12, <1>13 DEF TokenInv, PairsAreIntact
<1>20. ExpiriesAreRecorded'
  BY <1>5, <1>8, <1>10, <1>12, <1>14 DEF TokenInv, ExpiriesAreRecorded, LiveTokens, Without
<1>21. SignInsAreConfined'
  BY <1>7 DEF TokenInv, SignInsAreConfined
<1>22. VaultIsFaithful'
  BY <1>4, <1>7, <1>8, <1>14 DEF TokenInv, VaultIsFaithful, SignInOf
<1>23. (LiveTokens \subseteq DOMAIN credentials)'
  BY <1>4, <1>15 DEF TokenInv
<1>24. AudienceSurvives'
  BY <1>7, <1>8, <1>10, <1>12, <1>14
  DEF TokenInv, AudienceSurvives, LiveTokens, Without, SignInOf
<1>25. OneSessionPerLogin'
  <2>1. DOMAIN auth_codes' \subseteq LiveTokens \ spent
    BY DEF Without, LiveTokens
  <2>2. /\ DOMAIN access_tokens' \ {access} \subseteq LiveTokens \ spent
        /\ DOMAIN refresh_tokens' \ {refresh} \subseteq LiveTokens \ spent
    BY <1>12 DEF LiveTokens
  <2>3. \A t \in LiveTokens \ spent : grants'[t] = grants[t] /\ grants'[t].login # login
    BY <1>8, <1>14, <1>16
  <2>4. grants'[access].login = login /\ grants'[refresh].login = login
    BY <1>5, <1>10
  <2> QED BY <2>1, <2>2, <2>3, <2>4, <1>12 DEF TokenInv, OneSessionPerLogin, Without
<1>26. NoCredentialOutlivesRevocation'
  BY <1>4, <1>7, <1>8, <1>14, <1>15 DEF TokenInv, NoCredentialOutlivesRevocation
<1>27. Counters'
  BY <1>6, <1>7 DEF Counters
<1> QED BY <1>17, <1>18, <1>19, <1>20, <1>21, <1>22, <1>23, <1>24, <1>25, <1>26, <1>27
        DEF TokenInv
-----------------------------------------------------------------------------
(* The pending logins. *)

\* A sweep only removes.
LEMMA SweepPendingRemoves ==
  ASSUME NEW logins
  PROVE  /\ DOMAIN SweepPending(logins) \subseteq DOMAIN logins
         /\ \A l \in DOMAIN SweepPending(logins) : SweepPending(logins)[l] = logins[l]
BY DEF SweepPending, Keep, Restrict

\* Steps that remove logins and handlers, whatever they do with tokens.
LEMMA LoginsRemoved ==
  ASSUME Counters, LoginInv,
         DOMAIN pending_logins' \subseteq DOMAIN pending_logins,
         \A l \in DOMAIN pending_logins' : pending_logins'[l] = pending_logins[l],
         DOMAIN posts' \subseteq DOMAIN posts,
         \A p \in DOMAIN posts' : posts'[p] = posts[p],
         DOMAIN pending_logins' \cap DOMAIN sign_ins' = {},
         minted' \in minted..MaxSecrets
  PROVE  LoginInv'
<1>1. 1..minted \subseteq 1..minted'
  BY DEF Counters
<1>2. LoginTypeOK'
  BY <1>1 DEF LoginInv, LoginTypeOK
<1>3. PostsAreCurrent'
  BY DEF LoginInv, PostsAreCurrent
<1> QED BY <1>2, <1>3 DEF LoginInv, PendingIsNotDone

\* Steps that leave the tokens alone.
LEMMA TokensUntouched ==
  ASSUME Counters, TokenInv,
         UNCHANGED <<minted, auth_codes, tokens, credentials, history>>,
         now' \in Nat, now <= now'
  PROVE  TokenInv' /\ Counters'
<1> USE DEF tokens, history, Counters
<1>1. TokenTypeOK' /\ KindsAreDisjoint' /\ PairsAreIntact' /\ ExpiriesAreRecorded'
  BY DEF TokenInv, TokenTypeOK, LiveTokens, KindsAreDisjoint, PairsAreIntact,
         ExpiriesAreRecorded
<1>2. SignInsAreConfined' /\ VaultIsFaithful' /\ (LiveTokens \subseteq DOMAIN credentials)'
  BY DEF TokenInv, SignInsAreConfined, VaultIsFaithful, SignInOf, LiveTokens
<1>3. AudienceSurvives' /\ OneSessionPerLogin'
  BY DEF TokenInv, AudienceSurvives, OneSessionPerLogin, SignInOf
<1>4. NoCredentialOutlivesRevocation'
  <2>1. \A t \in DOMAIN credentials : grants[t].expires_at \in Nat
    BY DEF TokenInv, TokenTypeOK
  <2> QED BY <2>1 DEF TokenInv, NoCredentialOutlivesRevocation, LiveTokens
<1> QED BY <1>1, <1>2, <1>3, <1>4 DEF TokenInv
-----------------------------------------------------------------------------
(* The actions. *)

LEMMA InitIInv == Init => IInv
<1> SUFFICES ASSUME Init PROVE IInv
  OBVIOUS
<1> USE DEF Init, EmptyDict
<1>1. Counters
  BY ProviderConstants DEF Counters
<1>2. LoginInv
  BY DEF LoginInv, LoginTypeOK, PendingIsNotDone, PostsAreCurrent
<1>3. TokenTypeOK /\ KindsAreDisjoint /\ PairsAreIntact /\ ExpiriesAreRecorded
  BY DEF TokenTypeOK, LiveTokens, KindsAreDisjoint, PairsAreIntact, ExpiriesAreRecorded
<1>4. /\ SignInsAreConfined /\ VaultIsFaithful /\ LiveTokens \subseteq DOMAIN credentials
      /\ AudienceSurvives /\ OneSessionPerLogin /\ NoCredentialOutlivesRevocation
  BY DEF SignInsAreConfined, VaultIsFaithful, LiveTokens, AudienceSurvives,
         OneSessionPerLogin, NoCredentialOutlivesRevocation
<1> QED BY <1>1, <1>2, <1>3, <1>4 DEF IInv, TokenInv

LEMMA RestartIInv == ASSUME IInv, Restart PROVE IInv'
<1> USE DEF Restart, EmptyDict
<1>1. Counters'
  BY DEF IInv, Counters
<1>2. LoginInv'
  BY DEF LoginInv, LoginTypeOK, PendingIsNotDone, PostsAreCurrent
<1>3. TokenTypeOK' /\ KindsAreDisjoint' /\ PairsAreIntact' /\ ExpiriesAreRecorded'
  BY DEF TokenTypeOK, LiveTokens, KindsAreDisjoint, PairsAreIntact, ExpiriesAreRecorded
<1>4. /\ SignInsAreConfined' /\ VaultIsFaithful' /\ (LiveTokens \subseteq DOMAIN credentials)'
      /\ AudienceSurvives' /\ OneSessionPerLogin' /\ NoCredentialOutlivesRevocation'
  BY DEF SignInsAreConfined, VaultIsFaithful, LiveTokens, AudienceSurvives,
         OneSessionPerLogin, NoCredentialOutlivesRevocation
<1> QED BY <1>1, <1>2, <1>3, <1>4 DEF IInv, TokenInv

LEMMA TickIInv == ASSUME IInv, Tick PROVE IInv'
<1>1. TokenInv' /\ Counters'
  BY TokensUntouched DEF IInv, Tick, Counters
<1>2. LoginInv'
  <2>1. /\ pending_logins' = pending_logins /\ posts' = posts /\ sign_ins' = sign_ins
        /\ minted' \in minted..MaxSecrets
    BY DEF Tick, history, IInv, Counters
  <2> QED BY <2>1, LoginsRemoved DEF IInv, LoginInv, PendingIsNotDone
<1> QED BY <1>1, <1>2 DEF IInv

\* What the sweep of tokens removes, it removes in whole pairs.
LEMMA SweepIsRemoval ==
  ASSUME IInv, SweepExpiredTokens, UNCHANGED <<now, history>>,
         minted' \in minted..MaxSecrets
  PROVE  TokenInv'
<1> DEFINE deadCodes   == {c \in DOMAIN auth_codes : Expired(auth_codes[c])}
           deadAccess  == DeadAccessTokens
           deadRefresh == {access_to_refresh[a] : a \in deadAccess \cap DOMAIN access_to_refresh}
           gone        == deadCodes \cup deadAccess \cup deadRefresh
<1>1. /\ deadCodes \subseteq DOMAIN auth_codes
      /\ deadAccess \subseteq DOMAIN access_tokens
      /\ deadRefresh \subseteq DOMAIN refresh_tokens
  BY DEF DeadAccessTokens, IInv, TokenInv, PairsAreIntact
<1>2. \A a \in DOMAIN access_tokens : a \in deadAccess <=> access_to_refresh[a] \in deadRefresh
  BY <1>1 DEF IInv, TokenInv, PairsAreIntact
<1>3. /\ auth_codes' = Pop(auth_codes, deadCodes)
      /\ access_tokens' = Pop(access_tokens, deadAccess)
      /\ refresh_tokens' = Pop(refresh_tokens, deadRefresh)
      /\ access_to_refresh' = Pop(access_to_refresh, deadAccess)
      /\ refresh_to_access' = Pop(refresh_to_access, deadRefresh)
      /\ credentials' = Pop(credentials, gone)
  BY DEF SweepExpiredTokens
<1> HIDE DEF deadCodes, deadAccess, deadRefresh
<1>4. /\ DOMAIN auth_codes \ deadCodes = DOMAIN auth_codes \ gone
      /\ DOMAIN access_tokens \ deadAccess = DOMAIN access_tokens \ gone
      /\ DOMAIN refresh_tokens \ deadRefresh = DOMAIN refresh_tokens \ gone
      /\ DOMAIN access_to_refresh = DOMAIN access_tokens
      /\ DOMAIN refresh_to_access = DOMAIN refresh_tokens
  BY <1>1 DEF IInv, TokenInv, KindsAreDisjoint, PairsAreIntact
<1>5. Removal(gone, gone)
  BY <1>3, <1>4 DEF Removal, Without, Pop, Restrict
<1>6. \A a \in DOMAIN access_tokens : a \in gone <=> access_to_refresh[a] \in gone
  BY <1>1, <1>2 DEF IInv, TokenInv, KindsAreDisjoint, PairsAreIntact
<1> HIDE DEF gone
<1> QED BY <1>5, <1>6, RemovalKeepsTokenInv DEF IInv

LEMMA AuthorizeIInv ==
  ASSUME IInv, NEW client \in Client, NEW resource \in Resources, Authorize(client, resource)
  PROVE  IInv'
<1> DEFINE login   == minted + 1
           pending == [client |-> client, resource |-> resource,
                       target |-> TargetFromResource(resource),
                       expires_at |-> now + LoginTtl]
           logins  == Put(pending_logins, login, pending)
<1>1. /\ minted' = login /\ minted' \in minted..MaxSecrets /\ login \in 1..minted'
      /\ login \notin 1..minted /\ 1..minted \subseteq 1..minted'
  BY ProviderConstants DEF Authorize, IInv, Counters
<1>2. /\ UNCHANGED <<now, posts, history>> /\ SweepExpiredTokens
      /\ now' = now /\ posts' = posts /\ sign_ins' = sign_ins
  BY DEF Authorize, history
<1>3. TokenInv'
  BY <1>1, <1>2, SweepIsRemoval
<1>4. Counters'
  BY <1>1, <1>2 DEF IInv, Counters
<1>5. pending \in PendingLogin
  <2>1. TargetFromResource(resource) \in Domain \cup {NoTarget}
    BY ProviderConstants DEF TargetFromResource, Resources
  <2>2. now + LoginTtl \in Nat
    BY ProviderConstants DEF IInv, Counters
  <2> QED BY <2>1, <2>2 DEF PendingLogin
<1>6. pending_logins' = SweepPending(logins)
  BY DEF Authorize
<1> HIDE DEF pending
<1>7. /\ DOMAIN logins = DOMAIN pending_logins \cup {login}
      /\ logins[login] = pending
      /\ \A l \in DOMAIN pending_logins : l # login => logins[l] = pending_logins[l]
  BY DEF Put
<1> HIDE DEF logins
<1>8. /\ DOMAIN pending_logins' \subseteq DOMAIN pending_logins \cup {login}
      /\ \A l \in DOMAIN pending_logins' : pending_logins'[l] = logins[l]
  BY <1>6, <1>7, SweepPendingRemoves
<1>9. DOMAIN pending_logins \subseteq 1..minted
  BY DEF IInv, LoginInv, LoginTypeOK
<1> HIDE DEF login
<1>10. LoginTypeOK'
  BY <1>1, <1>2, <1>5, <1>7, <1>8, <1>9 DEF IInv, LoginInv, LoginTypeOK
<1>11. PendingIsNotDone'
  BY <1>1, <1>2, <1>8 DEF IInv, LoginInv, PendingIsNotDone, TokenInv, TokenTypeOK
<1>12. PostsAreCurrent'
  <2>1. \A p \in DOMAIN posts : posts[p].login \in 1..minted
    BY DEF IInv, LoginInv, LoginTypeOK
  <2> QED BY <2>1, <1>1, <1>2, <1>7, <1>8 DEF IInv, LoginInv, PostsAreCurrent
<1> QED BY <1>3, <1>4, <1>10, <1>11, <1>12 DEF IInv, LoginInv

LEMMA ShowLoginIInv == ASSUME IInv, ShowLogin PROVE IInv'
<1>1. TokenInv' /\ Counters'
  BY TokensUntouched DEF IInv, ShowLogin, Counters
<1>2. LoginInv'
  <2>1. /\ pending_logins' = SweepPending(pending_logins) /\ posts' = posts
        /\ sign_ins' = sign_ins /\ minted' \in minted..MaxSecrets
    BY DEF ShowLogin, history, IInv, Counters
  <2>2. DOMAIN pending_logins' \cap DOMAIN sign_ins' = {}
    BY <2>1, SweepPendingRemoves DEF IInv, LoginInv, PendingIsNotDone
  <2> QED BY <2>1, <2>2, SweepPendingRemoves, LoginsRemoved DEF IInv
<1> QED BY <1>1, <1>2 DEF IInv

LEMMA SubmitLoginIInv ==
  ASSUME IInv, NEW p \in Post, NEW login, NEW csrfMatches, NEW ip,
         NEW formDomain \in Domain, NEW user \in User,
         SubmitLogin(p, login, csrfMatches, ip, formDomain, user)
  PROVE  IInv'
<1> DEFINE logins == SweepPending(pending_logins)
           post == [login |-> login, pending_check |-> logins[login],
                    credential |-> [domain |-> LoginDomain(logins[login], formDomain),
                                    user |-> user]]
<1>1. TokenInv' /\ Counters'
  BY TokensUntouched DEF IInv, SubmitLogin, Counters
<1>2. /\ pending_logins' = logins
      /\ sign_ins' = sign_ins
      /\ minted' = minted
      /\ p \notin DOMAIN posts
      /\ \/ posts' = posts
         \/ login \in DOMAIN logins /\ posts' = Put(posts, p, post)
  BY DEF SubmitLogin, history
<1>3. /\ DOMAIN logins \subseteq DOMAIN pending_logins
      /\ \A l \in DOMAIN logins : logins[l] = pending_logins[l]
  BY SweepPendingRemoves
<1> HIDE DEF logins
<1>4. minted' \in minted..MaxSecrets /\ DOMAIN pending_logins' \cap DOMAIN sign_ins' = {}
  BY <1>2, <1>3 DEF IInv, Counters, LoginInv, PendingIsNotDone
<1>5. CASE posts' = posts
  <2>1. LoginInv'
    BY <1>2, <1>3, <1>4, <1>5, LoginsRemoved DEF IInv
  <2> QED BY <2>1, <1>1 DEF IInv
<1>6. CASE login \in DOMAIN logins /\ posts' = Put(posts, p, post)
  <2>1. /\ login \in 1..minted
        /\ logins[login] = pending_logins[login]
        /\ logins[login] \in PendingLogin
    BY <1>3, <1>6 DEF IInv, LoginInv, LoginTypeOK
  <2>2. LoginDomain(logins[login], formDomain) \in Domain
    BY <2>1 DEF LoginDomain, PendingLogin
  <2>3. /\ post \in [login : 1..minted, pending_check : PendingLogin, credential : Credential]
        /\ post.login = login
        /\ post.pending_check = logins[login]
        /\ post.credential.domain = LoginDomain(logins[login], formDomain)
    BY <2>1, <2>2 DEF Credential
  <2> HIDE DEF post
  <2>4. /\ DOMAIN posts' = DOMAIN posts \cup {p}
        /\ posts'[p] = post
        /\ \A q \in DOMAIN posts : posts'[q] = posts[q]
    BY <1>2, <1>6 DEF Put
  <2>5. LoginTypeOK'
    BY <1>2, <1>3, <2>3, <2>4 DEF IInv, LoginInv, LoginTypeOK
  <2>6. PostsAreCurrent'
    <3>1. /\ posts'[p].login \in DOMAIN pending_logins' =>
               pending_logins'[posts'[p].login] = posts'[p].pending_check
          /\ posts'[p].pending_check.target # NoTarget =>
               posts'[p].credential.domain = posts'[p].pending_check.target
      BY <1>2, <2>3, <2>4 DEF LoginDomain
    <3>2. \A q \in DOMAIN posts' \ {p} : q \in DOMAIN posts /\ posts'[q] = posts[q]
      BY <2>4
    <3> QED BY <3>1, <3>2, <1>2, <1>3 DEF IInv, LoginInv, PostsAreCurrent
  <2> QED BY <1>1, <1>4, <2>5, <2>6 DEF IInv, LoginInv, PendingIsNotDone
<1> QED BY <1>2, <1>5, <1>6

LEMMA FailLoginIInv == ASSUME IInv, NEW p \in Post, FailLogin(p) PROVE IInv'
<1>1. TokenInv' /\ Counters'
  BY TokensUntouched DEF IInv, FailLogin, Counters
<1>2. LoginInv'
  <2>1. /\ pending_logins' = pending_logins /\ posts' = Pop(posts, {p})
        /\ sign_ins' = sign_ins /\ minted' \in minted..MaxSecrets
    BY DEF FailLogin, history, IInv, Counters
  <2>2. DOMAIN posts' \subseteq DOMAIN posts /\ \A q \in DOMAIN posts' : posts'[q] = posts[q]
    BY <2>1 DEF Pop, Restrict
  <2> QED BY <2>1, <2>2, LoginsRemoved DEF IInv, LoginInv, PendingIsNotDone
<1> QED BY <1>1, <1>2 DEF IInv

LEMMA FinishLoginIInv == ASSUME IInv, NEW p \in Post, FinishLogin(p) PROVE IInv'
<1> DEFINE login == posts[p].login
<1>1. /\ p \in DOMAIN posts
      /\ posts[p].credential.domain \in AllowedOrigins
      /\ posts' = Pop(posts, {p})
      /\ pending_logins' = Pop(pending_logins, {login})
      /\ UNCHANGED <<now, tokens>>
  BY DEF FinishLogin, tokens
<1>2. /\ DOMAIN posts' \subseteq DOMAIN posts
      /\ \A q \in DOMAIN posts' : posts'[q] = posts[q]
      /\ DOMAIN pending_logins' = DOMAIN pending_logins \ {login}
      /\ \A l \in DOMAIN pending_logins' : pending_logins'[l] = pending_logins[l]
  BY <1>1 DEF Pop, Restrict
<1>3. CASE login \in DOMAIN pending_logins
  <2>1. IssueCode(login, pending_logins[login], posts[p].credential)
    BY <1>3 DEF FinishLogin
  <2>2. /\ login \in 1..minted
        /\ pending_logins[login] \in PendingLogin
        /\ posts[p].credential \in Credential
        /\ login \notin DOMAIN sign_ins
        /\ pending_logins[login].target # NoTarget =>
             posts[p].credential.domain = pending_logins[login].target
    BY <1>1, <1>3 DEF IInv, LoginInv, LoginTypeOK, PendingIsNotDone, PostsAreCurrent
  <2>3. TokenInv' /\ Counters'
    BY <1>1, <2>1, <2>2, IssueCodeKeepsTokenInv DEF IInv
  <2>4. minted' \in minted..MaxSecrets /\ DOMAIN sign_ins' = DOMAIN sign_ins \cup {login}
    BY <2>1, <2>3 DEF IssueCode, Put, IInv, Counters
  <2>5. LoginInv'
    BY <1>2, <2>4, LoginsRemoved DEF IInv, LoginInv, PendingIsNotDone
  <2> QED BY <2>3, <2>5 DEF IInv
<1>4. CASE login \notin DOMAIN pending_logins
  <2>1. UNCHANGED <<minted, auth_codes, tokens, credentials, history>>
    BY <1>4, <1>1 DEF FinishLogin
  <2>2. TokenInv' /\ Counters'
    BY <1>1, <2>1, TokensUntouched DEF IInv, Counters
  <2>3. minted' \in minted..MaxSecrets /\ sign_ins' = sign_ins
    BY <2>1 DEF history, IInv, Counters
  <2>4. LoginInv'
    BY <1>2, <2>3, LoginsRemoved DEF IInv, LoginInv, PendingIsNotDone
  <2> QED BY <2>2, <2>4 DEF IInv
<1> QED BY <1>3, <1>4

\* Steps on tokens leave the logins and the handlers alone.
LEMMA LoginsUntouched ==
  ASSUME IInv, UNCHANGED <<pending_logins, posts, sign_ins>>, minted' \in minted..MaxSecrets
  PROVE  LoginInv'
<1>1. /\ pending_logins' = pending_logins /\ posts' = posts /\ sign_ins' = sign_ins
  OBVIOUS
<1> QED BY <1>1, LoginsRemoved DEF IInv, LoginInv, PendingIsNotDone

LEMMA LoadExpiredCodeIInv ==
  ASSUME IInv, NEW code \in DOMAIN auth_codes, LoadExpiredCode(code)
  PROVE  IInv'
<1>1. /\ auth_codes' = Pop(auth_codes, {code})
      /\ Expired(auth_codes[code])
      /\ UNCHANGED <<now, minted, pending_logins, posts, credentials, sign_ins, history>>
      /\ access_tokens' = access_tokens
      /\ refresh_tokens' = refresh_tokens
      /\ access_to_refresh' = access_to_refresh
      /\ refresh_to_access' = refresh_to_access
  BY DEF LoadExpiredCode, tokens, history
<1>2. Counters' /\ minted' \in minted..MaxSecrets
  BY <1>1 DEF IInv, Counters
<1>3. /\ code \notin DOMAIN access_tokens /\ code \notin DOMAIN refresh_tokens
      /\ code \notin DOMAIN access_to_refresh /\ code \notin DOMAIN refresh_to_access
  BY DEF IInv, TokenInv, KindsAreDisjoint, PairsAreIntact
<1>4. Removal({code}, {})
  BY <1>1, <1>2, <1>3 DEF Removal, Without, Pop, Restrict
<1>5. \A a \in DOMAIN access_tokens : a \in {code} <=> access_to_refresh[a] \in {code}
  BY <1>3 DEF IInv, TokenInv, PairsAreIntact
<1>6. grants[code].expires_at < now
  BY <1>1 DEF Expired, IInv, TokenInv, ExpiriesAreRecorded
<1>7. TokenInv'
  BY <1>4, <1>5, <1>6, RemovalKeepsTokenInv DEF IInv
<1> QED BY <1>1, <1>2, <1>7, LoginsUntouched DEF IInv

\* {t} \cup Linked(t) is the pair of t.
LEMMA PairIsClosed ==
  ASSUME IInv, NEW t \in DOMAIN access_tokens \cup DOMAIN refresh_tokens
  PROVE  /\ \A a \in DOMAIN access_tokens :
              a \in {t} \cup Linked(t) <=> access_to_refresh[a] \in {t} \cup Linked(t)
         /\ {t} \cup Linked(t) \subseteq DOMAIN access_tokens \cup DOMAIN refresh_tokens
         /\ \A u \in {t} \cup Linked(t) :
              /\ grants[u].login = grants[t].login
              /\ t \in DOMAIN refresh_tokens => grants[u].expires_at <= grants[t].expires_at
         /\ t \in DOMAIN refresh_tokens =>
              Linked(t) = {refresh_to_access[t]} /\ refresh_to_access[t] \in DOMAIN access_tokens
<1> USE DEF IInv, TokenInv, PairsAreIntact, KindsAreDisjoint
<1>1. CASE t \in DOMAIN access_tokens
  <2>1. Linked(t) = {access_to_refresh[t]}
    BY <1>1 DEF Linked
  <2> QED BY <2>1, <1>1
<1>2. CASE t \in DOMAIN refresh_tokens
  <2>1. Linked(t) = {refresh_to_access[t]}
    BY <1>2 DEF Linked
  <2>2. grants[t].expires_at \in Nat
    BY <1>2 DEF TokenTypeOK, LiveTokens
  <2> QED BY <2>1, <2>2, <1>2
<1> QED BY <1>1, <1>2

LEMMA LoadExpiredRefreshTokenIInv ==
  ASSUME IInv, NEW refresh \in DOMAIN refresh_tokens, LoadExpiredRefreshToken(refresh)
  PROVE  IInv'
<1> DEFINE gone == {refresh} \cup Linked(refresh)
<1>1. /\ RevokeInternal(gone)
      /\ Expired(refresh_tokens[refresh])
      /\ UNCHANGED <<now, minted, pending_logins, posts, auth_codes, credentials, sign_ins, history>>
  BY DEF LoadExpiredRefreshToken, history
<1>2. Counters' /\ minted' \in minted..MaxSecrets
  BY <1>1 DEF IInv, Counters
<1>3. /\ \A a \in DOMAIN access_tokens : a \in gone <=> access_to_refresh[a] \in gone
      /\ gone \subseteq DOMAIN access_tokens \cup DOMAIN refresh_tokens
      /\ \A u \in gone : grants[u].expires_at <= grants[refresh].expires_at
  BY PairIsClosed
<1>4. \A u \in gone : grants[u].expires_at < now
  <2>1. grants[refresh].expires_at < now
    BY <1>1 DEF Expired, IInv, TokenInv, ExpiriesAreRecorded
  <2>2. \A u \in gone : grants[u].expires_at \in Nat
    BY <1>3 DEF IInv, TokenInv, TokenTypeOK, LiveTokens
  <2> QED BY <2>1, <2>2, <1>3 DEF IInv, Counters, TokenInv, TokenTypeOK, LiveTokens
<1> HIDE DEF gone
<1>5. gone \cap DOMAIN auth_codes = {}
  BY <1>3 DEF IInv, TokenInv, KindsAreDisjoint
<1>6. Removal(gone, {})
  BY <1>1, <1>2, <1>5 DEF RevokeInternal, Removal, Without, Pop, Restrict
<1>7. TokenInv'
  BY <1>3, <1>4, <1>6, RemovalKeepsTokenInv DEF IInv
<1> QED BY <1>1, <1>2, <1>7, LoginsUntouched DEF IInv

LEMMA RevokeTokenIInv ==
  ASSUME IInv, NEW access \in DOMAIN access_tokens, RevokeToken(access)
  PROVE  IInv'
<1> DEFINE gone == {access} \cup Linked(access)
<1>1. /\ RevokeInternal(gone)
      /\ credentials' = Pop(credentials, gone)
      /\ UNCHANGED <<now, minted, pending_logins, posts, auth_codes, sign_ins, history>>
  BY DEF RevokeToken, RevokedCredentials, history
<1>2. Counters' /\ minted' \in minted..MaxSecrets
  BY <1>1 DEF IInv, Counters
<1>3. /\ \A a \in DOMAIN access_tokens : a \in gone <=> access_to_refresh[a] \in gone
      /\ gone \subseteq DOMAIN access_tokens \cup DOMAIN refresh_tokens
  BY PairIsClosed
<1> HIDE DEF gone
<1>4. gone \cap DOMAIN auth_codes = {}
  BY <1>3 DEF IInv, TokenInv, KindsAreDisjoint
<1>5. Removal(gone, gone)
  BY <1>1, <1>2, <1>4 DEF RevokeInternal, Removal, Without, Pop, Restrict
<1>6. TokenInv'
  BY <1>3, <1>5, RemovalKeepsTokenInv DEF IInv
<1> QED BY <1>1, <1>2, <1>6, LoginsUntouched DEF IInv

LEMMA ExchangeAuthorizationCodeIInv ==
  ASSUME IInv, NEW code \in DOMAIN auth_codes, ExchangeAuthorizationCode(code)
  PROVE  IInv'
<1> DEFINE login == grants[code].login
<1>1. /\ auth_codes' = Pop(auth_codes, {code})
      /\ MintPair({code}, login, auth_codes[code].client, auth_codes[code].resource,
                  Get(credentials, code, NoCredential))
      /\ UNCHANGED <<now, sign_ins>>
      /\ UNCHANGED <<pending_logins, posts, sign_ins>>
  BY DEF ExchangeAuthorizationCode
<1>2. code \in LiveTokens /\ code \in DOMAIN credentials /\ code \in DOMAIN grants
  BY DEF LiveTokens, IInv, TokenInv, TokenTypeOK
<1>3. /\ login \in DOMAIN sign_ins
      /\ auth_codes[code].client = sign_ins[login].client
      /\ auth_codes[code].resource = sign_ins[login].resource
      /\ Get(credentials, code, NoCredential) = sign_ins[login].credential
  BY <1>2 DEF IInv, TokenInv, TokenTypeOK, AudienceSurvives, VaultIsFaithful, SignInOf, Get
<1>4. \A t \in LiveTokens : t \in {code} <=> grants[t].login = login
  BY DEF IInv, TokenInv, OneSessionPerLogin, LiveTokens
<1>5. \A a \in DOMAIN access_tokens : a \in {code} <=> access_to_refresh[a] \in {code}
  BY DEF IInv, TokenInv, KindsAreDisjoint, PairsAreIntact
<1>6. Without(auth_codes', auth_codes, {code})
  BY <1>1 DEF Without, Pop, Restrict
<1> HIDE DEF login
<1>7. TokenInv' /\ Counters'
  BY <1>1, <1>3, <1>4, <1>5, <1>6, MintPairKeepsTokenInv DEF IInv
<1>8. minted' \in minted..MaxSecrets
  BY <1>1, <1>7 DEF MintPair, IInv, Counters
<1> QED BY <1>1, <1>7, <1>8, LoginsUntouched DEF IInv

LEMMA ExchangeRefreshTokenIInv ==
  ASSUME IInv, NEW refresh \in DOMAIN refresh_tokens, ExchangeRefreshToken(refresh)
  PROVE  IInv'
<1> DEFINE login  == grants[refresh].login
           access == refresh_to_access[refresh]
           spent  == {refresh} \cup Linked(refresh)
<1>1. /\ MintPair(spent, login, refresh_tokens[refresh].client, PriorResource(refresh),
                  Get(credentials, refresh, NoCredential))
      /\ auth_codes' = auth_codes
      /\ UNCHANGED <<now, sign_ins>>
      /\ UNCHANGED <<pending_logins, posts, sign_ins>>
  BY DEF ExchangeRefreshToken
<1>2. refresh \in LiveTokens /\ refresh \in DOMAIN credentials /\ refresh \in DOMAIN grants
  BY DEF LiveTokens, IInv, TokenInv, TokenTypeOK
<1>3. /\ \A a \in DOMAIN access_tokens : a \in spent <=> access_to_refresh[a] \in spent
      /\ spent \subseteq DOMAIN access_tokens \cup DOMAIN refresh_tokens
      /\ \A u \in spent : grants[u].login = login
      /\ Linked(refresh) = {access}
      /\ access \in DOMAIN access_tokens
  BY PairIsClosed
<1>4. PriorResource(refresh) = access_tokens[access].resource
  BY <1>3 DEF PriorResource
<1>5. /\ login \in DOMAIN sign_ins
      /\ refresh_tokens[refresh].client = sign_ins[login].client
      /\ PriorResource(refresh) = sign_ins[login].resource
      /\ Get(credentials, refresh, NoCredential) = sign_ins[login].credential
  <2>1. grants[access].login = login
    BY <1>3
  <2> QED BY <2>1, <1>2, <1>3, <1>4
      DEF IInv, TokenInv, TokenTypeOK, AudienceSurvives, VaultIsFaithful, SignInOf, Get
<1>6. \A t \in LiveTokens : t \in spent <=> grants[t].login = login
  BY <1>3 DEF IInv, TokenInv, OneSessionPerLogin, LiveTokens
<1> HIDE DEF login, spent
<1>7. Without(auth_codes', auth_codes, spent)
  BY <1>1, <1>3 DEF Without, IInv, TokenInv, KindsAreDisjoint
<1>8. TokenInv' /\ Counters'
  BY <1>1, <1>3, <1>5, <1>6, <1>7, MintPairKeepsTokenInv DEF IInv
<1>9. minted' \in minted..MaxSecrets
  BY <1>1, <1>8 DEF MintPair, IInv, Counters
<1> QED BY <1>1, <1>8, <1>9, LoginsUntouched DEF IInv

LEMMA StutterIInv == ASSUME IInv, UNCHANGED vars PROVE IInv'
<1>1. /\ UNCHANGED <<minted, auth_codes, tokens, credentials, history>>
      /\ now' = now /\ minted' = minted
      /\ UNCHANGED <<pending_logins, posts, sign_ins>>
  BY DEF vars, history
<1>2. TokenInv' /\ Counters'
  BY <1>1, TokensUntouched DEF IInv, Counters
<1>3. minted' \in minted..MaxSecrets
  BY <1>1 DEF IInv, Counters
<1> QED BY <1>1, <1>2, <1>3, LoginsUntouched DEF IInv

THEOREM InductiveInvariant == Spec => []IInv
<1>1. ASSUME IInv, [Next]_vars PROVE IInv'
  <2>1. CASE Tick
    BY <2>1, <1>1, TickIInv
  <2>2. CASE Restart
    BY <2>2, <1>1, RestartIInv
  <2>3. CASE AuthorizeStep
    BY <2>3, <1>1, AuthorizeIInv DEF AuthorizeStep
  <2>4. CASE LoginStep
    BY <2>4, <1>1, ShowLoginIInv, FailLoginIInv, FinishLoginIInv, SubmitLoginIInv DEF LoginStep
  <2>5. CASE TokenStep
    <3>1. ASSUME NEW refresh \in DOMAIN refresh_tokens, RejectScopes(refresh) PROVE IInv'
      BY <3>1, <1>1, StutterIInv DEF RejectScopes
    <3> QED BY <2>5, <3>1, <1>1, LoadExpiredCodeIInv, ExchangeAuthorizationCodeIInv,
               LoadExpiredRefreshTokenIInv, ExchangeRefreshTokenIInv, RevokeTokenIInv
            DEF TokenStep
  <2>6. CASE UNCHANGED vars
    BY <2>6, <1>1, StutterIInv
  <2> QED BY <1>1, <2>1, <2>2, <2>3, <2>4, <2>5, <2>6 DEF Next
<1> QED BY <1>1, InitIInv, PTL DEF Spec
-----------------------------------------------------------------------------
(* The properties. *)

\* The dictionaries of the provider keep their shape.
THEOREM TypeCorrect == Spec => []TypeOK
<1>1. IInv => TypeOK
  BY DEF IInv, Counters, LoginInv, TokenInv, TypeOK
<1> QED BY InductiveInvariant, <1>1, PTL

\* Whatever happens to the other sessions, every live code, access token and
\* refresh token reaches the Sisense credential of its own sign-in.
THEOREM SessionsAreNeverStranded == Spec => []SessionsHoldTheirSignIn
<1>1. IInv => SessionsHoldTheirSignIn
  BY DEF IInv, TokenInv, VaultIsFaithful, SessionsHoldTheirSignIn
<1> QED BY InductiveInvariant, <1>1, PTL

\* The RFC 8707 audience and the client of a session survive any number of
\* rotations, also once its access token has expired.
THEOREM AudienceIsNeverLost == Spec => []AudienceSurvives
<1>1. IInv => AudienceSurvives
  BY DEF IInv, TokenInv
<1> QED BY InductiveInvariant, <1>1, PTL

\* Submitting one login form any number of times at once yields one session.
THEOREM LoginIsUsedOnce == Spec => []OneSessionPerLogin
<1>1. IInv => OneSessionPerLogin
  BY DEF IInv, TokenInv
<1> QED BY InductiveInvariant, <1>1, PTL

\* The vault holds credentials for allowed origins, and for the instance the
\* connector's URL names.
THEOREM VaultIsConfined == Spec => []CredentialsAreConfined
<1>1. IInv => CredentialsAreConfined
  BY DEF IInv, TokenInv, TokenTypeOK, VaultIsFaithful, SignInsAreConfined, SignInOf,
         CredentialsAreConfined
<1> QED BY InductiveInvariant, <1>1, PTL

\* Revocation, rotation and exchange take the credential with the token.
THEOREM RevocationReachesTheVault == Spec => []NoCredentialOutlivesRevocation
<1>1. IInv => NoCredentialOutlivesRevocation
  BY DEF IInv, TokenInv
<1> QED BY InductiveInvariant, <1>1, PTL

\* A sweep, which any caller of /authorize sets off, ends no live session.
THEOREM SweepIsHarmless == Spec => SweepSparesLiveSessions
<1> DEFINE Spared ==
      /\ \A c \in DOMAIN auth_codes :
           ~Expired(auth_codes[c]) => c \in DOMAIN auth_codes' \cap DOMAIN credentials'
      /\ \A r \in DOMAIN refresh_tokens :
           ~Expired(refresh_tokens[r]) =>
             /\ r \in DOMAIN refresh_tokens' \cap DOMAIN credentials'
             /\ refresh_to_access[r] \in DOMAIN access_tokens' \cap DOMAIN credentials'
<1>1. ASSUME IInv, SweepExpiredTokens PROVE Spared
  <2> DEFINE deadCodes   == {c \in DOMAIN auth_codes : Expired(auth_codes[c])}
             deadAccess  == DeadAccessTokens
             deadRefresh == {access_to_refresh[a] : a \in deadAccess \cap DOMAIN access_to_refresh}
  <2>1. /\ DOMAIN auth_codes' = DOMAIN auth_codes \ deadCodes
        /\ DOMAIN access_tokens' = DOMAIN access_tokens \ deadAccess
        /\ DOMAIN refresh_tokens' = DOMAIN refresh_tokens \ deadRefresh
        /\ DOMAIN credentials' = DOMAIN credentials \ (deadCodes \cup deadAccess \cup deadRefresh)
    BY <1>1 DEF SweepExpiredTokens, Pop, Restrict
  <2>2. \A a \in deadAccess : /\ a \in DOMAIN access_tokens
                              /\ access_to_refresh[a] \in DOMAIN refresh_tokens
                              /\ Expired(refresh_tokens[access_to_refresh[a]])
    BY <1>1 DEF DeadAccessTokens, IInv, TokenInv, PairsAreIntact
  <2>3. /\ deadCodes \subseteq DOMAIN auth_codes
        /\ \A c \in deadCodes : Expired(auth_codes[c])
        /\ \A r \in deadRefresh : r \in DOMAIN refresh_tokens /\ Expired(refresh_tokens[r])
    BY <2>2
  <2> HIDE DEF deadCodes, deadAccess, deadRefresh
  <2>4. LiveTokens \subseteq DOMAIN credentials
    BY <1>1 DEF IInv, TokenInv
  <2>5. ASSUME NEW c \in DOMAIN auth_codes, ~Expired(auth_codes[c])
        PROVE  c \in DOMAIN auth_codes' \cap DOMAIN credentials'
    BY <2>1, <2>2, <2>3, <2>4, <2>5, <1>1 DEF LiveTokens, IInv, TokenInv, KindsAreDisjoint
  <2>6. ASSUME NEW r \in DOMAIN refresh_tokens, ~Expired(refresh_tokens[r])
        PROVE  /\ r \in DOMAIN refresh_tokens' \cap DOMAIN credentials'
               /\ refresh_to_access[r] \in DOMAIN access_tokens' \cap DOMAIN credentials'
    <3> DEFINE a == refresh_to_access[r]
    <3>1. a \in DOMAIN access_tokens /\ access_to_refresh[a] = r
      BY <1>1 DEF IInv, TokenInv, PairsAreIntact
    <3>2. a \notin deadAccess
      BY <3>1, <2>2, <2>6
    <3> QED BY <3>1, <3>2, <2>1, <2>2, <2>3, <2>4, <2>6, <1>1
            DEF LiveTokens, IInv, TokenInv, KindsAreDisjoint
  <2> QED BY <2>5, <2>6
<1>2. IInv => (AuthorizeStep => Spared)
  BY <1>1 DEF AuthorizeStep, Authorize
<1> QED BY InductiveInvariant, <1>2, PTL DEF SweepSparesLiveSessions
-----------------------------------------------------------------------------
(* The bound on the pending logins. *)

\* The logins that a sweep leaves are evicted one after the other, so the number
\* that would go after it differs from one to the next, and is below the bound.
LEMMA SweepPendingBounds ==
  ASSUME NEW logins, IsFiniteSet(DOMAIN logins), DOMAIN logins \subseteq Nat,
         \A l \in DOMAIN logins : logins[l].expires_at \in Nat
  PROVE  Cardinality(DOMAIN SweepPending(logins)) <= MaxPending
<1> DEFINE alive    == {l \in DOMAIN logins : ~Expired(logins[l])}
           After(l) == {m \in alive : EvictedBefore(logins, l, m)}
           kept     == DOMAIN SweepPending(logins)
           rank     == [l \in kept |-> Cardinality(After(l))]
<1>1. kept = {l \in alive : Cardinality(After(l)) < MaxPending}
  BY DEF SweepPending, Keep, Restrict
<1>2. \A l \in alive : IsFiniteSet(After(l)) /\ Cardinality(After(l)) \in Nat
  <2>1. \A l \in alive : After(l) \in SUBSET DOMAIN logins
    OBVIOUS
  <2> HIDE DEF After
  <2> QED BY <2>1, FS_Subset, FS_CardinalityType
<1>3. \A l, m \in alive : EvictedBefore(logins, l, m) => Cardinality(After(m)) < Cardinality(After(l))
  <2> SUFFICES ASSUME NEW l \in alive, NEW m \in alive, EvictedBefore(logins, l, m)
               PROVE  Cardinality(After(m)) < Cardinality(After(l))
    OBVIOUS
  <2>1. After(m) \in SUBSET After(l)
    BY DEF EvictedBefore
  <2>2. m \in After(l) /\ m \notin After(m)
    BY DEF EvictedBefore
  <2> HIDE DEF After, alive
  <2>3. /\ Cardinality(After(m)) <= Cardinality(After(l))
        /\ Cardinality(After(l)) = Cardinality(After(m)) => After(l) = After(m)
    BY <1>2, <2>1, FS_Subset
  <2>4. Cardinality(After(m)) # Cardinality(After(l))
    BY <2>2, <2>3
  <2> QED BY <1>2, <2>3, <2>4
<1>4. \A l, m \in alive : l # m => EvictedBefore(logins, l, m) \/ EvictedBefore(logins, m, l)
  BY DEF EvictedBefore
<1> HIDE DEF alive, After
<1>5. rank \in Injection(kept, 0..(MaxPending - 1))
  <2>1. rank \in [kept -> 0..(MaxPending - 1)]
    BY <1>1, <1>2, ProviderConstants
  <2>2. \A l, m \in kept : l # m => rank[l] # rank[m]
    <3>1. \A l, m \in kept : l # m => \/ Cardinality(After(l)) < Cardinality(After(m))
                                      \/ Cardinality(After(m)) < Cardinality(After(l))
      BY <1>1, <1>3, <1>4
    <3> HIDE DEF kept
    <3> QED BY <1>1, <1>2, <3>1 DEF kept
  <2> HIDE DEF rank
  <2> QED BY <2>1, <2>2 DEF Injection, IsInjective
<1>6. /\ IsFiniteSet(0..(MaxPending - 1))
      /\ Cardinality(0..(MaxPending - 1)) = MaxPending
  <2> DEFINE last == MaxPending - 1
  <2>1. last \in Nat /\ last + 1 = MaxPending
    BY ProviderConstants
  <2> HIDE DEF last
  <2>2. 0 \in Int /\ last \in Int /\ ~(0 > last) /\ last - 0 + 1 = MaxPending
    BY <2>1
  <2>3. IsFiniteSet(0..last) /\ Cardinality(0..last) = MaxPending
    BY <2>2, FS_Interval
  <2> QED BY <2>3 DEF last
<1> HIDE DEF rank, kept
<1>7. Cardinality(kept) <= Cardinality(0..(MaxPending - 1))
  BY <1>5, <1>6, FS_Injection
<1> QED BY <1>6, <1>7 DEF kept

\* No pending login outlives one that is opened now.
NewestLivesLongest == \A l \in DOMAIN pending_logins : pending_logins[l].expires_at <= now + LoginTtl

\* What is opened now, under the greatest number, is the last to be evicted.
LEMMA SweepPendingSparesNewest ==
  ASSUME NEW logins, NEW login \in DOMAIN logins, DOMAIN logins \subseteq Nat,
         ~Expired(logins[login]),
         \A l \in DOMAIN logins : logins[l].expires_at \in Nat,
         \A l \in DOMAIN logins : l # login =>
           l < login /\ logins[l].expires_at <= logins[login].expires_at
  PROVE  login \in DOMAIN SweepPending(logins)
<1> DEFINE alive == {l \in DOMAIN logins : ~Expired(logins[l])}
           After == {m \in alive : EvictedBefore(logins, login, m)}
<1>1. After = {}
  BY DEF EvictedBefore
<1>2. Cardinality(After) < MaxPending
  <2>1. Cardinality({}) = 0
    BY FS_EmptySet
  <2>2. 0 < MaxPending
    BY ProviderConstants
  <2> HIDE DEF After
  <2> QED BY <1>1, <2>1, <2>2
<1> QED BY <1>2 DEF SweepPending, Keep, Restrict

\* An /authorize keeps the table at its bound and the login it opens in the table.
LEMMA AuthorizeBounds ==
  ASSUME IInv, NewestLivesLongest, NEW client \in Client, NEW resource \in Resources,
         Authorize(client, resource)
  PROVE  /\ minted' \in DOMAIN pending_logins'
         /\ Cardinality(DOMAIN pending_logins') <= MaxPending
         /\ NewestLivesLongest'
<1> DEFINE login   == minted + 1
           pending == [client |-> client, resource |-> resource,
                       target |-> TargetFromResource(resource),
                       expires_at |-> now + LoginTtl]
           logins  == Put(pending_logins, login, pending)
<1>1. /\ now \in Nat /\ minted \in Nat /\ now + LoginTtl \in Nat /\ ~(now + LoginTtl < now)
      /\ DOMAIN pending_logins \subseteq 1..minted
      /\ \A l \in DOMAIN pending_logins : pending_logins[l].expires_at \in Nat
  BY ProviderConstants DEF IInv, Counters, LoginInv, LoginTypeOK, PendingLogin
<1>2. minted' = login /\ now' = now /\ pending_logins' = SweepPending(logins)
  BY DEF Authorize
<1>3. pending.expires_at = now + LoginTtl
  OBVIOUS
<1> HIDE DEF pending
<1>4. /\ DOMAIN logins = DOMAIN pending_logins \cup {login}
      /\ logins[login] = pending
      /\ \A l \in DOMAIN logins : l # login =>
           l \in DOMAIN pending_logins /\ logins[l] = pending_logins[l]
  BY DEF Put
<1> HIDE DEF logins
<1>5. /\ DOMAIN logins \subseteq Nat /\ login \in DOMAIN logins
      /\ ~Expired(logins[login])
      /\ \A l \in DOMAIN logins : logins[l].expires_at \in Nat
      /\ \A l \in DOMAIN logins : logins[l].expires_at <= now + LoginTtl
      /\ \A l \in DOMAIN logins : l # login =>
           l < login /\ logins[l].expires_at <= logins[login].expires_at
  BY <1>1, <1>3, <1>4 DEF Expired, NewestLivesLongest
<1>6. IsFiniteSet(DOMAIN logins)
  <2>1. 1 \in Int /\ login \in Int /\ DOMAIN logins \in SUBSET (1..login)
    BY <1>1, <1>4
  <2> HIDE DEF login
  <2>2. IsFiniteSet(1..login)
    BY <2>1, FS_Interval
  <2> QED BY <2>1, <2>2, FS_Subset
<1>7. /\ login \in DOMAIN SweepPending(logins)
      /\ Cardinality(DOMAIN SweepPending(logins)) <= MaxPending
  BY <1>5, <1>6, SweepPendingBounds, SweepPendingSparesNewest
<1>8. NewestLivesLongest'
  BY <1>2, <1>5, SweepPendingRemoves DEF NewestLivesLongest
<1> QED BY <1>2, <1>7, <1>8

\* A flood of /authorize keeps the table at its bound and never evicts the login
\* that the flood's last caller was sent to.
THEOREM FloodIsBounded == Spec => AuthorizeAdmits
<1> DEFINE Admits == /\ minted' \in DOMAIN pending_logins'
                     /\ Cardinality(DOMAIN pending_logins') <= MaxPending
           Sound  == IInv /\ NewestLivesLongest
<1>1. Init => NewestLivesLongest
  BY DEF Init, EmptyDict, NewestLivesLongest
<1>2. ASSUME Sound, AuthorizeStep PROVE Admits /\ NewestLivesLongest'
  BY <1>2, AuthorizeBounds DEF AuthorizeStep
<1>3. ASSUME Sound, [Next]_vars PROVE NewestLivesLongest'
  <2>1. ASSUME now' = now, DOMAIN pending_logins' \subseteq DOMAIN pending_logins,
               \A l \in DOMAIN pending_logins' : pending_logins'[l] = pending_logins[l]
        PROVE  NewestLivesLongest'
    BY <1>3, <2>1 DEF NewestLivesLongest
  <2>2. ASSUME UNCHANGED <<now, pending_logins>> PROVE NewestLivesLongest'
    BY <2>2, <2>1
  <2>3. ASSUME pending_logins' = SweepPending(pending_logins), now' = now
        PROVE  NewestLivesLongest'
    BY <2>1, <2>3, SweepPendingRemoves
  <2>4. CASE Tick
    <3>1. now' = now + 1 /\ pending_logins' = pending_logins
      BY <2>4 DEF Tick
    <3>2. /\ now \in Nat /\ LoginTtl \in Nat
          /\ \A l \in DOMAIN pending_logins : pending_logins[l].expires_at \in Nat
      BY <1>3, ProviderConstants DEF IInv, Counters, LoginInv, LoginTypeOK, PendingLogin
    <3> QED BY <1>3, <3>1, <3>2 DEF NewestLivesLongest
  <2>5. CASE Restart
    BY <2>5 DEF Restart, EmptyDict, NewestLivesLongest
  <2>6. CASE AuthorizeStep
    BY <1>2, <1>3, <2>6
  <2>7. CASE LoginStep
    <3>1. CASE ShowLogin
      BY <2>3, <3>1 DEF ShowLogin
    <3>2. ASSUME NEW p, NEW login, NEW csrfMatches, NEW ip, NEW formDomain, NEW user,
                 SubmitLogin(p, login, csrfMatches, ip, formDomain, user)
          PROVE  NewestLivesLongest'
      BY <2>3, <3>2 DEF SubmitLogin
    <3>3. ASSUME NEW p, FailLogin(p) PROVE NewestLivesLongest'
      BY <2>2, <3>3 DEF FailLogin
    <3>4. ASSUME NEW p, FinishLogin(p) PROVE NewestLivesLongest'
      BY <2>1, <3>4 DEF FinishLogin, Pop, Restrict
    <3> QED BY <2>7, <3>1, <3>2, <3>3, <3>4 DEF LoginStep
  <2>8. CASE TokenStep
    BY <2>2, <2>8 DEF TokenStep, LoadExpiredCode, ExchangeAuthorizationCode, LoadExpiredRefreshToken,
       RejectScopes, ExchangeRefreshToken, RevokeToken, RevokeInternal, MintPair, vars
  <2>9. CASE UNCHANGED vars
    BY <2>2, <2>9 DEF vars
  <2> QED BY <1>3, <2>4, <2>5, <2>6, <2>7, <2>8, <2>9 DEF Next
<1>4. ASSUME Sound PROVE AuthorizeStep => Admits
  BY <1>2, <1>4
<1> HIDE DEF Admits, Sound
<1> QED BY <1>1, <1>3, <1>4, InductiveInvariant, PTL DEF Spec, AuthorizeAdmits, Sound, Admits
-----------------------------------------------------------------------------
(* What the composition with the proxy needs to know of a step. *)

\* The handlers of clients: all steps but time, a restart and the proxy's revocation.
ClientStep ==
  \/ AuthorizeStep
  \/ LoginStep
  \/ \E code \in DOMAIN auth_codes : LoadExpiredCode(code) \/ ExchangeAuthorizationCode(code)
  \/ \E refresh \in DOMAIN refresh_tokens :
       LoadExpiredRefreshToken(refresh) \/ RejectScopes(refresh) \/ ExchangeRefreshToken(refresh)

\* No step but a restart changes what is known of a token that was issued.
LEMMA HistoryGrows ==
  ASSUME IInv, ClientStep
  PROVE  \A t \in DOMAIN grants :
           /\ t \in DOMAIN grants'
           /\ grants'[t] = grants[t]
           /\ sign_ins'[grants[t].login] = sign_ins[grants[t].login]
<1> DEFINE Kept == \A t \in DOMAIN grants :
                     /\ t \in DOMAIN grants'
                     /\ grants'[t] = grants[t]
                     /\ sign_ins'[grants[t].login] = sign_ins[grants[t].login]
<1>1. /\ DOMAIN grants \subseteq 1..minted
      /\ \A t \in DOMAIN grants : grants[t].login \in DOMAIN sign_ins
      /\ minted \in Nat
  BY DEF IInv, Counters, TokenInv, TokenTypeOK
<1>2. CASE history' = history
  BY <1>2 DEF history
<1>3. ASSUME NEW p \in Post, FinishLogin(p) PROVE Kept
  <2>1. CASE posts[p].login \in DOMAIN pending_logins
    <3> DEFINE login == posts[p].login
    <3>1. login \notin DOMAIN sign_ins
      BY <2>1 DEF IInv, LoginInv, PendingIsNotDone
    <3>2. /\ With(grants', grants, minted + 1, [login |-> login, expires_at |-> now + CodeTtl])
          /\ \A l \in DOMAIN sign_ins : l # login => sign_ins'[l] = sign_ins[l]
      BY <2>1, <1>3 DEF FinishLogin, IssueCode, Put, With
    <3>3. minted + 1 \notin DOMAIN grants
      BY <1>1
    <3> QED BY <1>1, <3>1, <3>2, <3>3 DEF With
  <2>2. CASE posts[p].login \notin DOMAIN pending_logins
    BY <1>2, <1>3, <2>2 DEF FinishLogin
  <2> QED BY <2>1, <2>2
<1>4. ASSUME NEW spent, NEW login, NEW client, NEW resource, NEW credential,
             MintPair(spent, login, client, resource, credential), sign_ins' = sign_ins
      PROVE  Kept
  <2>1. \A t \in DOMAIN grants :
          t # minted + 1 /\ t # minted + 2 => t \in DOMAIN grants' /\ grants'[t] = grants[t]
    BY <1>4 DEF MintPair, Put
  <2> QED BY <1>1, <1>4, <2>1
<1>5. CASE AuthorizeStep
  BY <1>5, <1>2 DEF AuthorizeStep, Authorize
<1>6. CASE LoginStep
  BY <1>6, <1>2, <1>3 DEF LoginStep, ShowLogin, FailLogin, SubmitLogin
<1>7. ASSUME NEW code \in DOMAIN auth_codes, LoadExpiredCode(code) \/ ExchangeAuthorizationCode(code)
      PROVE  Kept
  BY <1>7, <1>2, <1>4 DEF LoadExpiredCode, ExchangeAuthorizationCode
<1>8. ASSUME NEW refresh \in DOMAIN refresh_tokens,
             \/ LoadExpiredRefreshToken(refresh)
             \/ RejectScopes(refresh)
             \/ ExchangeRefreshToken(refresh)
      PROVE  Kept
  BY <1>8, <1>2, <1>4 DEF LoadExpiredRefreshToken, RejectScopes, ExchangeRefreshToken, vars
<1> QED BY <1>5, <1>6, <1>7, <1>8 DEF ClientStep

\* A client's step takes a refresh token away only when it has expired or when
\* the session goes on with another.
LEMMA SessionsGoOn ==
  ASSUME IInv, ClientStep, NEW r \in DOMAIN refresh_tokens, r \notin DOMAIN refresh_tokens'
  PROVE  \/ Expired(refresh_tokens[r])
         \/ \E s \in DOMAIN refresh_tokens' : grants'[s].login = grants[r].login
<1>1. CASE AuthorizeStep
  <2>1. PICK a \in DeadAccessTokens \cap DOMAIN access_to_refresh : access_to_refresh[a] = r
    BY <1>1 DEF AuthorizeStep, Authorize, SweepExpiredTokens, Pop, Restrict
  <2> QED BY <2>1 DEF DeadAccessTokens
<1>2. CASE LoginStep
  BY <1>2 DEF LoginStep, ShowLogin, FailLogin, SubmitLogin, FinishLogin, tokens
<1>3. ASSUME NEW code \in DOMAIN auth_codes, LoadExpiredCode(code) \/ ExchangeAuthorizationCode(code)
      PROVE  FALSE
  <2>1. code # r
    BY DEF IInv, TokenInv, KindsAreDisjoint
  <2> QED BY <1>3, <2>1 DEF LoadExpiredCode, ExchangeAuthorizationCode, MintPair, Put, Pop,
                            Restrict, tokens
<1>4. ASSUME NEW refresh \in DOMAIN refresh_tokens,
             LoadExpiredRefreshToken(refresh) \/ RejectScopes(refresh)
      PROVE  Expired(refresh_tokens[r])
  <2>1. LoadExpiredRefreshToken(refresh)
    BY <1>4 DEF RejectScopes, vars, tokens
  <2>2. r \in {refresh} \cup Linked(refresh)
    BY <2>1 DEF LoadExpiredRefreshToken, RevokeInternal, Pop, Restrict
  <2>3. r = refresh
    BY <2>2 DEF Linked, IInv, TokenInv, KindsAreDisjoint, PairsAreIntact
  <2> QED BY <2>1, <2>3 DEF LoadExpiredRefreshToken
<1>5. ASSUME NEW refresh \in DOMAIN refresh_tokens, ExchangeRefreshToken(refresh)
      PROVE  \E s \in DOMAIN refresh_tokens' : grants'[s].login = grants[r].login
  <2>1. r \in {refresh} \cup Linked(refresh)
    BY <1>5 DEF ExchangeRefreshToken, MintPair, Put, Pop, Restrict
  <2>2. r = refresh
    BY <2>1 DEF Linked, IInv, TokenInv, KindsAreDisjoint, PairsAreIntact
  <2>3. /\ minted + 2 \in DOMAIN refresh_tokens'
        /\ grants'[minted + 2].login = grants[refresh].login
    BY <1>5 DEF ExchangeRefreshToken, MintPair, Put
  <2> QED BY <2>2, <2>3
<1> QED BY <1>1, <1>2, <1>3, <1>4, <1>5 DEF ClientStep

\* A revocation takes the tokens of one session.
LEMMA RevocationIsPrivate ==
  ASSUME IInv, NEW access \in DOMAIN access_tokens, RevokeToken(access),
         NEW r \in DOMAIN refresh_tokens, r \notin DOMAIN refresh_tokens'
  PROVE  grants[r].login = grants[access].login
<1>1. r \in {access} \cup Linked(access)
  BY DEF RevokeToken, RevokeInternal, Pop, Restrict
<1>2. r = access_to_refresh[access]
  BY <1>1 DEF Linked, IInv, TokenInv, KindsAreDisjoint, PairsAreIntact
<1> QED BY <1>2 DEF IInv, TokenInv, PairsAreIntact

\* The refinement of Sessions.  --------------------------------------------

LiveLogins == {grants[t].login : t \in LiveTokens}

\* What a session shows from its start.
Started(login) ==
  [clients     |-> {sign_ins[login].client},
   resources   |-> {sign_ins[login].resource},
   credentials |-> {sign_ins[login].credential}]

Asked(login) ==
  [client |-> pending_logins[login].client, resource |-> pending_logins[login].resource]

TokensShowTheirSignIn == \A l \in LiveLogins : Shown(l) = Started(l)

\* The vault, the codes and the tokens of a session agree with its sign-in.
LEMMA ShownIsStarted == IInv => TokensShowTheirSignIn
<1> SUFFICES ASSUME IInv, NEW l \in LiveLogins PROVE Shown(l) = Started(l)
  BY DEF TokensShowTheirSignIn
<1> USE DEF IInv, TokenInv
<1> DEFINE codes   == LiveOf(l) \cap DOMAIN auth_codes
           access  == LiveOf(l) \cap DOMAIN access_tokens
           refresh == LiveOf(l) \cap DOMAIN refresh_tokens
           clients == {auth_codes[c].client : c \in codes}
                        \cup {access_tokens[a].client : a \in access}
                        \cup {refresh_tokens[r].client : r \in refresh}
           resources == {auth_codes[c].resource : c \in codes}
                          \cup {access_tokens[a].resource : a \in access}
           held == {Get(credentials, t, NoCredential) : t \in LiveOf(l)}
<1>1. PICK t \in LiveTokens : grants[t].login = l
  BY DEF LiveLogins
<1>2. t \in codes \/ t \in access \/ t \in refresh
  BY <1>1 DEF LiveOf, LiveTokens
<1>3. codes # {} \/ access # {}
  <2>1. CASE t \in refresh
    <3>1. /\ refresh_to_access[t] \in DOMAIN access_tokens
          /\ access_to_refresh[refresh_to_access[t]] = t
      BY <2>1 DEF PairsAreIntact
    <3>2. refresh_to_access[t] \in LiveTokens /\ grants[refresh_to_access[t]].login = l
      BY <3>1, <1>1 DEF PairsAreIntact, LiveTokens
    <3> QED BY <3>1, <3>2 DEF LiveOf
  <2> QED BY <2>1, <1>2
<1>4. /\ \A c \in codes : /\ auth_codes[c].client = sign_ins[l].client
                          /\ auth_codes[c].resource = sign_ins[l].resource
      /\ \A a \in access : /\ access_tokens[a].client = sign_ins[l].client
                           /\ access_tokens[a].resource = sign_ins[l].resource
      /\ \A r \in refresh : refresh_tokens[r].client = sign_ins[l].client
  BY DEF AudienceSurvives, SignInOf, LiveOf
<1>5. \A u \in LiveOf(l) : Get(credentials, u, NoCredential) = sign_ins[l].credential
  BY DEF VaultIsFaithful, SignInOf, LiveOf, Get
<1>6. t \in LiveOf(l)
  BY <1>1 DEF LiveOf
<1>7. Shown(l) = [clients |-> clients, resources |-> resources, credentials |-> held]
  BY DEF Shown
<1> HIDE DEF codes, access, refresh
<1>8. clients = {sign_ins[l].client} /\ resources = {sign_ins[l].resource}
  BY <1>3, <1>4
<1>9. held = {sign_ins[l].credential}
  BY <1>5, <1>6
<1> QED BY <1>7, <1>8, <1>9 DEF Started
-----------------------------------------------------------------------------
(* The two dictionaries of the abstract state. *)

Opened == [l \in DOMAIN pending_logins |->
             [client |-> pending_logins[l].client, resource |-> pending_logins[l].resource]]

Running == [l \in LiveLogins |-> Shown(l)]

\* Sessions end, and the others are what they were.
LEMMA SessionsShrink ==
  ASSUME TokensShowTheirSignIn, TokensShowTheirSignIn',
         LiveLogins' \subseteq LiveLogins,
         \A l \in LiveLogins' : sign_ins'[l] = sign_ins[l]
  PROVE  Promise!Shrinks(Running', Running)
<1>1. \A l \in LiveLogins' : Shown(l)' = Shown(l)
  BY DEF TokensShowTheirSignIn, Started
<1> QED BY <1>1 DEF Promise!Shrinks, Running

\* Every step but those of /authorize and of a completed form maps to End.
LEMMA EndStep ==
  ASSUME Counters, TokensShowTheirSignIn, TokensShowTheirSignIn',
         minted' \in minted..MaxSecrets,
         DOMAIN pending_logins' \subseteq DOMAIN pending_logins,
         \A l \in DOMAIN pending_logins' : pending_logins'[l] = pending_logins[l],
         LiveLogins' \subseteq LiveLogins,
         \A l \in LiveLogins' : sign_ins'[l] = sign_ins[l]
  PROVE  Promise!Next
<1>1. minted' \in Nat /\ minted <= minted'
  BY ProviderConstants DEF Counters
<1>2. Promise!Shrinks(Opened', Opened)
  BY DEF Promise!Shrinks, Opened
<1>3. Promise!Shrinks(Running', Running)
  BY SessionsShrink
<1> QED BY <1>1, <1>2, <1>3 DEF Promise!Next, Promise!End, Opened, Running, LiveLogins

\* Tokens are only removed: no session is new.
LEMMA RemovalEndsSessions ==
  ASSUME LiveTokens' \subseteq LiveTokens, UNCHANGED history
  PROVE  /\ LiveLogins' \subseteq LiveLogins
         /\ \A l \in LiveLogins' : sign_ins'[l] = sign_ins[l]
BY DEF LiveLogins, history

\* A pair of tokens belongs to the login of the token it was exchanged for.
LEMMA MintPairKeepsSessions ==
  ASSUME IInv, NEW token \in LiveTokens, NEW spent, NEW client, NEW resource, NEW credential,
         MintPair(spent, grants[token].login, client, resource, credential),
         DOMAIN auth_codes' \subseteq DOMAIN auth_codes
  PROVE  /\ LiveLogins' \subseteq LiveLogins
         /\ minted' \in minted..MaxSecrets
<1> DEFINE access  == minted + 1
           refresh == minted + 2
           login   == grants[token].login
           once    == Put(grants, access, [login |-> login, expires_at |-> now + AccessTtl])
<1>1. /\ access_tokens' = Put(Pop(access_tokens, spent), access,
           [client |-> client, resource |-> resource, expires_at |-> now + AccessTtl])
      /\ refresh_tokens' = Put(Pop(refresh_tokens, spent), refresh,
           [client |-> client, expires_at |-> now + RefreshTtl])
      /\ grants' = Put(once, refresh, [login |-> login, expires_at |-> now + RefreshTtl])
      /\ minted' = refresh
      /\ refresh <= MaxSecrets
  BY DEF MintPair
<1>2. /\ DOMAIN access_tokens' \subseteq DOMAIN access_tokens \cup {access}
      /\ DOMAIN refresh_tokens' \subseteq DOMAIN refresh_tokens \cup {refresh}
  BY <1>1 DEF Put, Pop, Restrict
<1>3. \A t \in LiveTokens : t # access /\ t # refresh
  BY DEF IInv, Counters, TokenInv, TokenTypeOK
<1>4. /\ \A t \in DOMAIN grants \ {access} : once[t] = grants[t]
      /\ once[access].login = login
      /\ DOMAIN once = DOMAIN grants \cup {access}
  BY DEF Put
<1> HIDE DEF once
<1>5. /\ \A t \in DOMAIN once \ {refresh} : grants'[t] = once[t]
      /\ grants'[refresh].login = login
  BY <1>1 DEF Put
<1>6. LiveTokens \subseteq DOMAIN grants
  BY DEF IInv, TokenInv, TokenTypeOK
<1>7. access # refresh
  BY DEF IInv, Counters
<1>8. LiveTokens' \subseteq LiveTokens \cup {access, refresh}
  BY <1>2 DEF LiveTokens
<1>9. \A t \in LiveTokens' : grants'[t].login \in LiveLogins
  BY <1>3, <1>4, <1>5, <1>6, <1>7, <1>8 DEF LiveLogins
<1>10. minted' \in minted..MaxSecrets
  BY <1>1, ProviderConstants DEF IInv, Counters
<1> QED BY <1>9, <1>10 DEF LiveLogins
-----------------------------------------------------------------------------
(* The actions. *)

\* Steps that leave the tokens alone and open no login.
LEMMA QuietStep ==
  ASSUME IInv, TokensShowTheirSignIn, TokensShowTheirSignIn',
         UNCHANGED <<minted, auth_codes, tokens, history>>,
         DOMAIN pending_logins' \subseteq DOMAIN pending_logins,
         \A l \in DOMAIN pending_logins' : pending_logins'[l] = pending_logins[l]
  PROVE  Promise!Next
<1>1. LiveTokens' \subseteq LiveTokens /\ UNCHANGED history
  BY DEF LiveTokens, tokens
<1>2. minted' \in minted..MaxSecrets
  BY DEF IInv, Counters
<1> QED BY <1>1, <1>2, RemovalEndsSessions, EndStep DEF IInv

\* /authorize opens a login under a new number; the login may already be gone
\* again only when the table has no room at all.
LEMMA AuthorizeOpens ==
  ASSUME IInv, TokensShowTheirSignIn, TokensShowTheirSignIn',
         NEW client \in Client, NEW resource \in Resources, Authorize(client, resource)
  PROVE  Promise!Next
<1> DEFINE login   == minted + 1
           pending == [client |-> client, resource |-> resource,
                       target |-> TargetFromResource(resource),
                       expires_at |-> now + LoginTtl]
           logins  == Put(pending_logins, login, pending)
           asked   == [client |-> client, resource |-> resource]
<1>1. /\ minted' = login /\ SweepExpiredTokens /\ UNCHANGED history
      /\ pending_logins' = SweepPending(logins)
  BY DEF Authorize
<1>2. minted' \in Nat /\ minted < minted'
  BY <1>1 DEF IInv, Counters
<1>3. Promise!Shrinks(Running', Running)
  <2>1. LiveTokens' \subseteq LiveTokens
    BY <1>1 DEF SweepExpiredTokens, LiveTokens, Pop, Restrict
  <2> QED BY <1>1, <2>1, RemovalEndsSessions, SessionsShrink
<1>4. Promise!Shrinks(Opened', Put(Opened, minted', asked))
  <2>1. /\ DOMAIN pending_logins' \subseteq DOMAIN logins
        /\ \A l \in DOMAIN pending_logins' : pending_logins'[l] = logins[l]
    BY <1>1, SweepPendingRemoves
  <2>2. /\ DOMAIN logins = DOMAIN pending_logins \cup {login}
        /\ logins[login].client = client
        /\ logins[login].resource = resource
        /\ \A l \in DOMAIN pending_logins : l # login => logins[l] = pending_logins[l]
    BY DEF Put
  <2>3. /\ DOMAIN Put(Opened, minted', asked) = DOMAIN pending_logins \cup {login}
        /\ Put(Opened, minted', asked)[login] = asked
        /\ \A l \in DOMAIN pending_logins :
             l # login => Put(Opened, minted', asked)[l] = Opened[l]
    BY <1>1 DEF Put, Opened
  <2>4. DOMAIN Opened' = DOMAIN pending_logins'
    BY DEF Opened
  <2>5. \A l \in DOMAIN pending_logins' :
          Opened'[l] = [client |-> logins[l].client, resource |-> logins[l].resource]
    BY <2>1 DEF Opened
  <2>6. \A l \in DOMAIN pending_logins :
          Opened[l] = [client |-> pending_logins[l].client,
                       resource |-> pending_logins[l].resource]
    BY DEF Opened
  <2> HIDE DEF logins, login
  <2> QED BY <2>1, <2>2, <2>3, <2>4, <2>5, <2>6 DEF Promise!Shrinks
<1>5. Promise!Open(client, resource)
  BY <1>2, <1>3, <1>4
  DEF Promise!Open, Promise!Put, Promise!Shrinks, Put, Opened, Running, LiveLogins
<1> QED BY <1>5 DEF Promise!Next

\* A form completed after Sisense said yes: the login, if it is still there,
\* becomes a session.
LEMMA FinishLoginCompletes ==
  ASSUME IInv, TokensShowTheirSignIn, TokensShowTheirSignIn',
         NEW p \in Post, FinishLogin(p)
  PROVE  Promise!Next
<1> SUFFICES ASSUME NEW login, login = posts[p].login,
                    NEW credential, credential = posts[p].credential
             PROVE  Promise!Next
  OBVIOUS
<1> DEFINE code == minted + 1
<1>1. /\ p \in DOMAIN posts
      /\ credential.domain \in AllowedOrigins
      /\ pending_logins' = Pop(pending_logins, {login})
      /\ UNCHANGED tokens
  BY DEF FinishLogin, tokens
<1>2. /\ DOMAIN pending_logins' = DOMAIN pending_logins \ {login}
      /\ \A l \in DOMAIN pending_logins' : pending_logins'[l] = pending_logins[l]
  BY <1>1 DEF Pop, Restrict
<1>3. CASE login \notin DOMAIN pending_logins
  <2>1. UNCHANGED <<minted, auth_codes, tokens, history>>
    BY <1>1, <1>3 DEF FinishLogin
  <2> QED BY <1>2, <2>1, QuietStep
<1>4. CASE login \in DOMAIN pending_logins
  <2> DEFINE entry == [client |-> pending_logins[login].client,
                       resource |-> pending_logins[login].resource,
                       target |-> pending_logins[login].target,
                       credential |-> credential]
  <2>1. /\ minted' = code
        /\ DOMAIN auth_codes' = DOMAIN auth_codes \cup {code}
        /\ sign_ins' = Put(sign_ins, login, entry)
        /\ grants' = Put(grants, code, [login |-> login, expires_at |-> now + CodeTtl])
    BY <1>4 DEF FinishLogin, IssueCode, Put
  <2>2. /\ LiveTokens' = LiveTokens \cup {code}
        /\ code \notin LiveTokens
        /\ LiveTokens \subseteq DOMAIN grants
    BY <1>1, <2>1 DEF tokens, LiveTokens, IInv, Counters, TokenInv, TokenTypeOK
  <2>3. /\ \A t \in LiveTokens : grants'[t] = grants[t]
        /\ grants'[code].login = login
    BY <2>1, <2>2 DEF Put
  <2>4. LiveLogins' = LiveLogins \cup {login}
    BY <2>2, <2>3 DEF LiveLogins
  <2>5. login \notin LiveLogins
    BY <1>4 DEF LiveLogins, IInv, LoginInv, PendingIsNotDone, TokenInv, TokenTypeOK
  <2>6. /\ \A l \in LiveLogins : sign_ins'[l] = sign_ins[l]
        /\ sign_ins'[login] = entry
        /\ entry.client = pending_logins[login].client
        /\ entry.resource = pending_logins[login].resource
        /\ entry.credential = credential
    <3>1. LiveLogins \subseteq DOMAIN sign_ins
      BY DEF LiveLogins, IInv, TokenInv, TokenTypeOK
    <3> QED BY <3>1, <2>1, <2>5 DEF Put
  <2>7. \A l \in LiveLogins' : Shown(l)' = [clients     |-> {sign_ins'[l].client},
                                           resources   |-> {sign_ins'[l].resource},
                                           credentials |-> {sign_ins'[l].credential}]
    BY DEF TokensShowTheirSignIn, Started
  <2>8. /\ \A l \in LiveLogins : Shown(l)' = Shown(l)
        /\ Shown(login)' = [clients     |-> {Opened[login].client},
                            resources   |-> {Opened[login].resource},
                            credentials |-> {credential}]
    <3> HIDE DEF entry
    <3>1. \A l \in LiveLogins : Shown(l)' = Shown(l)
      <4> SUFFICES ASSUME NEW l \in LiveLogins PROVE Shown(l)' = Shown(l)
        OBVIOUS
      <4>1. Shown(l)' = [clients     |-> {sign_ins'[l].client},
                         resources   |-> {sign_ins'[l].resource},
                         credentials |-> {sign_ins'[l].credential}]
        BY <2>4, <2>7
      <4>2. Shown(l) = [clients     |-> {sign_ins[l].client},
                        resources   |-> {sign_ins[l].resource},
                        credentials |-> {sign_ins[l].credential}]
        BY DEF TokensShowTheirSignIn, Started
      <4>3. sign_ins'[l] = sign_ins[l]
        BY <2>6
      <4> QED BY <4>1, <4>2, <4>3
    <3>2. /\ Opened[login].client = entry.client
          /\ Opened[login].resource = entry.resource
      BY <1>4, <2>6 DEF Opened
    <3>3. Shown(login)' = [clients     |-> {sign_ins'[login].client},
                           resources   |-> {sign_ins'[login].resource},
                           credentials |-> {sign_ins'[login].credential}]
      BY <2>4, <2>7
    <3>4. /\ sign_ins'[login].client = entry.client
          /\ sign_ins'[login].resource = entry.resource
          /\ sign_ins'[login].credential = credential
      BY <2>6
    <3>5. Shown(login)' = [clients     |-> {Opened[login].client},
                           resources   |-> {Opened[login].resource},
                           credentials |-> {credential}]
      BY <3>2, <3>3, <3>4
    <3> QED BY <3>1, <3>5
  <2>9. Running' = Put(Running, login, [clients |-> {Opened[login].client},
                                        resources |-> {Opened[login].resource},
                                        credentials |-> {credential}])
    BY <2>4, <2>8 DEF Running, Put
  <2>10. Opened' = Pop(Opened, {login})
    BY <1>2 DEF Opened, Pop, Restrict
  <2>11. minted' \in Nat /\ minted <= minted'
    BY <2>1 DEF IInv, Counters
  <2>12. login \in DOMAIN Opened
    BY <1>4 DEF Opened
  <2>13. credential \in {k \in Credential : k.domain \in AllowedOrigins}
    BY <1>1 DEF IInv, LoginInv, LoginTypeOK
  <2>14. Promise!Complete(login, credential)
    BY <2>9, <2>10, <2>11, <2>12
    DEF Promise!Complete, Promise!Put, Promise!Pop, Promise!Restrict, Put, Pop, Restrict,
        Opened, Running, LiveLogins
  <2> QED BY <2>12, <2>13, <2>14 DEF Promise!Next, Opened
<1> QED BY <1>3, <1>4

\* Tokens that expire, are swept or revoked, and a restart, only end sessions.
LEMMA TokensEnd ==
  ASSUME IInv, TokensShowTheirSignIn, TokensShowTheirSignIn',
         LiveTokens' \subseteq LiveTokens, UNCHANGED <<minted, pending_logins, history>>
  PROVE  Promise!Next
<1>1. minted' \in minted..MaxSecrets /\ pending_logins' = pending_logins
  BY DEF IInv, Counters
<1> QED BY <1>1, RemovalEndsSessions, EndStep DEF IInv

\* Exchanging a code or a refresh token goes on with its session.
LEMMA TokensContinue ==
  ASSUME IInv, TokensShowTheirSignIn, TokensShowTheirSignIn',
         NEW token \in LiveTokens, NEW spent, NEW client, NEW resource, NEW credential,
         MintPair(spent, grants[token].login, client, resource, credential),
         DOMAIN auth_codes' \subseteq DOMAIN auth_codes,
         UNCHANGED <<pending_logins, sign_ins>>
  PROVE  Promise!Next
<1>1. /\ LiveLogins' \subseteq LiveLogins
      /\ minted' \in minted..MaxSecrets
  BY MintPairKeepsSessions
<1>2. pending_logins' = pending_logins /\ sign_ins' = sign_ins
  OBVIOUS
<1> QED BY <1>1, <1>2, EndStep DEF IInv

LEMMA TokenStepsEndOrContinue ==
  ASSUME IInv, TokensShowTheirSignIn, TokensShowTheirSignIn', TokenStep
  PROVE  Promise!Next
<1> USE DEF LiveTokens
<1>1. ASSUME NEW code \in DOMAIN auth_codes, LoadExpiredCode(code) PROVE Promise!Next
  BY <1>1, TokensEnd DEF LoadExpiredCode, Pop, Restrict, tokens
<1>2. ASSUME NEW code \in DOMAIN auth_codes, ExchangeAuthorizationCode(code)
      PROVE  Promise!Next
  <2>1. DOMAIN auth_codes' \subseteq DOMAIN auth_codes
    BY <1>2 DEF ExchangeAuthorizationCode, Pop, Restrict
  <2>2. MintPair({code}, grants[code].login, auth_codes[code].client,
                 auth_codes[code].resource, Get(credentials, code, NoCredential))
    BY <1>2 DEF ExchangeAuthorizationCode
  <2>3. UNCHANGED <<pending_logins, sign_ins>>
    BY <1>2 DEF ExchangeAuthorizationCode
  <2> QED BY <2>1, <2>2, <2>3, TokensContinue
<1>3. ASSUME NEW refresh \in DOMAIN refresh_tokens, LoadExpiredRefreshToken(refresh)
      PROVE  Promise!Next
  BY <1>3, TokensEnd DEF LoadExpiredRefreshToken, RevokeInternal, Pop, Restrict
<1>4. ASSUME NEW refresh \in DOMAIN refresh_tokens, RejectScopes(refresh) PROVE Promise!Next
  BY <1>4, TokensEnd DEF RejectScopes, vars, tokens
<1>5. ASSUME NEW refresh \in DOMAIN refresh_tokens, ExchangeRefreshToken(refresh)
      PROVE  Promise!Next
  <2>1. MintPair({refresh} \cup Linked(refresh), grants[refresh].login,
                 refresh_tokens[refresh].client, PriorResource(refresh),
                 Get(credentials, refresh, NoCredential))
    BY <1>5 DEF ExchangeRefreshToken
  <2>2. UNCHANGED <<auth_codes, pending_logins, sign_ins>>
    BY <1>5 DEF ExchangeRefreshToken
  <2> QED BY <2>1, <2>2, TokensContinue
<1>6. ASSUME NEW access \in DOMAIN access_tokens, RevokeToken(access) PROVE Promise!Next
  BY <1>6, TokensEnd DEF RevokeToken, RevokeInternal, Pop, Restrict
<1> QED BY <1>1, <1>2, <1>3, <1>4, <1>5, <1>6 DEF TokenStep

LEMMA LoginStepsCompleteOrEnd ==
  ASSUME IInv, TokensShowTheirSignIn, TokensShowTheirSignIn', LoginStep
  PROVE  Promise!Next
<1>1. ASSUME ShowLogin PROVE Promise!Next
  BY <1>1, SweepPendingRemoves, QuietStep DEF ShowLogin
<1>2. ASSUME NEW p \in Post, FailLogin(p) PROVE Promise!Next
  BY <1>2, QuietStep DEF FailLogin
<1>3. ASSUME NEW p \in Post, NEW login, NEW csrfMatches, NEW ip, NEW formDomain, NEW user,
             SubmitLogin(p, login, csrfMatches, ip, formDomain, user)
      PROVE  Promise!Next
  <2>1. /\ UNCHANGED <<minted, auth_codes, tokens, history>>
        /\ pending_logins' = SweepPending(pending_logins)
    BY <1>3 DEF SubmitLogin
  <2> QED BY <2>1, SweepPendingRemoves, QuietStep
<1> QED BY <1>1, <1>2, <1>3, FinishLoginCompletes DEF LoginStep

LEMMA StepsKeepThePromise ==
  ASSUME IInv, TokensShowTheirSignIn, TokensShowTheirSignIn', [Next]_vars
  PROVE  Promise!Next
<1>1. CASE Tick
  BY <1>1, QuietStep DEF Tick
<1>2. CASE Restart
  <2>1. /\ LiveTokens' = {} /\ DOMAIN pending_logins' = {} /\ minted' = minted
    BY <1>2 DEF Restart, EmptyDict, LiveTokens
  <2>2. LiveLogins' = {} /\ minted' \in minted..MaxSecrets
    BY <2>1 DEF LiveLogins, IInv, Counters
  <2> QED BY <2>1, <2>2, EndStep DEF IInv
<1>3. CASE AuthorizeStep
  BY <1>3, AuthorizeOpens DEF AuthorizeStep
<1>4. CASE LoginStep
  BY <1>4, LoginStepsCompleteOrEnd
<1>5. CASE TokenStep
  BY <1>5, TokenStepsEndOrContinue
<1>6. CASE UNCHANGED vars
  BY <1>6, TokensEnd DEF vars, LiveTokens, tokens
<1> QED BY <1>1, <1>2, <1>3, <1>4, <1>5, <1>6 DEF Next

LEMMA InitKeepsThePromise == Init => Promise!Init
<1> SUFFICES ASSUME Init PROVE Promise!Init
  OBVIOUS
<1>1. minted = 0 /\ DOMAIN pending_logins = {} /\ LiveTokens = {}
  BY DEF Init, EmptyDict, LiveTokens
<1> QED BY <1>1 DEF Promise!Init, Promise!EmptyDict

\* The provider implements Sessions: through every interleaving, expiry, sweep,
\* revocation, rotation and restart, a session starts by completing an open login,
\* once, and shows one client, one resource and one credential until it ends.
THEOREM ProviderImplementsSessions == Spec => ImplementsSessions
<1>1. IInv /\ IInv' /\ [Next]_vars => Promise!Next
  <2>1. IInv' => TokensShowTheirSignIn'
    BY ShownIsStarted, PTL
  <2> QED BY <2>1, ShownIsStarted, StepsKeepThePromise
<1> QED BY <1>1, InductiveInvariant, InitKeepsThePromise, PTL
        DEF Spec, ImplementsSessions, Promise!Spec
=============================================================================
