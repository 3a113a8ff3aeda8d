# A verification project for fes-mcp

fes-mcp gives MCP clients (Claude and others) the PySisense SDK as tools. It is
two services: **fes-auth**, a public OAuth 2.1 authorization server whose
sign-in is a Sisense login and whose `/mcp` endpoint is a proxy, and **fes-mcp**,
an internal resource server that runs the tools with the credential the proxy
injects. A set of scripts turns the SDK into the registry and the allowlist the
tools come from. Line references are to the files of the repository
(`auth.py` is `src/fes_mcp/auth.py`, `README.md:n` is the repository's).

## The system: components, state, operations

| component | state | operations | what makes it hard |
|---|---|---|---|
| `_RateLimiter` (auth.py:77) | timestamps of admitted calls per IP | `allow`, with a cleanup beyond 10 000 keys | windows, cleanup in the middle of one |
| `SisenseAuthProvider` (auth.py:285) and the base class of fastmcp | pending logins; codes, access and refresh tokens; two maps that pair them; the vault `_credentials` | `authorize` (with two sweeps), `GET/POST /login`, code exchange, rotation, revocation, lazy expiry, restart | two POSTs at a time wait for Sisense; credentials live under several keys; expiry is handled in five places |
| proxy `proxy_mcp` (authserver.py:130) | none of its own; each request holds what it read | forward, 401, 502, stream | two suspension points, sessions change meanwhile |
| `UpstreamTokenVerifier` (upstream.py:47) | verified pairs with expiry, LRU, bounded | `verify_token`, `_is_verified` | one await; answers late and out of order |
| `SisenseTool.run` (server.py:125) | none | confirmation in two protocol generations, dispatch to a worker thread | answers come back with other calls |
| the default thread pool of the event loop | jobs in order of arrival | `asyncio.to_thread` around SDK calls and token checks | few threads, slow calls, dialogs that wait for a human |
| `SisenseDispatcher` (dispatcher.py:75) | cached SDK clients, LRU, bounded | `invoke`, `_get_bundle`, `_resolve_references` | threads, users sharing the cache |
| registry and allowlist at start (registry.py, settings.py) | the selected tools | `load_registry`, `select_tools` | reads files that scripts overwrite |
| 01 build, 03 reconcile, 02 examples (scripts/) | three files under config/ | rebuild, port, merge, deprecate, stage, generate | files overwritten in place, runs that are killed, people editing |
| schemas: 01's docstring parsers and derivation of parameter schemas, the field descriptions laid over them at start, coercion and validation in the dispatcher, 06's capture of output schemas | the parameter schema in the registry; `output_schemas.json` | rebuild, coerce, validate; capture, merge, write | two docstring styles, unions, guesses and nested payloads; captures merged in any order, kills |
| 04 eval, 05 smoke test, tool descriptions, logging | none that matters after start | | not modelled |

How they interact: the client's `?target=` reaches `authorize` as a resource
indicator; `/login` checks a form with Sisense and puts a credential into the
vault under the new code; exchange and rotation move it to new tokens; the proxy
looks it up by access token and injects it as `Authorization` and
`X-Sisense-Url`; the verifier checks that pair with Sisense, or remembers it;
the tool call reads the credential from the verified token and runs the SDK with
it; a 401 of the verifier travels back through the proxy, which revokes the
session. The scripts share only files with each other and with the server's start.

## The modules

| module | models | state and actions against the code |
|---|---|---|
| `Dicts` | Python dictionaries: `Get`, `Put`, `Pop`, `Keep` | |
| `SlidingWindow` | what `_RateLimiter.allow` computes | used by `RateLimiter` and by `SisenseAuth` for `/login` |
| `RateLimiter` | the limiter alone, with the history of admitted calls | `Allow(key)` is a call; it never suspends, so it is one step |
| `Sessions` | what the provider promises: logins, one session each, what a session shows | `Open`, `Complete`, `End`; no tokens, clocks or handlers |
| `SisenseAuth` | the provider | a variable per attribute (names in the comments of `VARIABLES`); an action per handler, with what the base class does. `POST /login` is `SubmitLogin`, then `FinishLogin` or `FailLogin`: it is the only handler that suspends between reading and writing the state |
| `UpstreamVerifier` | the verifier, with Sisense answering, failing and revoking | `VerifyToken`, `SisenseAnswers`, `Accept`/`Refuse`: before, during and after the one await |
| `FesSystem` | both services, Sisense and the clients: `INSTANCE SisenseAuth` and `INSTANCE UpstreamVerifier`, and the proxy between them | `Forward`, `Unreachable`, `Receive`, `Resume`, `Reject`, `Respond` are the stations of a call; either service restarts |
| `ToolCalls` | the token check, the confirmation gate and the dispatcher, with the threads they share | `Arrive`, `Run`, `Elicited`, `ElicitFails` on the event loop; `Verify`, `Rejected`, `GetBundle`, `ResolveReferences`, `Invoke`, `DispatchError` in a worker thread, which `TakesUp` gives out in the order of the queue |
| `ToolSurface` | the files, the scripts, the editors, the server start | `IsMutating` and `Registry` are 01, `Reconcile` and `Merge` the pure parts of 03; 02 one tool at a time (`ReuseExamples`, `GenerateExamples`) or as a batch (`SubmitBatch`, `PollBatch`, `ApplyResults`, `FallBackJob`); a step per file written, each of which may be torn |
| `JsonAtoms` | the nodes of JSON values, and the types a schema names | used by the next two |
| `JsonSchemas` | JSON values as nested records, schemas as dictionaries, `Conforms` (jsonschema.validate) | used by `InputContracts` |
| `JsonTrees` | JSON values as functions from paths to nodes, schemas as functions from places to types | used by `OutputSchemas` |
| `DocStrings` | 01's two docstring parsers | a fold over the lines: `GoogleLine` and `NumpyLine` are a pass of the loops of the two functions, on what their patterns tell apart in a line |
| `InputContracts` | a method and the parameter schema 01 derives from it, the descriptions `load_registry` lays over it; the arguments that reach the SDK | `SchemaFromAnnotation`, `ParameterSchema`, `ApplySchemaRules`, `ApplyFieldDescriptions`, `CoerceJsonStrings`, `Dispatched` translate the functions of these names; `Rebuild` is an upgrade with the refresh after it |
| `OutputSchemas` | 06: the capture loop over the read tools, its file, `InferSchema` and `MergeSchemas`; `Accepts` is jsonschema.validate of a result | an action per tool of the loop, the write, a kill anywhere |
| `ToolContracts` | the two contracts of a tool together | a refresh leaves the captured schemas alone |
| `*Proofs` | theorems about the module of the name | |
| `SequenceLemmas` | what the proofs share: sequences as lists, queues and LRU orders; induction; recursive functions | |
| `MC*` | values of the constants for TLC | |

JSON has two forms. Arguments are nested records (`JsonSchemas`), as the code that
coerces and validates them takes them apart one level at a time, and parameter
schemas have unions, enums and required keys. Results are trees (`JsonTrees`): a function
from the *paths* of the value, sequences of keys and item numbers, to what is found
there. The schemas 06 infers say nothing but `type`, `properties` and `items`, so such a
schema is a function from *places*, paths with all item numbers replaced by one, to
the types allowed there; the properties of an object are the places one key below
it. `merge_schemas`, which the code writes as a recursion over two schemas, is then
one expression over places: a place of only one of them is taken over with all below
it, a place of both gets the union of the types, unless an object above it that is in
both has its properties dropped (`KeepsProperties`, the two branches of 06:80-88).
`infer_schema` stays a recursion, over the paths of the value. This form is what the
proofs about schemas are possible in: a tree has no depth to recurse over.

Conventions of the models. Random strings (codes, tokens, login ids) are numbers
in the order they are minted. A handler is atomic between two awaits that
suspend. Clocks move by `Tick`. A form is reduced to a Sisense account and
the TLS choice, a URL to a member of a set. What a person types, a
service answers or an SDK call returns is chosen with `\E`. Definitions called
*Mutant* in the comments are plausible mistakes of the code that no
specification uses: each is what the property named beside it must detect.

## The runs, and what they show

| run | question | bounds | result |
|---|---|---|---|
| `rate_limiter` | Is the limit kept in every window, and nobody refused without cause? | 3 addresses, 2 attempts in 2 ticks, cleanup beyond 2 keys, 5 ticks: an address is dropped by the cleanup and comes back inside a window | holds |
| `login` | Does one sign-in give one session, with a credential of the right instance, under concurrent forms and a flood? | 2 POSTs at a time, 2 accounts, 3 instances of which one is not allowed, 4 secrets, 2 pending logins: two logins race, one is evicted, one times out | holds |
| `tokens` | Do tokens, vault and audience stay together through exchange, rotation, rejected scopes, expiry, revocation and sweeps? | 8 secrets: two sessions, or one that rotates twice; every combination of expired and live. The same run checks that `SisenseAuth` implements `Sessions` | holds |
| `orphans` | Does the sweep leave no credential without a token (auth.py:362)? | as `tokens` | **violated**, finding 1 |
| `upstream_verifier` | Does a revocation take effect within `verify_ttl`, whatever the order of answers? | 2 requests, 3 tokens, memory of 1, ttl 2, 4 instants | holds |
| `system` | The same end to end: whose credential runs, when it stops, who loses a session | 1 user, 1 session (of 6 secrets) that rotates once, 1 call, forged headers, 2 origins, restarts of both; two users and their 401s are left to the theorems | holds |
| `system_live` | Is a client that keeps calling, and does not rotate for ever, rid of a dead credential at last? | 1 user, 1 call, 8 secrets, that is a session that rotates twice, or two sign-ins, one after each start of fes-auth; no resource indicator; 2 instants; 0.1 million states | holds under `FairSpec` |
| `system_tls` | Does the TLS choice of the sign-in reach the tool (credentials.py:3)? | as `system` | **violated**, finding 2 |
| `surface` | Is nothing served that nobody chose, torn lines aside, nothing forgotten, reconcile idempotent, no examples on two tools, no old entry in a new registry? | 5 tools, 3 releases (a rename, a tool that is similar to two others, a deprecated alias, a read that becomes a write), 2 upgrades, 1 edit, 3 edits and example runs together, any number of refreshes; an example run is sequential or a batch with results in any order and some missing; kills and torn JSON files anywhere, 1 allowlist torn between lines, inside one or inside a character; 2.3 million states | holds |
| `examples_resume` | Does an example run keep what was there (02:415)? | save every 2 tools | **violated**, finding 3 |
| `contracts` | Does what a signature, or else its documentation, means get through the schema that is advertised for it, and nothing its contract rules out? Is each parameter advertised with its own words? Do captured output schemas accept what was captured, whatever the order? | methods of one to three parameters with every form of annotation, docstrings in both styles, 18 argument values; 3 captures, 13 results with 7 keys between them, depth 2, 2 sampled items, 2 properties; 0.3 million states | holds |
| `tool_calls` | Are mutations approved, does everybody run with their own credential, and is every call answered, dialogs that nobody answers aside? | 2 calls, 3 connections (modern, legacy, without dialogs), 2 users, cache of 1, pools of 1 and 2 threads | holds |

Why the bounds are enough: each race in question is between two actors (two
POSTs, a rotation and a call, two worker threads), so two of each suffice; the
lifetimes are chosen so that every order of expiries occurs (access before
refresh, login before code, a verification before and after a revocation); caches
hold one entry so that eviction happens at the second. `MaxTime`,
`MaxSecrets`, `MaxUpgrades`, `MaxEdits`, `MaxTears`, `MaxInterventions` and `MaxCaptures` bound the counters
and are named as such; runs with such a counter end when it is spent, therefore
`CHECK_DEADLOCK FALSE` where that is a deadlock.

`AuthorizeAdmits`, `SweepSparesLiveSessions`, `SessionLossIsEarned`,
`OnlyChosenToolsAreServed`, `EveryToolIsFiled` and `RefusalIsEarned` are action
properties: what a step may never do. `ImplementsSessions` is a refinement,
`DeadCredentialLeaves` and `CallsAreAnswered` are liveness properties, and the
others are invariants.

### The abstract specification

`Sessions` says what signing in promises: a login is opened under a new number,
an open login is completed at most once, with a credential the deployment allows,
and starts one session; until the session ends, everything issued for it shows one
client, one resource and one credential, those of the login. `SisenseAuth`
implements it under the mapping `last <- minted`, `open <-` what the pending logins
asked, `sessions <- [l \in logins of live tokens |-> Shown(l)]`: a session is the *set* of
clients, resources and credentials that its live code, access and refresh tokens
show. A rotation that lost the audience, a token that reached another credential, or a
second code for one login is a step that `Sessions` does not have.

### Fairness

`FairSpec` of `FesSystem` assumes:

* a handler that can go on does (weak fairness of `SisenseAnswers`, `Resume` and
  `Respond`: a coroutine that is ready runs, and Sisense answers or the connection
  times out);
* a call that is made again and again gets through at last (strong fairness of `Receive`,
  of `Reject`, and of the answer of Sisense and the end of the check while the proxy waits
  for them). Weak fairness says too little: a call may fail with a 502 at any
  point of its way (`Unreachable`), and either service may restart; each retry is another
  occasion;
* somebody keeps calling with each credential that has a session (strong fairness of
  `ForwardWith`, per credential and not per token, as every rotation makes a new token).
  The proxy learns of a dead credential from a call alone: sessions nobody uses keep theirs
  until they expire;
* `RotationsCease`: from some moment on, no new refresh token is made for a dead
  credential. Without it the property is false of the code, with any fairness of the
  services: a client that rotates between every 401 of fes-mcp and the proxy's second lookup
  (authserver.py:186) makes that lookup miss each time, and the new pair has the same
  credential. Clients do not behave like that: they rotate when an access token is about to
  expire, and the gap is the end of one HTTP response. The bound
  `MaxSecrets` implies the assumption in any one instance, so it is stated and not left to the
  bound: the property checked is that one session may win the race any finite
  number of times, and the instance lets it win twice.

It assumes nothing of sign-in, restarts, time and the moments of the rotations.

`Spec` of `ToolCalls` has weak fairness of `ThreadStep`: a free thread takes up the
oldest job, and a job ends, since Sisense answers or the connection times out.
Nothing makes a human answer a dialog or a client call; `CallsAreAnswered` is
about the calls that wait for a thread, and says that a dialog without an answer
holds up nobody else's.

### Findings

1. `orphans`. Sweeps find credentials through live codes and access tokens
   only. A code that has expired and is presented once more is deleted by the base
   class, its credential stays in `_credentials` until the process ends; the same
   holds for an expired refresh token and its pair.
2. `system_tls`. The proxy injects the token and the domain; the self-signed
   choice is stored with the credential and lost there. fes-mcp uses
   `SISENSE_SSL_VERIFY` for everybody.
3. `examples_resume`. A sequential run saves the tools processed so far over the
   whole file, and skips the save for tools whose examples it reuses; if the last
   tools are such, it ends with a truncated registry.

Met on the way and not made a run, although it is the most serious: 03_reconcile.py:2
("without ever exposing a tool automatically") and allowlist.txt:4-5 are not true of a
refresh that is killed. `allowlist_path.write_text` (03_reconcile.py:265) writes some 17 KB in place,
and what remains can end inside a line. An active `datamodel.get_datasecurity_detail` cut
short is `datamodel.get_datasecurity`, which allowlist.txt:91 hides on purpose, and a
line cut to `dashboard` is a module name, with which the server offers every tool of the
module (registry.py:171, 185). `ToolSurface` has these cuts (`Remnants`), and TLC finds
the promise as the file states it violated within a refresh, an edit and a
server start. `OnlyChosenToolsAreServed` therefore says what is true: nothing is offered
unasked but through such a remnant (`remains`), until somebody edits or a refresh moves the
line. A cut inside a character makes the file unreadable: the server and the next refresh
fail (`StartServer`, `FailOnGarbled`) until somebody repairs it.

Met on the way, too: the limiter's table can exceed its
threshold while more addresses than that call within one window (auth.py:90); a
module name in the allowlist exposes tools that have no line (registry.py:185);
the fingerprint of a confirmation covers the arguments and not the tool
(server.py:107), so `MutationsAreApproved` is about the arguments; titles are
resolved after the approval (dispatcher.py:142); a staged allowlist line whose
tool leaves the SDK moves without the `[excluded: ...]` line above it
(03_reconcile.py:163), although the branch for live lines moves both (171).

The schemas have limits the properties of `contracts` name in their
preconditions. A part of an annotation that the builder does not know (`Any`, a
union of scalars, an unknown class) becomes a string inside a list or a payload
(01:299, 311); branches of a union that disagree on a field get the schema of the
first (01:268); null is refused where a signature says `Optional`. `Recognized`
leaves these out, `MeantCallsArrive` says that everything else arrives.
`ResultsConform` speaks of results within the sample that were captured: a result
of another type on another instance does fail the captured schema, which
tests/unit/test_output_schemas.py:4-6 says it cannot. A rule of `SCHEMA_RULES` for a
parameter that the SDK has renamed advertises one that the SDK does not take
(01:792).

## The proofs

TLAPS proves the following for all values of the constants, from the named
assumptions of the modules only (`LimiterConstants`, `ClockBound`, `ProviderConstants`,
`VerifierConstants`, `CallConstants`, `SystemConstants`, `SurfaceConstants`,
`FirstAllowlistIsOne`, `OutputConstants`: counters are naturals, sets contain what they should, an access
token lives no longer than a refresh token; the constants of the composition satisfy
those of its two parts; a release is a finite set of tools; the first allowlist is a
file of allowlist lines with nothing active under the DEPRECATED header, as the
repository's is, which has no such header; a result is a JSON value, and a limit on
samples or properties is positive). Every safety property of a passing run is
stated by a theorem, those about parameter schemas excepted.

* `RateLimiterProofs`: `TableIsBounded` (type correctness), `LimiterIsSound` (`WindowBound`),
  `LimiterIsFair` (`RefusalIsEarned`). The inductive invariant says that the
  table holds *only* admitted calls and *all* of those still in the window: so
  what the cleanup drops is outside every window that can still be counted. The
  bound alone is not inductive, since a table that forgot a call would admit one
  too many.
* `UpstreamVerifierProofs`: `VerifierTypes`, `VerifierMemoryIsBounded`
  (`MemoryIsBounded`), `VerifierFailsClosed`, `RevocationIsTimely`. The LRU order is a
  list of the remembered pairs without repetition, so its length is their number. The
  invariant follows one time stamp: a request arrives before Sisense accepts its
  pair, so an expiry counted from the arrival exceeds the last acceptance by at
  most `VerifyTtl`; and Sisense accepts nothing after a revocation. It needs no bound on
  requests in flight and holds whatever is evicted.
* `SisenseAuthProofs`: `TypeCorrect`, `SessionsAreNeverStranded`,
  `AudienceIsNeverLost`, `LoginIsUsedOnce`, `VaultIsConfined`,
  `RevocationReachesTheVault`, `SweepIsHarmless`, `FloodIsBounded`
  (`AuthorizeAdmits`). The invariant is the
  conjunction of `LoginInv` (a pending login is not completed; a handler that waits
  holds what the login says) and `TokenInv` (kinds of tokens are disjoint, the two
  maps are inverse, expiries are recorded, the vault is faithful). Every action
  on tokens is one of three kinds: it removes tokens in whole pairs, issues a
  code, or replaces spent tokens by a pair; each kind has its lemma.
  `FloodIsBounded` counts: the number of logins that would be evicted after a login
  differs from one login to the next, so at most `MaxPending` of them have less than
  `MaxPending` behind them; and as no login outlives one opened now, the new one has none.
  `ProviderImplementsSessions`, in the last part of the module, is the refinement. By the
  invariant, what the live tokens of a login show is what the history says of it; an
  `/authorize` then maps to `Open`, a finished form to `Complete`, everything else to `End`.
* `ToolCallsProofs`: `CallsTypes`, `GateHolds` (`MutationsAreApproved`), `ClientsAreNotMixedUp`
  (`RunsWithOwnCredential`). The invariant adds that an answer a call carries was
  given at its connection, and that a cached client was built with the credential
  it is filed under; neither depends on the order of the queue or the cache.
* `FesSystemProofs`: the composition. `SystemRunsTheProvider` and
  `SystemRunsTheVerifier` say that every behaviour of the system is one of each
  service, so both keep the inductive invariants proved of them alone. What is new is
  an invariant of the calls in between. `CallsInv`: a call carries the pair of the
  sign-in of its token, also when the token is gone, what fes-mcp checks for it is that
  pair, and a rejected call's pair was refused; it gives `SystemTypeCorrect`
  and `ToolsRunAsSignedIn`. `CallsAreYoung`: a check begins after its call, so the
  acceptance behind a running call is younger than `VerifyTtl` at the call's
  arrival; with the verifier's invariant it gives `RevocationReaches`.
  `SessionLossesAreEarned` splits on the step that takes a refresh token away: a
  client's (`SessionsGoOn`), the proxy's (`RevocationIsPrivate`), a restart.

* `ToolSurfaceProofs`: `SurfaceTypes`, `ExamplesStayWithTheirTool`
  (`ExamplesBelongToOneTool`), `FlagsAreOfOneRelease` (`RegistryIsOfOneRelease`),
  `ReconcilingTwiceIsOnce` (`ReconcileIsIdempotent`), `RefreshFilesEveryTool`
  (`EveryToolIsFiled`), `NothingIsExposedUnasked` (`OnlyChosenToolsAreServed`). The
  inductive invariant has three parts.
  - `TypeInv`: the shape of the files and of the running script; a script runs only
    while the flat registry is whole.
  - `ExampleInv`: what an example run has in memory is, entry by entry, either nothing,
    fresh, or what it found (`RunInv`), so that a save in the middle, a batch with
    results missing and the save at the end all leave a registry in which no two tools
    share examples and whose flags are of one release.
  - `ConsentInv`: every active line is a tool somebody chose or a remnant of a torn
    line, every module line was there at first or is a remnant, and nothing under the
    DEPRECATED header is active (`RemnantFacts`: what a cut leaves of a commented line is
    not active). The last clause is what makes the rest inductive: a tool that left and comes back gets its
    line from that section, and must get it commented out.

  Most of the work is about one file of lines. `Reconcile` writes a file of three parts
  (`File`: lines kept, lines gone, lines staged, none of them a header), and `FileParts`
  says that the sections of that file read back as those parts. It gives that reconcile files every tool, activates nothing, and, since a second run keeps
  what the first has written, in order, is idempotent. For an edit or a torn write,
  `SameSection` says that a line's section is that of the last header above it, which
  inserting or deleting a line elsewhere, or cutting the file off, does not change for the
  lines that stay.
* `OutputSchemasProofs`: `OutputTypes`, `SchemasDoNotDependOnOrder` (`SchemasAreOrderFree`),
  `CapturedResultsConform` (`ResultsConform`), for results of any depth and width. The
  reference is not a merge: a result is reduced to its *sightings* (the place,
  the type and whether an object there is closed, that is too deep, empty or too large to
  keep its keys), and `Shape` says directly what a set of sightings allows: the types
  seen at each place that lies in no object seen closed. A union of sets has no
  order, so it is enough that the code computes that.
  - `MergeOfShapes`: the merge of two shapes is the shape of the union. It needs `Sound`
    of both: a place is seen together with the objects it lies in, a closed sighting is
    an object, and an open object has a property. Without the last part the lemma is false: an
    object with no properties in the schema is how the code recognizes a closed one.
    `MergeKeeps` and `MergeDrops` are its halves: a place survives the merge when no
    object around it is closed in either, and only then (take the outermost one that is).
  - `TogetherOfShapes` and `MergeAllOfShapes` carry this to an object, whose properties are
    apart from each other, and to an array, whose items all go to one place.
  - `InferSchemaIsWanted`: what is inferred below each path of a result is the shape of
    what is seen there. `infer_schema` is a recursive function over paths that
    start from the leaves; as the paths of a tree are finitely many, there is a longest
    (`PathsAreBounded`), and the argument is an induction on how much longer a path can get.
  - `SchemaForResultIsShape` adds the wrapper `{"result": ...}` and the top level, where
    null is not allowed; `CaptureDistills` adds one capture to what the file stands for.
  - `OutputInv`, the inductive invariant: the schemas of the file are the shapes of the results
    distilled into it, those of the run under way the shapes of the results distilled into it so
    far, and a torn file stands for nothing. Order-freedom of the file alone is not
    inductive, since the next write comes from the run. TLC agrees with it on the
    instance of `contracts`.
  - `ShapeAccepts`: a shape allows at each place of a fully sampled result the type that was
    seen there, and the top level is an object.

  The theorems are about `OutputSpec`. A behaviour of `ToolContracts` is one of `OutputSpec` on
  `outputVars`, since its other steps leave those unchanged; that is evident from its `Next` and not a
  theorem, as the module reaches the `RECURSIVE` operators of `InputContracts`.
* `SequenceLemmas`: `Induction` and `BoundedInduction` over the naturals, stated of a set
  of numbers in place of a predicate, which the provers can instantiate; `Recursion`,
  that a recursive function on the naturals satisfies its equation (`LinesAt` and
  `SortLive`, the loops of 03, are of this kind); and what removing, inserting,
  appending and concatenating do to the set of elements.

Only model-checked: what is said of parameter schemas (`MeantCallsArrive`,
`IncompleteCallsAreStopped`, `DocumentationArrives` and `TypeOK` of `ToolContracts`, which is
`OutputTypeOK`, proved, and its counterpart for the input), and liveness. A parameter schema is derived
by recursion over annotations and values of any depth, with `RECURSIVE` operators, which a
module with a theorem cannot reach, and what such a recursion computes for every
input takes an induction over data that the provers cannot instantiate. The schemas of
results escape this only since they can be written as functions from places; unions of branches
and required keys have no such form. Liveness under fairness and `ENABLED` are beyond the
prover: `DeadCredentialLeaves` and `CallsAreAnswered` stay with TLC.

## Abstractions a reader should know of

* `Renders` of `ToolCalls` is what the probe of server.py:86-95 answers, and not what the
  client can do: a probe that raises counts as "no" (94-95), and the call goes on
  without a dialog.
* `SchemaError` (dispatcher.py:239-242), after which a call goes on unvalidated, does not
  occur in `InputContracts`: every schema that 01 derives there is a valid one.
* `Unreachable` stands for every failure of `client.send` (authserver.py:177-180), also
  while fes-mcp has the request and goes on with it.
* Names a cut line may be left with are ids in `Tool`, also of tools in no release
  (those are then deprecated like any other unknown id), or modules; a cut comment
  remains one and is left out.

## Not modelled, and why

* 01's class discovery, tags and the hierarchical copy of `registry_core`: text in,
  text out; the server and the scripts read the flat file alone.
* Domain normalization, origin matching and the audience comparison: members of sets
  (`AllowedOrigins`, `RsOrigins`, `OwnResource`), since no step of the program depends
  on how a URL is spelled once it is normalized. Schema keywords that validation
  ignores (`format`), and values that are not JSON.
* Docstrings below the level of a line: what a pattern of the parsers matches in a
  line is an attribute of the line.
* Composition of tool descriptions (`descriptions.py`) and the tables of
  `schema_patches.py`: text nothing depends on, and data.
* Dynamic client registration: base class; its throttle is the limiter modelled.
* HTTP streaming, headers other than the two injected, HTML, logs.
* 04, 05: LLM and live calls (05's choice of arguments is in `OutputSchemas`).

## Plan

1. Done: limiter, provider, verifier, tool calls and the composition with proofs; the
   refinement of `Sessions`; the tool surface with both example paths; the
   contracts of a tool with its documentation.
2. Done: proofs of all safety properties but those of parameter schemas: the tool
   surface, the verifier's memory, the bound on pending logins, type correctness everywhere.
3. Done: the schemas of results, as functions from places, with the proofs that they do not
   depend on the order of captures and accept what was captured.
4. Left: parameter schemas, whose unions and nested contracts stay with TLC.
