----------------------------- MODULE ToolCalls -----------------------------
(***************************************************************************)
(* A tool call inside fes-mcp: the verification of its token, server.py,   *)
(* SisenseTool.run, which asks the human before a mutating tool runs, and  *)
(* dispatcher.py, which runs it with the SDK client of the caller's        *)
(* credential.                                                             *)
(*                                                                         *)
(* Verifications and SDK calls block, so both are handed to the default    *)
(* thread pool of the event loop, which serves them in the order they      *)
(* came.  A dialog of a legacy client suspends the call on the event loop  *)
(* and holds no thread.  A modern client is stateless: its confirmation is *)
(* a result, and the answer comes with another call; the client keeps the  *)
(* answers and may attach any of them to any later call, for its model     *)
(* changes arguments, repeats calls and makes several at a time.  Worker   *)
(* threads interleave at the lock of the client cache and at their calls   *)
(* to Sisense.                                                             *)
(*                                                                         *)
(* Validation, reference resolution and the SDK itself are outcomes.  A    *)
(* fingerprint is the arguments it is computed from: sorted JSON tells     *)
(* different ones apart.                                                   *)
(***************************************************************************)
EXTENDS Naturals, SequencesExt, Dicts

CONSTANTS
  Call,              \* slots for the calls in flight
  Conn,              \* client connections
  Modern,            \* those that negotiated the stateless protocol
  Renders,           \* those for which _supports_form_elicitation says yes: the client
                     \* declares the capability and the probe does not raise
  CredentialOf,      \* the credential that the requests of a connection carry
  NoClient,          \* a call that has no SDK client yet
  Tool, Mutates,     \* the selected tools, and those that mutate
  Args,              \* arguments, as the client sends them
  Request,           \* the calls that clients make: records of conn, tool and args
  AllowMutations,    \* settings.allow_mutations
  MaxClients,        \* MAX_CACHED_CLIENTS
  PoolSizes          \* how many threads the event loop's default pool may have

Credential == {CredentialOf[c] : c \in Conn}

ASSUME CallConstants ==
  /\ Modern \subseteq Conn /\ Renders \subseteq Conn
  /\ Mutates \subseteq Tool
  /\ Request \subseteq [conn : Conn, tool : Tool, args : Args]
  /\ DOMAIN CredentialOf = Conn
  /\ NoClient \notin Credential
  /\ AllowMutations \in BOOLEAN
  /\ MaxClients \in Nat \ {0}
  /\ PoolSizes \subseteq Nat \ {0}

VARIABLES
  workers,    \* the threads of the pool, by the CPUs of the machine
  calls,      \* the calls in flight: token check, SisenseTool.run, invoke
  queue,      \* the jobs that wait for a thread of the pool, oldest first
  answers,    \* what the humans of each connection have answered
  bundles,    \* self._bundles: the credential each cached client was built with
  recency     \* the order of self._bundles, least recently used first

vars == <<workers, calls, queue, answers, bundles, recency>>

Stage == {"unverified", "verifying", "eliciting", "approved", "connected", "resolved"}
Answer == [state : Args, value : {"proceed", "abort"}]
NoAnswer == [state |-> "none"]
Entry == [request : Request, at : Stage, answer : Answer \cup {NoAnswer},
          client : Credential \cup {NoClient}]

Init ==
  /\ workers \in PoolSizes
  /\ calls = EmptyDict
  /\ queue = <<>>
  /\ answers = [c \in Conn |-> {}]
  /\ bundles = EmptyDict
  /\ recency = <<>>
-----------------------------------------------------------------------------
(* The pool. *)

\* Mutant: the dialog is shown from inside a worker thread.
InWorkerWithDialogs == {"verifying", "connected", "resolved", "eliciting"}

\* What blocks a thread: asyncio.to_thread is around verify_api_token and
\* dispatcher.invoke, and around nothing else.
InWorker == {"verifying", "connected", "resolved"}

\* A thread is free and takes up the job of call c.
TakesUp(c) ==
  /\ c \in DOMAIN calls
  /\ queue # <<>>
  /\ c = Head(queue)
  /\ Cardinality({d \in DOMAIN calls : calls[d].at \in InWorker}) < workers
  /\ queue' = Tail(queue)

\* The call is at a point where it awaits no thread.
Await(c, request, at) ==
  /\ calls' = Put(calls, c, [request |-> request, at |-> at, answer |-> NoAnswer,
                             client |-> NoClient])
  /\ UNCHANGED queue

\* await asyncio.to_thread(...)
Offload(c, request, at, answer) ==
  /\ calls' = Put(calls, c, [request |-> request, at |-> at, answer |-> answer,
                             client |-> NoClient])
  /\ queue' = Append(queue, c)

Leave(c) == calls' = Pop(calls, {c})

Advance(c, stage) == calls' = [calls EXCEPT ![c].at = stage]
-----------------------------------------------------------------------------
(* server.py *)

\* Mutant: the answer that is attached is believed whatever it was asked for.
AnswersThisUnchecked(answer, args) == TRUE

\* "request_state != _args_fingerprint(arguments)"
AnswersThis(answer, args) == answer.state = args

\* action is "accept" and the value "proceed"
Proceeds(answer) == answer.value = "proceed"

Answered(conn, args, value) ==
  answers' = [answers EXCEPT ![conn] = @ \cup {[state |-> args, value |-> value]}]

\* A modern confirmation: the ask is the result of the call.  The human answers it
\* and the client keeps the answer, or nothing comes of it.
Ask(conn, args) ==
  \/ UNCHANGED answers
  \/ \E value \in {"proceed", "abort"} : Answered(conn, args, value)

\* The call ends on the event loop; a new one never enters.
Ends(c) == Leave(c) /\ UNCHANGED queue

Proceed(c, request) == Offload(c, request, "approved", NoAnswer)

\* run and _user_approved up to the first await.  The capability probe fails open,
\* the era probe takes an unknown era for the legacy one.
Run(c, request, answer) ==
  \/ /\ request.tool \notin Mutates
     /\ Proceed(c, request)
     /\ UNCHANGED answers
  \/ /\ request.tool \in Mutates
     /\ answer # NoAnswer
     /\ IF ~AnswersThis(answer, request.args)
        THEN Ask(request.conn, request.args) /\ Ends(c)
        ELSE /\ UNCHANGED answers
             /\ IF Proceeds(answer) THEN Proceed(c, request) ELSE Ends(c)
  \/ /\ request.tool \in Mutates
     /\ answer = NoAnswer
     /\ request.conn \notin Renders
     /\ Proceed(c, request)
     /\ UNCHANGED answers
  \/ /\ request.tool \in Mutates
     /\ answer = NoAnswer
     /\ request.conn \in Renders
     /\ \/ request.conn \in Modern /\ Ask(request.conn, request.args) /\ Ends(c)
        \/ Await(c, request, "eliciting") /\ UNCHANGED answers

\* A request arrives.  Its token was verified a moment ago, and the tool runs at
\* once, or Sisense has to be asked first.
Arrive(c, request, answer) ==
  /\ c \notin DOMAIN calls
  /\ \/ Run(c, request, answer)
     \/ Offload(c, request, "unverified", answer) /\ UNCHANGED answers
  /\ UNCHANGED <<workers, bundles, recency>>

\* A thread asks Sisense about the token.
Verify(c) ==
  /\ TakesUp(c)
  /\ calls[c].at = "unverified"
  /\ Advance(c, "verifying")
  /\ UNCHANGED <<workers, answers, bundles, recency>>

\* Sisense rejects the token or does not answer in time: 401.
Rejected(c) ==
  /\ c \in DOMAIN calls
  /\ calls[c].at = "verifying"
  /\ Leave(c)
  /\ UNCHANGED <<workers, queue, answers, bundles, recency>>

\* Sisense vouches for the token, and the tool runs.
Verified(c) ==
  /\ c \in DOMAIN calls
  /\ calls[c].at = "verifying"
  /\ Run(c, calls[c].request, calls[c].answer)
  /\ UNCHANGED <<workers, bundles, recency>>

\* The client answers ctx.elicit.
Elicited(c) ==
  /\ c \in DOMAIN calls
  /\ calls[c].at = "eliciting"
  /\ \/ /\ Answered(calls[c].request.conn, calls[c].request.args, "proceed")
        /\ Proceed(c, calls[c].request)
     \/ Ends(c) /\ UNCHANGED answers
  /\ UNCHANGED <<workers, bundles, recency>>

\* ctx.elicit raises, because the client is gone or knows no dialogs after all: a
\* ToolError, "nothing was changed".
ElicitFails(c) ==
  /\ c \in DOMAIN calls
  /\ calls[c].at = "eliciting"
  /\ Ends(c)
  /\ UNCHANGED <<workers, answers, bundles, recency>>
-----------------------------------------------------------------------------
(* dispatcher.py, in a worker thread. *)

CredentialFor(c) == CredentialOf[calls[c].request.conn]

\* Mutant: one client per instance.
CacheKeyByDomain(credential) == credential.domain

\* SisenseCredential.cache_key
CacheKey(credential) == credential

\* Mutant: nothing is evicted.
RecentUnbounded(order, key) == Append(RemoveFirst(order, key), key)

\* The most recently used clients stay.
Recent(order, key) ==
  LET touched == Append(RemoveFirst(order, key), key)
      excess  == IF Len(touched) > MaxClients THEN Len(touched) - MaxClients ELSE 0
  IN  SubSeq(touched, excess + 1, Len(touched))

\* def _get_bundle(self, credential), under the lock
GetBundle(c) ==
  LET key    == CacheKey(CredentialFor(c))
      client == Get(bundles, key, CredentialFor(c))
  IN  /\ recency' = Recent(recency, key)
      /\ bundles' = Keep(Put(bundles, key, client), ToSet(recency'))
      /\ calls' = [calls EXCEPT ![c].at = "connected", ![c].client = client]

\* invoke up to the clients' cache.  The switch for mutations, a credential that is
\* missing and arguments that do not validate end the call before it.
Dispatch(c) ==
  /\ TakesUp(c)
  /\ calls[c].at = "approved"
  /\ \/ Leave(c) /\ UNCHANGED <<bundles, recency>>
     \/ (calls[c].request.tool \in Mutates => AllowMutations) /\ GetBundle(c)
  /\ UNCHANGED <<workers, answers>>

\* def _resolve_references(bundle, tool_id, meta, args): titles and ids are looked up
\* in Sisense, with the client of this call.
ResolveReferences(c) ==
  /\ c \in DOMAIN calls
  /\ calls[c].at = "connected"
  /\ Advance(c, "resolved")
  /\ UNCHANGED <<workers, queue, answers, bundles, recency>>

\* A DispatchError once the client is there: a reference that cannot be resolved, a
\* class or method the SDK does not have, an SDK call that raises or reports failure.
DispatchError(c) ==
  /\ c \in DOMAIN calls
  /\ calls[c].at \in {"connected", "resolved"}
  /\ Leave(c)
  /\ UNCHANGED <<workers, queue, answers, bundles, recency>>

\* method(**args) returns.
Invoke(c) ==
  /\ c \in DOMAIN calls
  /\ calls[c].at = "resolved"
  /\ Leave(c)
  /\ UNCHANGED <<workers, queue, answers, bundles, recency>>
-----------------------------------------------------------------------------
\* What a client can attach: a modern one any answer of its human.
Attachable(conn) ==
  {NoAnswer} \cup {answer \in answers[conn] : conn \in Modern}

ThreadStep(c) ==
  \/ Verify(c) \/ Rejected(c) \/ Verified(c)
  \/ Dispatch(c) \/ ResolveReferences(c) \/ DispatchError(c) \/ Invoke(c)

Next ==
  \E c \in Call :
    \/ \E request \in Request : \E answer \in Attachable(request.conn) :
         Arrive(c, request, answer)
    \/ Elicited(c) \/ ElicitFails(c)
    \/ ThreadStep(c)

\* A free thread takes up the oldest job, and what it does ends: Sisense answers, or
\* the connection fails.  Nothing makes a client call or a human answer.
Spec == Init /\ [][Next]_vars /\ \A c \in Call : WF_vars(ThreadStep(c))
-----------------------------------------------------------------------------
\* Calls are at a known point; those that wait for a thread, and only those, are
\* queued, once each; the cache ranks each client once, and stays bounded.
TypeOK ==
  /\ workers \in PoolSizes
  /\ DOMAIN calls \subseteq Call
  /\ \A c \in DOMAIN calls : calls[c] \in Entry
  /\ \A conn \in Conn : answers[conn] \subseteq Answer
  /\ IsInjective(queue)
  /\ ToSet(queue) = {c \in DOMAIN calls : calls[c].at \in {"unverified", "approved"}}
  /\ IsInjective(recency) /\ ToSet(recency) = DOMAIN bundles /\ Len(recency) <= MaxClients

\* README.md:278, "the approval is bound to those arguments, and abort or decline
\* changes nothing": a mutation that is past the gate, for a client that can show
\* the dialog, was approved by the human of that connection, for exactly the
\* arguments of the call, whatever answers the client attached, failed dialogs and
\* changed arguments.
MutationsAreApproved ==
  \A c \in DOMAIN calls :
    LET request == calls[c].request
    IN  /\ calls[c].at \in {"approved", "connected", "resolved"}
        /\ request.tool \in Mutates
        /\ request.conn \in Renders
        => [state |-> request.args, value |-> "proceed"] \in answers[request.conn]

\* "every call runs with the calling user's own Sisense credential" (server.py:44):
\* also when several users of one instance share the cache, evict each other's
\* clients, and use one that was evicted meanwhile.
RunsWithOwnCredential ==
  \A c \in DOMAIN calls :
    calls[c].at \in {"connected", "resolved"} => calls[c].client = CredentialFor(c)

\* A human who never answers a dialog holds up nobody: every other call, also one
\* that still waits for a thread, ends or comes to a dialog of its own, although all
\* verifications and SDK calls share one pool (server.py:135, upstream.py:101).
CallsAreAnswered ==
  \A c \in Call :
    c \in DOMAIN calls /\ calls[c].at # "eliciting"
      ~> c \notin DOMAIN calls \/ calls[c].at = "eliciting"
=============================================================================
