-------------------------- MODULE ToolCallsProofs --------------------------
(***************************************************************************)
(* The gate and the client cache, for every set of clients, tools, users   *)
(* and concurrent calls, every size of the pool and of the cache.          *)
(*                                                                         *)
(* The inductive invariant adds to the two properties that an answer which *)
(* a call carries was given by a human of its connection, and that every   *)
(* cached client was built with the credential it is filed under.  What    *)
(* the queue and the order of the cache hold matters to neither; that they *)
(* hold the right calls and clients is the rest of the type invariant.     *)
(***************************************************************************)
EXTENDS ToolCalls, SequenceLemmas

CallsAreEntries == \A c \in DOMAIN calls : calls[c] \in Entry

AnswersByConnection == answers \in [Conn -> SUBSET Answer]

\* An answer that a call carries was given by a human of its connection.
AnswersAreGiven ==
  \A c \in DOMAIN calls :
    calls[c].answer = NoAnswer \/ calls[c].answer \in answers[calls[c].request.conn]

\* A cached client was built with the credential of its key.
ClientsAreFiled == \A k \in DOMAIN bundles : bundles[k] = k

IInv ==
  /\ CallsAreEntries
  /\ AnswersByConnection
  /\ AnswersAreGiven
  /\ ClientsAreFiled
  /\ MutationsAreApproved
  /\ RunsWithOwnCredential
-----------------------------------------------------------------------------
(* How a step changes one call. *)

\* Whatever the gate decides, answers are added and none is taken back.
AnswersGrow ==
  /\ answers' \in [Conn -> SUBSET Answer]
  /\ \A conn \in Conn : answers[conn] \subseteq answers'[conn]

\* Call c is over.
Over(c) ==
  /\ DOMAIN calls' = DOMAIN calls \ {c}
  /\ \A d \in DOMAIN calls' : calls'[d] = calls[d]

\* Call c becomes what entry says.
Becomes(c, entry) ==
  /\ DOMAIN calls' = DOMAIN calls \cup {c}
  /\ calls'[c] = entry
  /\ \A d \in DOMAIN calls : d # c => calls'[d] = calls[d]

\* A call that ends takes nothing from the others.
LEMMA OverKeepsIInv ==
  ASSUME IInv, NEW c, Over(c), AnswersGrow, ClientsAreFiled'
  PROVE  IInv'
<1> USE DEF IInv, Over, AnswersGrow
<1>1. \A d \in DOMAIN calls' : d \in DOMAIN calls /\ calls[d].request.conn \in Conn
  BY CallConstants DEF CallsAreEntries, Entry
<1>2. CallsAreEntries' /\ AnswersByConnection' /\ AnswersAreGiven'
  BY <1>1 DEF CallsAreEntries, AnswersByConnection, AnswersAreGiven
<1>3. MutationsAreApproved' /\ RunsWithOwnCredential'
  BY <1>1 DEF MutationsAreApproved, RunsWithOwnCredential, CredentialFor
<1> QED BY <1>2, <1>3

\* What a call may become.
Sound(entry, given) ==
  /\ entry \in Entry
  /\ entry.answer = NoAnswer \/ entry.answer \in given[entry.request.conn]
  /\ /\ entry.at \in {"approved", "connected", "resolved"}
     /\ entry.request.tool \in Mutates
     /\ entry.request.conn \in Renders
     => [state |-> entry.request.args, value |-> "proceed"] \in given[entry.request.conn]
  /\ entry.at \in {"connected", "resolved"} => entry.client = CredentialOf[entry.request.conn]

LEMMA BecomesKeepsIInv ==
  ASSUME IInv, NEW c, NEW entry, Becomes(c, entry), Sound(entry, answers'), AnswersGrow,
         ClientsAreFiled'
  PROVE  IInv'
<1> USE DEF IInv, Becomes, AnswersGrow
<1>1. \A d \in DOMAIN calls' \ {c} :
        d \in DOMAIN calls /\ calls'[d] = calls[d] /\ calls[d].request.conn \in Conn
  BY CallConstants DEF CallsAreEntries, Entry
<1>2. CallsAreEntries' /\ AnswersByConnection'
  BY <1>1 DEF CallsAreEntries, AnswersByConnection, Sound
<1>3. AnswersAreGiven'
  BY <1>1 DEF AnswersAreGiven, Sound
<1>4. MutationsAreApproved'
  BY <1>1 DEF MutationsAreApproved, Sound
<1>5. RunsWithOwnCredential'
  BY <1>1 DEF RunsWithOwnCredential, CredentialFor, Sound
<1> QED BY <1>2, <1>3, <1>4, <1>5
-----------------------------------------------------------------------------
(* server.py *)

LEMMA AnswersUnchanged == ASSUME IInv, UNCHANGED answers PROVE AnswersGrow
BY DEF IInv, AnswersByConnection, AnswersGrow

LEMMA AnsweredGrows ==
  ASSUME IInv, NEW conn \in Conn, NEW args \in Args, NEW value \in {"proceed", "abort"},
         Answered(conn, args, value)
  PROVE  AnswersGrow /\ [state |-> args, value |-> value] \in answers'[conn]
BY DEF IInv, AnswersByConnection, AnswersGrow, Answered, Answer

LEMMA BundlesUnchanged == ASSUME IInv, UNCHANGED bundles PROVE ClientsAreFiled'
BY DEF IInv, ClientsAreFiled

LEMMA EndsIsOver == ASSUME NEW c, Leave(c) PROVE Over(c)
BY DEF Leave, Over, Pop, Restrict

LEMMA ProceedBecomes ==
  ASSUME NEW c, NEW request, Proceed(c, request)
  PROVE  Becomes(c, [request |-> request, at |-> "approved", answer |-> NoAnswer,
                     client |-> NoClient])
BY DEF Proceed, Offload, Becomes, Put

\* The gate, with whatever answer the call carries.
LEMMA RunKeepsIInv ==
  ASSUME IInv, NEW c, NEW request \in Request, NEW answer,
         answer = NoAnswer \/ answer \in answers[request.conn],
         Run(c, request, answer), UNCHANGED bundles
  PROVE  IInv'
<1> DEFINE approved == [request |-> request, at |-> "approved", answer |-> NoAnswer,
                        client |-> NoClient]
           eliciting == [request |-> request, at |-> "eliciting", answer |-> NoAnswer,
                         client |-> NoClient]
<1>1. /\ request.conn \in Conn /\ request.args \in Args
      /\ ClientsAreFiled'
  BY CallConstants, BundlesUnchanged
<1>2. ASSUME UNCHANGED answers, Proceed(c, request),
             request.tool \notin Mutates \/ request.conn \notin Renders
                \/ [state |-> request.args, value |-> "proceed"] \in answers[request.conn]
      PROVE  IInv'
  <2>1. Sound(approved, answers')
    BY <1>2 DEF Sound, Entry, Stage
  <2> QED BY <1>1, <1>2, <2>1, ProceedBecomes, AnswersUnchanged, BecomesKeepsIInv
<1>3. ASSUME Ask(request.conn, request.args) \/ UNCHANGED answers, Ends(c) PROVE IInv'
  <2>1. AnswersGrow
    BY <1>1, <1>3, AnswersUnchanged, AnsweredGrows DEF Ask
  <2> QED BY <1>1, <1>3, <2>1, EndsIsOver, OverKeepsIInv DEF Ends
<1>4. ASSUME Await(c, request, "eliciting"), UNCHANGED answers PROVE IInv'
  <2>1. Becomes(c, eliciting)
    BY <1>4 DEF Await, Becomes, Put
  <2>2. Sound(eliciting, answers')
    BY DEF Sound, Entry, Stage
  <2> QED BY <1>1, <1>4, <2>1, <2>2, AnswersUnchanged, BecomesKeepsIInv
<1>5. ASSUME answer # NoAnswer, AnswersThis(answer, request.args), Proceeds(answer)
      PROVE  [state |-> request.args, value |-> "proceed"] \in answers[request.conn]
  <2>1. answer \in Answer /\ answer \in answers[request.conn]
    BY <1>1, <1>5 DEF IInv, AnswersByConnection
  <2>2. answer = [state |-> request.args, value |-> "proceed"]
    BY <2>1, <1>5 DEF Answer, AnswersThis, Proceeds
  <2> QED BY <2>1, <2>2
<1> QED BY <1>2, <1>3, <1>4, <1>5 DEF Run

LEMMA ArriveKeepsIInv ==
  ASSUME IInv, NEW c, NEW request \in Request, NEW answer \in Attachable(request.conn),
         Arrive(c, request, answer)
  PROVE  IInv'
<1> DEFINE entry == [request |-> request, at |-> "unverified", answer |-> answer,
                     client |-> NoClient]
<1>1. (answer = NoAnswer \/ answer \in answers[request.conn]) /\ UNCHANGED bundles
  BY DEF Attachable, Arrive
<1>2. CASE Run(c, request, answer)
  BY <1>1, <1>2, RunKeepsIInv
<1>3. CASE Offload(c, request, "unverified", answer) /\ UNCHANGED answers
  <2>1. Becomes(c, entry)
    BY <1>3 DEF Offload, Becomes, Put
  <2>2. answer \in Answer \cup {NoAnswer}
    BY <1>1, CallConstants DEF IInv, AnswersByConnection
  <2>3. Sound(entry, answers')
    BY <1>1, <1>3, <2>2 DEF Sound, Entry, Stage
  <2> QED BY <1>1, <1>3, <2>1, <2>3, AnswersUnchanged, BundlesUnchanged, BecomesKeepsIInv
<1> QED BY <1>2, <1>3 DEF Arrive

LEMMA ElicitedKeepsIInv == ASSUME IInv, NEW c, Elicited(c) PROVE IInv'
<1> DEFINE request == calls[c].request
           entry == [request |-> request, at |-> "approved", answer |-> NoAnswer,
                     client |-> NoClient]
<1>1. /\ c \in DOMAIN calls /\ UNCHANGED bundles /\ request \in Request
      /\ request.conn \in Conn /\ request.args \in Args
  BY CallConstants DEF Elicited, IInv, CallsAreEntries, Entry
<1>2. CASE Answered(request.conn, request.args, "proceed") /\ Proceed(c, request)
  <2>1. AnswersGrow /\ [state |-> request.args, value |-> "proceed"] \in answers'[request.conn]
    BY <1>1, <1>2, AnsweredGrows
  <2>2. Becomes(c, entry)
    BY <1>2, ProceedBecomes
  <2>3. Sound(entry, answers')
    BY <1>1, <2>1 DEF Sound, Entry, Stage
  <2> HIDE DEF entry
  <2> QED BY <1>1, <2>1, <2>2, <2>3, BundlesUnchanged, BecomesKeepsIInv
<1>3. CASE Ends(c) /\ UNCHANGED answers
  BY <1>1, <1>3, EndsIsOver, AnswersUnchanged, BundlesUnchanged, OverKeepsIInv DEF Ends
<1> QED BY <1>2, <1>3 DEF Elicited
-----------------------------------------------------------------------------
(* dispatcher.py *)

\* A call that goes on, or ends, and leaves answers and clients alone.
LEMMA AdvanceKeepsIInv ==
  ASSUME IInv, NEW c \in DOMAIN calls, NEW stage, Advance(c, stage),
         stage = "verifying" \/ (stage = "resolved" /\ calls[c].at = "connected"),
         UNCHANGED <<answers, bundles>>
  PROVE  IInv'
<1>1. /\ DOMAIN calls' = DOMAIN calls
      /\ calls'[c].request = calls[c].request
      /\ calls'[c].answer = calls[c].answer
      /\ calls'[c].client = calls[c].client
      /\ calls'[c].at = stage
      /\ \A d \in DOMAIN calls : d # c => calls'[d] = calls[d]
      /\ calls'[c] \in Entry
  BY DEF Advance, IInv, CallsAreEntries, Entry, Stage
<1>2. Becomes(c, calls'[c])
  BY <1>1 DEF Becomes
<1>3. Sound(calls'[c], answers')
  BY <1>1 DEF Sound, IInv, CallsAreEntries, AnswersAreGiven, MutationsAreApproved,
              RunsWithOwnCredential, CredentialFor
<1> QED BY <1>2, <1>3, AnswersUnchanged, BundlesUnchanged, BecomesKeepsIInv

LEMMA LeaveKeepsIInv ==
  ASSUME IInv, NEW c, Leave(c), UNCHANGED <<answers, bundles>>
  PROVE  IInv'
BY EndsIsOver, AnswersUnchanged, BundlesUnchanged, OverKeepsIInv

LEMMA GetBundleKeepsIInv ==
  ASSUME IInv, NEW c \in DOMAIN calls, calls[c].at = "approved", GetBundle(c),
         UNCHANGED answers
  PROVE  IInv'
<1> DEFINE key    == CacheKey(CredentialFor(c))
           client == Get(bundles, key, CredentialFor(c))
<1>1. /\ key = CredentialFor(c) /\ client = key
      /\ client \in Credential
  <2>1. CredentialFor(c) \in Credential
    BY CallConstants DEF CredentialFor, Credential, IInv, CallsAreEntries, Entry
  <2> QED BY <2>1 DEF CacheKey, Get, IInv, ClientsAreFiled
<1>2. ClientsAreFiled'
  <2>1. bundles' = Keep(Put(bundles, key, client), ToSet(recency'))
    BY DEF GetBundle
  <2> QED BY <1>1, <2>1 DEF Keep, Restrict, Put, IInv, ClientsAreFiled
<1>3. /\ DOMAIN calls' = DOMAIN calls
      /\ calls'[c].request = calls[c].request
      /\ calls'[c].answer = calls[c].answer
      /\ calls'[c].client = client
      /\ calls'[c].at = "connected"
      /\ \A d \in DOMAIN calls : d # c => calls'[d] = calls[d]
      /\ calls'[c] \in Entry
  <2>1. calls' = [calls EXCEPT ![c].at = "connected", ![c].client = client]
    BY DEF GetBundle
  <2> HIDE DEF client
  <2> QED BY <1>1, <2>1 DEF IInv, CallsAreEntries, Entry, Stage
<1> HIDE DEF client, key
<1>4. Becomes(c, calls'[c])
  BY <1>3 DEF Becomes
<1>5. Sound(calls'[c], answers')
  BY <1>1, <1>3 DEF Sound, IInv, CallsAreEntries, AnswersAreGiven, MutationsAreApproved,
                    CredentialFor
<1> QED BY <1>2, <1>4, <1>5, AnswersUnchanged, BecomesKeepsIInv

LEMMA ThreadStepKeepsIInv == ASSUME IInv, NEW c \in Call, ThreadStep(c) PROVE IInv'
<1>1. CASE Verify(c)
  <2>1. c \in DOMAIN calls
    BY <1>1 DEF Verify, TakesUp
  <2> QED BY <1>1, <2>1, AdvanceKeepsIInv DEF Verify
<1>2. CASE Rejected(c) \/ DispatchError(c) \/ Invoke(c)
  BY <1>2, LeaveKeepsIInv DEF Rejected, DispatchError, Invoke
<1>3. CASE Verified(c)
  BY <1>3, RunKeepsIInv DEF Verified, IInv, CallsAreEntries, Entry, AnswersAreGiven
<1>4. CASE Dispatch(c)
  BY <1>4, LeaveKeepsIInv, GetBundleKeepsIInv DEF Dispatch, TakesUp
<1>5. CASE ResolveReferences(c)
  BY <1>5, AdvanceKeepsIInv DEF ResolveReferences
<1> QED BY <1>1, <1>2, <1>3, <1>4, <1>5 DEF ThreadStep
-----------------------------------------------------------------------------
THEOREM InductiveInvariant == Spec => []IInv
<1>1. Init => IInv
  BY DEF Init, EmptyDict, IInv, CallsAreEntries, AnswersByConnection, AnswersAreGiven,
         ClientsAreFiled, MutationsAreApproved, RunsWithOwnCredential
<1>2. ASSUME IInv, [Next]_vars PROVE IInv'
  <2>1. ASSUME NEW c \in Call, NEW request \in Request,
               NEW answer \in Attachable(request.conn), Arrive(c, request, answer)
        PROVE  IInv'
    BY <1>2, <2>1, ArriveKeepsIInv
  <2>2. ASSUME NEW c \in Call, Elicited(c) PROVE IInv'
    BY <1>2, <2>2, ElicitedKeepsIInv
  <2>3. ASSUME NEW c \in Call, ElicitFails(c) PROVE IInv'
    BY <1>2, <2>3, LeaveKeepsIInv DEF ElicitFails, Ends
  <2>4. ASSUME NEW c \in Call, ThreadStep(c) PROVE IInv'
    BY <1>2, <2>4, ThreadStepKeepsIInv
  <2>5. CASE UNCHANGED vars
    BY <1>2, <2>5 DEF vars, IInv, CallsAreEntries, AnswersByConnection, AnswersAreGiven,
                      ClientsAreFiled, MutationsAreApproved, RunsWithOwnCredential,
                      CredentialFor
  <2> QED BY <1>2, <2>1, <2>2, <2>3, <2>4, <2>5 DEF Next
<1> QED BY <1>1, <1>2, PTL DEF Spec
-----------------------------------------------------------------------------
(* The queue of the pool. *)

AwaitsThread == {"unverified", "approved"}
Waiting == {c \in DOMAIN calls : calls[c].at \in AwaitsThread}

\* The calls that wait for a thread, and only those, are queued, once each.
QueueInv ==
  /\ workers \in PoolSizes
  /\ DOMAIN calls \subseteq Call
  /\ queue \in Seq(Call)
  /\ IsInjective(queue)
  /\ ToSet(queue) = Waiting

\* A call that does not wait ends, or goes on without a thread of the pool.
LEMMA UnqueuedKeepsQueue ==
  ASSUME QueueInv, NEW c \in Call, c \notin Waiting, UNCHANGED <<workers, queue>>,
         Over(c) \/ \E entry : Becomes(c, entry) /\ entry.at \notin AwaitsThread
  PROVE  QueueInv'
<1>1. Waiting' = Waiting /\ DOMAIN calls' \subseteq Call
  BY DEF QueueInv, Waiting, Over, Becomes
<1> QED BY <1>1 DEF QueueInv

\* It is handed to the pool.
LEMMA OffloadKeepsQueue ==
  ASSUME QueueInv, NEW c \in Call, c \notin Waiting, UNCHANGED workers,
         NEW request, NEW at \in AwaitsThread, NEW answer, Offload(c, request, at, answer)
  PROVE  QueueInv'
<1>1. /\ DOMAIN calls' = DOMAIN calls \cup {c}
      /\ calls'[c].at = at
      /\ \A d \in DOMAIN calls : d # c => calls'[d] = calls[d]
      /\ queue' = Append(queue, c)
  BY DEF Offload, Put
<1>2. Waiting' = Waiting \cup {c} /\ DOMAIN calls' \subseteq Call
  BY <1>1 DEF QueueInv, Waiting
<1>3. /\ queue' \in Seq(Call)
      /\ IsInjective(queue')
      /\ ToSet(queue') = ToSet(queue) \cup {c}
  BY <1>1, JoinProperties DEF QueueInv
<1> QED BY <1>2, <1>3 DEF QueueInv

\* A thread takes it up, and it ends or occupies the thread.
LEMMA TakesUpKeepsQueue ==
  ASSUME QueueInv, NEW c \in Call, TakesUp(c), UNCHANGED workers,
         Over(c) \/ \E entry : Becomes(c, entry) /\ entry.at \notin AwaitsThread
  PROVE  QueueInv'
<1>1. queue # <<>> /\ c = Head(queue) /\ queue' = Tail(queue)
  BY DEF TakesUp
<1>2. Waiting' = Waiting \ {c} /\ DOMAIN calls' \subseteq Call
  BY DEF QueueInv, Waiting, Over, Becomes
<1>3. /\ queue' \in Seq(Call)
      /\ IsInjective(queue')
      /\ ToSet(queue') = ToSet(queue) \ {c}
  BY <1>1, TailProperties DEF QueueInv
<1> QED BY <1>2, <1>3 DEF QueueInv

LEMMA RunKeepsQueue ==
  ASSUME QueueInv, NEW c \in Call, c \notin Waiting, UNCHANGED workers,
         NEW request, NEW answer, Run(c, request, answer)
  PROVE  QueueInv'
<1>1. CASE Proceed(c, request)
  BY <1>1, OffloadKeepsQueue DEF Proceed, AwaitsThread
<1>2. CASE Ends(c)
  BY <1>2, EndsIsOver, UnqueuedKeepsQueue DEF Ends
<1>3. CASE Await(c, request, "eliciting")
  <2>1. PICK entry : Becomes(c, entry) /\ entry.at = "eliciting" /\ UNCHANGED queue
    BY <1>3 DEF Await, Becomes, Put
  <2> QED BY <2>1, UnqueuedKeepsQueue DEF AwaitsThread
<1> QED BY <1>1, <1>2, <1>3 DEF Run

LEMMA AdvanceBecomes ==
  ASSUME IInv, NEW c \in DOMAIN calls, NEW stage, Advance(c, stage)
  PROVE  \E entry : Becomes(c, entry) /\ entry.at = stage
<1>1. /\ DOMAIN calls' = DOMAIN calls
      /\ calls'[c].at = stage
      /\ \A d \in DOMAIN calls : d # c => calls'[d] = calls[d]
  BY DEF Advance, IInv, CallsAreEntries, Entry
<1>2. Becomes(c, calls'[c])
  BY <1>1 DEF Becomes
<1> QED BY <1>1, <1>2

LEMMA GetBundleBecomes ==
  ASSUME IInv, NEW c \in DOMAIN calls, GetBundle(c)
  PROVE  \E entry : Becomes(c, entry) /\ entry.at = "connected"
<1>1. PICK client : calls' = [calls EXCEPT ![c].at = "connected", ![c].client = client]
  BY DEF GetBundle
<1>2. /\ DOMAIN calls' = DOMAIN calls
      /\ calls'[c].at = "connected"
      /\ \A d \in DOMAIN calls : d # c => calls'[d] = calls[d]
  BY <1>1 DEF IInv, CallsAreEntries, Entry
<1>3. Becomes(c, calls'[c])
  BY <1>2 DEF Becomes
<1> QED BY <1>2, <1>3

LEMMA ThreadStepKeepsQueue ==
  ASSUME IInv, QueueInv, NEW c \in Call, ThreadStep(c)
  PROVE  QueueInv'
<1>1. CASE Verify(c)
  <2>1. c \in DOMAIN calls /\ TakesUp(c) /\ Advance(c, "verifying") /\ UNCHANGED workers
    BY <1>1 DEF Verify, TakesUp
  <2> QED BY <2>1, AdvanceBecomes, TakesUpKeepsQueue DEF AwaitsThread
<1>2. CASE Rejected(c) \/ DispatchError(c) \/ Invoke(c)
  <2>1. c \notin Waiting /\ Leave(c) /\ UNCHANGED <<workers, queue>>
    BY <1>2 DEF Rejected, DispatchError, Invoke, Waiting, AwaitsThread
  <2> QED BY <2>1, EndsIsOver, UnqueuedKeepsQueue
<1>3. CASE Verified(c)
  <2>1. c \notin Waiting /\ UNCHANGED workers /\ Run(c, calls[c].request, calls[c].answer)
    BY <1>3 DEF Verified, Waiting, AwaitsThread
  <2> QED BY <2>1, RunKeepsQueue
<1>4. CASE Dispatch(c)
  <2>1. c \in DOMAIN calls /\ TakesUp(c) /\ UNCHANGED workers /\ (Leave(c) \/ GetBundle(c))
    BY <1>4 DEF Dispatch, TakesUp
  <2>2. CASE Leave(c)
    BY <2>1, <2>2, EndsIsOver, TakesUpKeepsQueue
  <2>3. CASE GetBundle(c)
    BY <2>1, <2>3, GetBundleBecomes, TakesUpKeepsQueue DEF AwaitsThread
  <2> QED BY <2>1, <2>2, <2>3
<1>5. CASE ResolveReferences(c)
  <2>1. /\ c \in DOMAIN calls /\ c \notin Waiting /\ Advance(c, "resolved")
        /\ UNCHANGED <<workers, queue>>
    BY <1>5 DEF ResolveReferences, Waiting, AwaitsThread
  <2> QED BY <2>1, AdvanceBecomes, UnqueuedKeepsQueue DEF AwaitsThread
<1> QED BY <1>1, <1>2, <1>3, <1>4, <1>5 DEF ThreadStep

LEMMA QueueInvariant == Spec => []QueueInv
<1>1. Init => QueueInv
  BY EmptySeq DEF Init, EmptyDict, QueueInv, Waiting, IsInjective, ToSet
<1>2. ASSUME IInv, QueueInv, [Next]_vars PROVE QueueInv'
  <2>1. ASSUME NEW c \in Call, NEW request, NEW answer, Arrive(c, request, answer)
        PROVE  QueueInv'
    <3>1. c \notin Waiting /\ UNCHANGED workers
      BY <2>1 DEF Arrive, Waiting
    <3> QED BY <1>2, <2>1, <3>1, RunKeepsQueue, OffloadKeepsQueue DEF Arrive, AwaitsThread
  <2>2. ASSUME NEW c \in Call, Elicited(c) \/ ElicitFails(c) PROVE QueueInv'
    <3>1. /\ c \notin Waiting /\ UNCHANGED workers
          /\ Ends(c) \/ Proceed(c, calls[c].request)
      BY <2>2 DEF Elicited, ElicitFails, Waiting, AwaitsThread
    <3>2. CASE Ends(c)
      BY <1>2, <3>1, <3>2, EndsIsOver, UnqueuedKeepsQueue DEF Ends
    <3>3. CASE Proceed(c, calls[c].request)
      BY <1>2, <3>1, <3>3, OffloadKeepsQueue DEF Proceed, AwaitsThread
    <3> QED BY <3>1, <3>2, <3>3
  <2>3. ASSUME NEW c \in Call, ThreadStep(c) PROVE QueueInv'
    BY <1>2, <2>3, ThreadStepKeepsQueue
  <2>4. CASE UNCHANGED vars
    BY <1>2, <2>4 DEF vars, QueueInv, Waiting
  <2> QED BY <1>2, <2>1, <2>2, <2>3, <2>4 DEF Next
<1> QED BY <1>1, <1>2, InductiveInvariant, PTL DEF Spec
-----------------------------------------------------------------------------
(* The cache of SDK clients. *)

\* The LRU order ranks exactly the cached clients, once each, within the bound.
CacheInv ==
  /\ recency \in Seq(Credential)
  /\ IsInjective(recency)
  /\ ToSet(recency) = DOMAIN bundles
  /\ Len(recency) <= MaxClients

LEMMA RecentProperties ==
  ASSUME NEW order \in Seq(Credential), IsInjective(order), NEW key \in Credential
  PROVE  /\ Recent(order, key) \in Seq(Credential)
         /\ IsInjective(Recent(order, key))
         /\ ToSet(Recent(order, key)) \subseteq ToSet(order) \cup {key}
         /\ Len(Recent(order, key)) <= MaxClients
<1> DEFINE touched == Append(RemoveFirst(order, key), key)
           excess  == IF Len(touched) > MaxClients THEN Len(touched) - MaxClients ELSE 0
<1>1. /\ touched \in Seq(Credential)
      /\ IsInjective(touched)
      /\ ToSet(touched) = ToSet(order) \cup {key}
  BY MoveToEndProperties
<1> HIDE DEF touched
<1>2. excess \in 0..Len(touched) /\ Len(touched) - excess <= MaxClients
  BY <1>1, CallConstants
<1> HIDE DEF excess
<1> QED BY <1>1, <1>2, SuffixProperties DEF Recent, touched, excess

LEMMA GetBundleKeepsCache ==
  ASSUME IInv, CacheInv, NEW c \in DOMAIN calls, GetBundle(c)
  PROVE  CacheInv'
<1> DEFINE key == CacheKey(CredentialFor(c))
<1>1. key \in Credential
  BY CallConstants DEF CacheKey, CredentialFor, Credential, IInv, CallsAreEntries, Entry
<1>2. PICK client : /\ recency' = Recent(recency, key)
                    /\ bundles' = Keep(Put(bundles, key, client), ToSet(recency'))
  BY DEF GetBundle
<1> HIDE DEF key
<1>3. /\ recency' \in Seq(Credential)
      /\ IsInjective(recency')
      /\ ToSet(recency') \subseteq DOMAIN bundles \cup {key}
      /\ Len(recency') <= MaxClients
  BY <1>1, <1>2, RecentProperties DEF CacheInv
<1>4. DOMAIN bundles' = ToSet(recency')
  BY <1>2, <1>3 DEF Keep, Put, Restrict
<1> QED BY <1>3, <1>4 DEF CacheInv

LEMMA CacheInvariant == Spec => []CacheInv
<1>1. Init => CacheInv
  BY CallConstants, EmptySeq DEF Init, EmptyDict, CacheInv, IsInjective, ToSet
<1>2. ASSUME IInv, CacheInv, [Next]_vars PROVE CacheInv'
  <2>1. ASSUME NEW c \in Call, Dispatch(c) PROVE CacheInv'
    <3>1. c \in DOMAIN calls /\ (UNCHANGED <<bundles, recency>> \/ GetBundle(c))
      BY <2>1 DEF Dispatch, TakesUp
    <3> QED BY <1>2, <3>1, GetBundleKeepsCache DEF CacheInv
  <2>2. CASE UNCHANGED <<bundles, recency>>
    BY <1>2, <2>2 DEF CacheInv
  <2>3. [Next]_vars => UNCHANGED <<bundles, recency>> \/ \E c \in Call : Dispatch(c)
    BY DEF Next, vars, Arrive, Elicited, ElicitFails, ThreadStep, Verify, Rejected,
           Verified, ResolveReferences, DispatchError, Invoke
  <2> QED BY <1>2, <2>1, <2>2, <2>3
<1> QED BY <1>1, <1>2, InductiveInvariant, PTL DEF Spec
-----------------------------------------------------------------------------
\* Every call is at a known point; a call that waits for a thread is never dropped from
\* the queue or queued twice, however calls end and are resumed; the LRU order and the
\* cache never come apart, whatever is evicted.
THEOREM CallsTypes == Spec => []TypeOK
<1>1. IInv /\ QueueInv /\ CacheInv => TypeOK
  BY DEF IInv, QueueInv, CacheInv, TypeOK, CallsAreEntries, AnswersByConnection, Waiting,
         AwaitsThread
<1> QED BY InductiveInvariant, QueueInvariant, CacheInvariant, <1>1, PTL

\* No mutation gets past the gate, for a client that can show the dialog, unless a
\* human of its connection approved it with exactly its arguments.
THEOREM GateHolds == Spec => []MutationsAreApproved
<1>1. IInv => MutationsAreApproved
  BY DEF IInv
<1> QED BY InductiveInvariant, <1>1, PTL

\* Every call runs with the SDK client of its own user, however the cache is shared
\* and evicted.
THEOREM ClientsAreNotMixedUp == Spec => []RunsWithOwnCredential
<1>1. IInv => RunsWithOwnCredential
  BY DEF IInv
<1> QED BY InductiveInvariant, <1>1, PTL
=============================================================================
