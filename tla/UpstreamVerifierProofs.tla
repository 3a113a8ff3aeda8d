----------------------- MODULE UpstreamVerifierProofs -----------------------
(***************************************************************************)
(* The promises of the resource server's verifier, for every set of pairs, *)
(* any number of requests in flight, every lifetime and every bound of the *)
(* memory.                                                                 *)
(*                                                                         *)
(* The argument for the two about time follows one time stamp: the arrival *)
(* of a request is no later than the moment Sisense accepts its pair, so   *)
(* an expiry that counts from the arrival never outlives the acceptance by *)
(* more than verify_ttl, and Sisense accepts nothing after a revocation.   *)
(* The one about the memory follows the LRU order: it ranks exactly the    *)
(* remembered pairs, once each, so its length is their number.             *)
(***************************************************************************)
EXTENDS UpstreamVerifier, SequenceLemmas

TimesOK ==
  /\ now \in Nat
  /\ \A p \in DOMAIN verified : verified[p] \in Nat
  /\ \A r \in DOMAIN checks :
       /\ checks[r] \in [pair : AllowedPair, now : Nat, answer : Answers]
       /\ checks[r].now <= now
  /\ \A p \in DOMAIN vouched : vouched[p] \in Nat /\ vouched[p] <= now
  /\ \A p \in DOMAIN revoked : revoked[p] \in Nat
  /\ \A g \in granted : g.arrived \in Nat

\* A request that Sisense accepted arrived before it did.
ArrivalsPrecedeAcceptance ==
  \A r \in DOMAIN checks :
    checks[r].answer = "accepted" =>
      checks[r].pair \in DOMAIN vouched /\ checks[r].now <= vouched[checks[r].pair]

\* What is remembered expires verify_ttl after the last acceptance at the latest.
MemoryIsYoung ==
  \A p \in DOMAIN verified : p \in DOMAIN vouched /\ verified[p] <= vouched[p] + VerifyTtl

\* Sisense accepts no token it has revoked.
NothingVouchedAfterRevocation ==
  \A p \in DOMAIN vouched \cap DOMAIN revoked : vouched[p] <= revoked[p]

IInv ==
  /\ TimesOK
  /\ ArrivalsPrecedeAcceptance
  /\ MemoryIsYoung
  /\ NothingVouchedAfterRevocation
  /\ FailsClosed

LEMMA InitIInv == Init => IInv
BY DEF Init, EmptyDict, IInv, TimesOK, ArrivalsPrecedeAcceptance, MemoryIsYoung,
       NothingVouchedAfterRevocation, FailsClosed

LEMMA VerifyTokenIInv ==
  ASSUME IInv, NEW r, NEW pair, NEW headersOk, VerifyToken(r, pair, headersOk)
  PROVE  IInv'
<1>1. /\ UNCHANGED <<now, verified, revoked, vouched>>
      /\ r \notin DOMAIN checks
      /\ \/ checks' = checks /\ granted' = granted
         \/ /\ checks' = checks
            /\ Remembered(pair)
            /\ granted' = {[pair |-> pair, arrived |-> now]}
         \/ /\ pair \in AllowedPair
            /\ checks' = Put(checks, r, [pair |-> pair, now |-> now, answer |-> "waiting"])
            /\ granted' = granted
  BY DEF VerifyToken, Grant
<1>2. CASE checks' = checks /\ granted' = granted
  BY <1>1, <1>2 DEF IInv, TimesOK, ArrivalsPrecedeAcceptance, MemoryIsYoung,
                    NothingVouchedAfterRevocation, FailsClosed, WithinTtl
<1>3. CASE /\ checks' = checks
           /\ Remembered(pair)
           /\ granted' = {[pair |-> pair, arrived |-> now]}
  <2>1. /\ pair \in DOMAIN vouched
        /\ verified[pair] \in Nat
        /\ vouched[pair] \in Nat
        /\ now < verified[pair]
        /\ verified[pair] <= vouched[pair] + VerifyTtl
    BY <1>3 DEF Remembered, IInv, TimesOK, MemoryIsYoung
  <2>2. WithinTtl(now, vouched[pair])
    BY <2>1, VerifierConstants DEF WithinTtl, IInv, TimesOK
  <2>3. FailsClosed'
    BY <1>1, <1>3, <2>1, <2>2 DEF FailsClosed, WithinTtl
  <2>4. TimesOK'
    BY <1>1, <1>3 DEF IInv, TimesOK
  <2> QED BY <1>1, <1>3, <2>3, <2>4 DEF IInv, ArrivalsPrecedeAcceptance, MemoryIsYoung,
                                        NothingVouchedAfterRevocation
<1>4. CASE /\ pair \in AllowedPair
           /\ checks' = Put(checks, r, [pair |-> pair, now |-> now, answer |-> "waiting"])
           /\ granted' = granted
  <2>1. /\ DOMAIN checks' = DOMAIN checks \cup {r}
        /\ checks'[r] = [pair |-> pair, now |-> now, answer |-> "waiting"]
        /\ \A q \in DOMAIN checks : checks'[q] = checks[q]
    BY <1>1, <1>4 DEF Put
  <2>2. TimesOK'
    BY <1>1, <1>4, <2>1 DEF IInv, TimesOK, Answers
  <2>3. ArrivalsPrecedeAcceptance'
    BY <1>1, <2>1 DEF IInv, ArrivalsPrecedeAcceptance
  <2> QED BY <1>1, <1>4, <2>2, <2>3 DEF IInv, MemoryIsYoung, NothingVouchedAfterRevocation,
                                        FailsClosed, WithinTtl
<1> QED BY <1>1, <1>2, <1>3, <1>4

LEMMA SisenseAnswersIInv ==
  ASSUME IInv, NEW r, SisenseAnswers(r)
  PROVE  IInv'
<1> DEFINE pair == checks[r].pair
<1>1. PICK answer \in {"accepted", "refused"} :
        /\ answer = "accepted" => pair \notin DOMAIN revoked
        /\ checks' = [checks EXCEPT ![r].answer = answer]
        /\ vouched' = IF answer = "accepted" THEN Put(vouched, pair, now) ELSE vouched
  BY DEF SisenseAnswers
<1>2. /\ r \in DOMAIN checks
      /\ UNCHANGED <<now, verified, recency, revoked, granted>>
  BY DEF SisenseAnswers
<1>3. /\ DOMAIN checks' = DOMAIN checks
      /\ \A q \in DOMAIN checks : q # r => checks'[q] = checks[q]
      /\ checks'[r] = [checks[r] EXCEPT !.answer = answer]
  BY <1>1, <1>2
<1>4. \A q \in DOMAIN checks :
        /\ checks'[q] \in [pair : AllowedPair, now : Nat, answer : Answers]
        /\ checks'[q].now = checks[q].now
        /\ checks'[q].pair = checks[q].pair
  BY <1>2, <1>3 DEF IInv, TimesOK, Answers
<1>5. CASE answer = "refused"
  <2>1. vouched' = vouched
    BY <1>1, <1>5
  <2>2. TimesOK'
    BY <1>2, <1>3, <1>4, <2>1 DEF IInv, TimesOK
  <2>3. ArrivalsPrecedeAcceptance'
    <3>1. checks'[r].answer # "accepted" \/ checks'[r] = checks[r]
      BY <1>3, <1>5
    <3> QED BY <3>1, <1>2, <1>3, <2>1 DEF IInv, ArrivalsPrecedeAcceptance
  <2> QED BY <1>2, <2>1, <2>2, <2>3 DEF IInv, MemoryIsYoung, NothingVouchedAfterRevocation,
                                        FailsClosed, WithinTtl
<1>6. CASE answer = "accepted"
  <2>1. /\ DOMAIN vouched' = DOMAIN vouched \cup {pair}
        /\ vouched'[pair] = now
        /\ \A p \in DOMAIN vouched : p # pair => vouched'[p] = vouched[p]
    BY <1>1, <1>6 DEF Put
  <2>2. pair \notin DOMAIN revoked
    BY <1>1, <1>6
  <2> HIDE DEF pair
  <2>3. \A p \in DOMAIN vouched :
          /\ vouched[p] \in Nat
          /\ vouched'[p] \in Nat
          /\ vouched[p] <= vouched'[p]
          /\ vouched'[p] <= now
    BY <2>1 DEF IInv, TimesOK
  <2>4. TimesOK'
    BY <1>2, <1>3, <1>4, <2>1, <2>3 DEF IInv, TimesOK
  <2>5. ArrivalsPrecedeAcceptance'
    <3>1. checks'[r].pair = pair /\ checks'[r].now <= now
      BY <1>2, <1>4 DEF pair, IInv, TimesOK
    <3>2. ASSUME NEW q \in DOMAIN checks, q # r, checks[q].answer = "accepted"
          PROVE  /\ checks[q].pair \in DOMAIN vouched'
                 /\ checks[q].now <= vouched'[checks[q].pair]
      BY <3>2, <2>1, <2>3 DEF IInv, ArrivalsPrecedeAcceptance, TimesOK
    <3> QED BY <3>1, <3>2, <1>3, <2>1 DEF ArrivalsPrecedeAcceptance
  <2>6. MemoryIsYoung'
    BY <1>2, <2>1, <2>3, VerifierConstants DEF IInv, MemoryIsYoung, TimesOK
  <2>7. NothingVouchedAfterRevocation'
    BY <1>2, <2>1, <2>2 DEF IInv, NothingVouchedAfterRevocation
  <2>8. FailsClosed'
    BY <1>2, <2>1, <2>3, VerifierConstants DEF IInv, FailsClosed, WithinTtl, TimesOK
  <2> QED BY <2>4, <2>5, <2>6, <2>7, <2>8 DEF IInv
<1> QED BY <1>5, <1>6

LEMMA AcceptIInv ==
  ASSUME IInv, NEW r, Accept(r)
  PROVE  IInv'
<1> DEFINE pair == checks[r].pair
           order == KeptAfterInsert(recency, pair)
<1>1. /\ r \in DOMAIN checks
      /\ checks[r].answer = "accepted"
      /\ verified' = Keep(Put(verified, pair, checks[r].now + VerifyTtl), ToSet(order))
      /\ checks' = Pop(checks, {r})
      /\ granted' = {[pair |-> pair, arrived |-> checks[r].now]}
      /\ UNCHANGED <<now, revoked, vouched>>
  BY DEF Accept, Grant, Expiry
<1> HIDE DEF order
<1>2. /\ DOMAIN verified' \subseteq DOMAIN verified \cup {pair}
      /\ \A p \in DOMAIN verified' :
           verified'[p] = IF p = pair THEN checks[r].now + VerifyTtl ELSE verified[p]
  BY <1>1 DEF Keep, Put, Restrict
<1>3. /\ DOMAIN checks' \subseteq DOMAIN checks
      /\ \A q \in DOMAIN checks' : checks'[q] = checks[q]
  BY <1>1 DEF Pop, Restrict
<1>4. /\ pair \in DOMAIN vouched
      /\ checks[r].now \in Nat
      /\ vouched[pair] \in Nat
      /\ checks[r].now <= vouched[pair]
  BY <1>1 DEF IInv, ArrivalsPrecedeAcceptance, TimesOK
<1>5. checks[r].now + VerifyTtl \in Nat /\ checks[r].now + VerifyTtl <= vouched[pair] + VerifyTtl
  BY <1>4, VerifierConstants
<1>6. TimesOK'
  <2>1. \A p \in DOMAIN verified' : verified'[p] \in Nat
    BY <1>2, <1>5 DEF IInv, TimesOK
  <2>2. \A g \in granted' : g.arrived \in Nat
    BY <1>1, <1>4
  <2> QED BY <1>1, <1>3, <2>1, <2>2 DEF IInv, TimesOK
<1>7. ArrivalsPrecedeAcceptance'
  BY <1>1, <1>3 DEF IInv, ArrivalsPrecedeAcceptance
<1>8. MemoryIsYoung'
  BY <1>1, <1>2, <1>4, <1>5 DEF IInv, MemoryIsYoung
<1>9. FailsClosed'
  BY <1>1, <1>4 DEF FailsClosed, WithinTtl
<1> QED BY <1>1, <1>6, <1>7, <1>8, <1>9 DEF IInv, NothingVouchedAfterRevocation

\* Steps that only forget.
LEMMA ForgettingIInv ==
  ASSUME IInv,
         DOMAIN verified' \subseteq DOMAIN verified,
         \A p \in DOMAIN verified' : verified'[p] = verified[p],
         DOMAIN checks' \subseteq DOMAIN checks,
         \A q \in DOMAIN checks' : checks'[q] = checks[q],
         UNCHANGED <<revoked, vouched, granted>>,
         now' \in Nat, now <= now'
  PROVE  IInv'
<1>1. TimesOK'
  BY DEF IInv, TimesOK
<1> QED BY <1>1 DEF IInv, ArrivalsPrecedeAcceptance, MemoryIsYoung,
                    NothingVouchedAfterRevocation, FailsClosed, WithinTtl

LEMMA RevokeIInv ==
  ASSUME IInv, NEW pair, Revoke(pair)
  PROVE  IInv'
<1>1. /\ UNCHANGED <<now, verified, checks, vouched, granted>>
      /\ DOMAIN revoked' = DOMAIN revoked \cup {pair}
      /\ revoked'[pair] = now
      /\ \A p \in DOMAIN revoked : revoked'[p] = revoked[p]
  BY DEF Revoke, Put
<1>2. TimesOK'
  BY <1>1 DEF IInv, TimesOK
<1>3. NothingVouchedAfterRevocation'
  BY <1>1 DEF IInv, NothingVouchedAfterRevocation, TimesOK
<1> QED BY <1>1, <1>2, <1>3 DEF IInv, ArrivalsPrecedeAcceptance, MemoryIsYoung, FailsClosed,
                                WithinTtl

THEOREM InductiveInvariant == Spec => []IInv
<1>1. ASSUME IInv, [Next]_vars PROVE IInv'
  <2>1. CASE Tick
    BY <2>1, <1>1, ForgettingIInv DEF Tick, IInv, TimesOK
  <2>2. CASE Restart
    BY <2>2, <1>1, ForgettingIInv DEF Restart, EmptyDict, IInv, TimesOK
  <2>3. ASSUME NEW pair \in Pair, Revoke(pair) PROVE IInv'
    BY <2>3, <1>1, RevokeIInv
  <2>4. ASSUME NEW r \in Request, Refuse(r) PROVE IInv'
    <3>1. /\ verified' = Pop(verified, {checks[r].pair})
          /\ checks' = Pop(checks, {r})
          /\ UNCHANGED <<now, revoked, vouched, granted>>
      BY <2>4 DEF Refuse
    <3> QED BY <3>1, <1>1, ForgettingIInv DEF Pop, Restrict, IInv, TimesOK
  <2>5. ASSUME NEW r \in Request, NEW pair \in Pair, NEW headersOk \in BOOLEAN,
               VerifyToken(r, pair, headersOk)
        PROVE  IInv'
    BY <2>5, <1>1, VerifyTokenIInv
  <2>6. ASSUME NEW r \in Request, SisenseAnswers(r) \/ Accept(r) PROVE IInv'
    BY <2>6, <1>1, SisenseAnswersIInv, AcceptIInv
  <2>7. CASE UNCHANGED vars
    BY <2>7, <1>1, ForgettingIInv DEF vars, IInv, TimesOK
  <2> QED BY <1>1, <2>1, <2>2, <2>3, <2>4, <2>5, <2>6, <2>7 DEF Next
<1> QED BY <1>1, InitIInv, PTL DEF Spec
-----------------------------------------------------------------------------
\* A request is let through only on an acceptance by Sisense within verify_ttl.
THEOREM VerifierFailsClosed == Spec => []FailsClosed
<1>1. IInv => FailsClosed
  BY DEF IInv
<1> QED BY InductiveInvariant, <1>1, PTL

\* A revoked token stops working within verify_ttl, whatever is in flight.
THEOREM RevocationIsTimely == Spec => []RevocationTakesEffect
<1>1. ASSUME IInv PROVE RevocationTakesEffect
  <2>1. ASSUME NEW g \in granted, g.pair \in DOMAIN revoked
        PROVE  WithinTtl(g.arrived, revoked[g.pair])
    <3>1. /\ g.pair \in DOMAIN vouched
          /\ WithinTtl(g.arrived, vouched[g.pair])
          /\ vouched[g.pair] <= revoked[g.pair]
      BY <1>1, <2>1 DEF IInv, FailsClosed, NothingVouchedAfterRevocation
    <3>2. g.arrived \in Nat /\ vouched[g.pair] \in Nat /\ revoked[g.pair] \in Nat
      BY <1>1, <2>1, <3>1 DEF IInv, TimesOK
    <3> QED BY <3>1, <3>2, VerifierConstants DEF WithinTtl
  <2> QED BY <2>1 DEF RevocationTakesEffect
<1> QED BY InductiveInvariant, <1>1, PTL
-----------------------------------------------------------------------------
(* The memory. *)

OrderOK ==
  /\ recency \in Seq(AllowedPair)
  /\ Len(recency) <= MaxEntries

MemoryInv == TypeOK /\ OrderOK

\* A pair in the order or not: it is the last one now, and the order no longer than
\* its bound.
LEMMA KeptProperties ==
  ASSUME NEW order \in Seq(AllowedPair), IsInjective(order), NEW pair \in AllowedPair
  PROVE  /\ KeptAfterInsert(order, pair) \in Seq(AllowedPair)
         /\ IsInjective(KeptAfterInsert(order, pair))
         /\ ToSet(KeptAfterInsert(order, pair)) \subseteq ToSet(order) \cup {pair}
         /\ Len(KeptAfterInsert(order, pair)) <= MaxEntries
<1> DEFINE touched == MoveToEnd(order, pair)
           excess  == IF Len(touched) > MaxEntries THEN Len(touched) - MaxEntries ELSE 0
<1>1. /\ touched \in Seq(AllowedPair)
      /\ IsInjective(touched)
      /\ ToSet(touched) = ToSet(order) \cup {pair}
  BY MoveToEndProperties DEF MoveToEnd
<1> HIDE DEF touched
<1>2. excess \in 0..Len(touched) /\ Len(touched) - excess <= MaxEntries
  BY <1>1, VerifierConstants
<1> HIDE DEF excess
<1> QED BY <1>1, <1>2, SuffixProperties DEF KeptAfterInsert, touched, excess

LEMMA VerifyTokenKeepsMemory ==
  ASSUME MemoryInv, NEW r \in Request, NEW pair \in Pair, NEW headersOk,
         VerifyToken(r, pair, headersOk)
  PROVE  MemoryInv'
<1> USE DEF MemoryInv, OrderOK
<1>1. /\ UNCHANGED <<now, verified, revoked, vouched>>
      /\ r \notin DOMAIN checks
      /\ \/ UNCHANGED <<recency, checks, granted>>
         \/ /\ Remembered(pair)
            /\ recency' = MoveToEnd(recency, pair)
            /\ granted' = {[pair |-> pair, arrived |-> now]}
            /\ checks' = checks
         \/ /\ pair \in AllowedPair
            /\ checks' = Put(checks, r, [pair |-> pair, now |-> now, answer |-> "waiting"])
            /\ UNCHANGED <<recency, granted>>
  BY DEF VerifyToken, Grant
<1>2. CASE UNCHANGED <<recency, checks, granted>>
  BY <1>1, <1>2 DEF TypeOK
<1>3. CASE /\ Remembered(pair)
           /\ recency' = MoveToEnd(recency, pair)
           /\ granted' = {[pair |-> pair, arrived |-> now]}
           /\ checks' = checks
  <2>1. pair \in AllowedPair /\ pair \in ToSet(recency)
    BY <1>3 DEF Remembered, TypeOK
  <2>2. /\ recency' \in Seq(AllowedPair)
        /\ IsInjective(recency')
        /\ ToSet(recency') = ToSet(recency)
        /\ Len(recency') = Len(recency)
    <3>1. recency \in Seq(AllowedPair) /\ IsInjective(recency)
      BY DEF TypeOK
    <3>2. recency' = Append(RemoveFirst(recency, pair), pair)
      BY <1>3 DEF MoveToEnd
    <3>3. ToSet(recency) \cup {pair} = ToSet(recency)
      BY <2>1
    <3> HIDE DEF MemoryInv, OrderOK
    <3> QED BY <2>1, <3>1, <3>2, <3>3, MoveToEndProperties
  <2> QED BY <1>1, <1>3, <2>1, <2>2 DEF TypeOK
<1>4. CASE /\ pair \in AllowedPair
           /\ checks' = Put(checks, r, [pair |-> pair, now |-> now, answer |-> "waiting"])
           /\ UNCHANGED <<recency, granted>>
  BY <1>1, <1>4 DEF TypeOK, Put, Answers
<1> QED BY <1>1, <1>2, <1>3, <1>4

LEMMA SisenseAnswersKeepsMemory ==
  ASSUME MemoryInv, NEW r, SisenseAnswers(r)
  PROVE  MemoryInv'
<1>1. PICK answer \in {"accepted", "refused"} :
        /\ checks' = [checks EXCEPT ![r].answer = answer]
        /\ vouched' = IF answer = "accepted" THEN Put(vouched, checks[r].pair, now)
                      ELSE vouched
  BY DEF SisenseAnswers
<1>2. r \in DOMAIN checks /\ UNCHANGED <<now, verified, recency, revoked, granted>>
  BY DEF SisenseAnswers
<1>3. /\ DOMAIN checks' \subseteq Request
      /\ \A q \in DOMAIN checks' :
           checks'[q] \in [pair : AllowedPair, now : Nat, answer : Answers]
  BY <1>1, <1>2 DEF MemoryInv, TypeOK, Answers
<1>4. DOMAIN vouched' \subseteq AllowedPair /\ \A p \in DOMAIN vouched' : vouched'[p] \in Nat
  BY <1>1, <1>2 DEF MemoryInv, TypeOK, Put
<1> QED BY <1>2, <1>3, <1>4 DEF MemoryInv, TypeOK, OrderOK

LEMMA AcceptKeepsMemory ==
  ASSUME MemoryInv, NEW r, Accept(r)
  PROVE  MemoryInv'
<1> DEFINE pair == checks[r].pair
<1>1. /\ r \in DOMAIN checks
      /\ pair \in AllowedPair /\ checks[r].now \in Nat
      /\ recency' = KeptAfterInsert(recency, pair)
      /\ verified' = Keep(Put(verified, pair, checks[r].now + VerifyTtl), ToSet(recency'))
      /\ checks' = Pop(checks, {r})
      /\ granted' = {[pair |-> pair, arrived |-> checks[r].now]}
      /\ UNCHANGED <<now, revoked, vouched>>
  BY DEF Accept, Grant, Expiry, MemoryInv, TypeOK
<1>2. /\ recency' \in Seq(AllowedPair)
      /\ IsInjective(recency')
      /\ ToSet(recency') \subseteq DOMAIN verified \cup {pair}
      /\ Len(recency') <= MaxEntries
  BY <1>1, KeptProperties DEF MemoryInv, TypeOK, OrderOK
<1> HIDE DEF pair
<1>3. /\ DOMAIN verified' = ToSet(recency')
      /\ \A p \in DOMAIN verified' :
           verified'[p] = IF p = pair THEN checks[r].now + VerifyTtl ELSE verified[p]
  BY <1>1, <1>2 DEF Keep, Put, Restrict
<1>4. /\ DOMAIN verified' \subseteq AllowedPair
      /\ \A p \in DOMAIN verified' : verified'[p] \in Nat
  BY <1>1, <1>2, <1>3, VerifierConstants DEF MemoryInv, TypeOK
<1>5. /\ DOMAIN checks' \subseteq Request
      /\ \A q \in DOMAIN checks' :
           checks'[q] \in [pair : AllowedPair, now : Nat, answer : Answers]
  BY <1>1 DEF MemoryInv, TypeOK, Pop, Restrict
<1>6. granted' \subseteq [pair : AllowedPair, arrived : Nat]
  BY <1>1
<1> QED BY <1>1, <1>2, <1>3, <1>4, <1>5, <1>6 DEF MemoryInv, TypeOK, OrderOK

LEMMA RefuseKeepsMemory ==
  ASSUME MemoryInv, NEW r, Refuse(r)
  PROVE  MemoryInv'
<1> DEFINE pair == checks[r].pair
<1>1. /\ verified' = Pop(verified, {pair})
      /\ recency' = RemoveFirst(recency, pair)
      /\ checks' = Pop(checks, {r})
      /\ UNCHANGED <<now, revoked, vouched, granted>>
  BY DEF Refuse
<1> HIDE DEF pair
<1>2. /\ recency' \in Seq(AllowedPair)
      /\ IsInjective(recency')
      /\ ToSet(recency') = ToSet(recency) \ {pair}
      /\ Len(recency') <= Len(recency)
  BY <1>1, RemoveFirstProperties DEF MemoryInv, TypeOK, OrderOK
<1>3. Len(recency') <= MaxEntries
  BY <1>2, VerifierConstants DEF MemoryInv, OrderOK
<1> QED BY <1>1, <1>2, <1>3 DEF MemoryInv, TypeOK, OrderOK, Pop, Restrict

LEMMA MemoryInvariant == Spec => []MemoryInv
<1>1. Init => MemoryInv
  BY VerifierConstants, EmptySeq DEF Init, EmptyDict, MemoryInv, TypeOK, OrderOK, IsInjective, ToSet
<1>2. ASSUME MemoryInv, [Next]_vars PROVE MemoryInv'
  <2>1. CASE Tick
    BY <1>2, <2>1 DEF Tick, MemoryInv, TypeOK, OrderOK
  <2>2. CASE Restart
    BY <1>2, <2>2, VerifierConstants, EmptySeq
       DEF Restart, EmptyDict, MemoryInv, TypeOK, OrderOK, IsInjective, ToSet
  <2>3. ASSUME NEW pair \in Pair, Revoke(pair) PROVE MemoryInv'
    BY <1>2, <2>3 DEF Revoke, Put, MemoryInv, TypeOK, OrderOK
  <2>4. ASSUME NEW r \in Request, NEW pair \in Pair, NEW headersOk \in BOOLEAN,
               VerifyToken(r, pair, headersOk)
        PROVE  MemoryInv'
    BY <1>2, <2>4, VerifyTokenKeepsMemory
  <2>5. ASSUME NEW r \in Request, SisenseAnswers(r) \/ Accept(r) \/ Refuse(r)
        PROVE  MemoryInv'
    BY <1>2, <2>5, SisenseAnswersKeepsMemory, AcceptKeepsMemory, RefuseKeepsMemory
  <2>6. CASE UNCHANGED vars
    BY <1>2, <2>6 DEF vars, MemoryInv, TypeOK, OrderOK
  <2> QED BY <1>2, <2>1, <2>2, <2>3, <2>4, <2>5, <2>6 DEF Next
<1> QED BY <1>1, <1>2, PTL DEF Spec

\* Only pairs whose origin is allowed are ever checked, remembered or let through, and
\* the LRU order ranks each remembered pair once.
THEOREM VerifierTypes == Spec => []TypeOK
<1>1. MemoryInv => TypeOK
  BY DEF MemoryInv
<1> QED BY MemoryInvariant, <1>1, PTL

\* The memory never holds more than MAX_VERIFIED_ENTRIES pairs, however many checks
\* succeed at a time.
THEOREM VerifierMemoryIsBounded == Spec => []MemoryIsBounded
<1>1. ASSUME MemoryInv PROVE MemoryIsBounded
  <2>1. Cardinality(ToSet(recency)) = Len(recency)
    BY <1>1, OrderCardinality DEF MemoryInv, TypeOK, OrderOK
  <2> QED BY <1>1, <2>1 DEF MemoryInv, TypeOK, OrderOK, MemoryIsBounded
<1> QED BY MemoryInvariant, <1>1, PTL
=============================================================================
