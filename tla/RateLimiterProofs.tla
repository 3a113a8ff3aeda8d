------------------------- MODULE RateLimiterProofs -------------------------
(***************************************************************************)
(* The limiter's bound, for every set of keys and every value of           *)
(* max_attempts, window_seconds and the cleanup threshold.                 *)
(***************************************************************************)
EXTENDS RateLimiter, FiniteSetTheorems, TLAPS

\* The table holds only admitted calls, and all those still in the window.
TableIsRecent ==
  /\ \A k \in DOMAIN attempts : attempts[k] \subseteq admitted[k]
  /\ \A k \in Key : \A e \in admitted[k] :
       Within(e, now) => k \in DOMAIN attempts /\ e \in attempts[k]

\* Every list that is not empty has a last entry.
ListsHaveALast ==
  \A k \in DOMAIN attempts :
    attempts[k] # {} => \E last \in attempts[k] : IsLast(last, attempts[k])

\* The admitted calls are in the past, finitely many, and those of this instant
\* carry numbers below the length of the list the next one is appended to.
HistoryIsOrdered ==
  \A k \in Key :
    /\ IsFiniteSet(admitted[k])
    /\ \A e \in admitted[k] : e.at <= now
    /\ \A e \in admitted[k] : e.at = now => e.nth < Cardinality(AdmittedIn(k, now))

IInv == TypeOK /\ TableIsRecent /\ ListsHaveALast /\ HistoryIsOrdered /\ WindowBound

NewEntry(key) == [at |-> now, nth |-> Cardinality(AdmittedIn(key, now))]

\* What allow() computes from the table is what the whole history says.
LEMMA RecentIsAdmitted ==
  ASSUME IInv, NEW key \in Key
  PROVE  /\ Recent(attempts, key, now) = AdmittedIn(key, now)
         /\ IsFiniteSet(AdmittedIn(key, now))
         /\ Cardinality(AdmittedIn(key, now)) \in Nat
         /\ NewEntry(key) \in Entry
         /\ NewEntry(key) \notin admitted[key]
<1>1. Recent(attempts, key, now) = AdmittedIn(key, now)
  BY DEF IInv, TypeOK, TableIsRecent, HistoryIsOrdered, Recent, AdmittedIn, Get
<1>2. IsFiniteSet(AdmittedIn(key, now))
  BY FS_Subset DEF IInv, HistoryIsOrdered, AdmittedIn
<1>3. Cardinality(AdmittedIn(key, now)) \in Nat
  BY <1>2, FS_CardinalityType
<1>4. NewEntry(key) \in Entry
  BY <1>3 DEF IInv, TypeOK, NewEntry, Entry
<1>5. NewEntry(key) \notin admitted[key]
  <2>1. SUFFICES ASSUME NewEntry(key) \in admitted[key] PROVE FALSE
    OBVIOUS
  <2>2. NewEntry(key).at = now /\ NewEntry(key).nth = Cardinality(AdmittedIn(key, now))
    BY DEF NewEntry
  <2> QED BY <2>1, <2>2, <1>3 DEF IInv, HistoryIsOrdered
<1> QED BY <1>1, <1>2, <1>3, <1>4, <1>5

\* The lists after a call: the caller's is cut to the window, and extended when
\* it is admitted; another key's is as it was, or gone with no call in the window.
LEMMA TableAfterCall ==
  ASSUME IInv, NEW key \in Key, Allow(key)
  PROVE  /\ DOMAIN attempts' \subseteq DOMAIN attempts \cup {key}
         /\ \A k \in DOMAIN attempts' :
              k # key => k \in DOMAIN attempts /\ attempts'[k] = attempts[k]
         /\ key \in DOMAIN attempts'
         /\ attempts'[key] =
              IF Admits(attempts, key, now)
              THEN AdmittedIn(key, now) \cup {NewEntry(key)}
              ELSE AdmittedIn(key, now)
         /\ \A k \in DOMAIN attempts \ DOMAIN attempts' :
              \A e \in attempts[k] : ~Within(e, now)
<1> DEFINE R == AdmittedIn(key, now)
           counted == R \cup {NewEntry(key)}
           extended == Put(attempts, key, counted)
<1>1. Recent(attempts, key, now) = R
  BY RecentIsAdmitted
<1>2. /\ DOMAIN extended = DOMAIN attempts \cup {key}
      /\ extended[key] = counted
      /\ \A k \in DOMAIN attempts : k # key => extended[k] = attempts[k]
  BY DEF Put
<1>3. key \in StillActive(extended, now)
  <2>1. NewEntry(key) \in extended[key] /\ NewEntry(key).at = now
    BY <1>2 DEF NewEntry
  <2>2. IsLast(NewEntry(key), extended[key])
    BY <1>2, <2>1 DEF IInv, TypeOK, HistoryIsOrdered, IsLast, AdmittedIn
  <2>3. Within(NewEntry(key), now)
    BY <2>1, LimiterConstants DEF IInv, TypeOK, Within
  <2> QED BY <1>2, <2>1, <2>2, <2>3 DEF StillActive
<1>4. ASSUME NEW k \in DOMAIN attempts, k # key, k \notin StillActive(extended, now),
             NEW e \in attempts[k], Within(e, now)
      PROVE  FALSE
  <2>1. PICK last \in attempts[k] : IsLast(last, attempts[k])
    BY <1>4 DEF IInv, ListsHaveALast
  <2>2. e.at \in Nat /\ last.at \in Nat /\ e.at <= last.at
    BY <2>1 DEF IInv, TypeOK, IsLast, Entry
  <2>3. Within(last, now)
    BY <1>4, <2>2, LimiterConstants DEF Within, IInv, TypeOK
  <2> QED BY <1>2, <1>4, <2>1, <2>3 DEF StillActive
<1>5. CASE ~Admits(attempts, key, now)
  <2>1. attempts' = Put(attempts, key, R)
    BY <1>1, <1>5 DEF Allow, AfterCall
  <2> QED BY <2>1, <1>5 DEF Put
<1>6. CASE Admits(attempts, key, now)
  <2>1. attempts' = IF Cardinality(DOMAIN extended) > MaxKeys
                    THEN Keep(extended, StillActive(extended, now))
                    ELSE extended
    BY <1>1, <1>6 DEF Allow, AfterCall, NewEntry
  <2>2. CASE attempts' = extended
    BY <2>2, <1>2, <1>6
  <2>3. CASE attempts' = Keep(extended, StillActive(extended, now))
    <3>1. /\ DOMAIN attempts' = DOMAIN extended \cap StillActive(extended, now)
          /\ \A k \in DOMAIN attempts' : attempts'[k] = extended[k]
      BY <2>3 DEF Keep, Restrict
    <3> QED BY <3>1, <1>2, <1>3, <1>4, <1>6
  <2> QED BY <2>1, <2>2, <2>3
<1> QED BY <1>5, <1>6

-----------------------------------------------------------------------------
LEMMA InitIInv == Init => IInv
<1> SUFFICES ASSUME Init PROVE IInv
  OBVIOUS
<1>1. \A k \in Key : \A t : AdmittedIn(k, t) = {}
  BY DEF Init, AdmittedIn
<1>2. TypeOK /\ TableIsRecent /\ ListsHaveALast
  BY DEF Init, TypeOK, EmptyDict, TableIsRecent, ListsHaveALast
<1>3. HistoryIsOrdered /\ WindowBound
  BY <1>1, FS_EmptySet, LimiterConstants DEF Init, HistoryIsOrdered, WindowBound
<1> QED BY <1>2, <1>3 DEF IInv

LEMMA AllowIInv ==
  ASSUME IInv, NEW key \in Key, Allow(key)
  PROVE  IInv'
<1> DEFINE new == NewEntry(key)
           R   == AdmittedIn(key, now)
<1>1. /\ Recent(attempts, key, now) = R
      /\ IsFiniteSet(R)
      /\ Cardinality(R) \in Nat
      /\ new \in Entry
      /\ new \notin admitted[key]
  BY RecentIsAdmitted
<1>2. now' = now /\ now \in Nat /\ new.at = now /\ new.nth = Cardinality(R)
  BY DEF Allow, IInv, TypeOK, NewEntry
<1>3. admitted' = IF Admits(attempts, key, now)
                  THEN [admitted EXCEPT ![key] = @ \cup {new}]
                  ELSE admitted
  BY <1>1 DEF Allow, NewEntry
<1>4. /\ DOMAIN attempts' \subseteq DOMAIN attempts \cup {key}
      /\ \A k \in DOMAIN attempts' :
           k # key => k \in DOMAIN attempts /\ attempts'[k] = attempts[k]
      /\ key \in DOMAIN attempts'
      /\ attempts'[key] =
           IF Admits(attempts, key, now) THEN R \cup {new} ELSE R
      /\ \A k \in DOMAIN attempts \ DOMAIN attempts' :
           \A e \in attempts[k] : ~Within(e, now)
  BY TableAfterCall
<1>5. /\ admitted' \in [Key -> SUBSET Entry]
      /\ \A k \in Key : k # key => admitted'[k] = admitted[k]
      /\ admitted'[key] =
           IF Admits(attempts, key, now) THEN admitted[key] \cup {new} ELSE admitted[key]
  BY <1>1, <1>3 DEF IInv, TypeOK
<1>6. R \subseteq admitted[key]
  BY DEF AdmittedIn
<1>7. Within(new, now)
  BY <1>2, LimiterConstants DEF Within
<1>8. TypeOK'
  <2>1. Cardinality(R) <= MaxAttempts
    BY <1>2 DEF IInv, WindowBound
  <2>2. Cardinality(R \cup {new}) = Cardinality(R) + 1
    BY <1>1, <1>6, FS_AddElement
  <2>3. Admits(attempts, key, now) => Cardinality(R) < MaxAttempts
    BY <1>1 DEF Admits
  <2>4. Cardinality(attempts'[key]) <= MaxAttempts
    BY <1>1, <1>4, <2>1, <2>2, <2>3, LimiterConstants
  <2>5. attempts'[key] \subseteq Entry
    BY <1>1, <1>4, <1>6 DEF IInv, TypeOK
  <2>6. \A k \in DOMAIN attempts' :
          k # key => attempts'[k] \subseteq Entry /\ Cardinality(attempts'[k]) <= MaxAttempts
    BY <1>4 DEF IInv, TypeOK
  <2>7. DOMAIN attempts' \subseteq Key
    BY <1>4 DEF IInv, TypeOK
  <2> QED BY <1>2, <1>5, <2>4, <2>5, <2>6, <2>7 DEF TypeOK
<1>9. TableIsRecent'
  <2>1. \A k \in DOMAIN attempts' : attempts'[k] \subseteq admitted'[k]
    BY <1>4, <1>5, <1>6 DEF IInv, TypeOK, TableIsRecent
  <2>2. ASSUME NEW k \in Key, NEW e \in admitted'[k], Within(e, now)
        PROVE  k \in DOMAIN attempts' /\ e \in attempts'[k]
    <3>1. CASE k = key
      <4>1. e \in admitted[key] => e \in R
        BY <2>2, <1>2 DEF IInv, HistoryIsOrdered, AdmittedIn
      <4> QED BY <3>1, <4>1, <1>4, <1>5
    <3>2. CASE k # key
      BY <3>2, <2>2, <1>4, <1>5 DEF IInv, TableIsRecent
    <3> QED BY <3>1, <3>2
  <2> QED BY <2>1, <2>2, <1>2 DEF TableIsRecent, Within
<1>10. ListsHaveALast'
  <2>1. ASSUME NEW k \in DOMAIN attempts', attempts'[k] # {}
        PROVE  \E last \in attempts'[k] : IsLast(last, attempts'[k])
    <3>1. CASE k # key
      BY <3>1, <2>1, <1>4 DEF IInv, ListsHaveALast
    <3>2. CASE k = key /\ Admits(attempts, key, now)
      <4>1. attempts'[k] = R \cup {new}
        BY <3>2, <1>4
      <4>2. IsLast(new, R \cup {new})
        BY <1>2 DEF IsLast, AdmittedIn, IInv, TypeOK, HistoryIsOrdered
      <4> QED BY <4>1, <4>2
    <3>3. CASE k = key /\ ~Admits(attempts, key, now)
      <4>1. attempts'[k] = R
        BY <3>3, <1>4
      <4>2. PICK e \in R : TRUE
        BY <4>1, <2>1
      <4>3. e \in admitted[key] /\ Within(e, now)
        BY DEF AdmittedIn
      <4>4. key \in DOMAIN attempts /\ e \in attempts[key]
        BY <4>3 DEF IInv, TableIsRecent
      <4>5. PICK last \in attempts[key] : IsLast(last, attempts[key])
        BY <4>4 DEF IInv, ListsHaveALast
      <4>6. last \in admitted[key] /\ e.at <= last.at
        BY <4>4, <4>5 DEF IInv, TableIsRecent, IsLast
      <4>7. last \in R
        BY <4>3, <4>6, <1>2, LimiterConstants
        DEF IInv, TypeOK, HistoryIsOrdered, AdmittedIn, Within, Entry
      <4>8. R \subseteq attempts[key]
        BY <4>4 DEF IInv, TableIsRecent, AdmittedIn
      <4> QED BY <4>1, <4>5, <4>7, <4>8 DEF IsLast
    <3> QED BY <3>1, <3>2, <3>3
  <2> QED BY <2>1 DEF ListsHaveALast, IsLast
<1>11. AdmittedIn(key, now)' =
         IF Admits(attempts, key, now) THEN R \cup {new} ELSE R
  BY <1>2, <1>5, <1>7 DEF AdmittedIn, Within
<1>12. \A k \in Key : k # key => \A t : AdmittedIn(k, t)' = AdmittedIn(k, t)
  BY <1>5 DEF AdmittedIn, Within
<1>13. Admits(attempts, key, now) => Cardinality(R \cup {new}) = Cardinality(R) + 1
  BY <1>1, <1>6, FS_AddElement
<1>14. HistoryIsOrdered'
  <2>1. ASSUME NEW k \in Key, k # key
        PROVE  /\ IsFiniteSet(admitted'[k])
               /\ \A e \in admitted'[k] : e.at <= now
               /\ \A e \in admitted'[k] :
                    e.at = now => e.nth < Cardinality(AdmittedIn(k, now)')
    <3>1. admitted'[k] = admitted[k]
      BY <2>1, <1>5
    <3>2. AdmittedIn(k, now)' = AdmittedIn(k, now)
      BY <3>1, <1>2 DEF AdmittedIn, Within
    <3> QED BY <3>1, <3>2 DEF IInv, HistoryIsOrdered
  <2>2. IsFiniteSet(admitted'[key])
    <3>1. IsFiniteSet(admitted[key])
      BY DEF IInv, HistoryIsOrdered
    <3>2. IsFiniteSet(admitted[key] \cup {new})
      BY <3>1, FS_AddElement
    <3> QED BY <3>1, <3>2, <1>5
  <2>3. \A e \in admitted'[key] : e.at <= now
    BY <1>5, <1>2 DEF IInv, HistoryIsOrdered
  <2>4. ASSUME NEW e \in admitted'[key], e.at = now
        PROVE  e.nth < Cardinality(AdmittedIn(key, now)')
    <3>1. e \in admitted[key] => e.nth \in Nat /\ e.nth < Cardinality(R)
      BY <2>4 DEF IInv, TypeOK, Entry, HistoryIsOrdered
    <3> QED BY <3>1, <2>4, <1>1, <1>2, <1>5, <1>11, <1>13
  <2> QED BY <2>1, <2>2, <2>3, <2>4, <1>2 DEF HistoryIsOrdered
<1>15. WindowBound'
  <2>1. ASSUME NEW k \in Key, NEW t \in 0..now
        PROVE  Cardinality(AdmittedIn(k, t)') <= MaxAttempts
    <3>1. CASE k # key
      BY <3>1, <1>12 DEF IInv, WindowBound
    <3>2. CASE k = key /\ t = now
      <4>1. CASE Admits(attempts, key, now)
        <5>1. Cardinality(R) < MaxAttempts
          BY <4>1, <1>1 DEF Admits
        <5>2. Cardinality(AdmittedIn(k, t)') = Cardinality(R) + 1
          BY <3>2, <4>1, <1>2, <1>11, <1>13 DEF AdmittedIn
        <5> QED BY <5>1, <5>2, <1>1, LimiterConstants
      <4>2. CASE ~Admits(attempts, key, now)
        <5>1. AdmittedIn(k, t)' = AdmittedIn(k, t)
          BY <3>2, <4>2, <1>5 DEF AdmittedIn, Within
        <5> QED BY <5>1 DEF IInv, WindowBound
      <4> QED BY <4>1, <4>2
    <3>3. CASE k = key /\ t # now
      <4>1. ~(new.at <= t)
        BY <3>3, <1>2
      <4>2. AdmittedIn(k, t)' = AdmittedIn(k, t)
        BY <3>3, <4>1, <1>5 DEF AdmittedIn, Within
      <4> QED BY <4>2 DEF IInv, WindowBound
    <3> QED BY <3>1, <3>2, <3>3
  <2> QED BY <2>1, <1>2 DEF WindowBound, AdmittedIn
<1> QED BY <1>8, <1>9, <1>10, <1>14, <1>15 DEF IInv

LEMMA TickIInv == IInv /\ Tick => IInv'
<1> SUFFICES ASSUME IInv, Tick PROVE IInv'
  OBVIOUS
<1>1. now \in Nat /\ now' = now + 1 /\ UNCHANGED <<attempts, admitted>>
  BY DEF Tick, IInv, TypeOK
<1>2. TypeOK' /\ ListsHaveALast'
  BY <1>1 DEF IInv, TypeOK, ListsHaveALast, IsLast
<1>3. TableIsRecent'
  <2>1. ASSUME NEW e \in Entry, Within(e, now') PROVE Within(e, now)
    BY <2>1, <1>1, LimiterConstants DEF Within, Entry
  <2>2. \A k \in Key : admitted[k] \subseteq Entry
    BY DEF IInv, TypeOK
  <2> QED BY <2>1, <2>2, <1>1 DEF IInv, TableIsRecent, Within
<1>4. HistoryIsOrdered'
  <2>1. ASSUME NEW k \in Key, NEW e \in admitted[k]
        PROVE  e.at \in Nat /\ e.at <= now' /\ e.at # now'
    BY <1>1 DEF IInv, TypeOK, Entry, HistoryIsOrdered
  <2> QED BY <2>1, <1>1 DEF IInv, HistoryIsOrdered
<1>5. WindowBound'
  <2>1. ASSUME NEW k \in Key, NEW t \in 0..now'
        PROVE  Cardinality(AdmittedIn(k, t)) <= MaxAttempts
    <3>1. CASE t \in 0..now
      BY <3>1 DEF IInv, WindowBound
    <3>2. CASE t = now + 1
      <4>1. AdmittedIn(k, t) \subseteq AdmittedIn(k, now)
        BY <3>2, <1>1, LimiterConstants
        DEF AdmittedIn, Within, IInv, HistoryIsOrdered, TypeOK, Entry
      <4>2. /\ IsFiniteSet(AdmittedIn(k, now))
            /\ Cardinality(AdmittedIn(k, now)) \in Nat
        BY RecentIsAdmitted
      <4>3. /\ Cardinality(AdmittedIn(k, t)) <= Cardinality(AdmittedIn(k, now))
            /\ Cardinality(AdmittedIn(k, t)) \in Nat
        BY <4>1, <4>2, FS_Subset, FS_CardinalityType
      <4>4. Cardinality(AdmittedIn(k, now)) <= MaxAttempts
        BY <1>1 DEF IInv, WindowBound
      <4> QED BY <4>2, <4>3, <4>4, LimiterConstants
    <3> QED BY <3>1, <3>2, <1>1
  <2> QED BY <2>1, <1>1 DEF WindowBound, AdmittedIn
<1> QED BY <1>2, <1>3, <1>4, <1>5 DEF IInv

LEMMA StutterIInv == IInv /\ UNCHANGED vars => IInv'
BY DEF IInv, vars, TypeOK, TableIsRecent, ListsHaveALast, IsLast, HistoryIsOrdered,
       WindowBound, AdmittedIn, Within

THEOREM InductiveInvariant == Spec => []IInv
<1>1. IInv /\ [Next]_vars => IInv'
  BY AllowIInv, TickIInv, StutterIInv DEF Next
<1> QED BY InitIInv, <1>1, PTL DEF Spec
-----------------------------------------------------------------------------
\* No list of the table is longer than the budget of its key, whatever is refused.
THEOREM TableIsBounded == Spec => []TypeOK
<1>1. IInv => TypeOK
  BY DEF IInv
<1> QED BY InductiveInvariant, <1>1, PTL

\* _RateLimiter never admits more than max_attempts calls of one key in any
\* window, for every table size at which the cleanup runs.
THEOREM LimiterIsSound == Spec => []WindowBound
<1>1. IInv => WindowBound
  BY DEF IInv
<1> QED BY InductiveInvariant, <1>1, PTL

\* _RateLimiter refuses a call only when that key's own admitted calls fill the
\* window: neither refused calls nor other keys' calls count against it.
THEOREM LimiterIsFair == Spec => RefusalIsEarned
<1>1. ASSUME IInv, NEW k \in Key, ~Admits(attempts, k, now)
      PROVE  Cardinality(AdmittedIn(k, now)) >= MaxAttempts
  BY <1>1, RecentIsAdmitted, LimiterConstants DEF Admits
<1>2. IInv => \A k \in Key :
                Allow(k) /\ ~Admits(attempts, k, now)
                  => Cardinality(AdmittedIn(k, now)) >= MaxAttempts
  BY <1>1
<1> QED BY InductiveInvariant, <1>2, PTL DEF RefusalIsEarned
=============================================================================
