-------------------------- MODULE OutboxRelayProofs --------------------------
(***************************************************************************)
(* Theorems about OutboxRelay, for every set of intents and relays and     *)
(* every bound on time and failures.                                       *)
(***************************************************************************)
EXTENDS OutboxRelay, FiniteSetTheorems, TLAPS

\* What a relay has at hand at each point of its loop.
RelayOK(r) ==
    /\ pc[r] = "ready" => claim[r] = None /\ ~live[r]
    /\ pc[r] # "ready" => claim[r] \in Intents /\ Recorded(claim[r])
    /\ pc[r] = "confirmed" => copies[claim[r]] > 0
    /\ pc[r] = "failed" => retryAt[r] \in Nat

RelaysOK == \A r \in Relays : RelayOK(r)

IInv == TypeOK /\ RelaysOK /\ ClaimsAreExclusive

LEMMA InitIInv == Init => IInv
<1> SUFFICES ASSUME Init PROVE IInv
  OBVIOUS
<1>1. TypeOK
  BY DEF Init, TypeOK
<1>2. RelaysOK /\ ClaimsAreExclusive
  BY DEF Init, RelaysOK, RelayOK, ClaimsAreExclusive
<1> QED BY <1>1, <1>2 DEF IInv

\* What mark_published and mark_failed make of a row.
LEMMA MarkedRow ==
    ASSUME NEW x \in Rows, NEW at \in Nat
    PROVE  /\ MarkPublished(x) \in Rows /\ MarkPublished(x).published = TRUE
           /\ MarkFailed(x, at) \in Rows
           /\ MarkFailed(x, at).published = x.published
<1> DEFINE counted == [x EXCEPT !.attempts = x.attempts + 1]
<1>1. counted \in Rows
  BY DEF Rows
<1>2. MarkPublished(x) = [counted EXCEPT !.published = TRUE]
  BY DEF MarkPublished
<1>3. MarkFailed(x, at) = [counted EXCEPT !.nextAttempt = at]
  BY DEF MarkFailed
<1>4. MarkPublished(x) \in Rows
  <2> HIDE DEF counted
  <2> QED BY <1>1, <1>2 DEF Rows
<1>5. MarkPublished(x).published = TRUE
  BY DEF Rows, MarkPublished
<1>6. MarkFailed(x, at) \in Rows
  <2> HIDE DEF counted
  <2> QED BY <1>1, <1>3 DEF Rows
<1>7. MarkFailed(x, at).published = x.published
  BY DEF Rows, MarkFailed
<1> QED BY <1>4, <1>5, <1>6, <1>7

\* A row, once recorded, stays a row.
LEMMA CommitRow ==
    ASSUME IInv, NEW r \in Relays, Commit(r)
    PROVE  /\ claim[r] \in Intents /\ Recorded(claim[r]) /\ outbox[claim[r]] \in Rows
           /\ outbox' \in [Intents -> {None} \cup Rows]
           /\ \A i \in Intents \ {claim[r]} : outbox'[i] = outbox[i]
           /\ outbox'[claim[r]] \in Rows
           /\ outbox'[claim[r]].published <=> pc[r] = "confirmed"
<1>1. claim[r] \in Intents /\ Recorded(claim[r]) /\ (pc[r] = "failed" => retryAt[r] \in Nat)
  BY DEF IInv, RelaysOK, RelayOK, Commit
<1>2. outbox \in [Intents -> {None} \cup Rows] /\ pc[r] \in {"confirmed", "failed"}
  BY DEF IInv, TypeOK, Commit
<1>3. outbox[claim[r]] \in Rows
  BY <1>1, <1>2 DEF Recorded
<1>4. ~outbox[claim[r]].published
  BY <1>1, NoneAssumption, IntentsAssumption DEF IInv, ClaimsAreExclusive, Commit
<1> DEFINE old == outbox[claim[r]]
           done == MarkPublished(old)
           late == MarkFailed(old, retryAt[r])
<1>5. CASE pc[r] = "confirmed"
  <2>1. outbox' = [outbox EXCEPT ![claim[r]] = done]
    BY <1>5 DEF Commit
  <2>2. done \in Rows /\ done.published = TRUE
    BY <1>3, 0 \in Nat, MarkedRow
  <2> QED BY <1>1, <1>2, <1>3, <1>5, <2>1, <2>2
<1>6. CASE pc[r] = "failed"
  <2>1. outbox' = [outbox EXCEPT ![claim[r]] = late]
    BY <1>6 DEF Commit
  <2>2. late \in Rows /\ late.published = old.published
    BY <1>1, <1>3, <1>6, MarkedRow
  <2> HIDE DEF late, old
  <2>3. outbox'[claim[r]] = late
    BY <1>1, <1>2, <2>1
  <2>4. ~ outbox'[claim[r]].published
    BY <1>4, <2>2, <2>3 DEF old
  <2> QED BY <1>1, <1>2, <1>3, <1>6, <2>1, <2>2, <2>3, <2>4
<1> QED BY <1>2, <1>5, <1>6

LEMMA TypeStep == IInv /\ [Next]_vars => TypeOK'
<1> SUFFICES ASSUME IInv, [Next]_vars PROVE TypeOK'
  OBVIOUS
<1>0. TypeOK /\ RelaysOK
  BY DEF IInv
<1>1. CASE UNCHANGED vars
  BY <1>0, <1>1 DEF TypeOK, vars
<1>2. CASE Tick
  BY <1>0, <1>2 DEF TypeOK, Tick
<1>3. ASSUME NEW i \in Intents, Record(i) PROVE TypeOK'
  BY <1>0, <1>3 DEF TypeOK, Record, Rows
<1>4. ASSUME NEW r \in Relays, NEW i \in Intents, ClaimNext(r, i) PROVE TypeOK'
  BY <1>0, <1>4 DEF TypeOK, ClaimNext
<1>5. ASSUME NEW r \in Relays, pc[r] # "ready" PROVE claim[r] \in Intents
  BY <1>0, <1>5 DEF RelaysOK, RelayOK
<1>6. ASSUME NEW r \in Relays, Confirm(r) PROVE TypeOK'
  BY <1>0, <1>5, <1>6 DEF TypeOK, Confirm, Take
<1>7. ASSUME NEW r \in Relays, PublishFails(r) PROVE TypeOK'
  BY <1>0, <1>5, <1>7, RetryAssumption DEF TypeOK, PublishFails, Take, Orphan, Fault
<1>8. ASSUME NEW r \in Relays, Commit(r) PROVE TypeOK'
  <2>1. outbox' \in [Intents -> {None} \cup Rows]
    BY <1>8, CommitRow
  <2> QED BY <1>0, <1>8, <2>1 DEF TypeOK, Commit, Leave
<1>9. ASSUME NEW r \in Relays, CommitFails(r) PROVE TypeOK'
  BY <1>0, <1>5, <1>9 DEF TypeOK, CommitFails, Leave, Forget, Orphan, Fault
<1>10. ASSUME NEW r \in Relays, SessionLost(r) PROVE TypeOK'
  BY <1>0, <1>10 DEF TypeOK, SessionLost, Fault
<1>11. ASSUME NEW r \in Relays, Crash(r) PROVE TypeOK'
  BY <1>0, <1>5, <1>11 DEF TypeOK, Crash, Leave, Forget, Take, Orphan, Fault
<1> QED
  BY <1>1, <1>2, <1>3, <1>4, <1>6, <1>7, <1>8, <1>9, <1>10, <1>11 DEF Next, RelayStep

\* Nothing takes a recorded intent, or a copy of it, away again.
LEMMA NothingForgotten ==
    ASSUME IInv, [Next]_vars
    PROVE  \A i \in Intents : /\ Recorded(i) => Recorded(i)'
                              /\ copies'[i] \in Nat /\ copies'[i] >= copies[i]
<1> SUFFICES ASSUME NEW i \in Intents
             PROVE  /\ Recorded(i) => Recorded(i)'
                    /\ copies'[i] \in Nat /\ copies'[i] >= copies[i]
  OBVIOUS
<1>0. /\ TypeOK /\ RelaysOK
      /\ copies \in [Intents -> Nat] /\ copies[i] \in Nat
  BY DEF IInv, TypeOK
<1>1. CASE UNCHANGED vars
  BY <1>0, <1>1 DEF vars, Recorded
<1>2. CASE Tick
  BY <1>0, <1>2 DEF Tick, Recorded
<1>3. ASSUME NEW j \in Intents, Record(j)
      PROVE  (Recorded(i) => Recorded(i)') /\ copies' = copies
  BY <1>0, <1>3 DEF Record, Recorded, TypeOK
<1>4. ASSUME NEW r \in Relays, NEW j \in Intents, ClaimNext(r, j)
      PROVE  outbox' = outbox /\ copies' = copies
  BY <1>4 DEF ClaimNext
<1>5. ASSUME NEW r \in Relays, NEW j \in Intents, Take(j)
      PROVE  copies'[i] \in Nat /\ copies'[i] >= copies[i]
  BY <1>0, <1>5 DEF Take
<1>6. ASSUME NEW r \in Relays, pc[r] # "ready" PROVE claim[r] \in Intents
  BY <1>0, <1>6 DEF RelaysOK, RelayOK
<1>7. ASSUME NEW r \in Relays, Confirm(r) \/ PublishFails(r) \/ Crash(r)
      PROVE  /\ outbox' = outbox
             /\ copies'[i] \in Nat /\ copies'[i] >= copies[i]
  BY <1>0, <1>5, <1>6, <1>7 DEF Confirm, PublishFails, Crash
<1>8. ASSUME NEW r \in Relays, Commit(r)
      PROVE  (Recorded(i) => Recorded(i)') /\ copies' = copies
  <2>1. outbox'[claim[r]] # None /\ \A j \in Intents \ {claim[r]} : outbox'[j] = outbox[j]
    BY <1>8, CommitRow, NoneAssumption
  <2> QED BY <1>8, <2>1 DEF Commit, Recorded
<1>9. ASSUME NEW r \in Relays, CommitFails(r) \/ SessionLost(r)
      PROVE  outbox' = outbox /\ copies' = copies
  BY <1>9 DEF CommitFails, SessionLost
<1> QED
  BY <1>0, <1>1, <1>2, <1>3, <1>4, <1>7, <1>8, <1>9 DEF Next, RelayStep, Tick, Recorded

LEMMA RelaysStep == IInv /\ [Next]_vars => RelaysOK'
<1> SUFFICES ASSUME IInv, [Next]_vars, NEW q \in Relays PROVE RelayOK(q)'
  BY DEF RelaysOK
<1>0. /\ TypeOK /\ RelayOK(q) /\ pc[q] \in {"ready", "publishing", "confirmed", "failed"}
      /\ claim \in [Relays -> {None} \cup Intents] /\ retryAt \in [Relays -> {None} \cup Nat]
      /\ pc \in [Relays -> {"ready", "publishing", "confirmed", "failed"}]
      /\ live \in [Relays -> BOOLEAN] /\ copies \in [Intents -> Nat] /\ now \in Nat
  BY DEF IInv, RelaysOK, TypeOK
<1>1. \A i \in Intents : /\ Recorded(i) => Recorded(i)'
                         /\ copies'[i] \in Nat /\ copies'[i] >= copies[i]
  BY NothingForgotten
<1>2. CASE UNCHANGED <<pc, claim, live, retryAt>>
  BY <1>0, <1>1, <1>2 DEF RelayOK
<1>3. ASSUME NEW r \in Relays, r # q,
             \A s \in Relays \ {r} : /\ pc'[s] = pc[s] /\ claim'[s] = claim[s]
                                     /\ live'[s] = live[s] /\ retryAt'[s] = retryAt[s]
      PROVE  RelayOK(q)'
  BY <1>0, <1>1, <1>3 DEF RelayOK
<1>4. ASSUME NEW i \in Intents, ClaimNext(q, i) PROVE RelayOK(q)'
  BY <1>0, <1>1, <1>4 DEF RelayOK, ClaimNext, First, Due
<1>5. ASSUME Confirm(q) PROVE RelayOK(q)'
  <2>1. claim[q] \in Intents /\ Recorded(claim[q])
    BY <1>0, <1>5 DEF RelayOK, Confirm
  <2>2. copies'[claim[q]] > 0
    BY <1>0, <1>5, <2>1 DEF Confirm, Take
  <2> QED BY <1>0, <1>1, <1>5, <2>1, <2>2 DEF RelayOK, Confirm
<1>6. ASSUME PublishFails(q) PROVE RelayOK(q)'
  BY <1>0, <1>1, <1>6, RetryAssumption DEF RelayOK, PublishFails
<1>7. ASSUME Leave(q) PROVE RelayOK(q)'
  BY <1>0, <1>7 DEF RelayOK, Leave
<1>8. ASSUME SessionLost(q) PROVE RelayOK(q)'
  BY <1>0, <1>1, <1>8 DEF RelayOK, SessionLost
<1>9. ASSUME NEW r \in Relays, RelayStep(r) \/ SessionLost(r) \/ Crash(r)
      PROVE  RelayOK(q)'
  <2>1. CASE r = q
    BY <1>4, <1>5, <1>6, <1>7, <1>8, <1>9, <2>1
       DEF RelayStep, Commit, CommitFails, Crash
  <2>2. CASE r # q
    <3>1. \A s \in Relays \ {r} : /\ pc'[s] = pc[s] /\ claim'[s] = claim[s]
                                  /\ live'[s] = live[s] /\ retryAt'[s] = retryAt[s]
      BY <1>0, <1>9 DEF RelayStep, ClaimNext, Confirm, PublishFails, Commit,
                        CommitFails, SessionLost, Crash, Leave
    <3> QED BY <1>3, <2>2, <3>1
  <2> QED BY <2>1, <2>2
<1> QED BY <1>2, <1>9 DEF Next, Tick, Record, vars

\* Only ClaimNext gives a row to a relay, and only one that is not published
\* and that nobody holds.
LEMMA ClaimsStep == IInv /\ [Next]_vars => ClaimsAreExclusive'
<1> USE DEF ClaimsAreExclusive
<1> SUFFICES ASSUME IInv, [Next]_vars PROVE ClaimsAreExclusive'
  OBVIOUS
<1>0. /\ ClaimsAreExclusive /\ RelaysOK
      /\ claim \in [Relays -> {None} \cup Intents] /\ live \in [Relays -> BOOLEAN]
      /\ None \notin Intents
  BY NoneAssumption, IntentsAssumption DEF IInv, TypeOK
<1>1. CASE UNCHANGED <<outbox, claim, live>>
  BY <1>0, <1>1
<1>2. ASSUME NEW i \in Intents, Record(i) PROVE ClaimsAreExclusive'
  <2>1. \A r \in Relays : claim[r] # None /\ live[r] => Recorded(claim[r])
    BY <1>0 DEF RelaysOK, RelayOK
  <2>2. \A j \in Intents \ {i} : outbox'[j] = outbox[j]
    BY <1>2 DEF Record, IInv, TypeOK
  <2> QED BY <1>0, <1>2, <2>1, <2>2 DEF Record, Recorded
<1>3. ASSUME NEW r \in Relays, NEW i \in Intents, ClaimNext(r, i)
      PROVE  ClaimsAreExclusive'
  <2>1. /\ ~outbox[i].published
        /\ \A q \in Relays : ~(claim[q] = i /\ live[q])
    BY <1>3 DEF ClaimNext, First, Due, Locked
  <2> QED BY <1>0, <1>3, <2>1 DEF ClaimNext
<1>4. ASSUME NEW r \in Relays, Leave(r),
             \A q \in Relays \ {r} : /\ claim[q] # None /\ live[q]
                                     => outbox'[claim[q]] = outbox[claim[q]]
      PROVE  ClaimsAreExclusive'
  <2>1. claim'[r] = None /\ \A q \in Relays \ {r} : claim'[q] = claim[q] /\ live'[q] = live[q]
    BY <1>0, <1>4 DEF Leave
  <2> QED BY <1>0, <1>4, <2>1
<1>5. ASSUME NEW r \in Relays, Commit(r) PROVE ClaimsAreExclusive'
  <2>1. /\ claim[r] \in Intents
        /\ \A i \in Intents \ {claim[r]} : outbox'[i] = outbox[i]
    BY <1>5, CommitRow
  <2>2. \A q \in Relays \ {r} : claim[q] # None /\ live[q] => claim[q] \in Intents \ {claim[r]}
    BY <1>0, <1>5, <2>1 DEF Commit
  <2> QED BY <1>4, <1>5, <2>1, <2>2 DEF Commit
<1>6. ASSUME NEW r \in Relays, SessionLost(r) PROVE ClaimsAreExclusive'
  <2>1. \A q \in Relays : claim'[q] = claim[q] /\ (live'[q] => live[q])
    BY <1>0, <1>6 DEF SessionLost
  <2> QED BY <1>0, <1>6, <2>1 DEF SessionLost
<1>7. ASSUME NEW r \in Relays, RelayStep(r) \/ SessionLost(r) \/ Crash(r)
      PROVE  ClaimsAreExclusive'
  BY <1>1, <1>3, <1>4, <1>5, <1>6, <1>7
     DEF RelayStep, Confirm, PublishFails, CommitFails, Crash
<1> QED BY <1>1, <1>2, <1>7 DEF Next, Tick, vars

-----------------------------------------------------------------------------

\* The inductive invariant: types, what each relay has at hand, and exclusive
\* claims hold in every reachable state.
THEOREM Invariance == Spec => []IInv
<1>1. IInv /\ [Next]_vars => IInv'
  BY TypeStep, RelaysStep, ClaimsStep DEF IInv
<1> QED BY InitIInv, <1>1, PTL DEF Spec

\* Every variable of the relay keeps its type.
THEOREM TypeCorrect == Spec => []TypeOK
<1>1. IInv => TypeOK
  BY DEF IInv
<1> QED BY Invariance, <1>1, PTL

\* SELECT ... FOR UPDATE SKIP LOCKED does its work: two open transactions
\* never hold one row, and none holds a published one.
THEOREM ClaimsCorrect == Spec => []ClaimsAreExclusive
<1>1. IInv => ClaimsAreExclusive
  BY DEF IInv
<1> QED BY Invariance, <1>1, PTL

-----------------------------------------------------------------------------

LEMMA DeliveryStarts == Init => Delivery!DeliveryInit
BY DEF Init, Delivery!DeliveryInit, DeliveryState, Recorded

\* Every step of the relay is one of the delivery, or none.
LEMMA DeliverySteps ==
    IInv /\ [Next]_vars => [Delivery!DeliveryNext]_(Delivery!delivery)
<1> SUFFICES ASSUME IInv, [Next]_vars
             PROVE  \/ DeliveryState' = DeliveryState /\ copies' = copies
                    \/ \E i \in Intents : \/ Delivery!Intend(i)
                                          \/ Delivery!Send(i)
                                          \/ Delivery!Settle(i)
  BY DEF Delivery!DeliveryNext, Delivery!delivery
<1>0. TypeOK /\ RelaysOK
  BY DEF IInv
<1>1. ASSUME outbox' = outbox, copies' = copies
      PROVE  DeliveryState' = DeliveryState /\ copies' = copies
  BY <1>1 DEF DeliveryState, Recorded
<1>2. ASSUME NEW i \in Intents, Record(i) PROVE Delivery!Intend(i)
  <2> DEFINE fresh == [createdAt |-> now, nextAttempt |-> now, attempts |-> 0, published |-> FALSE]
  <2>1. fresh \in Rows /\ fresh.published = FALSE
    BY <1>0 DEF TypeOK, Rows
  <2>2. outbox' = [outbox EXCEPT ![i] = fresh] /\ copies' = copies /\ outbox[i] = None
    BY <1>2 DEF Record, Recorded
  <2> HIDE DEF fresh
  <2>3. outbox'[i] = fresh /\ \A j \in Intents \ {i} : outbox'[j] = outbox[j]
    BY <1>0, <2>2 DEF TypeOK
  <2>4. DeliveryState' = [DeliveryState EXCEPT ![i] = "pending"]
    BY <2>1, <2>3, NoneAssumption DEF DeliveryState, Recorded
  <2> QED BY <2>2, <2>4 DEF Delivery!Intend, DeliveryState, Recorded
<1>3. ASSUME NEW r \in Relays, pc[r] # "ready", Take(claim[r]), outbox' = outbox
      PROVE  claim[r] \in Intents /\ Delivery!Send(claim[r])
  <2>1. claim[r] \in Intents /\ Recorded(claim[r])
    BY <1>0, <1>3 DEF RelaysOK, RelayOK
  <2> QED BY <1>3, <2>1 DEF Delivery!Send, DeliveryState, Recorded, Take
<1>4. ASSUME NEW r \in Relays, Commit(r)
      PROVE  \/ claim[r] \in Intents /\ Delivery!Settle(claim[r])
             \/ DeliveryState' = DeliveryState /\ copies' = copies
  <2>1. /\ claim[r] \in Intents /\ outbox[claim[r]] # None
        /\ \A i \in Intents \ {claim[r]} : outbox'[i] = outbox[i]
        /\ outbox'[claim[r]] # None
        /\ outbox'[claim[r]].published <=> pc[r] = "confirmed"
    BY <1>4, CommitRow, NoneAssumption DEF Recorded
  <2>2. ~outbox[claim[r]].published /\ copies' = copies
    BY <1>4, <2>1, NoneAssumption, IntentsAssumption
       DEF IInv, ClaimsAreExclusive, Commit
  <2>3. CASE pc[r] = "confirmed"
    <3>1. copies[claim[r]] > 0
      BY <1>0, <2>3 DEF RelaysOK, RelayOK
    <3>2. DeliveryState' = [DeliveryState EXCEPT ![claim[r]] = "settled"]
      BY <2>1, <2>3 DEF DeliveryState, Recorded
    <3> QED BY <2>1, <2>2, <3>1, <3>2 DEF Delivery!Settle, DeliveryState, Recorded
  <2>4. CASE pc[r] # "confirmed"
    BY <2>1, <2>2, <2>4 DEF DeliveryState, Recorded
  <2> QED BY <2>3, <2>4
<1>5. ASSUME NEW r \in Relays, RelayStep(r) \/ SessionLost(r) \/ Crash(r)
      PROVE  \/ DeliveryState' = DeliveryState /\ copies' = copies
             \/ claim[r] \in Intents /\ (Delivery!Send(claim[r]) \/ Delivery!Settle(claim[r]))
  <2>1. CASE \/ \E i \in Intents : ClaimNext(r, i)
             \/ CommitFails(r) \/ SessionLost(r)
    BY <1>1, <2>1 DEF ClaimNext, CommitFails, SessionLost
  <2>2. CASE Confirm(r) \/ PublishFails(r) \/ Crash(r)
    <3>1. /\ pc[r] # "ready" /\ outbox' = outbox
          /\ copies' = copies \/ Take(claim[r])
      BY <2>2 DEF Confirm, PublishFails, Crash
    <3> QED BY <1>1, <1>3, <3>1
  <2> QED BY <1>4, <1>5, <2>1, <2>2 DEF RelayStep
<1> QED BY <1>1, <1>2, <1>5 DEF Next, Tick, vars

\* The relay implements NotificationDelivery: a row is marked published only
\* after the broker took a copy of it, and is never unmarked.
THEOREM DeliveryImplemented == Spec => ImplementsDelivery
<1>1. Spec => [][Delivery!DeliveryNext]_(Delivery!delivery)
  BY Invariance, DeliverySteps, PTL DEF Spec
<1> QED BY DeliveryStarts, <1>1, PTL DEF Spec, ImplementsDelivery, Delivery!DeliverySpec

-----------------------------------------------------------------------------
(* Accounting of copies *)

\* One relay more or less among the senders of an intent.
LEMMA SenderCount ==
    ASSUME NEW S \in SUBSET Relays, NEW r \in Relays
    PROVE  /\ Cardinality(S) \in Nat
           /\ r \notin S => Cardinality(S \cup {r}) = Cardinality(S) + 1
           /\ r \in S => Cardinality(S \ {r}) = Cardinality(S) - 1
<1>1. IsFiniteSet(S)
  BY RelaysAssumption, FS_Subset
<1> QED BY <1>1, FS_CardinalityType, FS_AddElement, FS_RemoveElement

Balanced(i) == copies[i] = orphans[i] + Cardinality(Senders(i)) + Publications(i)

\* A step that moves neither copies nor senders nor publications of i.
LEMMA StillBalanced ==
    ASSUME NEW i \in Intents, Balanced(i), copies'[i] = copies[i],
           orphans'[i] = orphans[i], Senders(i)' = Senders(i),
           Publications(i)' = Publications(i)
    PROVE  Balanced(i)'
BY DEF Balanced

\* When relay r leaves its session, only the senders of its claim change.
LEMMA SendersLeave ==
    ASSUME IInv, NEW r \in Relays, Leave(r), NEW i \in Intents
    PROVE  Senders(i)' = Senders(i) \ {r}
BY NoneAssumption, IntentsAssumption DEF IInv, TypeOK, Leave, Senders

LEMMA BalanceStep ==
    ASSUME IInv, [Next]_vars, NEW i \in Intents, Balanced(i)
    PROVE  Balanced(i)'
<1>0. /\ TypeOK /\ RelaysOK
      /\ copies \in [Intents -> Nat] /\ orphans \in [Intents -> Nat]
      /\ pc \in [Relays -> {"ready", "publishing", "confirmed", "failed"}]
      /\ claim \in [Relays -> {None} \cup Intents]
  BY DEF IInv, TypeOK
<1>1. /\ Senders(i) \in SUBSET Relays /\ Publications(i) \in {0, 1}
      /\ \A r \in Relays : r \in Senders(i) <=> claim[r] = i /\ pc[r] = "confirmed"
  BY DEF Senders, Publications
<1>2. /\ outbox' = outbox => Publications(i)' = Publications(i)
      /\ pc' = pc /\ claim' = claim => Senders(i)' = Senders(i)
  BY DEF Publications, Recorded, Senders
<1>3. CASE UNCHANGED <<outbox, copies, pc, claim, orphans>>
  BY <1>2, <1>3, StillBalanced
<1>4. ASSUME NEW j \in Intents, Record(j) PROVE Balanced(i)'
  <2> DEFINE fresh == [createdAt |-> now, nextAttempt |-> now,
                       attempts |-> 0, published |-> FALSE]
  <2>1. outbox' = [outbox EXCEPT ![j] = fresh] /\ ~Recorded(j)
    BY <1>4 DEF Record
  <2>2. i # j => outbox'[i] = outbox[i]
    BY <1>0, <2>1 DEF TypeOK
  <2>3. i = j => outbox'[i] = fresh
    BY <1>0, <2>1 DEF TypeOK
  <2>4. fresh.published = FALSE
    OBVIOUS
  <2> HIDE DEF fresh
  <2>5. Publications(i)' = Publications(i)
    BY <2>1, <2>2, <2>3, <2>4 DEF Publications, Recorded
  <2> QED BY <1>2, <1>4, <2>5, StillBalanced DEF Record
<1>5. ASSUME NEW r \in Relays, NEW j \in Intents, ClaimNext(r, j) PROVE Balanced(i)'
  <2>1. Senders(i)' = Senders(i)
    BY <1>0, <1>5 DEF Senders, ClaimNext
  <2> QED BY <1>2, <1>5, <2>1, StillBalanced DEF ClaimNext
<1>6. ASSUME NEW r \in Relays, pc[r] # "ready" PROVE claim[r] \in Intents
  BY <1>0, <1>6 DEF RelaysOK, RelayOK
<1>7. ASSUME NEW r \in Relays, Confirm(r) PROVE Balanced(i)'
  <2>1. /\ claim[r] \in Intents /\ r \notin Senders(i)
        /\ copies' = [copies EXCEPT ![claim[r]] = @ + 1]
        /\ orphans' = orphans /\ Publications(i)' = Publications(i)
    BY <1>1, <1>2, <1>6, <1>7 DEF Confirm, Take
  <2>2. CASE claim[r] = i
    <3>1. Senders(i)' = Senders(i) \cup {r}
      BY <1>0, <1>7, <2>2 DEF Senders, Confirm
    <3>2. Cardinality(Senders(i)') = Cardinality(Senders(i)) + 1
      BY <1>1, <2>1, <3>1, SenderCount
    <3>3. Cardinality(Senders(i)) \in Nat
      BY <1>1, SenderCount
    <3> QED BY <1>0, <1>1, <2>1, <2>2, <3>2, <3>3 DEF Balanced
  <2>3. CASE claim[r] # i
    <3>1. Senders(i)' = Senders(i)
      BY <1>0, <1>7, <2>3 DEF Senders, Confirm
    <3> QED BY <1>0, <2>1, <2>3, <3>1, StillBalanced
  <2> QED BY <2>2, <2>3
<1>8. ASSUME NEW j \in Intents, Take(j), Orphan(j), Senders(i)' = Senders(i),
             Publications(i)' = Publications(i)
      PROVE  Balanced(i)'
  <2>1. Cardinality(Senders(i)) \in Nat \/ Relays = {}
    BY <1>1, SenderCount
  <2>2. Cardinality(Senders(i)) \in Nat
    BY <1>1, <2>1, RelaysAssumption, FS_Subset, FS_CardinalityType
  <2>3. CASE i = j
    BY <1>0, <1>1, <1>8, <2>2, <2>3 DEF Balanced, Take, Orphan
  <2>4. CASE i # j
    BY <1>0, <1>8, <2>4, StillBalanced DEF Take, Orphan
  <2> QED BY <2>3, <2>4
<1>9. ASSUME NEW r \in Relays, PublishFails(r) PROVE Balanced(i)'
  <2>1. Senders(i)' = Senders(i) /\ Publications(i)' = Publications(i)
    BY <1>0, <1>2, <1>9 DEF Senders, PublishFails
  <2> QED BY <1>6, <1>8, <1>9, <2>1, StillBalanced DEF PublishFails
<1>10. ASSUME NEW r \in Relays, Leave(r), claim[r] # i \/ pc[r] # "confirmed"
       PROVE  Senders(i)' = Senders(i)
  BY <1>1, <1>10, SendersLeave
<1>11. ASSUME NEW r \in Relays, Leave(r), claim[r] = i, pc[r] = "confirmed"
       PROVE  /\ Cardinality(Senders(i)') = Cardinality(Senders(i)) - 1
              /\ Cardinality(Senders(i)) \in Nat
  BY <1>1, <1>11, SendersLeave, SenderCount
<1>12. ASSUME NEW r \in Relays, Commit(r) PROVE Balanced(i)'
  <2>1. /\ claim[r] \in Intents /\ Recorded(claim[r]) /\ outbox'[claim[r]] \in Rows
        /\ \A j \in Intents \ {claim[r]} : outbox'[j] = outbox[j]
        /\ outbox'[claim[r]].published <=> pc[r] = "confirmed"
    BY <1>12, CommitRow
  <2>2. Leave(r) /\ copies' = copies /\ orphans' = orphans
    BY <1>12 DEF Commit
  <2>3. ~outbox[claim[r]].published
    BY <1>12, <2>1, NoneAssumption, IntentsAssumption DEF IInv, ClaimsAreExclusive, Commit
  <2>4. CASE claim[r] # i
    <3>1. Publications(i)' = Publications(i)
      BY <2>1, <2>4 DEF Publications, Recorded
    <3> QED BY <1>10, <2>2, <2>4, <3>1, StillBalanced
  <2>5. CASE claim[r] = i /\ pc[r] = "confirmed"
    <3>1. Publications(i) = 0 /\ Publications(i)' = 1
      BY <2>1, <2>3, <2>5, NoneAssumption DEF Publications, Recorded
    <3> QED BY <1>0, <1>11, <2>2, <2>5, <3>1 DEF Balanced
  <2>6. CASE claim[r] = i /\ pc[r] # "confirmed"
    <3>1. Publications(i) = 0 /\ Publications(i)' = 0
      BY <2>1, <2>3, <2>6, NoneAssumption DEF Publications, Recorded
    <3> QED BY <1>10, <2>2, <2>6, <3>1, StillBalanced
  <2> QED BY <2>4, <2>5, <2>6
<1>13. ASSUME NEW r \in Relays, pc[r] # "ready", Forget(r), Leave(r),
              copies' = copies, outbox' = outbox
       PROVE  Balanced(i)'
  <2>1. CASE claim[r] = i /\ pc[r] = "confirmed"
    <3>1. orphans'[i] = orphans[i] + 1
      BY <1>0, <1>13, <2>1 DEF Forget, Orphan
    <3> QED BY <1>0, <1>1, <1>2, <1>11, <1>13, <2>1, <3>1 DEF Balanced
  <2>2. CASE ~(claim[r] = i /\ pc[r] = "confirmed")
    <3>1. orphans'[i] = orphans[i]
      BY <1>0, <1>6, <1>13, <2>2 DEF Forget, Orphan
    <3> QED BY <1>2, <1>10, <1>13, <2>2, <3>1, StillBalanced
  <2> QED BY <2>1, <2>2
<1>14. ASSUME NEW r \in Relays, CommitFails(r) PROVE Balanced(i)'
  BY <1>13, <1>14 DEF CommitFails
<1>15. ASSUME NEW r \in Relays, Crash(r) PROVE Balanced(i)'
  <2>1. CASE Forget(r) /\ copies' = copies
    BY <1>13, <1>15, <2>1 DEF Crash
  <2>2. CASE pc[r] = "publishing" /\ Take(claim[r]) /\ Orphan(claim[r])
    <3>1. Senders(i)' = Senders(i) /\ Publications(i)' = Publications(i)
      BY <1>2, <1>10, <1>15, <2>2 DEF Crash
    <3> QED BY <1>6, <1>8, <2>2, <3>1
  <2> QED BY <1>15, <2>1, <2>2 DEF Crash
<1>16. ASSUME NEW r \in Relays, SessionLost(r) PROVE Balanced(i)'
  BY <1>3, <1>16 DEF SessionLost
<1> QED
  BY <1>3, <1>4, <1>5, <1>7, <1>9, <1>12, <1>14, <1>15, <1>16
     DEF Next, RelayStep, Tick, vars

\* Every copy is a committed publication, one about to be committed or the
\* orphan of a failure: without failures nothing is sent twice.
THEOREM CopiesCorrect == Spec => []CopiesAreAccountedFor
<1>1. Init => CopiesAreAccountedFor
  <2> SUFFICES ASSUME Init, NEW i \in Intents PROVE Balanced(i)
    BY DEF CopiesAreAccountedFor, Balanced
  <2>1. Senders(i) = {} /\ Publications(i) = 0 /\ copies[i] = 0 /\ orphans[i] = 0
    BY DEF Init, Senders, Publications, Recorded
  <2> QED BY <2>1, FS_EmptySet DEF Balanced
<1>2. IInv /\ CopiesAreAccountedFor /\ [Next]_vars => CopiesAreAccountedFor'
  <2> SUFFICES ASSUME IInv, CopiesAreAccountedFor, [Next]_vars, NEW i \in Intents
               PROVE  Balanced(i)'
    BY DEF CopiesAreAccountedFor, Balanced
  <2> QED BY BalanceStep DEF CopiesAreAccountedFor, Balanced
<1> QED BY Invariance, <1>1, <1>2, PTL DEF Spec

=============================================================================
