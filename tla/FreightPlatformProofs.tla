------------------------ MODULE FreightPlatformProofs ------------------------
(***************************************************************************)
(* Theorems about FreightPlatform, for every set of messages, workers and  *)
(* relays and every bound: the relay's side of every step is a step of     *)
(* OutboxRelay, so what is proved there holds here, and it leads to a      *)
(* bound on the notifications of one event.                                *)
(***************************************************************************)
EXTENDS FreightPlatform, OutboxRelayProofs

\* Whatever happens to messages and workers, the database and the relays see a
\* step of their own, or none.
LEMMA RelaySide == [PlatformNext]_<<inbound, vars>> => [Next]_vars
<1> SUFFICES ASSUME [PlatformNext]_<<inbound, vars>> PROVE [Next]_vars
  OBVIOUS
<1>1. CASE UNCHANGED <<inbound, vars>>
  BY <1>1
<1>2. CASE Inbound
  <2>1. UNCHANGED vars \/ \E m \in Intents : Record(m)
    BY <1>2 DEF Inbound, RecordedByHttp, WorkerStep, Database, Messages
  <2> QED BY <2>1 DEF Next
<1>3. CASE Outbound
  BY <1>3 DEF Outbound, Next
<1> QED BY <1>1, <1>2, <1>3 DEF PlatformNext

-----------------------------------------------------------------------------
(* Failures and repetitions *)

\* The relays that work on an intent without knowing that its row is free.
Lapsed(i) == {r \in Relays : claim[r] = i /\ ~live[r]}

\* Each orphaned copy, and each copy a lapsed relay may yet orphan, has had a
\* failure of its own.
Paid(i) == orphans[i] + Cardinality(Lapsed(i)) <= faults

LEMMA LapsedCount ==
    ASSUME NEW i
    PROVE  /\ Lapsed(i) \in SUBSET Relays
           /\ Cardinality(Lapsed(i)) \in Nat
<1>1. Lapsed(i) \in SUBSET Relays
  BY DEF Lapsed
<1>2. IsFiniteSet(Lapsed(i))
  BY <1>1, RelaysAssumption, FS_Subset
<1> QED BY <1>1, <1>2, FS_CardinalityType

\* A step that orphans no copy of i and lapses no relay.
LEMMA StillPaid ==
    ASSUME IInv, NEW i \in Intents, Paid(i), TypeOK',
           orphans'[i] = orphans[i], Lapsed(i)' = Lapsed(i), faults' >= faults
    PROVE  Paid(i)'
<1>1. Cardinality(Lapsed(i)) \in Nat
  BY LapsedCount
<1> QED BY <1>1 DEF Paid, IInv, TypeOK

\* A relay that leaves its session no longer counts.
LEMMA LapsedLeave ==
    ASSUME IInv, NEW r \in Relays, Leave(r), NEW i \in Intents
    PROVE  Lapsed(i)' = Lapsed(i) \ {r}
BY NoneAssumption, IntentsAssumption DEF IInv, TypeOK, Leave, Lapsed

LEMMA PaidStep ==
    ASSUME IInv, [Next]_vars, NEW i \in Intents, Paid(i)
    PROVE  Paid(i)'
<1>0. /\ TypeOK /\ TypeOK' /\ RelaysOK
      /\ orphans \in [Intents -> Nat] /\ faults \in Nat
      /\ claim \in [Relays -> {None} \cup Intents] /\ live \in [Relays -> BOOLEAN]
      /\ Cardinality(Lapsed(i)) \in Nat /\ Lapsed(i) \in SUBSET Relays
  BY TypeStep, LapsedCount DEF IInv, TypeOK
<1>1. claim' = claim /\ live' = live => Lapsed(i)' = Lapsed(i)
  BY DEF Lapsed
<1>2. CASE UNCHANGED <<claim, live, orphans, faults>>
  BY <1>0, <1>1, <1>2, StillPaid
<1>3. ASSUME NEW r \in Relays, NEW j \in Intents, ClaimNext(r, j) PROVE Paid(i)'
  <2>1. claim[r] = None /\ ~live[r]
    BY <1>0, <1>3 DEF RelaysOK, RelayOK, ClaimNext
  <2>2. Lapsed(i)' = Lapsed(i)
    BY <1>0, <1>3, <2>1, NoneAssumption, IntentsAssumption DEF ClaimNext, Lapsed
  <2> QED BY <1>0, <1>3, <2>2, StillPaid DEF ClaimNext
<1>4. ASSUME NEW r \in Relays, pc[r] # "ready" PROVE claim[r] \in Intents
  BY <1>0, <1>4 DEF RelaysOK, RelayOK
<1>5. ASSUME NEW j \in Intents, Orphan(j), faults' = faults + 1,
             Cardinality(Lapsed(i)') <= Cardinality(Lapsed(i)), Cardinality(Lapsed(i)') \in Nat
      PROVE  Paid(i)'
  <2>1. orphans'[i] <= orphans[i] + 1 /\ orphans'[i] \in Nat
    BY <1>0, <1>5 DEF Orphan
  <2> QED BY <1>0, <1>5, <2>1 DEF Paid
<1>6. ASSUME NEW r \in Relays, PublishFails(r) PROVE Paid(i)'
  <2>1. Lapsed(i)' = Lapsed(i) /\ faults' = faults + 1 /\ claim[r] \in Intents
    BY <1>1, <1>4, <1>6 DEF PublishFails, Fault
  <2>2. CASE orphans' = orphans
    BY <1>0, <2>1, <2>2, StillPaid
  <2>3. CASE Orphan(claim[r])
    BY <1>0, <1>5, <2>1, <2>3
  <2> QED BY <1>6, <2>2, <2>3 DEF PublishFails
<1>7. ASSUME NEW r \in Relays, Leave(r)
      PROVE  /\ Cardinality(Lapsed(i)') \in Nat
             /\ Cardinality(Lapsed(i)') <= Cardinality(Lapsed(i))
             /\ r \in Lapsed(i) => Cardinality(Lapsed(i)') = Cardinality(Lapsed(i)) - 1
  <2>1. Lapsed(i)' = Lapsed(i) \ {r}
    BY <1>7, LapsedLeave
  <2>2. CASE r \in Lapsed(i)
    <3>1. Cardinality(Lapsed(i) \ {r}) = Cardinality(Lapsed(i)) - 1
      BY <1>0, <2>2, SenderCount
    <3>2. Cardinality(Lapsed(i) \ {r}) \in Nat
      <4>1. Lapsed(i) \ {r} \in SUBSET Relays
        BY <1>0
      <4> QED BY <4>1, SenderCount
    <3> QED BY <1>0, <2>1, <3>1, <3>2
  <2>3. CASE r \notin Lapsed(i)
    <3>1. Lapsed(i)' = Lapsed(i)
      BY <2>1, <2>3
    <3> QED BY <1>0, <2>3, <3>1
  <2> QED BY <2>2, <2>3
<1>8. ASSUME NEW r \in Relays, Commit(r) PROVE Paid(i)'
  <2>1. Leave(r) /\ orphans' = orphans /\ faults' = faults
    BY <1>8 DEF Commit
  <2> QED BY <1>0, <1>7, <2>1 DEF Paid
<1>9. ASSUME NEW r \in Relays, pc[r] # "ready", Forget(r)
      PROVE  \/ orphans' = orphans
             \/ claim[r] \in Intents /\ Orphan(claim[r])
  BY <1>4, <1>9 DEF Forget
<1>10. ASSUME NEW r \in Relays, CommitFails(r) PROVE Paid(i)'
  <2>1. Leave(r) /\ Forget(r) /\ pc[r] # "ready"
    BY <1>10 DEF CommitFails
  <2>2. CASE live[r]
    <3>1. faults' = faults + 1
      BY <1>10, <2>2 DEF CommitFails, Fault
    <3>2. CASE orphans' = orphans
      BY <1>0, <1>7, <2>1, <3>1, <3>2 DEF Paid
    <3> QED BY <1>5, <1>7, <1>9, <2>1, <3>1, <3>2
  <2>3. CASE ~live[r]
    <3>1. faults' = faults
      BY <1>10, <2>3 DEF CommitFails
    <3>2. CASE orphans'[i] = orphans[i]
      BY <1>0, <1>7, <2>1, <3>1, <3>2 DEF Paid
    <3>3. CASE orphans'[i] # orphans[i]
      <4>1. claim[r] = i /\ orphans'[i] = orphans[i] + 1
        BY <1>0, <1>9, <2>1, <3>3 DEF Orphan
      <4>2. r \in Lapsed(i)
        BY <2>3, <4>1 DEF Lapsed
      <4> QED BY <1>0, <1>7, <2>1, <3>1, <4>1, <4>2 DEF Paid
    <3> QED BY <3>2, <3>3
  <2> QED BY <2>2, <2>3
<1>11. ASSUME NEW r \in Relays, SessionLost(r) PROVE Paid(i)'
  <2>1. orphans' = orphans /\ faults' = faults + 1
    BY <1>11 DEF SessionLost, Fault
  <2>2. Lapsed(i)' = Lapsed(i) \/ Lapsed(i)' = Lapsed(i) \cup {r}
    BY <1>0, <1>11 DEF SessionLost, Lapsed
  <2>3. Cardinality(Lapsed(i)') <= Cardinality(Lapsed(i)) + 1 /\ Cardinality(Lapsed(i)') \in Nat
    <3>1. CASE r \in Lapsed(i)
      <4>1. Lapsed(i)' = Lapsed(i)
        BY <2>2, <3>1
      <4> QED BY <1>0, <4>1
    <3>2. CASE r \notin Lapsed(i)
      <4>1. Cardinality(Lapsed(i) \cup {r}) = Cardinality(Lapsed(i)) + 1
        BY <1>0, <3>2, SenderCount
      <4>2. CASE Lapsed(i)' = Lapsed(i)
        BY <1>0, <4>2
      <4>3. CASE Lapsed(i)' = Lapsed(i) \cup {r}
        BY <1>0, <4>1, <4>3
      <4> QED BY <2>2, <4>2, <4>3
    <3> QED BY <3>1, <3>2
  <2> QED BY <1>0, <2>1, <2>3 DEF Paid
<1>12. ASSUME NEW r \in Relays, Crash(r) PROVE Paid(i)'
  <2>1. Leave(r) /\ faults' = faults + 1 /\ pc[r] # "ready"
    BY <1>12 DEF Crash, Fault
  <2>2. orphans' = orphans \/ (claim[r] \in Intents /\ Orphan(claim[r]))
    <3>1. CASE Forget(r)
      BY <1>9, <2>1, <3>1
    <3>2. CASE Orphan(claim[r])
      BY <1>4, <2>1, <3>2
    <3> QED BY <1>12, <3>1, <3>2 DEF Crash
  <2>3. CASE orphans' = orphans
    BY <1>0, <1>7, <2>1, <2>3 DEF Paid
  <2> QED BY <1>5, <1>7, <2>1, <2>2, <2>3
<1> QED
  BY <1>2, <1>3, <1>6, <1>8, <1>10, <1>11, <1>12
     DEF Next, RelayStep, Tick, Record, Confirm, vars

\* At most one relay that still holds its session sends an intent, and none
\* sends a published one; the others have lapsed.
LEMMA CopiesBounded ==
    ASSUME IInv, NEW i \in Intents, Balanced(i), Paid(i)
    PROVE  copies[i] <= 1 + faults
<1>0. /\ copies[i] \in Nat /\ orphans[i] \in Nat /\ faults \in Nat
      /\ Senders(i) \in SUBSET Relays /\ Cardinality(Senders(i)) \in Nat
      /\ Lapsed(i) \in SUBSET Relays /\ Cardinality(Lapsed(i)) \in Nat
      /\ IsFiniteSet(Lapsed(i))
      /\ i # None
  <2>1. Senders(i) \in SUBSET Relays
    BY DEF Senders
  <2> QED BY <2>1, LapsedCount, RelaysAssumption, FS_Subset, FS_CardinalityType,
             NoneAssumption, IntentsAssumption DEF IInv, TypeOK
<1>1. Senders(i) \ Lapsed(i) \subseteq {r \in Relays : claim[r] = i /\ live[r]}
  BY DEF Senders, Lapsed
<1>2. CASE Recorded(i) /\ outbox[i].published
  <2>1. Senders(i) \in SUBSET Lapsed(i)
    BY <1>0, <1>1, <1>2 DEF IInv, ClaimsAreExclusive
  <2>2. Cardinality(Senders(i)) <= Cardinality(Lapsed(i))
    BY <1>0, <2>1, FS_Subset
  <2> QED BY <1>0, <1>2, <2>2 DEF Balanced, Paid, Publications
<1>3. CASE ~(Recorded(i) /\ outbox[i].published)
  <2>1. Cardinality(Senders(i)) <= Cardinality(Lapsed(i)) + 1
    <3>1. CASE Senders(i) \in SUBSET Lapsed(i)
      <4>1. Cardinality(Senders(i)) <= Cardinality(Lapsed(i))
        BY <1>0, <3>1, FS_Subset
      <4> QED BY <1>0, <4>1
    <3>2. CASE \E r \in Relays : r \in Senders(i) \ Lapsed(i)
      <4>1. PICK r \in Relays : r \in Senders(i) \ Lapsed(i)
        BY <3>2
      <4>2. Senders(i) \in SUBSET (Lapsed(i) \cup {r})
        BY <1>0, <1>1, <4>1 DEF IInv, ClaimsAreExclusive
      <4>3. /\ IsFiniteSet(Lapsed(i) \cup {r})
            /\ Cardinality(Lapsed(i) \cup {r}) = Cardinality(Lapsed(i)) + 1
        BY <1>0, <4>1, FS_AddElement
      <4>4. Cardinality(Senders(i)) <= Cardinality(Lapsed(i) \cup {r})
        BY <4>2, <4>3, FS_Subset
      <4> QED BY <4>3, <4>4
    <3> QED BY <1>0, <3>1, <3>2
  <2> QED BY <1>0, <1>3, <2>1 DEF Balanced, Paid, Publications
<1> QED BY <1>2, <1>3

-----------------------------------------------------------------------------

Accounts == \A i \in Intents : Balanced(i) /\ Paid(i)

\* However messages are repeated, redelivered and retried, and whatever fails
\* among the workers, an event is notified once, and once more at most for each
\* failure on the way out.
THEOREM NotifiedOnce == PlatformSpec => []EventIsNotifiedOnce
<1>1. PlatformInit => IInv /\ Accounts
  <2> SUFFICES ASSUME Init, NEW i \in Intents PROVE IInv /\ Balanced(i) /\ Paid(i)
    BY InitIInv DEF PlatformInit, Accounts
  <2>1. /\ Senders(i) = {} /\ Publications(i) = 0
        /\ copies[i] = 0 /\ orphans[i] = 0 /\ faults = 0
    BY DEF Init, Senders, Publications, Recorded
  <2>2. Lapsed(i) = {}
    BY NoneAssumption, IntentsAssumption DEF Init, Lapsed
  <2> QED BY <2>1, <2>2, FS_EmptySet, InitIInv DEF Balanced, Paid
<1>2. IInv /\ Accounts /\ [PlatformNext]_<<inbound, vars>> => IInv' /\ Accounts'
  <2> SUFFICES ASSUME IInv, Accounts, [Next]_vars PROVE IInv' /\ Accounts'
    BY RelaySide
  <2>1. IInv'
    BY TypeStep, RelaysStep, ClaimsStep DEF IInv
  <2>2. ASSUME NEW i \in Intents PROVE Balanced(i)' /\ Paid(i)'
    BY BalanceStep, PaidStep DEF Accounts
  <2> QED BY <2>1, <2>2 DEF Accounts
<1>3. IInv /\ Accounts => EventIsNotifiedOnce
  BY CopiesBounded DEF Accounts, EventIsNotifiedOnce, Messages
<1> QED BY <1>1, <1>2, <1>3, PTL DEF PlatformSpec

-----------------------------------------------------------------------------
(* The two sides *)

\* Between its inbound messages and its notifications the platform is the
\* relay's abstract promise: no row is marked published without a copy, whoever
\* records the events.
THEOREM DeliveryImplementedEndToEnd == PlatformSpec => ImplementsDelivery
<1>1. PlatformInit => IInv /\ Delivery!DeliveryInit
  BY InitIInv, DeliveryStarts DEF PlatformInit
<1>2. IInv /\ [PlatformNext]_<<inbound, vars>> => IInv'
  BY RelaySide, TypeStep, RelaysStep, ClaimsStep DEF IInv
<1>3. IInv /\ [PlatformNext]_<<inbound, vars>> => [Delivery!DeliveryNext]_(Delivery!delivery)
  BY RelaySide, DeliverySteps
<1> QED BY <1>1, <1>2, <1>3, PTL DEF PlatformSpec, ImplementsDelivery, Delivery!DeliverySpec

\* What ingestion knows of the database.
LEMMA RecordedStay ==
    ASSUME IInv, Outbound
    PROVE  RecordedMessages' = RecordedMessages
<1>1. ASSUME outbox' = outbox PROVE RecordedMessages' = RecordedMessages
  BY <1>1 DEF RecordedMessages, Recorded
<1>2. ASSUME NEW r \in Relays, Commit(r) PROVE RecordedMessages' = RecordedMessages
  <2>1. /\ claim[r] \in Intents /\ outbox[claim[r]] # None
        /\ \A i \in Intents \ {claim[r]} : outbox'[i] = outbox[i]
        /\ outbox'[claim[r]] # None
    BY <1>2, CommitRow, NoneAssumption DEF Recorded
  <2> QED BY <2>1 DEF RecordedMessages, Recorded, Messages
<1>3. ASSUME NEW r \in Relays, RelayStep(r) \/ SessionLost(r) \/ Crash(r)
      PROVE  RecordedMessages' = RecordedMessages
  <2>1. CASE Commit(r)
    BY <1>2, <2>1
  <2>2. CASE ~Commit(r)
    BY <1>1, <1>3, <2>2 DEF RelayStep, ClaimNext, Confirm, PublishFails, CommitFails,
                            SessionLost, Crash
  <2> QED BY <2>1, <2>2
<1>4. CASE Tick
  BY <1>1, <1>4 DEF Tick
<1> QED BY <1>3, <1>4 DEF Outbound

\* The workers see the rest of the platform as their environment: relays never
\* change what is recorded, so each step is a step of IngestionConsumer, or none.
ImplementsWorker == Worker!Init /\ [][Worker!Next]_(Worker!vars)

THEOREM WorkerImplemented == PlatformSpec => ImplementsWorker
<1>1. PlatformInit => IInv /\ Worker!Init
  BY InitIInv DEF PlatformInit
<1>2. IInv /\ [PlatformNext]_<<inbound, vars>> => IInv'
  BY RelaySide, TypeStep, RelaysStep, ClaimsStep DEF IInv
<1>3. IInv /\ [PlatformNext]_<<inbound, vars>> => [Worker!Next]_(Worker!vars)
  <2> SUFFICES ASSUME IInv, [PlatformNext]_<<inbound, vars>>
               PROVE  Worker!Next \/ UNCHANGED Worker!vars
    OBVIOUS
  <2>1. CASE Inbound
    BY <2>1 DEF Inbound, RecordedByHttp, WorkerStep, Worker!Next
  <2>2. CASE Outbound
    <3>1. UNCHANGED inbound
      BY <2>2 DEF Outbound
    <3> QED BY <2>2, <3>1, RecordedStay
            DEF inbound, Worker!vars, Worker!broker, Worker!worker, Worker!tally
  <2>3. CASE UNCHANGED <<inbound, vars>>
    <3>1. RecordedMessages' = RecordedMessages
      BY <2>3 DEF vars, RecordedMessages, Recorded
    <3> QED BY <2>3, <3>1
            DEF inbound, Worker!vars, Worker!broker, Worker!worker, Worker!tally
  <2> QED BY <2>1, <2>2, <2>3 DEF PlatformNext
<1> QED BY <1>1, <1>2, <1>3, PTL DEF PlatformSpec, ImplementsWorker

=============================================================================
