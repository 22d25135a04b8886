---------------------------- MODULE OutboxRelay ----------------------------
(***************************************************************************)
(* The transactional outbox relay: workers/outbox_worker.py running        *)
(* PublishOutboxEvent against the outbox_events table and the broker.      *)
(*                                                                         *)
(* A relay claims one due row FOR UPDATE SKIP LOCKED, publishes it inside  *)
(* the open transaction, marks it published or due again, and commits.     *)
(* The broker, the database session and the relay itself may each fail at  *)
(* any point, so what the relay believes and what the broker has taken can *)
(* differ.  A poll that finds nothing, or that fails, changes nothing and  *)
(* is a stuttering step.                                                   *)
(***************************************************************************)
EXTENDS Integers, FiniteSets

CONSTANTS Intents,     \* outbox row identities
          Relays,      \* relay processes
          RetryDelay,  \* OUTBOX_RETRY_SECONDS
          None,
          MaxTime,     \* bound: the clock stops here
          MaxFaults    \* bound: failures of broker, session or relay

ASSUME IntentsAssumption == Intents \subseteq Nat
ASSUME RelaysAssumption == IsFiniteSet(Relays)
ASSUME RetryAssumption == RetryDelay \in Nat
ASSUME BoundsAssumption == MaxTime \in Nat /\ MaxFaults \in Nat

VARIABLES now,      \* the clock all processes read
          outbox,   \* the committed rows
          copies,   \* copies of each intent the notification queue has taken
          pc,       \* where each relay is
          claim,    \* the row a relay works on
          live,     \* does the database still hold the relay's transaction?
          retryAt,  \* the next_attempt_at a relay will write after a failure
          orphans,  \* history variable: copies whose sender could not say so
          faults    \* failures so far

vars == <<now, outbox, copies, pc, claim, live, retryAt, orphans, faults>>

Rows == [createdAt : Nat, nextAttempt : Nat, attempts : Nat, published : BOOLEAN]

ASSUME NoneAssumption == None \notin Rows \cup Nat

Recorded(i) == outbox[i] # None

\* Mutant: the claim takes no row lock.
NeverLocked(i) == FALSE

Locked(i) == \E r \in Relays : claim[r] = i /\ live[r]

\* Mutant: the claim does not ask whether the row is published.
DueAgain(i) == /\ Recorded(i)
               /\ outbox[i].nextAttempt <= now
               /\ ~Locked(i)

Due(i) == /\ Recorded(i)
          /\ ~outbox[i].published
          /\ outbox[i].nextAttempt <= now
          /\ ~Locked(i)

\* ORDER BY next_attempt_at, created_at, id
Precedes(i, j) ==
    LET a == outbox[i]  b == outbox[j] IN
    \/ a.nextAttempt < b.nextAttempt
    \/ /\ a.nextAttempt = b.nextAttempt
       /\ \/ a.createdAt < b.createdAt
          \/ a.createdAt = b.createdAt /\ i < j

First(i) == Due(i) /\ \A j \in Intents \ {i} : Due(j) => Precedes(i, j)

Fault == faults < MaxFaults /\ faults' = faults + 1

-----------------------------------------------------------------------------

Init == /\ now = 0
        /\ outbox = [i \in Intents |-> None]
        /\ copies = [i \in Intents |-> 0]
        /\ pc = [r \in Relays |-> "ready"]
        /\ claim = [r \in Relays |-> None]
        /\ live = [r \in Relays |-> FALSE]
        /\ retryAt = [r \in Relays |-> None]
        /\ orphans = [i \in Intents |-> 0]
        /\ faults = 0

Tick == /\ now < MaxTime
        /\ now' = now + 1
        /\ UNCHANGED <<outbox, copies, pc, claim, live, retryAt, orphans, faults>>

\* Mutant: a repeated event replaces its intent.
RecordAgain(i) ==
    /\ outbox' = [outbox EXCEPT ![i] = [createdAt |-> now, nextAttempt |-> now,
                                        attempts |-> 0, published |-> FALSE]]
    /\ UNCHANGED <<now, copies, pc, claim, live, retryAt, orphans, faults>>

\* An ingestion transaction commits an event with its intent.
Record(i) ==
    /\ ~Recorded(i)
    /\ outbox' = [outbox EXCEPT ![i] = [createdAt |-> now, nextAttempt |-> now,
                                        attempts |-> 0, published |-> FALSE]]
    /\ UNCHANGED <<now, copies, pc, claim, live, retryAt, orphans, faults>>

ClaimNext(r, i) ==
    /\ pc[r] = "ready"
    /\ First(i)
    /\ pc' = [pc EXCEPT ![r] = "publishing"]
    /\ claim' = [claim EXCEPT ![r] = i]
    /\ live' = [live EXCEPT ![r] = TRUE]
    /\ UNCHANGED <<now, outbox, copies, retryAt, orphans, faults>>

Take(i) == copies' = [copies EXCEPT ![i] = @ + 1]

Orphan(i) == orphans' = [orphans EXCEPT ![i] = @ + 1]

\* publish() returns: the broker has routed and confirmed the message.
Confirm(r) ==
    /\ pc[r] = "publishing"
    /\ Take(claim[r])
    /\ pc' = [pc EXCEPT ![r] = "confirmed"]
    /\ UNCHANGED <<now, outbox, claim, live, retryAt, orphans, faults>>

\* publish() raises; the queue may have taken the message all the same, its
\* confirmation lost or later than the deadline.
PublishFails(r) ==
    /\ pc[r] = "publishing"
    /\ now + RetryDelay <= MaxTime
    /\ Fault
    /\ \/ UNCHANGED <<copies, orphans>>
       \/ Take(claim[r]) /\ Orphan(claim[r])
    /\ pc' = [pc EXCEPT ![r] = "failed"]
    /\ retryAt' = [retryAt EXCEPT ![r] = now + RetryDelay]
    /\ UNCHANGED <<now, outbox, claim, live>>

\* Mutant: a failed transaction is neither rolled back nor closed.
LeaveOpen(r) == /\ pc' = [pc EXCEPT ![r] = "ready"]
                /\ retryAt' = [retryAt EXCEPT ![r] = None]
                /\ UNCHANGED <<claim, live>>

\* The session is over: its row lock is free and its work forgotten.
Leave(r) == /\ pc' = [pc EXCEPT ![r] = "ready"]
            /\ claim' = [claim EXCEPT ![r] = None]
            /\ live' = [live EXCEPT ![r] = FALSE]
            /\ retryAt' = [retryAt EXCEPT ![r] = None]

MarkPublished(record) ==
    [record EXCEPT !.attempts = record.attempts + 1, !.published = TRUE]

\* Mutants: a failure marks the row published; a failure forgets the retry.
MarkFailedPublished(record, at) == MarkPublished(record)

MarkFailedNever(record, at) ==
    [record EXCEPT !.attempts = record.attempts + 1, !.nextAttempt = None]

MarkFailed(record, at) ==
    [record EXCEPT !.attempts = record.attempts + 1, !.nextAttempt = at]

\* mark_published or mark_failed, and the commit.
Commit(r) ==
    LET old == outbox[claim[r]] IN
    /\ live[r]
    /\ \/ /\ pc[r] = "confirmed"
          /\ outbox' = [outbox EXCEPT ![claim[r]] = MarkPublished(old)]
       \/ /\ pc[r] = "failed"
          /\ outbox' = [outbox EXCEPT ![claim[r]] = MarkFailed(old, retryAt[r])]
    /\ Leave(r)
    /\ UNCHANGED <<now, copies, orphans, faults>>

Forget(r) == IF pc[r] = "confirmed" THEN Orphan(claim[r]) ELSE UNCHANGED orphans

\* The commit raises: publish_one rolls back, run waits and polls again.
CommitFails(r) ==
    /\ pc[r] \in {"confirmed", "failed"}
    /\ IF live[r] THEN Fault ELSE UNCHANGED faults
    /\ Forget(r)
    /\ Leave(r)
    /\ UNCHANGED <<now, outbox, copies>>

\* The database drops the transaction, and with it the row lock, while the
\* relay still waits for the broker.
SessionLost(r) ==
    /\ pc[r] # "ready"
    /\ live[r]
    /\ Fault
    /\ live' = [live EXCEPT ![r] = FALSE]
    /\ UNCHANGED <<now, outbox, copies, pc, claim, retryAt, orphans>>

\* The relay dies and is started again; what it was sending may arrive.
Crash(r) ==
    /\ pc[r] # "ready"
    /\ Fault
    /\ \/ Forget(r) /\ UNCHANGED copies
       \/ pc[r] = "publishing" /\ Take(claim[r]) /\ Orphan(claim[r])
    /\ Leave(r)
    /\ UNCHANGED <<now, outbox>>

RelayStep(r) == \/ \E i \in Intents : ClaimNext(r, i)
                \/ Confirm(r) \/ PublishFails(r)
                \/ Commit(r) \/ CommitFails(r)

Next == \/ Tick
        \/ \E i \in Intents : Record(i)
        \/ \E r \in Relays : RelayStep(r) \/ SessionLost(r) \/ Crash(r)

\* Time passes and a relay keeps running; faults owe nothing, and cease.
Fairness == WF_vars(Tick) /\ \A r \in Relays : WF_vars(RelayStep(r))

Spec == Init /\ [][Next]_vars /\ Fairness

-----------------------------------------------------------------------------
(* Properties *)

\* Every variable keeps its type.
TypeOK ==
    /\ now \in Nat
    /\ outbox \in [Intents -> {None} \cup Rows]
    /\ copies \in [Intents -> Nat]
    /\ pc \in [Relays -> {"ready", "publishing", "confirmed", "failed"}]
    /\ claim \in [Relays -> {None} \cup Intents]
    /\ live \in [Relays -> BOOLEAN]
    /\ retryAt \in [Relays -> {None} \cup Nat]
    /\ orphans \in [Intents -> Nat]
    /\ faults \in Nat

\* Relays that have sent an intent and not yet committed that they did.
Senders(i) == {r \in Relays : claim[r] = i /\ pc[r] = "confirmed"}

Publications(i) == IF Recorded(i) /\ outbox[i].published THEN 1 ELSE 0

\* Every copy in the queue is accounted for: a committed publication, a relay
\* about to commit one, or a copy orphaned by a failure.  So without failures
\* no intent is sent twice, however many relays run.
CopiesAreAccountedFor ==
    \A i \in Intents :
        copies[i] = orphans[i] + Cardinality(Senders(i)) + Publications(i)

\* Two relays that hold open transactions never work on one row, and none of
\* them works on a row already published.
ClaimsAreExclusive ==
    \A r \in Relays : claim[r] # None /\ live[r] =>
        /\ ~outbox[claim[r]].published
        /\ \A q \in Relays : claim[q] = claim[r] /\ live[q] => q = r

\* What NotificationDelivery sees of a row.
DeliveryState == [i \in Intents |-> IF ~Recorded(i) THEN "absent"
                                    ELSE IF outbox[i].published THEN "settled"
                                    ELSE "pending"]

Delivery == INSTANCE NotificationDelivery WITH state <- DeliveryState

\* The relay keeps the promise of NotificationDelivery: an intent is marked
\* published only after the broker took a copy, and stays so.
ImplementsDelivery == Delivery!DeliverySpec

\* Once failures cease, every recorded intent is published.
IntentsArePublished ==
    \A i \in Intents : Recorded(i) ~> Recorded(i) /\ outbox[i].published

=============================================================================
