-------------------------- MODULE IngestionConsumer --------------------------
(***************************************************************************)
(* The inbound side of RabbitMQ: infra/messaging/rabbitmq.py with the      *)
(* failure classifier.  Ingestion workers take one delivery each from the  *)
(* main queue (prefetch 1), hand it to the use case, and then acknowledge  *)
(* it, or copy it to the retry queue or to the dead-letter queue and       *)
(* acknowledge it.  Retry copies come back to the main queue when their    *)
(* TTL ends.  No publication is confirmed, connections break while a       *)
(* handler runs, and workers die between a publication and its             *)
(* acknowledgement, so the broker and a worker may disagree.               *)
(*                                                                         *)
(* handle_event is one step here; EventIngestion opens it up.  A queue is  *)
(* the number of copies it holds of each message and attempt: order is     *)
(* left out, for redelivery, retries and competing workers do not keep it. *)
(***************************************************************************)
EXTENDS Integers

CONSTANTS Messages,     \* identities of inbound messages
          Body,         \* what becomes of each body
          FirstAttempt, \* the x-attempt-count each message is sent with
          Consumers,    \* ingestion workers
          MaxAttempts,  \* RABBITMQ_MAX_ATTEMPTS
          None,
          Garbled,      \* an x-attempt-count that is not a number
          MaxSends,     \* bound: publications of one message
          MaxFaults     \* bound: failures of broker, database or worker

\* "malformed" bodies raise a ValueError, in from_json or, for a
\* SHIPMENT_CREATED event, in the use case.  "mistyped" ones are JSON of the
\* right version with a number for an identity: UUID raises an AttributeError,
\* which from_json does not turn into a ValueError.
Bodies == {"valid", "malformed", "mistyped"}

\* The repository's publisher sets no header, which counts as attempt 1;
\* external adapters may send any.
Attempts(m) ==
    IF FirstAttempt[m] = Garbled THEN {Garbled}
    ELSE {FirstAttempt[m]} \cup FirstAttempt[m]..MaxAttempts

Copies == UNION {[message : {m}, attempt : Attempts(m)] : m \in Messages}

ASSUME BodyAssumption == Body \in [Messages -> Bodies]
ASSUME AttemptsAssumption == /\ MaxAttempts \in Int /\ Garbled \notin Int
                             /\ FirstAttempt \in [Messages -> Int \cup {Garbled}]
ASSUME BoundsAssumption == MaxSends \in Nat /\ MaxFaults \in Nat
ASSUME NoneAssumption == None \notin Copies

VARIABLES declared,    \* has a worker declared the queues yet?
          queue,       \* the main queue: copies ready for delivery
          waiting,     \* the retry queue
          dead,        \* the dead-letter queue
          recorded,    \* messages whose event is in the history
          pc,          \* where each worker is
          held,        \* the delivery a worker has in hand
          live,        \* does the broker still hold the worker's channel open?
          fresh,       \* was its event unrecorded when the delivery began?
          verdict,     \* how the classifier judged the failure at hand
          sent,        \* history variables: publications of each message,
          deliveries,  \*   deliveries of it with a number in the header,
          breaks,      \*   those of them taken back unacknowledged,
          lost,        \*   copies an unconfirmed publication lost
          faults       \* failures so far

broker == <<declared, queue, waiting, dead>>
worker == <<pc, held, live, fresh, verdict>>
tally  == <<sent, deliveries, breaks, lost>>
vars   == <<broker, recorded, worker, tally, faults>>

FirstCopy(m) == [message |-> m, attempt |-> FirstAttempt[m]]

NextCopy(x) == [x EXCEPT !.attempt = x.attempt + 1]

Put(q, x) == [q EXCEPT ![x] = q[x] + 1]

Drop(q, x) == [q EXCEPT ![x] = q[x] - 1]

Count(tally_, m) == [tally_ EXCEPT ![m] = tally_[m] + 1]

CountCopy(tally_, x) ==
    IF x.attempt = Garbled THEN tally_ ELSE Count(tally_, x.message)

Fault == faults < MaxFaults /\ faults' = faults + 1

-----------------------------------------------------------------------------

Init == /\ declared = FALSE
        /\ queue = [x \in Copies |-> 0]
        /\ waiting = [x \in Copies |-> 0]
        /\ dead = [x \in Copies |-> 0]
        /\ recorded = {}
        /\ pc = [c \in Consumers |-> "down"]
        /\ held = [c \in Consumers |-> None]
        /\ live = [c \in Consumers |-> FALSE]
        /\ fresh = [c \in Consumers |-> FALSE]
        /\ verdict = [c \in Consumers |-> None]
        /\ sent = [m \in Messages |-> 0]
        /\ deliveries = [m \in Messages |-> 0]
        /\ breaks = [m \in Messages |-> 0]
        /\ lost = [m \in Messages |-> 0]
        /\ faults = 0

\* RabbitMQShipmentEventPublisher.publish declares the exchange and not the
\* queue: before a worker has bound it the broker drops the message.
Publish(m) ==
    /\ sent[m] < MaxSends
    /\ sent' = Count(sent, m)
    /\ \/ /\ declared
          /\ queue' = Put(queue, FirstCopy(m))
          /\ UNCHANGED lost
       \/ /\ ~declared
          /\ lost' = Count(lost, m)
          /\ UNCHANGED queue
    /\ UNCHANGED <<declared, waiting, dead, recorded, worker, deliveries, breaks, faults>>

\* The same event arrives by POST /events as well and is recorded.
RecordedByHttp(m) ==
    /\ Body[m] = "valid" /\ m \notin recorded
    /\ recorded' = recorded \cup {m}
    /\ UNCHANGED <<broker, worker, tally, faults>>

\* consume_forever: connect, declare the topology, subscribe.
Start(c) ==
    /\ pc[c] = "down"
    /\ declared' = TRUE
    /\ pc' = [pc EXCEPT ![c] = "idle"]
    /\ live' = [live EXCEPT ![c] = TRUE]
    /\ UNCHANGED <<queue, waiting, dead, recorded, held, fresh, verdict, tally, faults>>

Receive(c, x) ==
    /\ pc[c] = "idle" /\ live[c]
    /\ queue[x] > 0
    /\ queue' = Drop(queue, x)
    /\ deliveries' = CountCopy(deliveries, x)
    /\ held' = [held EXCEPT ![c] = x]
    /\ fresh' = [fresh EXCEPT ![c] = x.message \notin recorded]
    /\ pc' = [pc EXCEPT ![c] = "handling"]
    /\ UNCHANGED <<declared, waiting, dead, recorded, live, verdict, sent, breaks, lost, faults>>

\* Mutant: an unknown error has no disposition.
FailsUnclassified(c, disposition) ==
    /\ pc' = [pc EXCEPT ![c] = "failing"]
    /\ verdict' = [verdict EXCEPT ![c] =
                      IF disposition = "RETRY" THEN "UNKNOWN" ELSE disposition]

\* The error that leaves from_json or handle_event, as classified.
Fails(c, disposition) == /\ pc' = [pc EXCEPT ![c] = "failing"]
                         /\ verdict' = [verdict EXCEPT ![c] = disposition]

\* Parsing and the use case with its transaction.  An event nobody has recorded
\* may be refused for good, or its instant without a time zone raise a
\* TypeError, which is retried.  One recorded before the delivery is a
\* duplicate; one recorded meanwhile may also lose the race for its identity,
\* and is retried, never refused.  A failure of the database may or may not
\* follow the commit.
Handle(c) ==
    LET m == held[c].message IN
    /\ pc[c] = "handling"
    /\ \/ /\ Body[m] = "valid"
          /\ recorded' = recorded \cup {m}
          /\ pc' = [pc EXCEPT ![c] = "acking"]
          /\ UNCHANGED <<verdict, faults>>
       \/ /\ Body[m] = "valid"
          /\ Fault
          /\ Fails(c, "RETRY")
          /\ recorded' \in {recorded, recorded \cup {m}}
       \/ /\ Body[m] = "valid" /\ m \notin recorded
          /\ \E disposition \in {"DEAD_LETTER", "RETRY"} : Fails(c, disposition)
          /\ UNCHANGED <<recorded, faults>>
       \/ /\ Body[m] = "valid" /\ m \in recorded /\ fresh[c]
          /\ Fails(c, "RETRY")
          /\ UNCHANGED <<recorded, faults>>
       \/ /\ Body[m] = "malformed"
          /\ Fails(c, "DEAD_LETTER")
          /\ UNCHANGED <<recorded, faults>>
       \/ /\ Body[m] = "mistyped"
          /\ Fails(c, "RETRY")
          /\ UNCHANGED <<recorded, faults>>
    /\ UNCHANGED <<broker, held, live, fresh, tally>>

\* Mutants: the retry copy keeps its attempt count; an exhausted delivery is
\* acknowledged without a copy in the dead-letter queue.
HandOverUncounted(c) ==
    LET x == held[c] IN
    \/ /\ verdict[c] = "RETRY" /\ x.attempt < MaxAttempts
       /\ waiting' = Put(waiting, x)
       /\ UNCHANGED dead
    \/ /\ verdict[c] = "DEAD_LETTER" \/ x.attempt >= MaxAttempts
       /\ dead' = Put(dead, x)
       /\ UNCHANGED waiting

HandOverForgetful(c) ==
    LET x == held[c] IN
    \/ /\ verdict[c] = "RETRY" /\ x.attempt < MaxAttempts
       /\ waiting' = Put(waiting, NextCopy(x))
       /\ UNCHANGED dead
    \/ /\ verdict[c] = "DEAD_LETTER"
       /\ dead' = Put(dead, x)
       /\ UNCHANGED waiting
    \/ /\ verdict[c] = "RETRY" /\ x.attempt >= MaxAttempts
       /\ UNCHANGED <<waiting, dead>>

\* _handle_failure's publication: a retry copy while attempts are left and the
\* error deserves one, else a dead letter.
HandOver(c) ==
    LET x == held[c] IN
    \/ /\ verdict[c] = "RETRY" /\ x.attempt < MaxAttempts
       /\ waiting' = Put(waiting, NextCopy(x))
       /\ UNCHANGED dead
    \/ /\ verdict[c] = "DEAD_LETTER" \/ x.attempt >= MaxAttempts
       /\ dead' = Put(dead, x)
       /\ UNCHANGED waiting

\* basic_publish returns: without confirms the copy may be lost all the same.
Republish(c) ==
    /\ pc[c] = "failing" /\ live[c] /\ held[c].attempt # Garbled
    /\ \/ HandOver(c) /\ UNCHANGED <<lost, faults>>
       \/ /\ Fault
          /\ lost' = Count(lost, held[c].message)
          /\ UNCHANGED <<waiting, dead>>
    /\ pc' = [pc EXCEPT ![c] = "acking"]
    /\ UNCHANGED <<declared, queue, recorded, held, live, fresh, verdict,
                   sent, deliveries, breaks>>

\* Mutant: a negative acknowledgement puts the delivery back in the queue.
AckReturned(c) ==
    /\ pc[c] = "acking" /\ live[c]
    /\ queue' = Put(queue, held[c])
    /\ pc' = [pc EXCEPT ![c] = "idle"]
    /\ held' = [held EXCEPT ![c] = None]
    /\ verdict' = [verdict EXCEPT ![c] = None]
    /\ UNCHANGED <<declared, waiting, dead, recorded, live, fresh, tally, faults>>

Ack(c) ==
    /\ pc[c] = "acking" /\ live[c]
    /\ pc' = [pc EXCEPT ![c] = "idle"]
    /\ held' = [held EXCEPT ![c] = None]
    /\ verdict' = [verdict EXCEPT ![c] = None]
    /\ UNCHANGED <<broker, recorded, live, fresh, tally, faults>>

\* The broker takes an unacknowledged delivery back, its header unchanged.
Requeue(c) ==
    \/ /\ live[c] /\ held[c] # None
       /\ queue' = Put(queue, held[c])
       /\ breaks' = CountCopy(breaks, held[c])
    \/ /\ ~live[c] \/ held[c] = None
       /\ UNCHANGED <<queue, breaks>>

\* The connection breaks under the worker, which does not notice before it
\* next uses its channel; another worker may get the delivery meanwhile.
ConnectionLost(c) ==
    /\ live[c]
    /\ Fault
    /\ Requeue(c)
    /\ live' = [live EXCEPT ![c] = FALSE]
    /\ UNCHANGED <<declared, waiting, dead, recorded, pc, held, fresh, verdict,
                   sent, deliveries, lost>>

Down(c) == /\ pc' = [pc EXCEPT ![c] = "down"]
           /\ held' = [held EXCEPT ![c] = None]
           /\ live' = [live EXCEPT ![c] = FALSE]
           /\ fresh' = [fresh EXCEPT ![c] = FALSE]
           /\ verdict' = [verdict EXCEPT ![c] = None]

\* Mutant: the exception of a dead channel is swallowed.
DisconnectedSwallowed(c) ==
    /\ pc[c] \in {"idle", "failing", "acking"} /\ ~live[c]
    /\ pc' = [pc EXCEPT ![c] = "idle"]
    /\ held' = [held EXCEPT ![c] = None]
    /\ verdict' = [verdict EXCEPT ![c] = None]
    /\ UNCHANGED <<broker, recorded, live, fresh, tally, faults>>

\* Using a dead channel raises, and nothing on the way to main catches it.
Disconnected(c) ==
    /\ pc[c] \in {"idle", "failing", "acking"} /\ ~live[c]
    /\ Down(c)
    /\ UNCHANGED <<broker, recorded, tally, faults>>

\* int() of the header raises in the failure handler, before anything is
\* published: the worker closes its connection and stops.
BadHeader(c) ==
    /\ pc[c] = "failing" /\ held[c].attempt = Garbled
    /\ Requeue(c)
    /\ Down(c)
    /\ UNCHANGED <<declared, waiting, dead, recorded, sent, deliveries, lost, faults>>

\* The worker dies, or an operation on its channel raises: a commit, a
\* publication or an acknowledgement under way may have arrived.
Crash(c) ==
    LET m == held[c].message IN
    /\ pc[c] # "down"
    /\ Fault
    /\ \/ Requeue(c) /\ UNCHANGED <<waiting, dead, recorded>>
       \/ /\ pc[c] = "handling" /\ Body[m] = "valid"
          /\ recorded' = recorded \cup {m}
          /\ Requeue(c)
          /\ UNCHANGED <<waiting, dead>>
       \/ /\ pc[c] = "failing" /\ live[c] /\ held[c].attempt # Garbled
          /\ HandOver(c)
          /\ Requeue(c)
          /\ UNCHANGED recorded
       \/ /\ pc[c] = "acking" /\ live[c]
          /\ UNCHANGED <<queue, breaks, waiting, dead, recorded>>
    /\ Down(c)
    /\ UNCHANGED <<declared, sent, deliveries, lost>>

\* The TTL of a retry copy ends: the broker moves it to the main queue.
Expire(x) ==
    /\ waiting[x] > 0
    /\ waiting' = Drop(waiting, x)
    /\ queue' = Put(queue, x)
    /\ UNCHANGED <<declared, dead, recorded, worker, tally, faults>>

ConsumerStep(c) == \/ Start(c)
                   \/ \E x \in Copies : Receive(c, x)
                   \/ Handle(c) \/ Republish(c) \/ BadHeader(c) \/ Ack(c)
                   \/ Disconnected(c)

Next == \/ \E m \in Messages : Publish(m) \/ RecordedByHttp(m)
        \/ \E x \in Copies : Expire(x)
        \/ \E c \in Consumers : ConsumerStep(c) \/ ConnectionLost(c) \/ Crash(c)

\* The broker keeps its TTL, and workers run and are started again when they
\* have stopped; producers, clients and faults owe nothing.
Fairness == /\ WF_vars(\E x \in Copies : Expire(x))
            /\ \A c \in Consumers : WF_vars(ConsumerStep(c))

Spec == Init /\ [][Next]_vars /\ Fairness

-----------------------------------------------------------------------------
(* Properties *)

\* Every variable keeps its type; queues never hold a negative number.
TypeOK ==
    /\ declared \in BOOLEAN
    /\ queue \in [Copies -> Nat] /\ waiting \in [Copies -> Nat] /\ dead \in [Copies -> Nat]
    /\ recorded \subseteq Messages
    /\ pc \in [Consumers -> {"down", "idle", "handling", "failing", "acking"}]
    /\ held \in [Consumers -> {None} \cup Copies]
    /\ live \in [Consumers -> BOOLEAN] /\ fresh \in [Consumers -> BOOLEAN]
    /\ verdict \in [Consumers -> {None, "RETRY", "DEAD_LETTER"}]
    /\ sent \in [Messages -> Nat] /\ deliveries \in [Messages -> Nat]
    /\ breaks \in [Messages -> Nat] /\ lost \in [Messages -> Nat]
    /\ faults \in Nat

\* A copy of m is still to be dealt with: it waits in a queue, or a worker the
\* broker waits for has neither handled it nor handed it over.
Pending(m) ==
    \/ \E x \in Copies : x.message = m /\ queue[x] + waiting[x] > 0
    \/ \E c \in Consumers : /\ live[c] /\ pc[c] \in {"handling", "failing"}
                            /\ held[c].message = m

DeadLettered(m) == \E x \in Copies : x.message = m /\ dead[x] > 0

Accounted(m) == m \in recorded \/ DeadLettered(m) \/ Pending(m) \/ lost[m] > 0

\* No message gets lost between the hands it goes through: however often
\* connections break and workers die, a message sent is recorded, in the
\* dead-letter queue or still to be dealt with, unless the broker itself lost
\* a copy it never confirmed.
NothingVanishes == \A m \in Messages : sent[m] > 0 => Accounted(m)

\* The deliveries one copy of a message can lead to before it is dead-lettered.
Worth(m) == IF FirstAttempt[m] >= MaxAttempts THEN 1 ELSE MaxAttempts - FirstAttempt[m] + 1

\* The attempt count travels with the copy, so retries end: each publication
\* of a message, and each delivery of it taken back, is worth the attempts its
\* header leaves and never less than one, whatever RABBITMQ_MAX_ATTEMPTS is.
RetriesAreBounded ==
    \A m \in Messages :
        FirstAttempt[m] # Garbled => deliveries[m] <= Worth(m) * (sent[m] + breaks[m])

\* Once failures cease every message is dealt with: none circulates between
\* the queues or stays with a worker for ever, unless one whose header stops
\* every worker is in the way.
MessagesSettle ==
    LET poison == {m \in Messages : FirstAttempt[m] = Garbled} IN
    \A m \in Messages \ poison :
        Pending(m) ~> ~Pending(m) \/ \E p \in poison : Pending(p)

\* What the documents say and the code does not do.

\* "Invalid messages [...] are non-retryable and go directly to the DLQ"
\* (docs/adr/007-RabbitMQ-Failure-Recovery.md), and "Bound retries ensure they
\* cannot loop" (infra/messaging/failure_classifier.py): an invalid message
\* leaves the main queue for good.
InvalidSettles ==
    \A m \in Messages : Body[m] # "valid" => (Pending(m) ~> ~Pending(m))

=============================================================================
