--------------------------- MODULE FreightPlatform ---------------------------
(***************************************************************************)
(* The platform end to end: IngestionConsumer brings messages in,          *)
(* OutboxRelay sends notifications out, and the database between them is   *)
(* all they share.  An event is in the history exactly when its intent is  *)
(* in the outbox (IntentsMatchHistory of EventIngestion), so whoever       *)
(* records an event, worker or HTTP request, takes a step that is a step   *)
(* of the relay's Record as well.  Every other step is one side's alone.   *)
(*                                                                         *)
(* The relay's variables keep their names, the worker's get new ones.  A   *)
(* message and the intent of its event have one identity.                  *)
(***************************************************************************)
EXTENDS OutboxRelay

CONSTANTS Body, FirstAttempt, Consumers, MaxAttempts, Garbled,
          MaxSends, MaxWorkerFaults

VARIABLES declared, queue, waiting, dead, workerPc, held, workerLive, fresh,
          verdict, sent, deliveries, breaks, lost, workerFaults

inbound == <<declared, queue, waiting, dead, workerPc, held, workerLive, fresh,
             verdict, sent, deliveries, breaks, lost, workerFaults>>

Messages == Intents

RecordedMessages == {m \in Messages : Recorded(m)}

Worker == INSTANCE IngestionConsumer
              WITH recorded <- RecordedMessages, MaxFaults <- MaxWorkerFaults,
                   pc <- workerPc, live <- workerLive, faults <- workerFaults

-----------------------------------------------------------------------------

PlatformInit == Init /\ Worker!Init

\* What a worker does leaves the database alone, or commits an event with its
\* intent.
Database == UNCHANGED vars \/ \E m \in Messages : Record(m)

WorkerStep(c) == Database /\ Worker!ConsumerStep(c)

RecordedByHttp(m) == Record(m) /\ Worker!RecordedByHttp(m)

Inbound == \/ /\ UNCHANGED vars
              /\ \/ \E m \in Messages : Worker!Publish(m)
                 \/ \E x \in Worker!Copies : Worker!Expire(x)
                 \/ \E c \in Consumers : Worker!ConnectionLost(c)
           \/ \E m \in Messages : RecordedByHttp(m)
           \/ \E c \in Consumers : WorkerStep(c) \/ (Database /\ Worker!Crash(c))

Outbound == /\ \/ Tick
               \/ \E r \in Relays : RelayStep(r) \/ SessionLost(r) \/ Crash(r)
            /\ UNCHANGED inbound

PlatformNext == Inbound \/ Outbound

\* As for each side: TTLs end, time passes, processes run and are restarted.
PlatformFairness ==
    LET all == <<inbound, vars>> IN
    /\ WF_all(UNCHANGED vars /\ \E x \in Worker!Copies : Worker!Expire(x))
    /\ \A c \in Consumers : WF_all(WorkerStep(c))
    /\ WF_all(Tick /\ UNCHANGED inbound)
    /\ \A r \in Relays : WF_all(RelayStep(r) /\ UNCHANGED inbound)

PlatformSpec == /\ PlatformInit
                /\ [][PlatformNext]_<<inbound, vars>>
                /\ PlatformFairness

-----------------------------------------------------------------------------
(* Properties *)

\* A notification goes out once per event: neither redeliveries, retries and
\* repeated sends of its message nor an HTTP request for the same event lead to
\* a second one.  Only failures on the way out repeat it, each of them once.
EventIsNotifiedOnce == \A m \in Messages : copies[m] <= 1 + faults

Notified(m) == copies[m] > 0 /\ outbox[m].published

\* A message handed to the broker ends up as a notification that went out or in
\* the dead-letter queue, whatever failed on the way, unless the broker lost a
\* copy it had not confirmed.
MessagesEndWell ==
    \A m \in Messages :
        sent[m] > 0 ~> \/ Recorded(m) /\ Notified(m)
                       \/ Worker!DeadLettered(m)
                       \/ lost[m] > 0

=============================================================================
