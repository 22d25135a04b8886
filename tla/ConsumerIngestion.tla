-------------------------- MODULE ConsumerIngestion --------------------------
(***************************************************************************)
(* The ingestion workers with their use case opened up: the deliveries of  *)
(* IngestionConsumer, handled by the transactions of EventIngestion, while *)
(* HTTP requests create shipments and deliver events beside them.          *)
(*                                                                         *)
(* A worker's transaction begins when it handles a valid message, runs     *)
(* statement by statement, and its last step is the end of handle_event:   *)
(* what it answers decides between acknowledgement, retry and dead letter, *)
(* which Handle of IngestionConsumer chooses freely.  The transactions'    *)
(* variables keep their names, those of the broker's side get new ones.    *)
(***************************************************************************)
EXTENDS EventIngestion

CONSTANTS Messages, Body, FirstAttempt, MaxAttempts, Garbled, MaxSends, MaxFaults,
          EventOf  \* the event in each valid message

\* A message sent again is the same message, and an identity names one event.
ASSUME EventsAssumption ==
    \A m \in Messages : Body[m] = "valid" =>
        /\ EventOf[m] \in Deliveries /\ EventOf[m].type # "SHIPMENT_CREATED"
        /\ \A e \in Deliveries : e.id = EventOf[m].id => e = EventOf[m]
        /\ \A n \in Messages \ {m} : Body[n] = "valid" => EventOf[n].id # EventOf[m].id
ASSUME NoVerdictAssumption == None \notin {"RETRY", "DEAD_LETTER"}

VARIABLES declared, queue, waiting, dead, workerPc, held, live, fresh, verdict,
          sent, deliveries, breaks, lost, faults

messaging == <<declared, queue, waiting, dead, workerPc, held, live, fresh, verdict,
               sent, deliveries, breaks, lost, faults>>

Recorded == {m \in Messages : Body[m] = "valid" /\ history[EventOf[m].id] # None}

Consumer == INSTANCE IngestionConsumer
                WITH Consumers <- Workers, recorded <- Recorded, pc <- workerPc

Valid(c) == workerPc[c] = "handling" /\ Body[held[c].message] = "valid"

-----------------------------------------------------------------------------

ConsumptionInit == Init /\ Consumer!Init

\* handle_event opens its session.
Begin(c) == /\ Valid(c)
            /\ Deliver(c, EventOf[held[c].message])
            /\ UNCHANGED messaging

\* A statement of the transaction that is not its last.
Statement(c) == /\ Valid(c)
                /\ Advance(c)
                /\ pc'[c] # "idle"
                /\ UNCHANGED messaging

\* Mutant: a collision on the primary key is taken for an invalid event.
DispositionStrict(outcome) ==
    IF outcome \in Refusals \cup {"IntegrityError"} THEN "DEAD_LETTER" ELSE "RETRY"

\* ShipmentEventFailureClassifier.classify of what handle_event raised.
Disposition(outcome) == IF outcome \in Refusals THEN "DEAD_LETTER" ELSE "RETRY"

\* Mutant: handle_event returns before its transaction is committed.
HandledBeforeCommit(c) ==
    /\ Valid(c)
    /\ Flush(c)
    /\ workerPc' = [workerPc EXCEPT ![c] = "acking"]
    /\ UNCHANGED <<declared, queue, waiting, dead, held, live, fresh, verdict,
                   sent, deliveries, breaks, lost, faults>>

\* The transaction ends and handle_event returns or raises.
Handled(c) == /\ Valid(c)
              /\ Advance(c) \/ Fail(c)
              /\ pc'[c] = "idle"
              /\ \/ /\ answer'[c] \in {"Recorded", "Duplicate"}
                    /\ workerPc' = [workerPc EXCEPT ![c] = "acking"]
                    /\ UNCHANGED verdict
                 \/ /\ answer'[c] \notin {"Recorded", "Duplicate"}
                    /\ Consumer!Fails(c, Disposition(answer'[c]))
              /\ IF answer'[c] = "Failure" THEN Consumer!Fault ELSE UNCHANGED faults
              /\ UNCHANGED <<declared, queue, waiting, dead, held, live, fresh,
                             sent, deliveries, breaks, lost>>

\* from_json refuses the body.
Unparsed(c) == /\ UNCHANGED vars
               /\ workerPc[c] = "handling" /\ ~Valid(c)
               /\ Consumer!Handle(c)

\* The worker dies, with the transaction it may have open.
WorkerCrash(c) == /\ \/ /\ pc[c] # "idle"
                        /\ Fail(c) \/ CommitUnacknowledged(c)
                     \/ pc[c] = "idle" /\ UNCHANGED vars
                  /\ Consumer!Crash(c)

Messaging == /\ UNCHANGED vars
             /\ \/ \E m \in Messages : Consumer!Publish(m)
                \/ \E x \in Consumer!Copies : Consumer!Expire(x)
                \/ \E c \in Workers :
                      \/ Consumer!Start(c)
                      \/ \E x \in Consumer!Copies : Consumer!Receive(c, x)
                      \/ Consumer!Republish(c) \/ Consumer!BadHeader(c)
                      \/ Consumer!Ack(c) \/ Consumer!Disconnected(c)
                      \/ Consumer!ConnectionLost(c)

Request(h) == Step(h) /\ UNCHANGED messaging

ConsumptionNext ==
    \/ \E c \in Workers : \/ Begin(c) \/ Statement(c) \/ Handled(c)
                          \/ Unparsed(c) \/ WorkerCrash(c)
    \/ Messaging
    \/ \E h \in Http : Request(h)

ConsumptionSpec == ConsumptionInit /\ [][ConsumptionNext]_<<vars, messaging>>

-----------------------------------------------------------------------------
(* Properties *)

\* A worker is about to acknowledge a delivery it has not handed over only when
\* the event is committed: a crash before the acknowledgement repeats it, and
\* none loses it.
CommitBeforeAck ==
    \A c \in Workers :
        workerPc[c] = "acking" /\ verdict[c] = None =>
            history[EventOf[held[c].message].id] # None

\* Whatever interleaves with the transaction, fails in it or cuts it short, its
\* outcome makes of the delivery what IngestionConsumer allows: an event that is
\* recorded, by whoever won the race for its identity, is never refused for
\* good, and a worker that lost the race leaves its delivery to a retry.
ImplementsConsumer == Consumer!Init /\ [][Consumer!Next]_(Consumer!vars)

=============================================================================
