----------------------- MODULE ConsumerIngestionProofs -----------------------
(***************************************************************************)
(* Theorems about ConsumerIngestion, for every set of messages, deliveries,*)
(* workers and requests: every step is one of EventIngestion, or none, and *)
(* one of IngestionConsumer, or none.                                      *)
(*                                                                         *)
(* The inductive invariant CInv joins that of EventIngestion with Linked:  *)
(* a transaction is open only while its worker handles a valid delivery,   *)
(* and a delivery that found its event recorded can only be a duplicate.   *)
(***************************************************************************)
EXTENDS ConsumerIngestion, EventIngestionProofs

\* The event of the delivery at hand is in the history.
Stored(c) == /\ Body[held[c].message] = "valid"
             /\ history[EventOf[held[c].message].id] # None

\* How a worker's delivery and its transaction hang together.
Link(c) ==
    /\ workerPc[c] \in {"handling", "failing", "acking"} => held[c] \in Consumer!Copies
    /\ workerPc[c] = "failing" => verdict[c] # None
    /\ workerPc[c] = "acking" /\ verdict[c] = None => Stored(c)
    /\ Valid(c) /\ ~fresh[c] => Stored(c)
    /\ pc[c] # "idle" => /\ Valid(c) /\ event[c] = EventOf[held[c].message]
                         /\ answer[c] = None
    /\ pc[c] \notin {"idle", "load"} /\ ~fresh[c] => known[c]
    /\ pc[c] \notin {"register", "reload", "reply"}

WorkerTypes ==
    /\ workerPc \in [Workers -> {"down", "idle", "handling", "failing", "acking"}]
    /\ held \in [Workers -> {None} \cup Consumer!Copies]
    /\ fresh \in [Workers -> BOOLEAN]
    /\ verdict \in [Workers -> {None, "RETRY", "DEAD_LETTER"}]

Linked == WorkerTypes /\ \A c \in Workers : Link(c)

\* A delivered event is recorded under its own identity.
RecordsFiled ==
    \A i \in Ids \ Shipments :
        history[i] # None => history[i].event \in Deliveries /\ history[i].event.id = i

CInv == IInv /\ RegistrationsWhole /\ RepeatsOK /\ RecordsFiled /\ Linked

LEMMA CopyMessage ==
    ASSUME NEW x \in Consumer!Copies
    PROVE  x.message \in Messages
BY DEF Consumer!Copies

\* What a worker handles, and what EventIngestion knows of it.
LEMMA ValidDelivery ==
    ASSUME Linked, NEW c \in Workers, Valid(c)
    PROVE  LET m == held[c].message IN
           /\ held[c] \in Consumer!Copies
           /\ m \in Messages /\ Body[m] = "valid"
           /\ EventOf[m] \in Deliveries /\ EventOf[m] \in Events
           /\ EventOf[m].id \in Ids
           /\ EventOf[m].type # "SHIPMENT_CREATED"
<1>1. held[c] \in Consumer!Copies /\ held[c].message \in Messages
  BY CopyMessage DEF Linked, WorkerTypes, Link, Valid
<1> QED BY <1>1, EventsAssumption, DeliveriesAssumption DEF Valid, Ids

-----------------------------------------------------------------------------
(* The database sees transactions of EventIngestion. *)

LEMMA WorkerSide ==
    ASSUME Linked, NEW c \in Workers,
           Begin(c) \/ Statement(c) \/ Handled(c) \/ WorkerCrash(c)
    PROVE  Step(c) \/ UNCHANGED vars
<1>1. CASE Begin(c)
  <2>1. EventOf[held[c].message] \in Deliveries
    BY <1>1, ValidDelivery DEF Begin
  <2> QED BY <1>1, <2>1 DEF Begin, Step
<1>2. CASE Statement(c) \/ Handled(c)
  BY <1>2 DEF Statement, Handled, Step
<1>3. CASE WorkerCrash(c)
  BY <1>3 DEF WorkerCrash, Step, Advance
<1> QED BY <1>1, <1>2, <1>3

LEMMA IngestionSide ==
    ASSUME Linked, [ConsumptionNext]_<<vars, messaging>>
    PROVE  [Next]_vars
<1>1. ASSUME NEW c \in Workers, Begin(c) \/ Statement(c) \/ Handled(c) \/ WorkerCrash(c)
      PROVE  [Next]_vars
  BY <1>1, WorkerSide DEF Next, Processes
<1>2. ASSUME NEW c \in Workers, Unparsed(c) PROVE [Next]_vars
  BY <1>2 DEF Unparsed
<1>3. CASE Messaging
  BY <1>3 DEF Messaging
<1>4. ASSUME NEW h \in Http, Request(h) PROVE [Next]_vars
  BY <1>4 DEF Request, Next, Processes
<1>5. CASE UNCHANGED <<vars, messaging>>
  BY <1>5
<1> QED BY <1>1, <1>2, <1>3, <1>4, <1>5 DEF ConsumptionNext

LEMMA FiledStep ==
    ASSUME IInv, RecordsFiled, NEW p \in Processes, Step(p)
    PROVE  RecordsFiled'
<1>1. CASE UNCHANGED ledger
  BY <1>1 DEF ledger, RecordsFiled
<1>2. CASE pc[p] = "commit" /\ Install(p)
  <2>1. /\ event[p].id \in Ids /\ RecordOf(p).event = event[p]
        /\ history' = [history EXCEPT ![event[p].id] = RecordOf(p)]
    BY <1>2, CommitStores
  <2>2. event[p].id \notin Shipments => event[p] \in Deliveries
    BY <1>2, EventAtHand DEF IInv, RequestsOK, RequestOK, Ingesting
  <2>3. history \in [Ids -> {None} \cup Records]
    BY DEF IInv, TypeOK
  <2> QED BY <2>1, <2>2, <2>3 DEF RecordsFiled
<1> QED BY <1>1, <1>2, CommitOrNot

\* So its invariants hold here.
LEMMA IngestionInvariants ==
    ASSUME CInv, [ConsumptionNext]_<<vars, messaging>>
    PROVE  /\ IInv' /\ RegistrationsWhole' /\ RepeatsOK' /\ RecordsFiled'
           /\ \A i \in Ids : history[i] # None => history'[i] = history[i]
<1>1. [Next]_vars
  BY IngestionSide DEF CInv
<1>2. IInv /\ RegistrationsWhole /\ RepeatsOK /\ RecordsFiled
  BY DEF CInv
<1>3. CASE UNCHANGED vars
  <2>1. IInv'
    BY <1>1, <1>2, StepIInv
  <2>2. RegistrationsWhole' /\ RepeatsOK' /\ RecordsFiled'
    BY <1>2, <1>3 DEF vars, RegistrationsWhole, RecordsFiled, RepeatsOK, KnownOK, RecoveryOK, Repeated
  <2> QED BY <1>3, <2>1, <2>2 DEF vars
<1>4. ASSUME NEW p \in Processes, Step(p)
      PROVE  /\ IInv' /\ RegistrationsWhole' /\ RepeatsOK' /\ RecordsFiled'
             /\ \A i \in Ids : history[i] # None => history'[i] = history[i]
  <2>1. IInv' /\ RegistrationsWhole' /\ RecordsFiled'
    BY <1>1, <1>2, <1>4, StepIInv, RegistrationsStep, FiledStep
  <2>2. RepeatsOK'
    BY <1>2, <1>4, RepeatsOthers, RepeatsOwn DEF RepeatsOK
  <2> QED BY <1>2, <1>4, <2>1, <2>2, TablesGrow
<1> QED BY <1>1, <1>3, <1>4 DEF Next

-----------------------------------------------------------------------------
(* Deliveries and transactions stay linked. *)

\* Steps that leave a worker and its transaction alone.
LEMMA LinkKept ==
    ASSUME CInv, [ConsumptionNext]_<<vars, messaging>>, NEW c \in Workers,
           workerPc'[c] = workerPc[c], held'[c] = held[c], fresh'[c] = fresh[c],
           verdict'[c] = verdict[c],
           pc'[c] = pc[c], event'[c] = event[c], known'[c] = known[c],
           answer'[c] = answer[c]
    PROVE  Link(c)'
<1>1. Link(c)
  BY DEF CInv, Linked, WorkerTypes
<1>2. held[c] \in Consumer!Copies /\ Stored(c) => Stored(c)'
  <2> SUFFICES ASSUME held[c] \in Consumer!Copies, Stored(c) PROVE Stored(c)'
    OBVIOUS
  <2>1. EventOf[held[c].message].id \in Ids
    BY CopyMessage, EventsAssumption DEF Stored, Ids
  <2> QED BY <2>1, IngestionInvariants DEF Stored
<1> QED BY <1>1, <1>2 DEF Link, Valid

\* Steps of the use case.
LEMMA LinkBegin ==
    ASSUME CInv, NEW c \in Workers, Begin(c)
    PROVE  Link(c)'
<1>1. Link(c) /\ TypeOK
  BY DEF CInv, Linked, WorkerTypes, IInv
<1>2. /\ pc'[c] = "load" /\ event'[c] = EventOf[held[c].message] /\ answer'[c] = None
      /\ history' = history
  BY <1>1 DEF Begin, Deliver, Start, Goto, TypeOK, ledger, Processes
<1> QED BY <1>1, <1>2 DEF Begin, messaging, Link, Valid, Stored

LEMMA LinkStatement ==
    ASSUME CInv, NEW c \in Workers, Statement(c)
    PROVE  Link(c)'
<1>1. Link(c) /\ TypeOK /\ c \in Processes /\ c \notin Http
  BY ProcessAssumption DEF CInv, Linked, WorkerTypes, IInv, Processes
<1>2. /\ event' = event /\ history' = history /\ pc[c] # "idle" /\ answer'[c] = answer[c]
      /\ pc'[c] \in {"check", "save", "insert", "flush", "commit"}
      /\ known'[c] = (IF pc[c] = "load" THEN history[event[c].id] # None ELSE known[c])
  BY <1>1 DEF Statement, Advance, InsertShipment, Load, Check, Save, Insert, Flush,
       Reload, Reply, Commit, CommitUnacknowledged, Goto, End, TypeOK, ledger, Link
<1>3. Valid(c)' /\ Valid(c) /\ Stored(c)' = Stored(c) /\ fresh' = fresh /\ held' = held
  BY <1>2 DEF Statement, messaging, Valid, Stored
<1>4. ~fresh[c] => known'[c]
  BY <1>1, <1>2, <1>3 DEF Link, Stored
<1> QED BY <1>1, <1>2, <1>3, <1>4 DEF Link, Valid

\* What the end of handle_event leaves behind.
LEMMA Outcomes ==
    ASSUME CInv, NEW c \in Workers, Handled(c)
    PROVE  /\ event[c] = EventOf[held[c].message] /\ event[c].id \in Ids
           /\ \/ /\ answer'[c] = "Duplicate" /\ UNCHANGED ledger
                 /\ history[event[c].id] # None
              \/ /\ answer'[c] \in {"Recorded", "Failure"}
                 /\ pc[c] = "commit" /\ Install(c)
              \/ answer'[c] = "Failure" /\ UNCHANGED ledger
              \/ /\ answer'[c] \in Refusals \cup {"TypeError"} /\ UNCHANGED ledger
                 /\ history[event[c].id] = None
              \/ /\ answer'[c] = "IntegrityError" /\ UNCHANGED ledger
                 /\ history[event[c].id] # None /\ fresh[c]
<1>1. /\ Link(c) /\ TypeOK /\ c \in Processes /\ c \notin Http
      /\ KnownOK(c) /\ RegistrationsWhole /\ RecordsFiled
  BY ProcessAssumption DEF CInv, Linked, WorkerTypes, IInv, Processes, RepeatsOK
<1>2. Valid(c) /\ (Advance(c) \/ Fail(c)) /\ pc'[c] = "idle"
  BY DEF Handled
<1>3. pc[c] # "idle"
  BY <1>2 DEF Advance, Fail, InsertShipment, Load, Check, Save, Insert, Flush,
              Reload, Reply, Commit, CommitUnacknowledged
<1>4. /\ event[c] = EventOf[held[c].message] /\ answer[c] = None
      /\ pc[c] \notin {"register", "reload", "reply"}
  BY <1>1, <1>3 DEF Link
<1>5. event[c].id \in Ids /\ event[c].id \notin Shipments /\ event[c] \in Deliveries
  BY <1>2, <1>4, ValidDelivery, DeliveriesAssumption DEF CInv
<1>7. CASE Load(c)
  <2>1. row[event[c].shipment] = None /\ answer'[c] = "ValueError" /\ UNCHANGED ledger
    BY <1>1, <1>2, <1>7 DEF Load, Goto, End, TypeOK
  <2>2. ASSUME history[event[c].id] # None PROVE FALSE
    <3>1. history[event[c].id].event = event[c]
      <4>1. history[event[c].id].event \in Deliveries /\ history[event[c].id].event.id = event[c].id
        BY <1>1, <1>5, <2>2 DEF RecordsFiled
      <4>2. held[c].message \in Messages /\ Body[held[c].message] = "valid"
        BY <1>2, ValidDelivery DEF CInv
      <4> QED BY <1>4, <4>1, <4>2, EventsAssumption
    <3> QED BY <1>1, <1>5, <2>1, <2>2, <3>1 DEF RegistrationsWhole
  <2> QED BY <1>4, <1>5, <2>1, <2>2 DEF Refusals
<1>8. CASE Check(c)
  <2>1. /\ UNCHANGED ledger
        /\ \/ history[event[c].id] # None /\ answer'[c] = "Duplicate"
           \/ /\ history[event[c].id] = None
              /\ Outcome(view[c], event[c]) \notin ProcessingStatuses
              /\ answer'[c] = Outcome(view[c], event[c])
    BY <1>1, <1>2, <1>8 DEF Check, Goto, End, TypeOK
  <2> QED BY <1>4, <1>5, <2>1, OutcomeType
<1>9. CASE Insert(c)
  <2>1. /\ answer'[c] = "IntegrityError" /\ UNCHANGED ledger /\ pc[c] = "insert"
        /\ history[event[c].id] # None
    BY <1>1, <1>2, <1>9 DEF Insert, Goto, End, TypeOK
  <2>2. fresh[c]
    BY <1>1, <2>1 DEF Link, KnownOK
  <2> QED BY <1>4, <1>5, <2>1, <2>2
<1>10. CASE Commit(c) \/ CommitUnacknowledged(c)
  BY <1>1, <1>4, <1>5, <1>10 DEF Commit, CommitUnacknowledged, End, TypeOK
<1>11. CASE Fail(c)
  BY <1>1, <1>4, <1>5, <1>11 DEF Fail, End, TypeOK
<1>12. CASE Save(c) \/ Flush(c)
  BY <1>1, <1>2, <1>12 DEF Save, Flush, Goto, TypeOK
<1> QED
  BY <1>2, <1>4, <1>7, <1>8, <1>9, <1>10, <1>11, <1>12 DEF Advance, InsertShipment, Reload, Reply

\* What is recorded once the transaction of a delivery has committed.
LEMMA InstallRecords ==
    ASSUME IInv, NEW p \in Processes, pc[p] = "commit", Install(p)
    PROVE  Recorded' = Recorded \cup {m \in Messages : Body[m] = "valid" /\ EventOf[m].id = event[p].id}
<1>1. /\ event[p].id \in Ids /\ RecordOf(p) # None
      /\ history' = [history EXCEPT ![event[p].id] = RecordOf(p)]
  BY CommitStores
<1>2. history \in [Ids -> {None} \cup Records]
  BY DEF IInv, TypeOK
<1>3. \A m \in Messages : Body[m] = "valid" => EventOf[m].id \in Ids
  BY EventsAssumption DEF Ids
<1> QED BY <1>1, <1>2, <1>3 DEF Recorded

LEMMA LinkHandled ==
    ASSUME CInv, NEW c \in Workers, Handled(c)
    PROVE  Link(c)'
<1>1. Link(c) /\ Linked /\ TypeOK /\ Valid(c) /\ IInv /\ c \in Processes
  BY DEF CInv, Linked, WorkerTypes, IInv, Handled, Processes
<1>2. pc'[c] = "idle" /\ held' = held
  BY DEF Handled
<1>3. CASE answer'[c] \in {"Recorded", "Duplicate"}
  <2>1. workerPc'[c] = "acking"
    BY <1>1, <1>3 DEF Handled, Linked, WorkerTypes
  <2>2. history'[event[c].id] # None
    <3>1. CASE UNCHANGED ledger
      BY <1>3, <3>1, Outcomes, CommitStores, <1>1 DEF Refusals, ledger, TypeOK
    <3>2. CASE pc[c] = "commit" /\ Install(c)
      BY <1>1, <3>2, CommitStores DEF TypeOK
    <3> QED BY <1>3, <3>1, <3>2, Outcomes
  <2>3. Stored(c)'
    BY <1>1, <1>2, <2>2, Outcomes DEF Stored, Valid
  <2> QED BY <1>1, <1>2, <2>1, <2>3 DEF Link, Valid
<1>4. CASE answer'[c] \notin {"Recorded", "Duplicate"}
  <2>1. workerPc'[c] = "failing" /\ verdict'[c] \in {"RETRY", "DEAD_LETTER"}
    BY <1>1, <1>4 DEF Handled, Consumer!Fails, Disposition, Linked, WorkerTypes
  <2> QED BY <1>1, <1>2, <2>1, NoVerdictAssumption DEF Link, Valid
<1> QED BY <1>3, <1>4

\* Steps of the broker's side.
BrokerStep(c) == \/ Consumer!Start(c)
                 \/ \E x \in Consumer!Copies : Consumer!Receive(c, x)
                 \/ Consumer!Republish(c) \/ Consumer!BadHeader(c)
                 \/ Consumer!Ack(c) \/ Consumer!Disconnected(c)
                 \/ Consumer!ConnectionLost(c)

LEMMA LinkBroker ==
    ASSUME Linked, NEW c \in Workers, UNCHANGED vars, BrokerStep(c)
    PROVE  Link(c)'
<1>1. Link(c) /\ pc' = pc /\ event' = event /\ known' = known /\ answer' = answer /\ history' = history
  BY DEF Linked, WorkerTypes, vars
<1> USE DEF Linked, WorkerTypes, Link, Valid, Stored
<1>2. CASE Consumer!Start(c)
  BY <1>1, <1>2 DEF Consumer!Start
<1>3. ASSUME NEW x \in Consumer!Copies, Consumer!Receive(c, x) PROVE Link(c)'
  <2>1. /\ workerPc'[c] = "handling" /\ held'[c] = x /\ pc[c] = "idle"
        /\ fresh'[c] = (x.message \notin Recorded)
    BY <1>1, <1>3 DEF Consumer!Receive
  <2>2. Valid(c)' /\ ~fresh'[c] => Stored(c)'
    BY <1>1, <2>1 DEF Recorded
  <2> QED BY <1>1, <2>1, <2>2
<1>4. CASE Consumer!Republish(c)
  BY <1>1, <1>4 DEF Consumer!Republish
<1>5. CASE Consumer!BadHeader(c)
  BY <1>1, <1>5 DEF Consumer!BadHeader, Consumer!Down
<1>6. CASE Consumer!Ack(c)
  BY <1>1, <1>6 DEF Consumer!Ack
<1>7. CASE Consumer!Disconnected(c)
  BY <1>1, <1>7 DEF Consumer!Disconnected, Consumer!Down
<1>8. CASE Consumer!ConnectionLost(c)
  BY <1>1, <1>8 DEF Consumer!ConnectionLost
<1> QED BY <1>2, <1>3, <1>4, <1>5, <1>6, <1>7, <1>8 DEF BrokerStep

LEMMA LinkUnparsed ==
    ASSUME Linked, NEW c \in Workers, Unparsed(c)
    PROVE  Link(c)'
<1>1. Link(c) /\ pc[c] = "idle" /\ pc' = pc /\ held' = held
  BY DEF Linked, WorkerTypes, Link, Unparsed, vars, Consumer!Handle
<1>2. workerPc'[c] = "failing" /\ verdict'[c] \in {"RETRY", "DEAD_LETTER"}
  BY DEF Linked, WorkerTypes, Unparsed, Valid, Consumer!Handle, Consumer!Fails
<1>3. held[c] \in Consumer!Copies
  BY <1>1 DEF Unparsed, Link
<1> QED BY <1>1, <1>2, <1>3, NoVerdictAssumption DEF Link, Valid

LEMMA LinkCrash ==
    ASSUME CInv, NEW c \in Workers, WorkerCrash(c)
    PROVE  Link(c)'
<1>1. pc'[c] = "idle"
  BY DEF CInv, IInv, TypeOK, WorkerCrash, Fail, CommitUnacknowledged, End, Goto, vars, Processes
<1>2. workerPc'[c] = "down"
  BY DEF CInv, Linked, WorkerTypes, WorkerCrash, Consumer!Crash, Consumer!Down
<1> QED BY <1>1, <1>2 DEF Link, Valid

\* A step changes the variables of one worker only.
OthersRest(c) ==
    \A d \in Workers \ {c} : /\ workerPc'[d] = workerPc[d] /\ held'[d] = held[d]
                             /\ fresh'[d] = fresh[d] /\ verdict'[d] = verdict[d]

LEMMA TypesBroker ==
    ASSUME WorkerTypes, NEW c \in Workers, BrokerStep(c)
    PROVE  WorkerTypes' /\ OthersRest(c)
<1> USE DEF WorkerTypes, OthersRest
<1>1. CASE Consumer!Start(c)
  BY <1>1 DEF Consumer!Start
<1>2. ASSUME NEW x \in Consumer!Copies, Consumer!Receive(c, x)
      PROVE  WorkerTypes' /\ OthersRest(c)
  BY <1>2 DEF Consumer!Receive
<1>3. CASE Consumer!Republish(c)
  BY <1>3 DEF Consumer!Republish
<1>4. CASE Consumer!BadHeader(c)
  BY <1>4 DEF Consumer!BadHeader, Consumer!Down
<1>5. CASE Consumer!Ack(c)
  BY <1>5 DEF Consumer!Ack
<1>6. CASE Consumer!Disconnected(c)
  BY <1>6 DEF Consumer!Disconnected, Consumer!Down
<1>7. CASE Consumer!ConnectionLost(c)
  BY <1>7 DEF Consumer!ConnectionLost
<1> QED BY <1>1, <1>2, <1>3, <1>4, <1>5, <1>6, <1>7 DEF BrokerStep

LEMMA TypesUseCase ==
    ASSUME WorkerTypes, NEW c \in Workers,
           Begin(c) \/ Statement(c) \/ Handled(c) \/ Unparsed(c) \/ WorkerCrash(c)
    PROVE  WorkerTypes' /\ OthersRest(c)
<1> USE DEF WorkerTypes, OthersRest
<1>1. CASE Begin(c) \/ Statement(c)
  BY <1>1 DEF Begin, Statement, messaging
<1>2. CASE Handled(c)
  BY <1>2 DEF Handled, Consumer!Fails, Disposition
<1>3. CASE Unparsed(c)
  BY <1>3 DEF Unparsed, Consumer!Handle, Consumer!Fails
<1>4. CASE WorkerCrash(c)
  BY <1>4 DEF WorkerCrash, Consumer!Crash, Consumer!Down
<1> QED BY <1>1, <1>2, <1>3, <1>4

LEMMA LinkedStep ==
    ASSUME CInv, [ConsumptionNext]_<<vars, messaging>>
    PROVE  Linked'
<1>1. Linked /\ WorkerTypes /\ IInv
  BY DEF CInv, Linked, WorkerTypes
<1>2. ASSUME NEW c \in Workers,
             Begin(c) \/ Statement(c) \/ Handled(c) \/ Unparsed(c) \/ WorkerCrash(c)
      PROVE  Linked'
  <2>1. WorkerTypes' /\ OthersRest(c)
    BY <1>1, <1>2, TypesUseCase
  <2>2. Link(c)'
    BY <1>1, <1>2, LinkBegin, LinkStatement, LinkHandled, LinkUnparsed, LinkCrash
  <2>3. ASSUME NEW d \in Workers, d # c PROVE Link(d)'
    <3>1. /\ pc'[d] = pc[d] /\ event'[d] = event[d] /\ known'[d] = known[d]
          /\ answer'[d] = answer[d]
      <4>1. c \in Processes /\ d \in Processes
        BY DEF Processes
      <4>2. Step(c) \/ UNCHANGED vars
        BY <1>1, <1>2, WorkerSide DEF Unparsed
      <4> QED BY <1>1, <2>3, <4>1, <4>2, OthersKeep DEF vars
    <3> QED BY <2>1, <2>3, <3>1, LinkKept DEF OthersRest
  <2> QED BY <2>1, <2>2, <2>3 DEF Linked, WorkerTypes
<1>3. ASSUME NEW c \in Workers, UNCHANGED vars, BrokerStep(c) PROVE Linked'
  <2>1. WorkerTypes' /\ OthersRest(c)
    BY <1>1, <1>3, TypesBroker
  <2>2. Link(c)'
    BY <1>1, <1>3, LinkBroker
  <2>3. ASSUME NEW d \in Workers, d # c PROVE Link(d)'
    BY <1>3, <2>1, <2>3, LinkKept DEF OthersRest, vars
  <2> QED BY <2>1, <2>2, <2>3 DEF Linked, WorkerTypes
<1>4. ASSUME UNCHANGED <<workerPc, held, fresh, verdict>>,
             \A d \in Workers : /\ pc'[d] = pc[d] /\ event'[d] = event[d]
                                /\ known'[d] = known[d] /\ answer'[d] = answer[d]
      PROVE  Linked'
  <2>1. \A d \in Workers : Link(d)'
    BY <1>4, LinkKept
  <2> QED BY <1>1, <1>4, <2>1 DEF Linked, WorkerTypes
<1>5. CASE Messaging
  <2>1. \/ \E c \in Workers : UNCHANGED vars /\ BrokerStep(c)
        \/ UNCHANGED vars /\ UNCHANGED <<workerPc, held, fresh, verdict>>
    BY <1>5 DEF Messaging, BrokerStep, Consumer!Publish, Consumer!Expire, Consumer!worker
  <2> QED BY <1>3, <1>4, <2>1 DEF vars
<1>6. ASSUME NEW h \in Http, Request(h) PROVE Linked'
  <2>1. \A d \in Workers : d \in Processes /\ h \in Processes /\ h # d
    BY ProcessAssumption DEF Processes
  <2>2. \A d \in Workers : /\ pc'[d] = pc[d] /\ event'[d] = event[d]
                           /\ known'[d] = known[d] /\ answer'[d] = answer[d]
    BY <1>1, <1>6, <2>1, OthersKeep DEF Request
  <2> QED BY <1>4, <1>6, <2>2 DEF Request, messaging
<1>7. CASE UNCHANGED <<vars, messaging>>
  BY <1>4, <1>7 DEF vars, messaging
<1> QED BY <1>2, <1>5, <1>6, <1>7 DEF ConsumptionNext

LEMMA InitCInv == ConsumptionInit => CInv
<1> SUFFICES ASSUME ConsumptionInit PROVE CInv
  OBVIOUS
<1>1. IInv
  BY InitIInv DEF ConsumptionInit
<1>2. RegistrationsWhole /\ RecordsFiled
  BY DEF ConsumptionInit, Init, LedgerInit, RegistrationsWhole, RecordsFiled
<1>3. RepeatsOK
  BY NoAnswerAssumption DEF ConsumptionInit, Init, RepeatsOK, KnownOK, RecoveryOK, Repeated, Answers
<1>4. Linked
  BY DEF ConsumptionInit, Init, Consumer!Init, Linked, WorkerTypes, Link, Valid, Processes
<1> QED BY <1>1, <1>2, <1>3, <1>4 DEF CInv

LEMMA StepCInv == CInv /\ [ConsumptionNext]_<<vars, messaging>> => CInv'
BY LinkedStep, IngestionInvariants DEF CInv

LEMMA CInvAlways == ConsumptionSpec => []CInv
BY InitCInv, StepCInv, PTL DEF ConsumptionSpec

\* A delivery is acknowledged as handled only when its event is committed,
\* whoever else writes to the database and whatever breaks.
THEOREM CommittedFirst == ConsumptionSpec => []CommitBeforeAck
<1>1. CInv => CommitBeforeAck
  BY DEF CInv, Linked, WorkerTypes, Link, Stored, CommitBeforeAck
<1> QED BY <1>1, CInvAlways, PTL

-----------------------------------------------------------------------------
(* What IngestionConsumer sees of it. *)

LEMMA RecordedKept ==
    ASSUME UNCHANGED history
    PROVE  Recorded' = Recorded
BY DEF Recorded

\* A transaction under way is invisible.
LEMMA ConsumerStutters ==
    ASSUME CInv, NEW c \in Workers, Begin(c) \/ Statement(c)
    PROVE  UNCHANGED Consumer!vars
<1>1. UNCHANGED messaging /\ UNCHANGED history
  <2>1. CASE Begin(c)
    BY <2>1 DEF Begin, Deliver, Start, ledger
  <2>2. CASE Statement(c)
    <3>1. TypeOK /\ c \in Processes
      BY DEF CInv, IInv, Processes
    <3> QED BY <2>2, <3>1 DEF Statement, Advance, InsertShipment, Load, Check, Save, Insert,
          Flush, Reload, Reply, Commit, CommitUnacknowledged, End, Goto, TypeOK, ledger
  <2> QED BY <2>1, <2>2
<1>2. Recorded' = Recorded
  BY <1>1, RecordedKept
<1> QED
  BY <1>1, <1>2 DEF messaging, Consumer!vars, Consumer!broker, Consumer!worker, Consumer!tally

\* However the transaction ended, IngestionConsumer allows it.
LEMMA ConsumerHandles ==
    ASSUME CInv, NEW c \in Workers, Handled(c)
    PROVE  Consumer!Handle(c)
<1> DEFINE m == held[c].message
<1>1. /\ Valid(c) /\ workerPc[c] = "handling" /\ Body[m] = "valid" /\ m \in Messages
  BY ValidDelivery DEF Handled, CInv, Valid
<1>2. /\ event[c] = EventOf[m] /\ event[c].id \in Ids
  BY Outcomes
<1>3. UNCHANGED ledger => Recorded' = Recorded
  BY RecordedKept DEF ledger
<1>4. pc[c] = "commit" /\ Install(c) => Recorded' = Recorded \cup {m}
  <2> SUFFICES ASSUME pc[c] = "commit", Install(c) PROVE Recorded' = Recorded \cup {m}
    OBVIOUS
  <2>1. Recorded' = Recorded \cup {n \in Messages : Body[n] = "valid" /\ EventOf[n].id = event[c].id}
    BY InstallRecords DEF CInv, Processes
  <2>2. \A n \in Messages : Body[n] = "valid" /\ EventOf[n].id = event[c].id <=> n = m
    BY <1>1, <1>2, EventsAssumption
  <2> QED BY <1>1, <2>1, <2>2
<1>5. history[event[c].id] # None => m \in Recorded
  BY <1>1, <1>2 DEF Recorded
<1>6. /\ UNCHANGED <<declared, queue, waiting, dead>> /\ UNCHANGED <<held, live, fresh>>
      /\ UNCHANGED <<sent, deliveries, breaks, lost>>
  BY DEF Handled
<1>7. CASE answer'[c] \in {"Recorded", "Duplicate"}
  <2>1. Recorded' = Recorded \cup {m}
    BY <1>3, <1>4, <1>5, <1>7, Outcomes DEF Refusals
  <2>2. workerPc' = [workerPc EXCEPT ![c] = "acking"] /\ UNCHANGED <<verdict, faults>>
    BY <1>7 DEF Handled
  <2> QED BY <1>1, <1>6, <2>1, <2>2 DEF Consumer!Handle, Consumer!broker, Consumer!tally
<1>8. CASE answer'[c] = "Failure"
  <2>1. Recorded' \in {Recorded, Recorded \cup {m}}
    BY <1>3, <1>4, <1>8, Outcomes DEF Refusals
  <2>2. Consumer!Fault /\ Consumer!Fails(c, "RETRY")
    BY <1>8 DEF Handled, Disposition, Refusals
  <2> QED BY <1>1, <1>6, <2>1, <2>2 DEF Consumer!Handle, Consumer!broker, Consumer!tally
<1>9. CASE answer'[c] \in Refusals \cup {"TypeError"}
  <2>1. history[event[c].id] = None /\ Recorded' = Recorded
    BY <1>3, <1>9, Outcomes DEF Refusals
  <2>2. m \notin Recorded
    BY <1>2, <2>1 DEF Recorded
  <2>3. /\ \E disposition \in {"DEAD_LETTER", "RETRY"} : Consumer!Fails(c, disposition)
        /\ UNCHANGED faults
    BY <1>9 DEF Handled, Disposition, Refusals
  <2> QED BY <1>1, <1>6, <2>1, <2>2, <2>3 DEF Consumer!Handle, Consumer!broker, Consumer!tally
<1>10. CASE answer'[c] = "IntegrityError"
  <2>1. m \in Recorded /\ fresh[c] /\ Recorded' = Recorded
    BY <1>3, <1>5, <1>10, Outcomes DEF Refusals
  <2>2. Consumer!Fails(c, "RETRY") /\ UNCHANGED faults
    BY <1>10 DEF Handled, Disposition, Refusals
  <2> QED BY <1>1, <1>6, <2>1, <2>2 DEF Consumer!Handle, Consumer!broker, Consumer!tally
<1> QED BY <1>7, <1>8, <1>9, <1>10, Outcomes

\* A request records the event of one message at most.
LEMMA ConsumerRequest ==
    ASSUME CInv, NEW h \in Http, Request(h)
    PROVE  \/ UNCHANGED Consumer!vars
           \/ \E m \in Messages : Consumer!RecordedByHttp(m)
<1> USE DEF messaging, Consumer!vars, Consumer!broker, Consumer!worker, Consumer!tally
<1>1. IInv /\ h \in Processes /\ Step(h) /\ UNCHANGED messaging
  BY DEF CInv, Processes, Request
<1>2. CASE UNCHANGED ledger
  <2>1. Recorded' = Recorded
    BY <1>2, RecordedKept DEF ledger
  <2> QED BY <1>1, <2>1
<1>3. CASE pc[h] = "commit" /\ Install(h)
  <2>1. Recorded' = Recorded \cup {m \in Messages : Body[m] = "valid" /\ EventOf[m].id = event[h].id}
    BY <1>1, <1>3, InstallRecords
  <2>2. CASE \A m \in Messages : Body[m] = "valid" => EventOf[m].id # event[h].id
    <3>1. Recorded' = Recorded
      BY <2>1, <2>2
    <3> QED BY <1>1, <3>1
  <2>3. ASSUME NEW m \in Messages, Body[m] = "valid", EventOf[m].id = event[h].id
        PROVE  Consumer!RecordedByHttp(m)
    <3>1. Recorded' = Recorded \cup {m}
      BY <2>1, <2>3, EventsAssumption
    <3>2. m \notin Recorded
      BY <1>1, <1>3, <2>3, CommitStores DEF Recorded
    <3> QED BY <1>1, <2>3, <3>1, <3>2 DEF Consumer!RecordedByHttp
  <2> QED BY <2>2, <2>3
<1> QED BY <1>1, <1>2, <1>3, CommitOrNot

LEMMA ConsumerSide ==
    ASSUME CInv, [ConsumptionNext]_<<vars, messaging>>
    PROVE  [Consumer!Next]_(Consumer!vars)
<1>1. ASSUME NEW c \in Workers, Begin(c) \/ Statement(c) PROVE UNCHANGED Consumer!vars
  BY <1>1, ConsumerStutters
<1>2. ASSUME NEW c \in Workers, Handled(c) \/ Unparsed(c) PROVE Consumer!Next
  <2>1. Consumer!Handle(c)
    BY <1>2, ConsumerHandles DEF Unparsed
  <2> QED BY <2>1 DEF Consumer!Next, Consumer!ConsumerStep
<1>3. ASSUME NEW c \in Workers, WorkerCrash(c) PROVE Consumer!Next
  BY <1>3 DEF WorkerCrash, Consumer!Next
<1>4. CASE Messaging
  BY <1>4 DEF Messaging, Consumer!Next, Consumer!ConsumerStep
<1>5. ASSUME NEW h \in Http, Request(h) PROVE [Consumer!Next]_(Consumer!vars)
  BY <1>5, ConsumerRequest DEF Consumer!Next
<1>6. CASE UNCHANGED <<vars, messaging>>
  <2>1. Recorded' = Recorded
    BY <1>6, RecordedKept DEF vars
  <2> QED
    BY <1>6, <2>1 DEF messaging, Consumer!vars, Consumer!broker, Consumer!worker, Consumer!tally
<1> QED BY <1>1, <1>2, <1>3, <1>4, <1>5, <1>6 DEF ConsumptionNext

\* The transactions implement the one step handle_event is in
\* IngestionConsumer: for every interleaving with requests and other workers,
\* every failure and every crash, the deliveries do what that module says.
THEOREM ConsumerImplemented == ConsumptionSpec => ImplementsConsumer
<1>1. ConsumptionInit => Consumer!Init
  BY DEF ConsumptionInit
<1> QED
  BY <1>1, ConsumerSide, CInvAlways, PTL DEF ConsumptionSpec, ImplementsConsumer

-----------------------------------------------------------------------------
(* What the database promises, with workers and requests together. *)

LEMMA ExplainsKept ==
    CInv /\ Explains /\ [ConsumptionNext]_<<vars, messaging>> => Explains'
<1> SUFFICES ASSUME CInv, Explains, [ConsumptionNext]_<<vars, messaging>> PROVE Explains'
  OBVIOUS
<1>1. IInv /\ [Next]_vars
  BY IngestionSide DEF CInv
<1>2. CASE UNCHANGED vars
  BY <1>2 DEF vars, Explains
<1>3. CASE \E p \in Processes : Step(p)
  BY <1>1, <1>3, ExplainsStep
<1> QED BY <1>1, <1>2, <1>3 DEF Next

\* Deliveries that are repeated, retried and cut short by crashes, beside HTTP
\* requests, are the ledger too: each event is recorded once, or leaves no trace.
THEOREM LedgerBehindWorkers == ConsumptionSpec => LedgerSpec
<1>1. ConsumptionInit => LedgerInit /\ Explains
  BY InitExplains DEF ConsumptionInit, Init
<1>2. CInv /\ Explains /\ [ConsumptionNext]_<<vars, messaging>> => [LedgerNext]_ledger
  <2> SUFFICES ASSUME CInv, Explains, [ConsumptionNext]_<<vars, messaging>>
               PROVE  [LedgerNext]_ledger
    OBVIOUS
  <2>1. IInv /\ [Next]_vars
    BY IngestionSide DEF CInv
  <2>2. CASE UNCHANGED vars
    BY <2>2 DEF vars, ledger
  <2>3. ASSUME NEW p \in Processes, Step(p) PROVE [LedgerNext]_ledger
    BY <2>1, <2>3, CommitOrNot, CommitRefines
  <2> QED BY <2>1, <2>2, <2>3 DEF Next
<1> QED BY <1>1, <1>2, ExplainsKept, CInvAlways, PTL DEF ConsumptionSpec, LedgerSpec

\* A delivery acknowledged as handled has its intent in the outbox: what a
\* worker has taken off the queue for good will be notified.
IntentBeforeAck ==
    \A c \in Workers :
        workerPc[c] = "acking" /\ verdict[c] = None =>
            \E r \in outbox : r.event = EventOf[held[c].message]

LEMMA IntentsKept ==
    CInv /\ IntentsMatchHistory /\ [ConsumptionNext]_<<vars, messaging>>
        => IntentsMatchHistory'
<1> SUFFICES ASSUME CInv, IntentsMatchHistory, [ConsumptionNext]_<<vars, messaging>>
             PROVE  IntentsMatchHistory'
  OBVIOUS
<1>1. IInv /\ [Next]_vars
  BY IngestionSide DEF CInv
<1>2. CASE UNCHANGED ledger
  BY <1>2 DEF ledger, IntentsMatchHistory
<1>3. ASSUME NEW p \in Processes, pc[p] = "commit", Install(p) PROVE IntentsMatchHistory'
  <2>1. /\ event[p].id \in Ids /\ history[event[p].id] = None /\ RecordOf(p) # None
        /\ history' = [history EXCEPT ![event[p].id] = RecordOf(p)]
        /\ outbox' = outbox \cup {RecordOf(p)}
    BY <1>1, <1>3, CommitStores DEF Install
  <2>2. history \in [Ids -> {None} \cup Records]
    BY <1>1 DEF IInv, TypeOK
  <2> QED BY <2>1, <2>2 DEF IntentsMatchHistory
<1> QED BY <1>1, <1>2, <1>3, CommitOrNot DEF Next, vars, ledger

THEOREM IntentsBehindWorkers == ConsumptionSpec => []IntentsMatchHistory /\ []IntentBeforeAck
<1>1. ConsumptionInit => IntentsMatchHistory
  BY DEF ConsumptionInit, Init, LedgerInit, IntentsMatchHistory
<1>2. CInv /\ IntentsMatchHistory => IntentBeforeAck
  <2> SUFFICES ASSUME CInv, IntentsMatchHistory, NEW c \in Workers,
                      workerPc[c] = "acking", verdict[c] = None
               PROVE  \E r \in outbox : r.event = EventOf[held[c].message]
    BY DEF IntentBeforeAck
  <2> DEFINE e == EventOf[held[c].message]
  <2>1. /\ Stored(c) /\ held[c].message \in Messages
    BY CopyMessage DEF CInv, Linked, WorkerTypes, Link
  <2>2. e \in Deliveries /\ e.id \in Ids \ Shipments
    BY <2>1, EventsAssumption, DeliveriesAssumption DEF Stored, Ids
  <2>3. history[e.id].event = e
    BY <2>1, <2>2, EventsAssumption DEF Stored, CInv, RecordsFiled
  <2>4. history[e.id] \in outbox
    BY <2>1, <2>2 DEF Stored, IntentsMatchHistory
  <2> QED BY <2>3, <2>4
<1> QED BY <1>1, <1>2, IntentsKept, CInvAlways, PTL DEF ConsumptionSpec

=============================================================================
