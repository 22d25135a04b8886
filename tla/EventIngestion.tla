--------------------------- MODULE EventIngestion ---------------------------
(***************************************************************************)
(* The two write paths of the platform as PostgreSQL sees them: HTTP       *)
(* requests (POST /shipments, POST /events) and ingestion workers run      *)
(* CreateShipment and ReceiveShipmentEvent, each in a READ COMMITTED       *)
(* transaction of its own.  Every statement of a transaction is a step, so *)
(* transactions interleave between their reads, their writes, the HTTP     *)
(* response and the commit; any of them may fail or crash at any step.     *)
(*                                                                         *)
(* Uncommitted rows are not state of their own: pc, event and dirty say    *)
(* which event identities and which shipment rows a transaction has        *)
(* written and so keeps locked until it ends.                              *)
(***************************************************************************)
EXTENDS EventLedger

CONSTANTS Http,      \* API request threads
          Workers,   \* ingestion workers, one delivery at a time (prefetch 1)
          Reference  \* the reference number each shipment is created with

ASSUME ProcessAssumption == Http \cap Workers = {}
ASSUME DeliveriesAssumption == /\ Deliveries \subseteq Events
                               /\ \A e \in Deliveries : e.id \notin Shipments
ASSUME ReferenceAssumption == DOMAIN Reference = Shipments

VARIABLES pc,      \* the next statement of each process
          event,   \* the event at hand, or the last one answered
          view,    \* the copy of the projection the transaction has read
          dirty,   \* the columns its UPDATE writes
          known,   \* history variable: was the event recorded when view was read?
          answer   \* how the last request or delivery ended, None meanwhile

vars == <<row, history, outbox, pc, event, view, dirty, known, answer>>

Processes == Http \cup Workers

Steps == {"idle", "register", "load", "check", "save", "insert", "flush",
          "reload", "reply", "commit"}

Refusals == {"InvalidShipmentEvent", "ValueError", "InvalidStateTransition"}

Answers == Refusals \cup {"Created", "Recorded", "Duplicate", "Recovered",
                          "TypeError", "IntegrityError", "Failure"}

ASSUME NoAnswerAssumption == None \notin Answers

\* The route's mapping of an outcome to a status code.
HttpStatus(a) == CASE a = "Created" -> 201
                   [] a \in {"Recorded", "Duplicate", "Recovered"} -> 200
                   [] a = "ValueError" -> 404
                   [] a = "InvalidStateTransition" -> 409
                   [] a = "InvalidShipmentEvent" -> 422
                   [] OTHER -> 500

Creating(p) == event[p].type = "SHIPMENT_CREATED"

\* What the transaction stores: the aggregate its handler left and the
\* record the handler's verdict was stamped on.
Draft(p) == IF Creating(p) THEN Created ELSE After(view[p], event[p])

RecordOf(p) ==
    [event |-> event[p],
     processing |-> IF Creating(p) THEN "APPLIED" ELSE Outcome(view[p], event[p])]

\* Transactions that have inserted, and not yet committed, an event identity,
\* a reference number, or an update of a shipment row.
IdHolders(i) == {q \in Processes : /\ pc[q] \in {"flush", "reply", "commit"}
                                   /\ event[q].id = i}

ReferenceHolders(r) == {q \in Processes : /\ pc[q] \in {"reply", "commit"}
                                          /\ Creating(q)
                                          /\ Reference[event[q].shipment] = r}

\* Mutant: the UPDATE is sent before the event is inserted.
RowHoldersEarly(s) == {q \in Processes : /\ pc[q] \in {"insert", "reply", "commit"}
                                         /\ event[q].shipment = s
                                         /\ dirty[q] # {}}

\* OutboxRepository.add flushes the event before the shipment's UPDATE, so a
\* row is locked only by who has its event identity.
RowHolders(s) == {q \in Processes : /\ pc[q] \in {"reply", "commit"}
                                    /\ event[q].shipment = s
                                    /\ dirty[q] # {}}

Merge(old, new, columns) ==
    IF old = None THEN new
    ELSE [c \in Columns |-> IF c \in columns THEN new[c] ELSE old[c]]

-----------------------------------------------------------------------------

Goto(p, step) == pc' = [pc EXCEPT ![p] = step]

\* The transaction is over, committed or rolled back.
End(p, outcome) == /\ Goto(p, "idle")
                   /\ answer' = [answer EXCEPT ![p] = outcome]
                   /\ view' = [view EXCEPT ![p] = None]
                   /\ dirty' = [dirty EXCEPT ![p] = {}]

Start(p, e, step) == /\ pc[p] = "idle"
                     /\ Goto(p, step)
                     /\ event' = [event EXCEPT ![p] = e]
                     /\ answer' = [answer EXCEPT ![p] = None]
                     /\ known' = [known EXCEPT ![p] = FALSE]
                     /\ UNCHANGED <<view, dirty>>
                     /\ UNCHANGED ledger

Init == /\ LedgerInit
        /\ pc = [p \in Processes |-> "idle"]
        /\ event = [p \in Processes |-> None]
        /\ view = [p \in Processes |-> None]
        /\ dirty = [p \in Processes |-> {}]
        /\ known = [p \in Processes |-> FALSE]
        /\ answer = [p \in Processes |-> None]

\* POST /shipments: uuid4 gives an identity nobody holds.
RequestCreation(p, s) ==
    /\ p \in Http
    /\ row[s] = None
    /\ \A q \in Processes : pc[q] # "idle" => event[q].shipment # s
    /\ Start(p, CreationEvent(s), "register")

\* Mutant: reference_number has no unique index.
InsertShipmentUnchecked(p) ==
    /\ pc[p] = "register"
    /\ Goto(p, "reply")
    /\ dirty' = [dirty EXCEPT ![p] = Columns]
    /\ UNCHANGED <<event, view, known, answer>>
    /\ UNCHANGED ledger

\* CreateShipment.execute: INSERT the shipment, its creation event and its
\* intent.  A reference another transaction has inserted makes it wait; a
\* committed one is an IntegrityError nothing handles.
InsertShipment(p) ==
    LET s == event[p].shipment
        taken == {t \in Shipments : row[t] # None /\ Reference[t] = Reference[s]} IN
    /\ pc[p] = "register"
    /\ ReferenceHolders(Reference[s]) = {}
    /\ \/ /\ taken # {}
          /\ End(p, "IntegrityError")
       \/ /\ taken = {}
          /\ Goto(p, "reply")
          /\ dirty' = [dirty EXCEPT ![p] = Columns]
          /\ UNCHANGED <<view, answer>>
    /\ UNCHANGED <<event, known>>
    /\ UNCHANGED ledger

\* ShipmentEventRequest refuses a location without numeric coordinates, and
\* takes one with further keys; from_json asks for an object only.
Validated(p, e) ==
    p \in Http /\ e.type = "LOCATION_UPDATED" => e.shape # "incomplete"

\* POST /events, or a delivery of the ingestion queue: any event, any number
\* of times.
Deliver(p, e) ==
    /\ Validated(p, e)
    /\ e.type # "SHIPMENT_CREATED"
    /\ Start(p, e, "load")

\* External creation is refused before anything is read.
RefuseCreation(p, e) ==
    /\ pc[p] = "idle"
    /\ e.type = "SHIPMENT_CREATED"
    /\ End(p, "InvalidShipmentEvent")
    /\ event' = [event EXCEPT ![p] = e]
    /\ known' = [known EXCEPT ![p] = FALSE]
    /\ UNCHANGED ledger

\* ShipmentRepository.get
Load(p) ==
    /\ pc[p] = "load"
    /\ known' = [known EXCEPT ![p] = history[event[p].id] # None]
    /\ \/ /\ row[event[p].shipment] = None
          /\ End(p, "ValueError")
       \/ /\ row[event[p].shipment] # None
          /\ Goto(p, "check")
          /\ view' = [view EXCEPT ![p] = row[event[p].shipment]]
          /\ UNCHANGED <<dirty, answer>>
    /\ UNCHANGED event
    /\ UNCHANGED ledger

\* Mutant: the handler runs before the duplicate check.
CheckHandlesFirst(p) ==
    LET outcome == Outcome(view[p], event[p]) IN
    /\ pc[p] = "check"
    /\ \/ outcome \notin ProcessingStatuses /\ End(p, outcome)
       \/ /\ outcome \in ProcessingStatuses
          /\ history[event[p].id] # None
          /\ End(p, "Duplicate")
       \/ /\ outcome \in ProcessingStatuses
          /\ history[event[p].id] = None
          /\ Goto(p, "save")
          /\ UNCHANGED <<view, dirty, answer>>
    /\ UNCHANGED <<event, known>>
    /\ UNCHANGED ledger

\* ShipmentEventRepository.exists, then ShipmentEventHandler.handle on the
\* copy read before.
Check(p) ==
    LET outcome == Outcome(view[p], event[p]) IN
    /\ pc[p] = "check"
    /\ \/ /\ history[event[p].id] # None
          /\ End(p, "Duplicate")
       \/ /\ history[event[p].id] = None
          /\ outcome \notin ProcessingStatuses
          /\ End(p, outcome)
       \/ /\ history[event[p].id] = None
          /\ outcome \in ProcessingStatuses
          /\ Goto(p, "save")
          /\ UNCHANGED <<view, dirty, answer>>
    /\ UNCHANGED <<event, known>>
    /\ UNCHANGED ledger

\* Mutant: save does not copy last_location_at.
SaveWithoutClock(p) ==
    /\ pc[p] = "save"
    /\ \E base \in {view[p], row[event[p].shipment]} :
          dirty' = [dirty EXCEPT ![p] =
                       {c \in Columns \ {"locationAt"} : Draft(p)[c] # base[c]}]
    /\ Goto(p, "insert")
    /\ UNCHANGED <<event, view, known, answer>>
    /\ UNCHANGED ledger

\* ShipmentRepository.save copies every attribute onto the session's row
\* object; the UPDATE will hold those that differ from it.  Nothing keeps the
\* object get() loaded alive in the session's weak identity map, so
\* session.get reads the row again, or finds the object of Load if it
\* survived.
Save(p) ==
    /\ pc[p] = "save"
    /\ \E base \in {view[p], row[event[p].shipment]} :
          dirty' = [dirty EXCEPT ![p] = {c \in Columns : Draft(p)[c] # base[c]}]
    /\ Goto(p, "insert")
    /\ UNCHANGED <<event, view, known, answer>>
    /\ UNCHANGED ledger

\* Mutant: event_id is not a primary key.
InsertUnguarded(p) ==
    /\ pc[p] = "insert"
    /\ Goto(p, "flush")
    /\ UNCHANGED <<event, view, dirty, known, answer>>
    /\ UNCHANGED ledger

\* OutboxRepository.add flushes the event.  The primary key waits for a
\* transaction that has inserted the same identity and raises if it is
\* committed: the route rolls back and reloads, a worker leaves the delivery
\* to a retry.
Insert(p) ==
    /\ pc[p] = "insert"
    /\ IdHolders(event[p].id) = {}
    /\ \/ /\ history[event[p].id] = None
          /\ Goto(p, "flush")
          /\ UNCHANGED <<view, dirty, answer>>
       \/ /\ history[event[p].id] # None
          /\ p \in Http
          /\ Goto(p, "reload")
          /\ view' = [view EXCEPT ![p] = None]
          /\ dirty' = [dirty EXCEPT ![p] = {}]
          /\ UNCHANGED answer
       \/ /\ history[event[p].id] # None
          /\ p \in Workers
          /\ End(p, "IntegrityError")
    /\ UNCHANGED <<event, known>>
    /\ UNCHANGED ledger

\* The rest of the unit of work: UPDATE of the shipment, which waits for its
\* row lock, and INSERT of the intent.  The route flushes before it answers,
\* a worker as the first half of its commit.
Flush(p) ==
    /\ pc[p] = "flush"
    /\ dirty[p] # {} => RowHolders(event[p].shipment) = {}
    /\ Goto(p, IF p \in Http THEN "reply" ELSE "commit")
    /\ UNCHANGED <<event, view, dirty, known, answer>>
    /\ UNCHANGED ledger

\* Mutant: the route answers with the projection it had read at first.
ReloadSkipped(p) ==
    /\ pc[p] = "reload"
    /\ End(p, "Recovered")
    /\ UNCHANGED <<event, known>>
    /\ UNCHANGED ledger

\* receive_event after a collision: the projection as committed by now.
Reload(p) ==
    /\ pc[p] = "reload"
    /\ known' = [known EXCEPT ![p] = history[event[p].id] # None]
    /\ End(p, "Recovered")
    /\ UNCHANGED event
    /\ UNCHANGED ledger

\* The response leaves before get_db resumes after its yield.
Reply(p) ==
    /\ pc[p] = "reply"
    /\ answer' = [answer EXCEPT ![p] = IF Creating(p) THEN "Created" ELSE "Recorded"]
    /\ Goto(p, "commit")
    /\ UNCHANGED <<event, view, dirty, known>>
    /\ UNCHANGED ledger

\* Mutant: the envelope is built from the event and not from the record.
InstallUnstamped(p) ==
    LET s == event[p].shipment IN
    /\ row' = [row EXCEPT ![s] = Merge(row[s], Draft(p), dirty[p])]
    /\ history' = [history EXCEPT ![event[p].id] = RecordOf(p)]
    /\ outbox' = outbox \cup {[event |-> event[p], processing |-> "APPLIED"]}

Install(p) ==
    LET s == event[p].shipment IN
    /\ row' = [row EXCEPT ![s] = Merge(row[s], Draft(p), dirty[p])]
    /\ history' = [history EXCEPT ![event[p].id] = RecordOf(p)]
    /\ outbox' = outbox \cup {RecordOf(p)}

Commit(p) ==
    /\ pc[p] = "commit"
    /\ Install(p)
    /\ End(p, IF p \in Http THEN answer[p] ELSE "Recorded")
    /\ UNCHANGED <<event, known>>

\* The server commits but the worker does not learn of it, or dies before it
\* acknowledges the delivery.
CommitUnacknowledged(p) ==
    /\ pc[p] = "commit"
    /\ p \in Workers
    /\ Install(p)
    /\ End(p, "Failure")
    /\ UNCHANGED <<event, known>>

\* Mutant: the history repository commits what it has flushed.
FailHalfway(p) ==
    /\ pc[p] # "idle"
    /\ End(p, IF answer[p] = None THEN "Failure" ELSE answer[p])
    /\ history' = IF pc[p] = "commit" THEN [history EXCEPT ![event[p].id] = RecordOf(p)]
                  ELSE history
    /\ UNCHANGED <<event, known, row, outbox>>

\* An error of the database or of the process, or a crash: a rollback.  An
\* answer that has left stays with the client.
Fail(p) ==
    /\ pc[p] # "idle"
    /\ End(p, IF answer[p] = None THEN "Failure" ELSE answer[p])
    /\ UNCHANGED <<event, known>>
    /\ UNCHANGED ledger

Advance(p) == \/ InsertShipment(p) \/ Load(p) \/ Check(p) \/ Save(p) \/ Insert(p)
              \/ Flush(p) \/ Reload(p) \/ Reply(p) \/ Commit(p)
              \/ CommitUnacknowledged(p)

Step(p) == \/ \E s \in Shipments : RequestCreation(p, s)
           \/ \E e \in Deliveries : Deliver(p, e) \/ RefuseCreation(p, e)
           \/ Advance(p)
           \/ Fail(p)

Next == \E p \in Processes : Step(p)

\* A request that has begun keeps running, and PostgreSQL hands a lock to the
\* transactions that wait for it in turn.  Clients owe nothing.
Fairness == \A p \in Processes : SF_vars(Advance(p))

Spec == Init /\ [][Next]_vars /\ Fairness

-----------------------------------------------------------------------------
(* Properties *)

\* Every variable keeps its type.
TypeOK ==
    /\ row \in [Shipments -> {None} \cup Projections]
    /\ history \in [Ids -> {None} \cup Records]
    /\ outbox \subseteq Records
    /\ pc \in [Processes -> Steps]
    /\ event \in [Processes -> {None} \cup Events]
    /\ view \in [Processes -> {None} \cup Projections]
    /\ dirty \in [Processes -> SUBSET Columns]
    /\ known \in [Processes -> BOOLEAN]
    /\ answer \in [Processes -> {None} \cup Answers]

\* The intents are exactly the records of the history, each under the verdict
\* it was stored with: a crash, a duplicate or a race of two deliveries of one
\* event leaves neither a record without a notification nor a second one.
IntentsMatchHistory == outbox = {history[i] : i \in {j \in Ids : history[j] # None}}

\* However transactions overwrite each other's columns, each column of a
\* projection holds a value of the registration or of an event recorded as
\* applied to that shipment; no value of a refused, rolled back, late or
\* foreign event leaks into it.
ProjectionIsWitnessed ==
    \A s \in Shipments, c \in Columns :
        row[s] # None => Witnessed(s, c, row[s][c], history)

\* A shipment has the status it has because every event of the chain of
\* custody leading there was applied to it, lost updates notwithstanding.
CustodyIsComplete ==
    \A s \in Shipments :
        row[s] # None => Custody[row[s].status] \subseteq AppliedTypes(s, history)

\* Delivering again an event that was recorded before the shipment was read is
\* never refused, although the shipment has long moved to a state in which the
\* event would be undefined or late.
RepeatIsNeverRefused ==
    \A p \in Processes :
        /\ known[p]
        /\ history[event[p].id].event.shipment = event[p].shipment
        => answer[p] \notin Refusals \cup {"TypeError"}

\* The projection a request gets after it lost the race for an event identity
\* was read when the winner's event was already recorded.
RecoveredAnswerIsCurrent ==
    \A p \in Processes : answer[p] = "Recovered" => known[p]

\* Whatever was answered before its commit failed, nothing of it stays: each
\* record belongs to a shipment that is registered, with its creation in the
\* history, so a 201 that came to nothing leaves nothing events could build on.
RecordsFollowRegistration ==
    \A i \in Ids :
        history[i] # None =>
            LET s == history[i].event.shipment IN row[s] # None /\ history[s] # None

\* No two registered shipments have one reference number, although both
\* requests may have been admitted before either committed.
ReferenceIsUnique ==
    \A s, t \in Shipments :
        row[s] # None /\ row[t] # None /\ Reference[s] = Reference[t] => s = t

\* When the requests for a shipment come one after the other, its projection is
\* that of its latest events: no recorded event is ahead of its timeline's clock,
\* one stored out of order is strictly behind it, and the status and the location
\* are each those of one applied event, at the instant its clock shows.
ProjectionIsCurrent ==
    \A s \in Shipments :
        row[s] # None =>
            /\ \A i \in Ids :
                  /\ history[i] # None
                  /\ history[i].event.shipment = s
                  /\ history[i].event.type # "SHIPMENT_CREATED"
                  => LET e == history[i].event
                         clock == row[s][ClockColumn(e)]
                     IN  /\ clock # None
                         /\ e.at <= clock
                         /\ history[i].processing = "STORED_OUT_OF_ORDER" => e.at < clock
            /\ row[s].status # "CREATED" =>
                  \E i \in Applied(s, history) :
                      /\ history[i].event.at = row[s].lifecycleAt
                      /\ Writes(history[i].event, "status", row[s].status)
            /\ row[s].locationAt # None =>
                  \E i \in Applied(s, history) :
                      /\ history[i].event.type = "LOCATION_UPDATED"
                      /\ history[i].event.at = row[s].locationAt
                      /\ history[i].event.lat = row[s].lat
                      /\ history[i].event.lon = row[s].lon

\* Every request that has begun ends, whoever waits for whose locks.
RequestsEnd == \A p \in Processes : pc[p] # "idle" ~> pc[p] = "idle"

\* What the documents say and the code does not do.

\* 404 means "The event references a shipment that does not exist"
\* (api/routes/events.py).
NotFoundMeansMissing ==
    [][\A p \in Http : /\ answer[p] = None
                       /\ answer'[p] # None /\ HttpStatus(answer'[p]) = 404
                       => row[event'[p].shipment] = None]_vars

=============================================================================
