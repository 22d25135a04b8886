# TLA+ verification of the freight event intelligence platform

The platform registers shipments, records the events that happen to them, keeps a
projection of each shipment, and tells other systems about every recorded event
through a transactional outbox and RabbitMQ. This directory holds the
specifications of that behaviour, the TLC instances that check them and the TLAPS
proofs of what matters most. `PROJECT.json` maps each definition to the lines it
translates; paths below are relative to the repository's `src/`.

## 1. The system

| Component | State | Operations | Interacts with |
|---|---|---|---|
| Shipment domain (`app/domain/shipment`) | the `Shipment` aggregate: status, two timeline clocks, location | create, apply an event, refuse it, find it late | called by both use cases on a copy in memory |
| Event ingestion (`create_shipment.py`, `receive_shipment_events.py`, repositories, routes, `workers/shipment_event_worker.py`) | tables `shipments`, `shipment_events`, `outbox_events`; one session per request or delivery | `POST /shipments`, `POST /events`, `handle_event` | PostgreSQL locks; writes the rows the relay reads |
| Read endpoints (`get_shipment.py`, `get_shipment_events.py`) | none | one `SELECT` each | the committed tables |
| Ingestion publisher and consumer (`infra/messaging/rabbitmq.py`, `failure_classifier.py`) | main, retry and dead-letter queue; the delivery each worker holds | publish, deliver, handle, retry or dead-letter, acknowledge | calls ingestion once per delivery |
| Outbox relay (`workers/outbox_worker.py`, `publish_outbox_event.py`, `repositories/outbox.py`) | `outbox_events`: due time, attempts, `published_at`; the row lock of its transaction | claim, publish, mark, commit, roll back | PostgreSQL and the outbound publisher |
| Outbound publisher (`infra/messaging/outbox.py`) | the callbacks of one publication, its deadline | connect, declare, confirm mode, publish, confirm or raise | RabbitMQ |
| Message topology (`rabbitmq.py`, `messaging/outbox.py`, `infra/config.py`) | what the broker keeps: queues with their arguments, bindings | declare and bind, under the names of the environment | worker, relay, broker |
| Relay metrics (`infra/observability`) | counters in each process; the last scrape | count an answer or a transaction, scrape | wraps the relay; reads `outbox_events` |

What is hard here:

- **Transactions overlap.** Isolation is READ COMMITTED, the shipment is read without a
  lock and written back at the end. A second read inside `save` may see another
  version of the row, and SQLAlchemy writes only the columns that differ from it.
- **Duplicates race.** Both the existence check and the primary key answer a repeat, and a
  loser of the race must undo everything and answer from a fresh read.
- **The response leaves before the commit.** FastAPI 0.141.1 resumes `get_db` after the response,
  so a client may hold an answer whose transaction fails.
- **Two systems, no common commit.** The relay publishes inside an open database
  transaction; the consumer commits, then acknowledges, or publishes a copy, then
  acknowledges. Either half may fail alone.
- **Ownership expires unnoticed.** A relay's row lock ends with its session, and a worker's
  delivery with its connection, while the process works on.
- **Frames, callbacks and a deadline interleave** in every publication of the relay.
- **The broker remembers.** Queues and bindings outlive the settings they were declared under.

What makes each component correct:

- *Domain*: a status is reached only along the transition table; each timeline drops what is strictly earlier.
- *Ingestion*: one record and one intent per event identity; no column holds a value no applied event wrote;
  repeats are harmless; nothing of an answered request stays if its commit failed; requests end.
- *Reads*: the history a client lists explains the shipment it was shown before.
- *Consumer*: a message is recorded, dead-lettered or still on its way; retries end; the commit precedes the acknowledgement.
- *Publisher*: `publish()` returns only for a queued message, its first verdict stands, and it ends.
- *Relay*: an intent is marked published only after the broker took a copy, stays so, is
  eventually published, and is sent twice only after a failure.
- *Topology*: the two streams never meet in a queue or an exchange; retries come back to the consumed queue.
- *Metrics*: the counters of a process explain one another; no scrape counts an intent twice.
- *The whole*: one notification per event and per failure; every message ends as a notification or a dead letter.

## 2. The modules

```
ShipmentDomain                    operators: aggregate, state machine, late policy
  EventLedger                     abstract: what ingestion promises, atomically
    EventIngestion                interleaved transactions        -> implements EventLedger
      ShipmentQueries             the read endpoints beside them
      ConsumerIngestion           a worker's handle_event opened up -> implements IngestionConsumer

IngestionConsumer                 queues, workers, retries, dead letters

NotificationDelivery              abstract: what the outbox promises
OutboxRelay                       relays, broker, sessions        -> implements NotificationDelivery
  RelayMetrics                    its counters, and the scrapes
  FreightPlatform                 IngestionConsumer, database and OutboxRelay composed
Publication                       abstract: what publish() promises the relay
OutboundPublication               callbacks of one publication    -> implements Publication

MessageTopology                   names, declarations, bindings
```

`X`Proofs holds the theorems about `X`, `MCX` its instances for TLC; EventIngestionProofs also those about ShipmentQueries and EventLedger.

**ShipmentDomain** has no variables. `Outcome(sh, e)` is what `ShipmentEventHandler.handle` returns or
raises, tests in the order of the source; `After(sh, e)` is the aggregate it leaves. A projection is the record of
the columns an event can change. Payloads are `exact`, `extended` (a further key) or `incomplete`, because
the handler passes the payload as keyword arguments and so tells these apart. `zoned` says whether `occurred_at` has a
time zone: comparing a naive instant with a stored one raises a `TypeError`.

**EventLedger** is the abstract specification of ingestion: `Register` and `Record` are atomic. It does *not* promise
that the projection is the fold of the events, because `app/docs/context.md` (section 7) disclaims lost updates. It promises that
every column holds a value the registration or an applied event of that shipment wrote.
`SerialLedgerSpec` adds that each event is judged by, and changes, the projection its predecessors left: the fold of the events, for requests that do not overlap.
Both use the domain's `Outcome` and `After`; `ProjectionIsCurrent` says independently of them what the fold must come to.

**EventIngestion** has one action per statement of a transaction.

| Action | Code |
|---|---|
| `RequestCreation`, `InsertShipment` | `POST /shipments`; the inserts of `CreateShipment.execute` |
| `Deliver`, `RefuseCreation` | entry of `receive_event` / `handle_event`; the early refusal of `SHIPMENT_CREATED` |
| `Load`, `Check` | `ShipmentRepository.get`; `exists`, then the handler on the copy just read |
| `Save` | `ShipmentRepository.save`: which columns the `UPDATE` will hold |
| `Insert`, `Flush` | the explicit flush of the event in `OutboxRepository.add`; the rest of the unit of work |
| `Reload` | the route's recovery after an `IntegrityError` |
| `Reply`, `Commit`, `CommitUnacknowledged` | response, then `get_db` commits; a worker commits, with or without learning of it |
| `Fail` | any error or crash: rollback |

Variables `row`, `history` and `outbox` are the committed tables. Uncommitted rows are not separate state: `pc`, `event` and `dirty`
say what a transaction has written and thus holds locked (`IdHolders`, `ReferenceHolders`, `RowHolders`). The foreign key's
`KEY SHARE` lock does not conflict with these updates and is left out. `Save` chooses between the copy of `Load` and the current row as
its base: the session's identity map is weak, so the loaded object may or may not survive until `session.get`.
`known` is a history variable. A worker's non-numeric coordinates fail at the flush and are one of the cases of `Fail`.

**ShipmentQueries** adds readers: `GetShipment` shows a committed row, `GetShipmentEvents` lists the records of that shipment, and other
transactions may commit in between. The order of the list is left out. A `GET` right after a 201 may still answer 404 (the commit
follows the response): `shown` may hold no projection, and the property says nothing then.

**IngestionConsumer** counts the copies of each message and attempt in the three queues. `Handle` is parsing and the use case as
one step, which may record the event, refuse it for good (a dead letter) or raise a retryable error. `Republish` is the
publication of `_handle_failure` and `Ack` the acknowledgement that follows; `BadHeader` is an `x-attempt-count` that is
not a number, which raises in the failure handler. `ConnectionLost` takes a delivery back
under a worker that does not notice until it uses its channel (`Disconnected`). In `Crash` the operation under way may have arrived.
`RecordedByHttp` records the event of a message that also came through `POST /events`. `fresh` says whether a delivery's event was unrecorded
when it began. Only such a delivery can be refused or lose the race for its identity: refused while the event is still unrecorded, and the race is
lost only to another that has recorded it, which is an error to retry and never a dead letter. `declared` is there because the publisher declares the exchange but not the queue.
A queue is a bag: retries, redelivery and competing workers do not keep an order.

**ConsumerIngestion** replaces `Handle` by the transactions of EventIngestion, with HTTP requests beside them.

| Action | Code |
|---|---|
| `Begin`, `Statement` | `handle_event` opens its session and runs (invisible to the broker) |
| `Handled` | it returns or raises; `classify` decides between acknowledgement, retry and dead letter |
| `Unparsed` | `from_json` refuses the body |
| `WorkerCrash` | the worker dies with its open transaction, committed or rolled back |
| `Messaging`, `Request` | every step of the broker's side alone; every step of an API request |

Its `ImplementsConsumer` shows that nothing the use case does with a delivery goes beyond what `Handle` allows.

**OutboxRelay** has the committed rows, the number of `copies` of each intent in the queue, and for each relay its position, its
claim and whether the database still holds its transaction (`live`). `Confirm` and `PublishFails` are the two outcomes of
`publish()`, that is `Return` and `Raise` of **Publication**; a copy the broker takes although `publish()` raised is counted when it raises. Marking a row changes only the open transaction, so it is part of `Commit`. A
commit whose acknowledgement is lost has the effect of `Commit`. An exception that is no `SQLAlchemyError` ends `run`: `Crash`.
`orphans` is a history variable counting copies whose sender failed before recording them.

**OutboundPublication** opens up one `publish()`: one action per callback of `_Publication`.

| Action | Code |
|---|---|
| `OnOpen`, `OnChannel`, `OnDeclared`, `OnConfirmMode` | `on_open`, `on_channel`, `on_exchange`/`on_queue`/`on_bound`, `on_confirm_mode` |
| `Route` | the broker queues, returns or refuses the message, perhaps after the publisher gave up |
| `OnReturned`, `OnConfirmation` | `on_returned`, `on_confirmation` |
| `OnChannelClosed`, `OnClosed` | the callbacks of the same names |
| `OnDeadline`, `OnAborted`, `ConnectionFails` | the deadline's abort; the loop reports a dropped transport; every way a connection breaks |
| `LoopBreaks`, `Finish` | an exception leaves `loop.start()`; the code of `run()` after its loop |

Pika is external: `close()` asks the peer and waits for it, `abort()` drops the transport and the loop reports the end of channel and connection later.

**RelayMetrics** extends OutboxRelay with the counters each process keeps (`ObservedPublish`, `ObservedExit`, `Report`), their loss
(`Restart`), and scrapes that read the counters first and the database afterwards (`ScrapeCounters`, `ScrapeBacklog`, `ScrapeFails`). The commit of a
row and its count are two steps. A commit the server applied and whose answer is lost raises, and is counted `transaction_failed`. `PollFails` is a claim that raises.

**MessageTopology** chooses any assignment of names to the eight exchanges and queues, lets worker and relay declare and bind step by
step (`WorkerDeclare`, `WorkerBind`, `RelayDeclares`, `RelayBinds`) and follows the streams a queue may ever hold (`held`) and an exchange was ever given (`carried`). `Accepted` is
the check of `get_outbox_settings`. A notification in a consumed queue would be an event like any other: its envelope (`recorded_event_message.py:30`) has every key `from_json`
reads, so `HandOver` retries and dead-letters both streams.
The broker keeps queue arguments and bindings through `Reconfigure` and refuses a declaration with other arguments.

**FreightPlatform** composes IngestionConsumer and OutboxRelay. All they share is the database: an event is in the history exactly when its intent is in the
outbox, which `IntentsMatchHistory` of EventIngestion establishes, so a step that records an event is at once a step of the consumer and `Record` of the relay.
Every other step is one side's alone.

## 3. What the runs check

| Run | Instance | What it shows |
|---|---|---|
| `concurrent_ingestion` (159,558 states) | one API thread, one worker, one shipment; two lifecycle events, two locations sharing a coordinate, one late, and one without coordinates, which only the worker can be given | the invariants of the write paths (`IntentsMatchHistory`, `ProjectionIsWitnessed`, `CustodyIsComplete`, `RepeatIsNeverRefused`, `RecoveredAnswerIsCurrent`, `RecordsFollowRegistration`), the refinement `LedgerSpec`, and `RequestsEnd` |
| `serial_ingestion` (20,930) | one thread, the whole lifecycle, late, premature, naive and extended events, and a `SHIPMENT_CREATED` | each event is applied to the projection its predecessors left (the refinement `SerialLedgerSpec`); late events never move a projection back, and equal instants are not late (`ProjectionIsCurrent`) |
| `shipment_queries` (496,491) | two threads, three shipments, two of them under one reference number, one event identity sent for two shipments, one reader | `ReferenceIsUnique`, `HistoryExplainsAnswer` |
| `ingestion_consumer` (611,165) | two workers, one message of each kind of body, a garbled header and a count beyond the limit, two failures | `NothingVanishes`, `RetriesAreBounded`, `MessagesSettle` |
| `consumer_ingestion` (404,332) | two workers and an API thread on one database, a message whose event also comes by HTTP, a malformed one | `CommitBeforeAck`, the refinement `ImplementsConsumer` |
| `outbox_relay` (293,654) | two relays, two intents, time 0..3, three failures | `CopiesAreAccountedFor`, `ClaimsAreExclusive`, the refinement `ImplementsDelivery`, `IntentsArePublished` |
| `relay_metrics` (355,401) | two relays, two intents, one failure on the way to the broker, and one failed claim per process | `AnswersAreAccountedFor`, `ScrapeNeverCountsTwice` |
| `outbound_publication` (306) | one publication, nothing bounded | `VerdictIsFinal`, the refinement `ImplementsPublication`, `PublicationEnds` |
| `message_topology` (1,262,830) | three exchange and four queue names, two delays, one variable edited | `StreamsAreSeparate`, `RetriesReturnAsConfigured` |
| `freight_platform` (471,628) | one worker, two relays, one event sent twice and recorded by HTTP, one failure on each side | `EventIsNotifiedOnce`, `MessagesEndWell` |
| `not_found`, `garbled_header` | | the findings of section 6 |

Type invariants (`TypeOK`, `MetricsTypeOK`) are checked in the run of their module. Every property has a mutant in `PROJECT.json`: a plausible bug in one mapped
definition that makes TLC refute it.

**Bounds.** Two processes are enough for every race in the code, which is always between two
transactions, two relays, or a worker and the one its delivery is given to; the proofs cover any number. `Deliveries` of each instance is a
named set in its MC module: `RaceDeliveries` has the two kinds of timeline, an event that is late if it comes second, and a pair of locations that can be mixed column by
column. Each event may be delivered any number of times, by either process. `MaxTime` stops the relay's clock, and a publication may fail only while
its retry time is still in range; with `RetryDelay = 1`, three instants let one intent fail twice and overtake the other. `MaxFaults` bounds failures: three
let a relay lose its session and another fail and crash on the same row; two let a worker lose its connection and the worker that takes over crash. `MaxSends = 1` and `MaxAttempts = 2` give every message one retry and an
exhausted attempt; redeliveries multiply it. In `ForeignHeaders` one message has a header that is no number and one a count beyond the limit. That is how a zero
or negative `RABBITMQ_MAX_ATTEMPTS` acts, which no run has; the theorem `RetriesCorrect` covers every integer. Seven names let every coincidence of two settings occur. But with three
exchange names a relay runs only where two inbound exchanges have one name: a fourth makes the run too long, and all exchanges distinct is left to the theorem
`StreamsStaySeparate`, which holds for any names. One edit is one variable changed between two starts. The bounded numbers of
`freight_platform` are the least with which a resend, an HTTP copy and a failure on either side meet. Relays and names are symmetric in two runs of safety properties only.

**Deadlock.** The ingestion runs and `shipment_queries` leave TLC's check on, but it says little there: a transaction may always fail. A cycle of lock waits is caught by
`RequestsEnd` instead, which assumes no fairness of `Fail`. The other runs set `CHECK_DEADLOCK FALSE`: when every intent is published, every
message of the bounded number settled, the publication finished or the names declared for good, the processes only poll or wait, which changes nothing.

**Fairness.** *Ingestion*: a request that has begun keeps running and PostgreSQL queues the waiters of a lock, so a
process whose next statement is enabled again and again executes it (`SF` of `Advance`). Clients and failures owe nothing. *Relay*: time passes, and `run` polls for ever (`WF`
of `Tick` and `RelayStep`). *Consumer*: RabbitMQ ends TTLs (one `WF` over all copies), and a worker acts and is started again when it has stopped (`WF` of `ConsumerStep`). That a dead
worker or relay is restarted is an assumption about its operator: `docker-compose.yml` restarts PostgreSQL and RabbitMQ only, and workers and relays are started by
hand. *Publication*: the loop's own doings only, which are its timer, the report of a dropped transport and the code after the loop; the broker owes no answer. *Platform*: as for each
side. Readers and producers owe nothing. Failures are bounded, so they cease: without that no delivery promise is possible.

A message whose header stops every worker is excepted from `MessagesSettle`, for itself and for what waits behind it, because weak fairness of the workers does not keep
them from taking that message again and again; it is the finding `garbled_header`.

`EventIsNotifiedOnce` counts failures of the outbound side only: with two relays, one that lost its session may send a second copy although its own publication succeeds, so each lost
session, lost confirmation and crash of a relay pays for at most one further copy. Failures and repeats on the inbound side pay for none.

## 4. What is proved

The theorems hold for every set of shipments, processes, deliveries, relays, intents, consumers, messages and names, and for every bound.

**EventIngestionProofs.** The inductive invariant is `IInv == TypeOK /\ RequestsOK /\ Exclusive`. `RequestsOK` says what a transaction has at hand at each
statement. `Exclusive` says that an identity a transaction has inserted is in no committed record and in no other transaction: without it a
commit could overwrite a record, and nothing about the history would be stable. The others are inductive together with it.

- `TypeCorrect`, and `IntentsCorrect`: one intent per recorded event.
- `ProjectionsWitnessed`, `CustodyCorrect`: these need `Explains`, which extends both statements to the copies transactions have *read*. A stale copy
  stays explained because history only grows (`ExplainedStays`); a draft computed from it is explained by the record committed with it (`DraftExplained`); and the merge takes
  each column from one or the other. So lost updates mix values but never invent one.
- `ImplementsLedger`: every step is a step of the ledger or a stutter; only commits are not stutters.
- `SerialInTurn`: where the requests for each shipment do not overlap (`Serialized`), every step is one of `SerialLedgerSpec`. `CopiesAreCurrent` is the invariant: the copy a
  transaction works on is the committed row, and its `UPDATE` writes exactly the columns the handler changed, so the merge is the handler's result (`MergeChanged`). A commit
  disturbs no other copy because `Serialized` puts it on another shipment. The hypothesis is about the behaviour of clients and is as weak as the result allows: requests for different shipments may
  interleave at will, and everything may fail. `concurrent_ingestion`'s instance satisfies it in every behaviour whose requests happen to follow one another, and refutes the conclusion without it.
  `SerialAlone` discharges it for a single process, the case the run checks.
- `CurrentInTurn`: `ProjectionIsCurrent` under the same hypothesis. It is proved of the serial ledger (`LedgerInv`: clocks never go back, `AfterInTime`; records of a shipment come after
  its registration) and carried over by `SerialInTurn`. `SerialIsStronger`: the serial ledger implements `LedgerSpec`.
- `AnswersExplained`, `ReferencesCorrectForReaders`, about ShipmentQueries: what a reader was shown is explained by the history of that moment, stays so because history grows (`WriterStep`), and
  the list it gets later is that history's part for its shipment (`ListExplains`).
- `RegistrationCorrect`: `RegistrationsWhole` says that rows and creation events come together, and that only registered shipments have records.
- `ReferencesCorrect`: `ReferencesExclusive` extends uniqueness to the references transactions hold, as `Exclusive` does for identities.
- `RepeatsCorrect`, `RecoveryCorrect`: `RepeatsOK` says that a transaction whose event was recorded before it read can be at its duplicate check or over, and that one
  that reloads has met a record. A missing row is impossible for it by `RegistrationsWhole`.

**OutboxRelayProofs.** `IInv == TypeOK /\ RelaysOK /\ ClaimsAreExclusive`. `RelaysOK` ties a relay's position to its claim, and says that a relay that sees a confirmation has
a copy in the queue.

- `TypeCorrect`; `ClaimsCorrect`: two open transactions never hold one row, nor a published one.
- `CopiesCorrect`: the balance `copies = orphans + senders + publications`; its lemmas count how one relay's step changes the set of senders, which is where
  `RelaysAssumption` (finitely many relays) is used. Exclusivity is needed for a commit to turn a sender into a publication exactly once.
- `DeliveryImplemented`: the refinement to NotificationDelivery.

**IngestionConsumerProofs.** `IInv == TypeOK /\ WorkersOK /\ NothingVanishes`. The property is inductive once it says *where* a message may be: `Pending` leaves
out deliveries waiting only for their acknowledgement, which are already accounted for elsewhere, so losing or repeating that acknowledgement disturbs nothing. Theorems `TypeCorrect` and `NothingVanishesCorrect`.

`RetriesCorrect` bounds deliveries by a budget (`BudgetKept`). A copy in a queue is worth the deliveries its attempt count leaves (`Value`); one in the hands of a worker that may yet retry it
has used one up (`Due`). What a message was delivered, plus the worth of its copies over all attempts, never exceeds `Worth` for each publication and each delivery taken back.
Publishing and taking back add to both sides, receiving moves one from the copies to the deliveries, handing over moves the rest to the next attempt, and every loss only lowers the sum. The sum over attempts is not
a recursive function, since facts about one need induction over data: the invariant says that there *is* a sequence of `PartialSums`, each step shows how to change it
(`SumChangesAt`), and its last element is the sum. `IsFiniteSet` of a copy's holders is part of the invariant and not an assumption about `Consumers`: each step adds one holder at most, so
the theorem holds for infinitely many workers too.

**ConsumerIngestionProofs** rests on `CInv`, the invariants of EventIngestion with `Linked`: a transaction is open only while its worker handles a valid
delivery, one whose event was recorded when it began can only turn out a duplicate, and one about to be acknowledged as handled is in the history.

- `CommittedFirst`: `CommitBeforeAck`.
- `ConsumerImplemented`: every step is a step of IngestionConsumer or a stutter. The cases that matter are the errors: a missing shipment, a refusal and an
  `IntegrityError` of the primary key are each shown impossible for a delivery that was not fresh, which is what `Handle` forbids; a refusal is shown to find the event
  unrecorded, and an `IntegrityError` to find it recorded and to be retried.
- `LedgerBehindWorkers`: seen from the database, workers that are redelivered, retried and crash beside HTTP requests implement `LedgerSpec`.
- `IntentsBehindWorkers`: records and intents match in the composition too, and a delivery acknowledged as handled has its intent in the outbox (`IntentBeforeAck`): what leaves the queue for good will be
  notified. With `IntentsMatchHistory` this is what FreightPlatform takes for granted of the database between its two sides.

**FreightPlatformProofs.** `RelaySide` maps every step to one of OutboxRelay, so its balance holds. `Paid` says that each orphaned copy, and each relay that works on an
intent without its session, has had a failure of its own; with the balance it bounds the copies (`NotifiedOnce`). `DeliveryImplementedEndToEnd` and `WorkerImplemented` say that
the composition implements NotificationDelivery on one side and IngestionConsumer on the other: the relay's commits never change which events are recorded (`RecordedStay`), so neither
side sees in the other more than the environment it was checked in.

**OutboundPublicationProofs.** `IInv == TypeOK /\ FramesOK /\ EndOK`: which frames can be under way in which state of connection and dialogue, and that the loop stops with a verdict.
Theorems `TypeCorrect` (never an end without a verdict), `VerdictCorrect`, `PromiseKept` (the refinement to Publication).

**RelayMetricsProofs.** The counters are balanced with the answers still on their way to a counter (`BalancedCounters`), a process has counted only rows that are
published (`CountsRows`), and a scrape stays true of the rows as they change (`ScrapeOK`). Theorems `MetricsTypeCorrect`, `AnswersCorrect`, `ScrapesCorrect`.

**MessageTopologyProofs.** `TopologyInv` says that what a worker has already declared and bound is in the broker; `SeparateInv`, for unchanged settings, which bindings there can
be, where the TTLs of retry queues lead, and hence where each stream can get: events stay within the inbound exchanges and queues, and notifications out of them, though a worker would
retry one. Theorems `TopologyTypeCorrect`, `StreamsStaySeparate`, `RetriesCorrect`.

Assumptions on the constants: API threads and workers are distinct; event identities are not shipment identities (they are independent UUIDs; a shipment's creation event is named after it);
in ConsumerIngestion an identity names one event and a message sent again is the same message (`EventsAssumption`);
`CreationTime`, `RetryDelay` and the bounds are naturals; there are finitely many relays; `MaxAttempts` and the headers are any integers, or no number;
`None` is none of the values it stands beside. TLC evaluates them in every run.

**Only model-checked**: liveness (`RequestsEnd`, `IntentsArePublished`, `MessagesSettle`, `MessagesEndWell`, `PublicationEnds`), which is beyond the prover, and the two runs of section 6, which
refute what they check. Every other property of a run is a theorem above. Two results are proved component by component and not for the composition: `NothingVanishes` and
`RetriesAreBounded` of IngestionConsumer reach FreightPlatform and ConsumerIngestion through the refinements `ImplementsWorker` and `ImplementsConsumer`, but theorems of a module taken by a named `INSTANCE`
cannot be cited, so that last step is by reading.

## 5. What the properties say about the hazards

`PROJECT.json` lists each hazard at its line with the properties about it. For most of them the bad outcome would violate one of these. Not so for the following, of whose outcome no
document promises anything, or which are reported in section 6:

- The stale answer to a plain duplicate (`receive_shipment_events.py:46`): `RepeatIsNeverRefused` and `RecoveredAnswerIsCurrent` settle that a repeat is harmless and what the loser
  of a race is answered, and nothing notices that a duplicate is shown an older projection.
- Two losses of the messaging code, a message published before its queue is bound (`rabbitmq.py:51`) and an unconfirmed republication (line 273): `NothingVanishes` excuses both (`lost`)
  and says that nothing else vanishes.
- The response that leaves before its commit (`app/api/dependencies.py:28`): what is checked is that nothing of the failed transaction stays (`RecordsFollowRegistration`).
- Lost updates: `ProjectionIsWitnessed` bounds what they can do.

## 6. Findings

Each is a run whose property states what the repository says, and which TLC refutes.

- `not_found`: a `LOCATION_UPDATED` event with one more payload key is answered 404, documented as "a shipment that does not exist", though the shipment exists:
  the dataclass raises a `TypeError`, turned into the `ValueError` the route maps to 404.
- `garbled_header`: an `x-attempt-count` that is not a number raises inside the failure handler, so an invalid message is never dead-lettered as ADR 007 says, and each worker that takes it stops.

Met while modelling, with no run of their own:

- A duplicate whose original commits between the read of the shipment (`receive_shipment_events.py:40`) and the existence check (line 46) is answered with a projection without the event;
  `app/api/routes/events.py:37` documents "The shipment after applying the event".
- A late event changes no projection (`app/docs/context.md:75`), but `save` (`repositories/shipment.py:31`) writes a stale copy's columns back over what another transaction has committed.
- A 201 leaves before the commit (`app/api/dependencies.py:28`): a client may hold the identity of a shipment that was rolled back.
- An invalid message whose identity is a JSON number raises `AttributeError` (`shipment_event_message.py:99`), which is retried; ADR 007 sends invalid messages directly to the dead-letter queue.
- After a change of `RABBITMQ_RETRY_DELAY_MS` the broker refuses the retry queue (406) and the worker stops until somebody deletes it: `RetriesReturnAsConfigured` holds because such a worker never consumes.
- After an exchange or queue is renamed, its old bindings stay and may mix the streams, which is why `StreamsAreSeparate` speaks of unchanged settings. Nor is it refused that `RABBITMQ_QUEUE` and the dead-letter queue are one.

## 7. What is not modelled

- HTTP and ingestion counters, durations, logs, correlation identities and dashboards: no step of the write paths reads them.
- Missing environment variables and number formats; migrations; field formats, error bodies and mappers (the identity on the modelled columns).
- The `stop` signal of the relay's loop, which ends it between two transactions as `Restart` does.
- The order inside a queue and of listed events.
- PostgreSQL, RabbitMQ and Pika themselves: locks, unique indexes, TTLs, bindings, confirmations and transports are modelled by what the code sees of them.

## 8. Plan

Done: domain, ingestion and queries, consumer, relay, publisher, topology and metrics; their abstract specifications and refinements; the compositions of consumer with ingestion and of
the whole platform; proofs of every safety property and refinement the runs check. What is left:

1. The step from ConsumerIngestion to FreightPlatform: that EventIngestion with its `outbox` is the database FreightPlatform composes, as one refinement and not by two theorems side by side.
2. `NothingVanishes` and `RetriesAreBounded` stated of the compositions themselves, which takes their invariants under the names these modules give the variables.
3. The ingestion and HTTP counters, on the pattern of RelayMetrics.
