-------------------------- MODULE MessageTopology --------------------------
(***************************************************************************)
(* The exchanges, queues and bindings the worker (declare_topology in      *)
(* infra/messaging/rabbitmq.py) and the relay (infra/messaging/outbox.py)  *)
(* declare under the names of infra/config.py, and where the messages of   *)
(* the inbound and the outbound stream can get through them.               *)
(*                                                                         *)
(* The broker keeps what was declared: a queue keeps its arguments and its *)
(* bindings when the processes restart under other settings, and refuses a *)
(* declaration with other arguments.  Every exchange is a durable topic    *)
(* exchange, so declaring one never fails; a routing key has no wildcard.  *)
(* Messages are only told apart by their stream, and an exchange or queue  *)
(* is described by the streams that ever went through it.                  *)
(***************************************************************************)
EXTENDS Naturals

CONSTANTS ExchangeNames, QueueNames,
          Delays,     \* values of RABBITMQ_RETRY_DELAY_MS
          Plain,      \* the arguments of a queue declared with none
          None,
          MaxChanges  \* bound: how often the environment is edited

Settings == [exchange : ExchangeNames, retryExchange : ExchangeNames,
             deadExchange : ExchangeNames, outExchange : ExchangeNames,
             queue : QueueNames, retryQueue : QueueNames,
             deadQueue : QueueNames, outQueue : QueueNames,
             delay : Delays]

RetryArguments == [ttl : Delays, deadLetterTo : ExchangeNames]

ASSUME ArgumentsAssumption == Plain # None /\ {Plain, None} \cap RetryArguments = {}

Keys == {"received", "retry", "dead-letter", "recorded"}

Streams == {"inbound", "notification"}

VARIABLES settings,  \* the environment the processes are started in
          queues,    \* the arguments of each queue, None for one not declared
          bindings,  \* exchange, routing key and queue of each binding
          worker,    \* the worker: what it does, and to which declaration
          relay,     \* the relay: its place in a publication
          held,      \* history variables: the streams each queue ever held,
          carried,   \*   and those each exchange was ever given
          changes    \* edits of the environment so far

vars == <<settings, queues, bindings, worker, relay, held, carried, changes>>

\* The queues declare_topology declares and binds, in order.
Declarations ==
    << [queue |-> settings.queue, arguments |-> Plain,
        exchange |-> settings.exchange, key |-> "received"],
       [queue |-> settings.retryQueue,
        arguments |-> [ttl |-> settings.delay, deadLetterTo |-> settings.exchange],
        exchange |-> settings.retryExchange, key |-> "retry"],
       [queue |-> settings.deadQueue, arguments |-> Plain,
        exchange |-> settings.deadExchange, key |-> "dead-letter"] >>

Down == [does |-> "down", to |-> 1]

InboundExchanges == {settings.exchange, settings.retryExchange, settings.deadExchange}

InboundQueues == {settings.queue, settings.retryQueue, settings.deadQueue}

\* Mutants: only the exchanges are compared; only the queues are.
AcceptedByExchange == settings.outExchange \notin InboundExchanges

AcceptedByQueue == settings.outQueue \notin InboundQueues

\* get_outbox_settings accepts the names of the outbound stream.
Accepted == /\ settings.outExchange \notin InboundExchanges
            /\ settings.outQueue \notin InboundQueues

Route(exchange, key) == {q \in QueueNames : <<exchange, key, q>> \in bindings}

\* A message is given to an exchange, and gets into the queues bound for it.
Enter(stream, exchange, key) ==
    /\ carried' = [carried EXCEPT ![exchange] = @ \cup {stream}]
    /\ held' = [q \in QueueNames |-> IF q \in Route(exchange, key)
                                     THEN held[q] \cup {stream} ELSE held[q]]

Init == /\ settings \in Settings
        /\ queues = [q \in QueueNames |-> None]
        /\ bindings = {}
        /\ worker = Down
        /\ relay = "down"
        /\ held = [q \in QueueNames |-> {}]
        /\ carried = [x \in ExchangeNames |-> {}]
        /\ changes = 0

-----------------------------------------------------------------------------

\* A variable of the environment is edited while nothing runs.
Reconfigure ==
    /\ changes < MaxChanges
    /\ worker = Down /\ relay = "down"
    /\ \E name \in DOMAIN settings, value \in ExchangeNames \cup QueueNames \cup Delays :
          settings' = [settings EXCEPT ![name] = value]
    /\ settings' \in Settings \ {settings}
    /\ changes' = changes + 1
    /\ UNCHANGED <<queues, bindings, worker, relay, held, carried>>

\* Mutant: a queue that is there already is taken as it is.
CanDeclareAny(q, arguments) == TRUE

\* The broker accepts a declaration of a queue that is new, or the same.
CanDeclare(q, arguments) == queues[q] \in {None, arguments}

Declare(q, arguments) ==
    queues' = [queues EXCEPT ![q] = IF @ = None THEN arguments ELSE @]

\* queue_declare of the worker's next queue; a refusal closes the channel,
\* and nothing catches it: the worker stops.
WorkerDeclare ==
    LET d == Declarations[worker.to] IN
    /\ worker.does \in {"down", "declaring"}
    /\ \/ /\ CanDeclare(d.queue, d.arguments)
          /\ Declare(d.queue, d.arguments)
          /\ worker' = [worker EXCEPT !.does = "binding"]
       \/ /\ ~CanDeclare(d.queue, d.arguments)
          /\ worker' = Down
          /\ UNCHANGED queues
    /\ UNCHANGED <<settings, bindings, relay, held, carried, changes>>

\* Mutant: the worker looks for a fourth declaration.
WorkerBindsOn ==
    LET d == Declarations[worker.to] IN
    /\ worker.does = "binding"
    /\ bindings' = bindings \cup {<<d.exchange, d.key, d.queue>>}
    /\ worker' = [does |-> "declaring", to |-> worker.to + 1]
    /\ UNCHANGED <<settings, queues, relay, held, carried, changes>>

\* queue_bind; after the last one the worker consumes.
WorkerBind ==
    LET d == Declarations[worker.to] IN
    /\ worker.does = "binding"
    /\ bindings' = bindings \cup {<<d.exchange, d.key, d.queue>>}
    /\ worker' = IF worker.to = 3 THEN [does |-> "consuming", to |-> 3]
                 ELSE [does |-> "declaring", to |-> worker.to + 1]
    /\ UNCHANGED <<settings, queues, relay, held, carried, changes>>

WorkerStops == /\ worker # Down
               /\ worker' = Down
               /\ UNCHANGED <<settings, queues, bindings, relay, held, carried, changes>>

\* A producer sends an event to the exchange of the settings.
PublishEvent == /\ Enter("inbound", settings.exchange, "received")
                /\ UNCHANGED <<settings, queues, bindings, worker, relay, changes>>

\* _handle_failure: a delivery that fails goes to the retry or to the
\* dead-letter exchange.  A notification would as well: its envelope has
\* every key from_json reads, so it is handled as an event.
HandOver ==
    /\ worker.does = "consuming"
    /\ \E stream \in held[settings.queue] :
          \/ Enter(stream, settings.retryExchange, "retry")
          \/ Enter(stream, settings.deadExchange, "dead-letter")
    /\ UNCHANGED <<settings, queues, bindings, worker, relay, changes>>

\* A message outlives the TTL of a retry queue, its worker running or not.
Expire(q) ==
    /\ queues[q] \notin {None, Plain}
    /\ \E stream \in held[q] : Enter(stream, queues[q].deadLetterTo, "received")
    /\ UNCHANGED <<settings, queues, bindings, worker, relay, changes>>

RelayStarts == /\ relay = "down"
               /\ Accepted
               /\ relay' = "ready"
               /\ UNCHANGED <<settings, queues, bindings, worker, held, carried, changes>>

\* on_exchange: the queue is declared; a refusal fails the publication.
RelayDeclares ==
    /\ relay = "ready"
    /\ CanDeclare(settings.outQueue, Plain)
    /\ Declare(settings.outQueue, Plain)
    /\ relay' = "declared"
    /\ UNCHANGED <<settings, bindings, worker, held, carried, changes>>

\* on_queue
RelayBinds ==
    /\ relay = "declared"
    /\ bindings' = bindings \cup {<<settings.outExchange, "recorded",
                                    settings.outQueue>>}
    /\ relay' = "bound"
    /\ UNCHANGED <<settings, queues, worker, held, carried, changes>>

\* on_confirm_mode
RelayPublishes ==
    /\ relay = "bound"
    /\ Enter("notification", settings.outExchange, "recorded")
    /\ relay' = "ready"
    /\ UNCHANGED <<settings, queues, bindings, worker, changes>>

\* A publication fails, or the relay stops.
RelayLeaves == /\ relay # "down"
               /\ relay' \in {"ready", "down"}
               /\ UNCHANGED <<settings, queues, bindings, worker, held, carried, changes>>

Next == \/ Reconfigure
        \/ WorkerDeclare \/ WorkerBind \/ WorkerStops
        \/ PublishEvent \/ HandOver
        \/ \E q \in QueueNames : Expire(q)
        \/ RelayStarts \/ RelayDeclares \/ RelayBinds \/ RelayPublishes
        \/ RelayLeaves

Spec == Init /\ [][Next]_vars

-----------------------------------------------------------------------------
(* Properties *)

\* Every variable keeps its type.
TypeOK ==
    /\ settings \in Settings
    /\ queues \in [QueueNames -> {None, Plain} \cup RetryArguments]
    /\ bindings \subseteq ExchangeNames \X Keys \X QueueNames
    /\ worker \in [does : {"down", "declaring", "binding", "consuming"}, to : 1..3]
    /\ relay \in {"down", "ready", "declared", "bound"}
    /\ held \in [QueueNames -> SUBSET Streams]
    /\ carried \in [ExchangeNames -> SUBSET Streams]
    /\ changes \in Nat

Confined(seen, inbound) ==
    \A n \in DOMAIN seen :
        seen[n] \subseteq IF n \in inbound THEN {"inbound"} ELSE {"notification"}

\* Whichever of the names the settings share, and however a worker's failures
\* and the TTL send messages round: no notification gets into the exchanges or
\* the queues of the ingestion, where it would be taken for an event, and no
\* inbound message into others.  Comparing the queues keeps notifications from
\* the workers; comparing the exchanges, from whoever binds a queue of his own
\* to an exchange.  After a change of the names the bindings of the old ones
\* stay, and nothing is promised.
StreamsAreSeparate ==
    changes = 0 => Confined(held, InboundQueues) /\ Confined(carried, InboundExchanges)

\* A worker that consumes has a retry queue with the delay of its settings,
\* from which messages return to the queue it consumes, whatever earlier
\* settings have left in the broker.
RetriesReturnAsConfigured ==
    worker.does = "consuming" =>
        /\ settings.retryQueue \in Route(settings.retryExchange, "retry")
        /\ \E exchange \in ExchangeNames :
              /\ queues[settings.retryQueue] = [ttl |-> settings.delay,
                                                deadLetterTo |-> exchange]
              /\ settings.queue \in Route(exchange, "received")

=============================================================================
