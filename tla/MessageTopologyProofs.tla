----------------------- MODULE MessageTopologyProofs -----------------------
(***************************************************************************)
(* Theorems about MessageTopology, for every set of names and delays and   *)
(* every number of changes of the environment.                             *)
(***************************************************************************)
EXTENDS MessageTopology, TLAPS

\* The n-th declaration of the worker is in force.
Declared(n) == LET d == Declarations[n] IN queues[d.queue] = d.arguments

Bound(n) == LET d == Declarations[n] IN <<d.exchange, d.key, d.queue>> \in bindings

\* What a worker has already declared and bound, it finds in the broker.
WorkerOK ==
    /\ \A n \in 1..3 : \/ worker.does # "down" /\ n < worker.to
                       \/ worker.does = "consuming"
                       => Declared(n) /\ Bound(n)
    /\ worker.does = "binding" => Declared(worker.to)
    /\ worker.does = "down" => worker.to = 1

TopologyInv == TypeOK /\ WorkerOK

\* The three declarations, one by one.
LEMMA ThreeDeclarations ==
    ASSUME TypeOK, NEW n \in 1..3
    PROVE  /\ Declarations[n].queue \in QueueNames
           /\ Declarations[n].exchange \in ExchangeNames
           /\ Declarations[n].key \in {"received", "retry", "dead-letter"}
           /\ Declarations[n].arguments \in {Plain} \cup RetryArguments
<1>1. settings \in Settings
  BY DEF TypeOK
<1>2. n = 1 \/ n = 2 \/ n = 3
  OBVIOUS
<1>3. [ttl |-> settings.delay, deadLetterTo |-> settings.exchange] \in RetryArguments
  BY <1>1 DEF Settings, RetryArguments
<1> QED BY <1>1, <1>2, <1>3 DEF Settings, Declarations

\* Declaring a queue leaves every queue that exists as it is.
LEMMA DeclareOnce ==
    ASSUME TypeOK, NEW q \in QueueNames,
           NEW arguments \in {Plain} \cup RetryArguments,
           CanDeclare(q, arguments), Declare(q, arguments)
    PROVE  /\ queues' \in [QueueNames -> {None, Plain} \cup RetryArguments]
           /\ queues'[q] = arguments
           /\ \A p \in QueueNames : queues[p] # None => queues'[p] = queues[p]
           /\ \A p \in QueueNames \ {q} : queues'[p] = queues[p]
BY DEF TypeOK, CanDeclare, Declare

LEMMA EnterType ==
    ASSUME TypeOK, NEW stream \in Streams, NEW x, NEW key, Enter(stream, x, key)
    PROVE  /\ held' \in [QueueNames -> SUBSET Streams]
           /\ carried' \in [ExchangeNames -> SUBSET Streams]
BY DEF TypeOK, Enter

LEMMA TypeStep == TypeOK /\ [Next]_vars => TypeOK'
<1> SUFFICES ASSUME TypeOK, [Next]_vars PROVE TypeOK'
  OBVIOUS
<1>0. /\ worker \in [does : {"down", "declaring", "binding", "consuming"}, to : 1..3]
      /\ bindings \subseteq ExchangeNames \X Keys \X QueueNames
      /\ settings \in Settings /\ held \in [QueueNames -> SUBSET Streams]
      /\ carried \in [ExchangeNames -> SUBSET Streams]
      /\ queues \in [QueueNames -> {None, Plain} \cup RetryArguments]
      /\ changes \in Nat /\ relay \in {"down", "ready", "declared", "bound"}
      /\ "inbound" \in Streams /\ "notification" \in Streams
  BY DEF TypeOK, Streams
<1>1. CASE UNCHANGED vars
  BY <1>0, <1>1 DEF TypeOK, vars
<1>2. CASE Reconfigure
  BY <1>0, <1>2 DEF TypeOK, Reconfigure
<1>3. CASE WorkerDeclare
  <2> DEFINE d == Declarations[worker.to]
  <2>1. d.queue \in QueueNames /\ d.arguments \in {Plain} \cup RetryArguments
    BY <1>0, ThreeDeclarations
  <2>2. queues' \in [QueueNames -> {None, Plain} \cup RetryArguments]
    BY <1>0, <1>3, <2>1, DeclareOnce DEF WorkerDeclare
  <2>3. worker' \in [does : {"down", "declaring", "binding", "consuming"}, to : 1..3]
    BY <1>0, <1>3 DEF WorkerDeclare, Down
  <2> QED BY <1>0, <1>3, <2>2, <2>3 DEF TypeOK, WorkerDeclare
<1>4. CASE WorkerBind
  <2> DEFINE d == Declarations[worker.to]
  <2>1. <<d.exchange, d.key, d.queue>> \in ExchangeNames \X Keys \X QueueNames
    BY <1>0, ThreeDeclarations DEF Keys
  <2>2. worker' \in [does : {"down", "declaring", "binding", "consuming"}, to : 1..3]
    BY <1>0, <1>4 DEF WorkerBind
  <2>3. bindings' = bindings \cup {<<d.exchange, d.key, d.queue>>}
    BY <1>4 DEF WorkerBind
  <2>4. bindings' \subseteq ExchangeNames \X Keys \X QueueNames
    BY <1>0, <2>1, <2>3
  <2> QED BY <1>0, <1>4, <2>2, <2>4 DEF TypeOK, WorkerBind
<1>5. CASE WorkerStops
  BY <1>0, <1>5 DEF TypeOK, WorkerStops, Down
<1>6. CASE PublishEvent
  BY <1>0, <1>6, EnterType DEF TypeOK, PublishEvent
<1>7. CASE HandOver
  <2>1. PICK stream \in held[settings.queue] :
            \/ Enter(stream, settings.retryExchange, "retry")
            \/ Enter(stream, settings.deadExchange, "dead-letter")
    BY <1>7 DEF HandOver
  <2>2. stream \in Streams
    BY <1>0 DEF Settings
  <2> QED BY <1>0, <1>7, <2>1, <2>2, EnterType DEF TypeOK, HandOver
<1>8. ASSUME NEW q \in QueueNames, Expire(q) PROVE TypeOK'
  BY <1>0, <1>8, EnterType DEF TypeOK, Expire
<1>9. CASE RelayStarts \/ RelayLeaves
  BY <1>0, <1>9 DEF TypeOK, RelayStarts, RelayLeaves
<1>10. CASE RelayDeclares
  <2>1. queues' \in [QueueNames -> {None, Plain} \cup RetryArguments]
    BY <1>0, <1>10, DeclareOnce DEF RelayDeclares, Settings
  <2> QED BY <1>0, <1>10, <2>1 DEF TypeOK, RelayDeclares
<1>11. CASE RelayBinds
  <2>1. <<settings.outExchange, "recorded", settings.outQueue>>
            \in ExchangeNames \X Keys \X QueueNames
    BY <1>0 DEF Settings, Keys
  <2> QED BY <1>0, <1>11, <2>1 DEF TypeOK, RelayBinds
<1>12. CASE RelayPublishes
  BY <1>0, <1>12, EnterType DEF TypeOK, RelayPublishes
<1> QED BY <1>1, <1>2, <1>3, <1>4, <1>5, <1>6, <1>7, <1>8, <1>9, <1>10, <1>11, <1>12
        DEF Next

\* A declaration or a binding that is in force stays so while the settings do.
LEMMA StaysDeclared ==
    ASSUME TypeOK, settings' = settings, bindings \subseteq bindings',
           \A p \in QueueNames : queues[p] # None => queues'[p] = queues[p],
           NEW n \in 1..3
    PROVE  (Declared(n) => Declared(n)') /\ (Bound(n) => Bound(n)')
<1>1. Declarations' = Declarations
  BY DEF Declarations
<1>2. Declarations[n].queue \in QueueNames /\ Declarations[n].arguments # None
  BY ThreeDeclarations, ArgumentsAssumption
<1> QED BY <1>1, <1>2 DEF Declared, Bound

LEMMA WorkerStep == TopologyInv /\ [Next]_vars => WorkerOK'
<1> SUFFICES ASSUME TopologyInv, [Next]_vars PROVE WorkerOK'
  OBVIOUS
<1>0. /\ TypeOK /\ WorkerOK
      /\ worker \in [does : {"down", "declaring", "binding", "consuming"}, to : 1..3]
  BY DEF TopologyInv, TypeOK
<1>1. CASE worker' = Down
  BY <1>1 DEF WorkerOK, Down
<1>2. ASSUME worker' = worker, settings' = settings, bindings \subseteq bindings',
             \A p \in QueueNames : queues[p] # None => queues'[p] = queues[p]
      PROVE  WorkerOK'
  BY <1>0, <1>2, StaysDeclared DEF WorkerOK
<1>3. CASE WorkerDeclare /\ worker' # Down
  <2> DEFINE d == Declarations[worker.to]
  <2>1. d.queue \in QueueNames /\ d.arguments \in {Plain} \cup RetryArguments
    BY <1>0, ThreeDeclarations
  <2>2. /\ CanDeclare(d.queue, d.arguments) /\ Declare(d.queue, d.arguments)
        /\ worker' = [worker EXCEPT !.does = "binding"]
        /\ settings' = settings /\ bindings' = bindings
        /\ worker.does \in {"down", "declaring"}
    BY <1>3 DEF WorkerDeclare
  <2>3. /\ queues'[d.queue] = d.arguments
        /\ \A p \in QueueNames : queues[p] # None => queues'[p] = queues[p]
    BY <1>0, <2>1, <2>2, DeclareOnce
  <2>4. worker'.does = "binding" /\ worker'.to = worker.to
    BY <1>0, <2>2
  <2>5. Declared(worker.to)'
    BY <2>2, <2>3, <2>4 DEF Declared, Declarations
  <2>6. worker.does = "down" => worker.to = 1
    BY <1>0 DEF WorkerOK
  <2> QED BY <1>0, <2>2, <2>3, <2>4, <2>5, <2>6, StaysDeclared DEF WorkerOK
<1>4. CASE WorkerBind
  <2>0. PICK k \in 1..3 : k = worker.to
    BY <1>0
  <2> DEFINE d == Declarations[k]
  <2>1. /\ bindings' = bindings \cup {<<d.exchange, d.key, d.queue>>}
        /\ settings' = settings /\ queues' = queues /\ worker.does = "binding"
        /\ worker' = IF k = 3 THEN [does |-> "consuming", to |-> 3]
                     ELSE [does |-> "declaring", to |-> k + 1]
    BY <1>4, <2>0 DEF WorkerBind
  <2>2. Bound(k)'
    BY <2>1 DEF Bound, Declarations
  <2>3. \A n \in 1..3 : /\ Declared(n) => Declared(n)'
                        /\ Bound(n) => Bound(n)'
    BY <1>0, <2>1, StaysDeclared
  <2>4. /\ Declared(k)
        /\ \A n \in 1..3 : n < k => Declared(n) /\ Bound(n)
    BY <1>0, <2>0, <2>1 DEF WorkerOK
  <2>5. \A n \in 1..3 : n <= k => Declared(n)' /\ Bound(n)'
    BY <2>2, <2>3, <2>4
  <2>6. \/ worker'.does = "consuming" /\ k = 3
        \/ worker'.does = "declaring" /\ worker'.to = k + 1
    BY <2>1
  <2> QED BY <2>5, <2>6 DEF WorkerOK
<1>5. CASE Reconfigure
  BY <1>1, <1>5 DEF Reconfigure
<1>6. CASE RelayDeclares
  <2>1. \A p \in QueueNames : queues[p] # None => queues'[p] = queues[p]
    BY <1>0, <1>6, DeclareOnce DEF RelayDeclares, TypeOK, Settings
  <2> QED BY <1>2, <1>6, <2>1 DEF RelayDeclares
<1>7. ASSUME \/ PublishEvent \/ HandOver \/ (\E q \in QueueNames : Expire(q))
             \/ RelayStarts \/ RelayBinds \/ RelayPublishes \/ RelayLeaves
             \/ UNCHANGED vars
      PROVE  WorkerOK'
  BY <1>2, <1>7 DEF PublishEvent, HandOver, Expire, RelayStarts, RelayBinds,
                    RelayPublishes, RelayLeaves, vars
<1> QED BY <1>1, <1>3, <1>4, <1>5, <1>6, <1>7 DEF Next, WorkerStops

-----------------------------------------------------------------------------
(* Separation of the streams, until the environment is edited *)

\* Bindings, arguments and contents stay within the stream they were made for.
SeparateOK ==
    /\ relay # "down" => Accepted
    /\ \A x \in ExchangeNames, key \in Keys, q \in QueueNames :
           <<x, key, q>> \in bindings =>
               IF key = "recorded" THEN Accepted /\ q = settings.outQueue
                                   ELSE q \in InboundQueues
    /\ \A q \in QueueNames :
           queues[q] \notin {None, Plain} =>
               /\ q = settings.retryQueue
               /\ queues[q].deadLetterTo = settings.exchange
    /\ \A q \in QueueNames :
           /\ "notification" \in held[q] => Accepted /\ q = settings.outQueue
           /\ "inbound" \in held[q] => q \in InboundQueues
    /\ \A x \in ExchangeNames :
           /\ "notification" \in carried[x] => Accepted /\ x = settings.outExchange
           /\ "inbound" \in carried[x] => x \in InboundExchanges

SeparateInv == changes = 0 => SeparateOK

\* Inbound messages that enter by an inbound key reach inbound queues only.
LEMMA InboundEnters ==
    ASSUME TypeOK, SeparateOK, NEW x \in InboundExchanges, x \in ExchangeNames,
           NEW key \in Keys \ {"recorded"}, Enter("inbound", x, key),
           UNCHANGED <<settings, queues, bindings, relay>>
    PROVE  SeparateOK'
<1>1. \A q \in QueueNames : q \in Route(x, key) => q \in InboundQueues
  BY DEF SeparateOK, Route
<1>2. \A q \in QueueNames :
          /\ "notification" \in held'[q] => "notification" \in held[q]
          /\ "inbound" \in held'[q] => "inbound" \in held[q] \/ q \in Route(x, key)
  BY DEF Enter
<1>3. /\ Accepted' = Accepted /\ InboundQueues' = InboundQueues
      /\ InboundExchanges' = InboundExchanges
  BY DEF Accepted, InboundQueues, InboundExchanges
<1>4. \A q \in QueueNames :
          /\ "notification" \in held'[q] => Accepted' /\ q = settings'.outQueue
          /\ "inbound" \in held'[q] => q \in InboundQueues'
  BY <1>1, <1>2, <1>3 DEF SeparateOK
<1>5. relay' # "down" => Accepted'
  BY <1>3 DEF SeparateOK
<1>6. \A y \in ExchangeNames, k \in Keys, q \in QueueNames :
          <<y, k, q>> \in bindings' =>
              IF k = "recorded" THEN Accepted' /\ q = settings'.outQueue
                                ELSE q \in InboundQueues'
  BY <1>3 DEF SeparateOK
<1>7. \A q \in QueueNames :
          queues'[q] \notin {None, Plain} =>
              /\ q = settings'.retryQueue
              /\ queues'[q].deadLetterTo = settings'.exchange
  BY DEF SeparateOK
<1>8. \A y \in ExchangeNames :
          /\ "notification" \in carried'[y] => Accepted' /\ y = settings'.outExchange
          /\ "inbound" \in carried'[y] => y \in InboundExchanges'
  BY <1>3 DEF SeparateOK, Enter, TypeOK
<1> QED BY <1>4, <1>5, <1>6, <1>7, <1>8 DEF SeparateOK

\* No inbound queue has ever held a notification.
LEMMA NoFeedback ==
    ASSUME SeparateOK, NEW q \in InboundQueues, q \in QueueNames
    PROVE  "notification" \notin held[q]
BY DEF SeparateOK, Accepted, InboundQueues

LEMMA SeparateStep ==
    ASSUME TypeOK, SeparateInv, [Next]_vars
    PROVE  SeparateInv'
<1>0. /\ settings \in Settings /\ changes \in Nat
      /\ worker \in [does : {"down", "declaring", "binding", "consuming"}, to : 1..3]
      /\ held \in [QueueNames -> SUBSET Streams]
      /\ carried \in [ExchangeNames -> SUBSET Streams]
      /\ queues \in [QueueNames -> {None, Plain} \cup RetryArguments]
      /\ settings.queue \in QueueNames /\ settings.retryQueue \in QueueNames
      /\ settings.exchange \in ExchangeNames /\ settings.outQueue \in QueueNames
      /\ settings.retryExchange \in ExchangeNames
      /\ settings.deadExchange \in ExchangeNames
      /\ {"received", "retry", "dead-letter"} \subseteq Keys \ {"recorded"}
  BY DEF TypeOK, Settings, Keys
<1>1. CASE Reconfigure
  <2>1. changes' # 0
    BY <1>0, <1>1 DEF Reconfigure
  <2> QED BY <2>1 DEF SeparateInv
<1> SUFFICES ASSUME SeparateOK, ~Reconfigure PROVE SeparateOK'
  <2>1. ~Reconfigure => changes' = changes
    BY DEF Next, vars, WorkerDeclare, WorkerBind, WorkerStops, PublishEvent,
           HandOver, Expire, RelayStarts, RelayDeclares, RelayBinds,
           RelayPublishes, RelayLeaves
  <2> QED BY <1>1, <2>1 DEF SeparateInv
<1>2. settings' = settings
  BY DEF Next, vars, WorkerDeclare, WorkerBind, WorkerStops, PublishEvent,
         HandOver, Expire, RelayStarts, RelayDeclares, RelayBinds,
         RelayPublishes, RelayLeaves
<1>3. /\ Accepted' = Accepted /\ InboundQueues' = InboundQueues
      /\ InboundExchanges' = InboundExchanges
  BY <1>2 DEF Accepted, InboundQueues, InboundExchanges
<1>4. ASSUME UNCHANGED <<queues, bindings, held, carried>>, relay' # "down" => Accepted
      PROVE  SeparateOK'
  BY <1>2, <1>3, <1>4 DEF SeparateOK
<1>5. ASSUME NEW q \in QueueNames, NEW arguments \in {Plain} \cup RetryArguments,
             arguments # Plain => /\ q = settings.retryQueue
                                  /\ arguments.deadLetterTo = settings.exchange,
             CanDeclare(q, arguments), Declare(q, arguments),
             UNCHANGED <<bindings, held, carried>>, relay' # "down" => Accepted
      PROVE  SeparateOK'
  <2>1. /\ queues'[q] = arguments
        /\ \A p \in QueueNames \ {q} : queues'[p] = queues[p]
    BY <1>5, DeclareOnce
  <2>2. \A p \in QueueNames :
            queues'[p] \notin {None, Plain} =>
                /\ p = settings'.retryQueue
                /\ queues'[p].deadLetterTo = settings'.exchange
    BY <1>2, <1>5, <2>1 DEF SeparateOK
  <2> QED BY <1>2, <1>3, <1>5, <2>2 DEF SeparateOK
<1>6. CASE WorkerDeclare
  <2>1. CASE CanDeclare(Declarations[worker.to].queue, Declarations[worker.to].arguments)
             /\ worker' # Down
    <3> DEFINE d == Declarations[worker.to]
    <3>1. d.queue \in QueueNames /\ d.arguments \in {Plain} \cup RetryArguments
      BY <1>0, ThreeDeclarations
    <3>2. d.arguments # Plain => /\ d.queue = settings.retryQueue
                                 /\ d.arguments.deadLetterTo = settings.exchange
      <4>1. worker.to = 1 \/ worker.to = 2 \/ worker.to = 3
        BY <1>0
      <4> QED BY <4>1 DEF Declarations
    <3>3. Declare(d.queue, d.arguments) /\ UNCHANGED <<bindings, held, carried, relay>>
      BY <1>6, <2>1 DEF WorkerDeclare
    <3> HIDE DEF d
    <3>4. relay' # "down" => Accepted
      BY <3>3 DEF SeparateOK
    <3>5. CanDeclare(d.queue, d.arguments)
      BY <2>1 DEF d
    <3> QED BY <1>5, <3>1, <3>2, <3>3, <3>4, <3>5
  <2>2. CASE UNCHANGED queues
    BY <1>4, <1>6, <2>2 DEF WorkerDeclare, SeparateOK
  <2>3. ~(UNCHANGED queues) =>
            /\ CanDeclare(Declarations[worker.to].queue, Declarations[worker.to].arguments)
            /\ worker' = [worker EXCEPT !.does = "binding"]
    BY <1>6 DEF WorkerDeclare
  <2>4. [worker EXCEPT !.does = "binding"] # Down
    BY <1>0 DEF Down
  <2> QED BY <2>1, <2>2, <2>3, <2>4
<1>7. CASE WorkerBind
  <2> DEFINE d == Declarations[worker.to]
  <2>1. d.queue \in InboundQueues /\ d.key # "recorded"
    <3>1. worker.to = 1 \/ worker.to = 2 \/ worker.to = 3
      BY <1>0
    <3> QED BY <3>1 DEF Declarations, InboundQueues
  <2>2. /\ bindings' = bindings \cup {<<d.exchange, d.key, d.queue>>}
        /\ UNCHANGED <<queues, relay, held, carried>>
    BY <1>7 DEF WorkerBind
  <2> HIDE DEF d
  <2> QED BY <1>2, <1>3, <2>1, <2>2 DEF SeparateOK
<1>8. CASE PublishEvent
  BY <1>0, <1>8, InboundEnters DEF PublishEvent, InboundExchanges
<1>9. CASE HandOver
  <2>1. PICK stream \in held[settings.queue] :
            \/ Enter(stream, settings.retryExchange, "retry")
            \/ Enter(stream, settings.deadExchange, "dead-letter")
    BY <1>9 DEF HandOver
  <2>2. stream = "inbound"
    BY <1>0, NoFeedback DEF InboundQueues, Streams
  <2> QED BY <1>0, <1>9, <2>1, <2>2, InboundEnters DEF HandOver, InboundExchanges
<1>10. ASSUME NEW q \in QueueNames, Expire(q) PROVE SeparateOK'
  <2>1. PICK stream \in held[q] : Enter(stream, queues[q].deadLetterTo, "received")
    BY <1>10 DEF Expire
  <2>2. q = settings.retryQueue /\ queues[q].deadLetterTo = settings.exchange
    BY <1>0, <1>10 DEF Expire, SeparateOK
  <2>3. stream = "inbound"
    BY <1>0, <2>2, NoFeedback DEF InboundQueues, Streams
  <2> QED BY <1>0, <1>10, <2>1, <2>2, <2>3, InboundEnters DEF Expire, InboundExchanges
<1>11. CASE RelayDeclares
  BY <1>0, <1>5, <1>11 DEF RelayDeclares, SeparateOK
<1>12. CASE RelayBinds
  BY <1>0, <1>2, <1>3, <1>12 DEF RelayBinds, SeparateOK
<1>13. CASE RelayPublishes
  <2>1. Accepted /\ \A q \in Route(settings.outExchange, "recorded") : q = settings.outQueue
    BY <1>0, <1>13 DEF RelayPublishes, SeparateOK, Route, Keys, Settings
  <2>2. \A q \in QueueNames :
            /\ "inbound" \in held'[q] => "inbound" \in held[q]
            /\ "notification" \in held'[q] =>
                   \/ "notification" \in held[q]
                   \/ q \in Route(settings.outExchange, "recorded")
    BY <1>13 DEF RelayPublishes, Enter
  <2>3. \A q \in QueueNames :
            /\ "notification" \in held'[q] => Accepted' /\ q = settings'.outQueue
            /\ "inbound" \in held'[q] => q \in InboundQueues'
    BY <1>2, <1>3, <2>1, <2>2 DEF SeparateOK
  <2>4. UNCHANGED <<queues, bindings>>
    BY <1>13 DEF RelayPublishes
  <2>5. \A x \in ExchangeNames :
            /\ "notification" \in carried'[x] => Accepted' /\ x = settings'.outExchange
            /\ "inbound" \in carried'[x] => x \in InboundExchanges'
    BY <1>0, <1>2, <1>3, <1>13, <2>1 DEF SeparateOK, RelayPublishes, Enter
  <2> QED BY <1>2, <1>3, <2>1, <2>3, <2>4, <2>5 DEF SeparateOK
<1>14. ASSUME WorkerStops \/ RelayStarts \/ RelayLeaves \/ UNCHANGED vars
       PROVE  SeparateOK'
  BY <1>4, <1>14 DEF WorkerStops, RelayStarts, RelayLeaves, vars, SeparateOK
<1> QED BY <1>6, <1>7, <1>8, <1>9, <1>10, <1>11, <1>12, <1>13, <1>14 DEF Next

-----------------------------------------------------------------------------

\* The inductive invariant: what a worker has declared is in force, and until
\* the first change every binding and every message keeps to its stream.
THEOREM TopologyInvariance == Spec => [](TopologyInv /\ SeparateInv)
<1>1. Init => TopologyInv /\ SeparateInv
  <2> SUFFICES ASSUME Init PROVE TopologyInv /\ SeparateInv
    OBVIOUS
  <2>1. TypeOK
    BY DEF Init, TypeOK, Down
  <2>2. WorkerOK
    BY DEF Init, WorkerOK, Down
  <2>3. SeparateOK
    BY DEF Init, SeparateOK
  <2> QED BY <2>1, <2>2, <2>3 DEF TopologyInv, SeparateInv
<1>2. TopologyInv /\ SeparateInv /\ [Next]_vars => (TopologyInv /\ SeparateInv)'
  BY TypeStep, WorkerStep, SeparateStep DEF TopologyInv
<1> QED BY <1>1, <1>2, PTL DEF Spec

\* Every variable keeps its type.
THEOREM TopologyTypeCorrect == Spec => []TypeOK
<1>1. TopologyInv => TypeOK
  BY DEF TopologyInv
<1> QED BY TopologyInvariance, <1>1, PTL

\* Whatever names the settings give, and whichever of them coincide: as long
\* as they stay, the test of get_outbox_settings keeps each stream to its
\* exchanges and queues.  A worker would send a notification round as it sends
\* an event, so what is shown is that it never gets one.
THEOREM StreamsStaySeparate == Spec => []StreamsAreSeparate
<1>1. TopologyInv /\ SeparateInv => StreamsAreSeparate
  <2> SUFFICES ASSUME TypeOK, SeparateOK
               PROVE  Confined(held, InboundQueues) /\ Confined(carried, InboundExchanges)
    BY DEF TopologyInv, SeparateInv, StreamsAreSeparate
  <2>1. held \in [QueueNames -> SUBSET Streams] /\ carried \in [ExchangeNames -> SUBSET Streams]
    BY DEF TypeOK
  <2>2. Confined(held, InboundQueues)
    BY <2>1 DEF SeparateOK, Accepted, Confined, Streams
  <2>3. Confined(carried, InboundExchanges)
    BY <2>1 DEF SeparateOK, Accepted, Confined, Streams
  <2> QED BY <2>2, <2>3
<1> QED BY TopologyInvariance, <1>1, PTL

\* However often the environment changes, a worker consumes only when the
\* broker returns its retries as its settings say.
THEOREM RetriesCorrect == Spec => []RetriesReturnAsConfigured
<1>1. TopologyInv => RetriesReturnAsConfigured
  <2> SUFFICES ASSUME TopologyInv, worker.does = "consuming"
               PROVE  RetriesReturnAsConfigured
    BY DEF RetriesReturnAsConfigured
  <2>1. settings \in Settings
    BY DEF TopologyInv, TypeOK
  <2>2. Bound(1) /\ Declared(2) /\ Bound(2)
    BY DEF TopologyInv, WorkerOK
  <2>3. /\ <<settings.exchange, "received", settings.queue>> \in bindings
        /\ <<settings.retryExchange, "retry", settings.retryQueue>> \in bindings
        /\ queues[settings.retryQueue]
             = [ttl |-> settings.delay, deadLetterTo |-> settings.exchange]
    BY <2>2 DEF Bound, Declared, Declarations
  <2>4. /\ settings.exchange \in ExchangeNames /\ settings.queue \in QueueNames
        /\ settings.retryQueue \in QueueNames
    BY <2>1 DEF Settings
  <2> QED BY <2>3, <2>4 DEF RetriesReturnAsConfigured, Route
<1> QED BY TopologyInvariance, <1>1, PTL

=============================================================================
