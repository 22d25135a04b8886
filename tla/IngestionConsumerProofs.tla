----------------------- MODULE IngestionConsumerProofs -----------------------
(***************************************************************************)
(* Theorems about IngestionConsumer, for every set of messages and workers *)
(* and every bound on attempts, publications and failures.                 *)
(***************************************************************************)
EXTENDS IngestionConsumer, FiniteSetTheorems, TLAPS

\* What a worker has in hand at each point of its loop.
WorkersOK ==
    \A c \in Consumers :
        /\ pc[c] \in {"down", "idle"} => held[c] = None
        /\ pc[c] \in {"handling", "failing", "acking"} => held[c] \in Copies
        /\ pc[c] = "down" => ~live[c]

IInv == TypeOK /\ WorkersOK /\ NothingVanishes

LEMMA InitIInv == Init => IInv
<1> SUFFICES ASSUME Init PROVE IInv
  OBVIOUS
<1>1. TypeOK
  BY DEF Init, TypeOK
<1>2. WorkersOK /\ NothingVanishes
  BY DEF Init, WorkersOK, NothingVanishes
<1> QED BY <1>1, <1>2 DEF IInv

-----------------------------------------------------------------------------
(* Queues *)

\* A copy put in a queue is there, and the others stay.
LEMMA PutCopy ==
    ASSUME NEW q \in [Copies -> Nat], NEW x \in Copies
    PROVE  /\ Put(q, x) \in [Copies -> Nat]
           /\ Put(q, x)[x] > 0
           /\ \A y \in Copies : Put(q, x)[y] >= q[y]
BY DEF Put

\* Taking a copy that is there leaves the others.
LEMMA DropCopy ==
    ASSUME NEW q \in [Copies -> Nat], NEW x \in Copies, q[x] > 0
    PROVE  /\ Drop(q, x) \in [Copies -> Nat]
           /\ \A y \in Copies \ {x} : Drop(q, x)[y] = q[y]
BY DEF Drop

LEMMA CountUp ==
    ASSUME NEW f \in [Messages -> Nat], NEW m \in Messages
    PROVE  /\ Count(f, m) \in [Messages -> Nat]
           /\ Count(f, m)[m] > 0
           /\ \A n \in Messages : Count(f, m)[n] >= f[n]
BY DEF Count

\* A copy is a message with one of its attempts, and below the maximum the
\* next attempt is one of them.
LEMMA CopyFields ==
    ASSUME NEW x \in Copies
    PROVE  /\ x.message \in Messages
           /\ x.attempt # Garbled /\ x.attempt < MaxAttempts =>
                /\ NextCopy(x) \in Copies
                /\ NextCopy(x).message = x.message
<1>1. PICK m \in Messages : x \in [message : {m}, attempt : Attempts(m)]
  BY DEF Copies
<1>2. x.message = m /\ x.attempt \in Attempts(m)
  BY <1>1
<1>3. ASSUME x.attempt # Garbled, x.attempt < MaxAttempts
      PROVE  NextCopy(x) \in Copies /\ NextCopy(x).message = x.message
  <2>1. /\ FirstAttempt[m] \in Int /\ FirstAttempt[m] # Garbled
        /\ x.attempt \in Int /\ x.attempt >= FirstAttempt[m]
    BY <1>2, <1>3, AttemptsAssumption DEF Attempts
  <2>2. x.attempt + 1 \in Attempts(m)
    BY <1>3, <2>1, AttemptsAssumption DEF Attempts
  <2>3. NextCopy(x) = [message |-> m, attempt |-> x.attempt + 1]
    BY <1>1, <1>2 DEF NextCopy
  <2>4. NextCopy(x) \in [message : {m}, attempt : Attempts(m)]
    BY <2>2, <2>3
  <2> QED BY <1>2, <2>3, <2>4 DEF Copies
<1> QED BY <1>2, <1>3

LEMMA FirstCopyFields ==
    ASSUME NEW m \in Messages
    PROVE  FirstCopy(m) \in Copies /\ FirstCopy(m).message = m
<1>1. FirstAttempt[m] \in Attempts(m)
  BY DEF Attempts
<1> QED BY <1>1 DEF Copies, FirstCopy

LEMMA CountCopyUp ==
    ASSUME NEW f \in [Messages -> Nat], NEW x \in Copies
    PROVE  CountCopy(f, x) \in [Messages -> Nat]
BY CountUp, CopyFields DEF CountCopy

\* A failed delivery is copied to the retry queue or to the dead-letter queue,
\* if it is copied at all.
LEMMA HandedOver ==
    ASSUME TypeOK, NEW c \in Consumers, held[c] \in Copies,
           held[c].attempt # Garbled, HandOver(c)
    PROVE  /\ waiting' \in [Copies -> Nat] /\ dead' \in [Copies -> Nat]
           /\ \A y \in Copies : waiting'[y] >= waiting[y] /\ dead'[y] >= dead[y]
           /\ \E y \in Copies : /\ y.message = held[c].message
                                /\ waiting'[y] > 0 \/ dead'[y] > 0
<1> DEFINE x == held[c]
<1>0. waiting \in [Copies -> Nat] /\ dead \in [Copies -> Nat]
  BY DEF TypeOK
<1>1. CASE x.attempt < MaxAttempts /\ waiting' = Put(waiting, NextCopy(x)) /\ dead' = dead
  <2>1. NextCopy(x) \in Copies /\ NextCopy(x).message = x.message
    BY <1>1, CopyFields
  <2> QED BY <1>0, <1>1, <2>1, PutCopy
<1>2. CASE dead' = Put(dead, x) /\ waiting' = waiting
  <2>1. /\ dead' \in [Copies -> Nat] /\ dead'[x] > 0
        /\ \A y \in Copies : dead'[y] >= dead[y]
    BY <1>0, <1>2, PutCopy
  <2>2. \A y \in Copies : waiting'[y] >= waiting[y]
    BY <1>0, <1>2
  <2> QED BY <1>0, <1>2, <2>1, <2>2
<1> QED BY <1>1, <1>2 DEF HandOver

\* A delivery taken back is in the main queue again.
LEMMA TakenBack ==
    ASSUME IInv, NEW c \in Consumers, Requeue(c)
    PROVE  /\ queue' \in [Copies -> Nat] /\ breaks' \in [Messages -> Nat]
           /\ \A y \in Copies : queue'[y] >= queue[y]
           /\ live[c] /\ held[c] # None => held[c] \in Copies /\ queue'[held[c]] > 0
<1>0. /\ queue \in [Copies -> Nat] /\ breaks \in [Messages -> Nat]
      /\ held[c] # None => held[c] \in Copies
  BY DEF IInv, TypeOK
<1>1. CASE live[c] /\ held[c] # None /\ queue' = Put(queue, held[c])
           /\ breaks' = CountCopy(breaks, held[c])
  BY <1>0, <1>1, PutCopy, CountCopyUp
<1>2. CASE (~live[c] \/ held[c] = None) /\ queue' = queue /\ breaks' = breaks
  BY <1>0, <1>2
<1> QED BY <1>1, <1>2 DEF Requeue

-----------------------------------------------------------------------------
(* Types and workers *)

\* Steps that leave every worker but c alone, and c as Down leaves it.
LEMMA DownKeepsWorkers ==
    ASSUME IInv, NEW c \in Consumers, Down(c)
    PROVE  /\ WorkersOK'
           /\ pc' \in [Consumers -> {"down", "idle", "handling", "failing", "acking"}]
           /\ held' \in [Consumers -> {None} \cup Copies]
           /\ live' \in [Consumers -> BOOLEAN] /\ fresh' \in [Consumers -> BOOLEAN]
           /\ verdict' \in [Consumers -> {None, "RETRY", "DEAD_LETTER"}]
BY DEF IInv, TypeOK, WorkersOK, Down

LEMMA TypeStep == IInv /\ [Next]_vars => TypeOK' /\ WorkersOK'
<1> SUFFICES ASSUME IInv, [Next]_vars PROVE TypeOK' /\ WorkersOK'
  OBVIOUS
<1>0. TypeOK /\ WorkersOK
  BY DEF IInv
<1>1. CASE UNCHANGED vars
  BY <1>0, <1>1 DEF TypeOK, WorkersOK, vars, broker, worker, tally
<1>2. ASSUME NEW m \in Messages, Publish(m) PROVE TypeOK' /\ WorkersOK'
  <2>1. FirstCopy(m) \in Copies
    BY FirstCopyFields
  <2>2. sent' \in [Messages -> Nat] /\ lost' \in [Messages -> Nat] /\ queue' \in [Copies -> Nat]
    <3>1. sent' \in [Messages -> Nat] /\ lost' \in [Messages -> Nat]
      BY <1>0, <1>2, CountUp DEF TypeOK, Publish
    <3>2. queue' \in [Copies -> Nat]
      BY <1>0, <1>2, <2>1, PutCopy DEF TypeOK, Publish
    <3> QED BY <3>1, <3>2
  <2> QED BY <1>0, <1>2, <2>2 DEF TypeOK, WorkersOK, Publish, worker
<1>14. ASSUME NEW m \in Messages, RecordedByHttp(m) PROVE TypeOK' /\ WorkersOK'
  BY <1>0, <1>14 DEF TypeOK, WorkersOK, RecordedByHttp, broker, worker, tally
<1>3. ASSUME NEW x \in Copies, Expire(x) PROVE TypeOK' /\ WorkersOK'
  <2>1. queue' \in [Copies -> Nat] /\ waiting' \in [Copies -> Nat]
    BY <1>0, <1>3, PutCopy, DropCopy DEF TypeOK, Expire
  <2> QED BY <1>0, <1>3, <2>1 DEF TypeOK, WorkersOK, Expire, worker, tally
<1>4. ASSUME NEW c \in Consumers, Start(c) PROVE TypeOK' /\ WorkersOK'
  BY <1>0, <1>4 DEF TypeOK, WorkersOK, Start, tally
<1>5. ASSUME NEW c \in Consumers, NEW x \in Copies, Receive(c, x)
      PROVE  TypeOK' /\ WorkersOK'
  <2>1. queue' \in [Copies -> Nat] /\ deliveries' \in [Messages -> Nat]
    BY <1>0, <1>5, DropCopy, CountCopyUp DEF TypeOK, Receive
  <2> QED BY <1>0, <1>5, <2>1 DEF TypeOK, WorkersOK, Receive
<1>6. ASSUME NEW c \in Consumers, pc[c] \in {"handling", "failing", "acking"}
      PROVE  held[c] \in Copies /\ held[c].message \in Messages
  BY <1>0, <1>6, CopyFields DEF WorkersOK
<1>7. ASSUME NEW c \in Consumers, Handle(c) PROVE TypeOK' /\ WorkersOK'
  <2>1. /\ recorded' \subseteq Messages
        /\ faults' \in Nat
        /\ pc' \in {[pc EXCEPT ![c] = "acking"], [pc EXCEPT ![c] = "failing"]}
        /\ verdict' \in [Consumers -> {None, "RETRY", "DEAD_LETTER"}]
    BY <1>0, <1>6, <1>7 DEF TypeOK, Handle, Fails, Fault
  <2> QED BY <1>0, <1>7, <2>1 DEF TypeOK, WorkersOK, Handle, broker, tally
<1>8. ASSUME NEW c \in Consumers, Republish(c) PROVE TypeOK' /\ WorkersOK'
  <2>1. held[c] \in Copies /\ held[c].message \in Messages /\ held[c].attempt # Garbled
    BY <1>6, <1>8 DEF Republish
  <2>2. /\ waiting' \in [Copies -> Nat] /\ dead' \in [Copies -> Nat]
        /\ lost' \in [Messages -> Nat] /\ faults' \in Nat
    BY <1>0, <1>8, <2>1, HandedOver, CountUp DEF TypeOK, Republish, Fault
  <2> QED BY <1>0, <1>8, <2>2 DEF TypeOK, WorkersOK, Republish
<1>9. ASSUME NEW c \in Consumers, Ack(c) PROVE TypeOK' /\ WorkersOK'
  BY <1>0, <1>9 DEF TypeOK, WorkersOK, Ack, broker, tally
<1>10. ASSUME NEW c \in Consumers, ConnectionLost(c) PROVE TypeOK' /\ WorkersOK'
  <2>1. queue' \in [Copies -> Nat] /\ breaks' \in [Messages -> Nat]
    BY <1>10, TakenBack DEF ConnectionLost
  <2> QED BY <1>0, <1>10, <2>1 DEF TypeOK, WorkersOK, ConnectionLost, Fault
<1>11. ASSUME NEW c \in Consumers, Disconnected(c) PROVE TypeOK' /\ WorkersOK'
  BY <1>0, <1>11, DownKeepsWorkers DEF TypeOK, Disconnected, broker, tally
<1>12. ASSUME NEW c \in Consumers, Crash(c) PROVE TypeOK' /\ WorkersOK'
  <2>1. queue' \in [Copies -> Nat] /\ breaks' \in [Messages -> Nat]
    BY <1>0, <1>12, TakenBack DEF Crash, TypeOK
  <2>2. waiting' \in [Copies -> Nat] /\ dead' \in [Copies -> Nat]
    BY <1>0, <1>6, <1>12, HandedOver DEF Crash, TypeOK
  <2>3. recorded' \subseteq Messages /\ faults' \in Nat
    BY <1>0, <1>6, <1>12 DEF Crash, TypeOK, Fault
  <2>4. Down(c) /\ UNCHANGED <<declared, sent, deliveries, lost>>
    BY <1>12 DEF Crash
  <2> QED BY <1>0, <2>1, <2>2, <2>3, <2>4, DownKeepsWorkers DEF TypeOK
<1>13. ASSUME NEW c \in Consumers, BadHeader(c) PROVE TypeOK' /\ WorkersOK'
  <2>1. queue' \in [Copies -> Nat] /\ breaks' \in [Messages -> Nat]
    BY <1>13, TakenBack DEF BadHeader
  <2>2. Down(c) /\ UNCHANGED <<declared, waiting, dead, recorded, sent, deliveries, lost, faults>>
    BY <1>13 DEF BadHeader
  <2> QED BY <1>0, <2>1, <2>2, DownKeepsWorkers DEF TypeOK
<1> QED
  BY <1>1, <1>2, <1>3, <1>4, <1>5, <1>7, <1>8, <1>9, <1>10, <1>11, <1>12, <1>13,
     <1>14 DEF Next, ConsumerStep

-----------------------------------------------------------------------------
(* Conservation of messages *)

\* What is recorded, dead-lettered or lost remains so.
LEMMA NothingUndone ==
    ASSUME IInv, [Next]_vars
    PROVE  /\ recorded \subseteq recorded'
           /\ \A y \in Copies : dead'[y] >= dead[y]
           /\ \A n \in Messages : lost'[n] >= lost[n]
<1> DEFINE Kept == /\ recorded \subseteq recorded'
                   /\ \A y \in Copies : dead'[y] >= dead[y]
                   /\ \A n \in Messages : lost'[n] >= lost[n]
<1>0. /\ TypeOK /\ WorkersOK
      /\ dead \in [Copies -> Nat] /\ lost \in [Messages -> Nat]
  BY DEF IInv, TypeOK
<1>1. CASE recorded \subseteq recorded' /\ dead' = dead /\ lost' = lost
  BY <1>0, <1>1
<1>2. ASSUME NEW m \in Messages, Publish(m) PROVE Kept
  BY <1>0, <1>2, CountUp DEF Publish
<1>3. ASSUME NEW c \in Consumers, Republish(c) PROVE Kept
  <2>1. held[c] \in Copies /\ held[c].attempt # Garbled
    BY <1>0, <1>3 DEF WorkersOK, Republish
  <2>2. recorded' = recorded
    BY <1>3 DEF Republish
  <2>3. CASE HandOver(c) /\ lost' = lost
    BY <1>0, <2>1, <2>2, <2>3, HandedOver
  <2>4. CASE dead' = dead /\ lost' = Count(lost, held[c].message)
    BY <1>0, <2>1, <2>2, <2>4, CountUp, CopyFields
  <2> QED BY <1>3, <2>3, <2>4 DEF Republish
<1>4. ASSUME NEW c \in Consumers, Crash(c) PROVE Kept
  <2>1. CASE /\ pc[c] = "failing" /\ held[c].attempt # Garbled
             /\ HandOver(c) /\ recorded' = recorded
    <3>1. held[c] \in Copies
      BY <1>0, <2>1 DEF WorkersOK
    <3> QED BY <1>0, <1>4, <2>1, <3>1, HandedOver DEF Crash
  <2>2. CASE recorded \subseteq recorded' /\ dead' = dead
    BY <1>1, <1>4, <2>2 DEF Crash
  <2> QED BY <1>4, <2>1, <2>2 DEF Crash
<1>5. ASSUME NEW c \in Consumers, Handle(c) PROVE Kept
  BY <1>1, <1>5 DEF Handle, broker, tally
<1> QED
  BY <1>1, <1>2, <1>3, <1>4, <1>5
     DEF Next, ConsumerStep, vars, broker, worker, tally,
         RecordedByHttp, Expire, Start, Receive, Ack, BadHeader, ConnectionLost, Disconnected

\* A copy in a queue stays in one, or goes into the hands of a worker.
LEMMA CopyKept ==
    ASSUME IInv, [Next]_vars, TypeOK', NEW x \in Copies, queue[x] + waiting[x] > 0
    PROVE  Pending(x.message)'
<1>0. /\ TypeOK /\ WorkersOK
      /\ queue \in [Copies -> Nat] /\ waiting \in [Copies -> Nat]
      /\ queue' \in [Copies -> Nat] /\ waiting' \in [Copies -> Nat]
  BY DEF IInv, TypeOK
<1>1. CASE queue'[x] + waiting'[x] > 0
  BY <1>1 DEF Pending
<1>2. CASE queue'[x] >= queue[x] /\ waiting'[x] >= waiting[x]
  BY <1>0, <1>1, <1>2
<1>3. ASSUME NEW m \in Messages, Publish(m) PROVE queue'[x] >= queue[x] /\ waiting' = waiting
  BY <1>0, <1>3, PutCopy, FirstCopyFields DEF Publish
<1>4. ASSUME NEW y \in Copies, Expire(y) PROVE Pending(x.message)'
  <2>1. queue'[y] > 0 /\ queue'[x] >= queue[x] /\ (x # y => waiting'[x] = waiting[x])
    BY <1>0, <1>4, PutCopy, DropCopy DEF Expire
  <2> QED BY <1>0, <1>1, <2>1
<1>5. ASSUME NEW c \in Consumers, NEW y \in Copies, Receive(c, y)
      PROVE  Pending(x.message)'
  <2>1. CASE x = y
    <3>1. live'[c] /\ pc'[c] = "handling" /\ held'[c] = x
      BY <1>0, <1>5, <2>1 DEF Receive, TypeOK
    <3> QED BY <3>1 DEF Pending
  <2>2. CASE x # y
    BY <1>0, <1>2, <1>5, <2>2, DropCopy DEF Receive
  <2> QED BY <2>1, <2>2
<1>6. ASSUME NEW c \in Consumers, held[c] \in Copies, held[c].attempt # Garbled, HandOver(c)
      PROVE  waiting'[x] >= waiting[x]
  BY <1>0, <1>6, HandedOver
<1>7. ASSUME NEW c \in Consumers, Republish(c) PROVE queue' = queue /\ waiting'[x] >= waiting[x]
  BY <1>0, <1>6, <1>7 DEF Republish, WorkersOK
<1>8. ASSUME NEW c \in Consumers, Requeue(c) PROVE queue'[x] >= queue[x]
  BY <1>8, TakenBack
<1>9. ASSUME NEW c \in Consumers, ConnectionLost(c) PROVE Pending(x.message)'
  BY <1>0, <1>2, <1>8, <1>9 DEF ConnectionLost
<1>14. ASSUME NEW c \in Consumers, BadHeader(c) PROVE Pending(x.message)'
  BY <1>0, <1>2, <1>8, <1>14 DEF BadHeader
<1>10. ASSUME NEW c \in Consumers, Crash(c) PROVE Pending(x.message)'
  <2>1. queue'[x] >= queue[x]
    BY <1>0, <1>8, <1>10 DEF Crash
  <2>2. waiting'[x] >= waiting[x]
    BY <1>0, <1>6, <1>10 DEF Crash, WorkersOK
  <2> QED BY <1>2, <2>1, <2>2
<1>11. CASE queue' = queue /\ waiting' = waiting
  BY <1>0, <1>2, <1>11
<1>12. ASSUME NEW c \in Consumers, Start(c) \/ Handle(c) \/ Ack(c) \/ Disconnected(c)
       PROVE  Pending(x.message)'
  BY <1>11, <1>12 DEF Start, Handle, Ack, Disconnected, broker
<1>13. CASE UNCHANGED vars \/ \E m \in Messages : RecordedByHttp(m)
  BY <1>11, <1>13 DEF vars, broker, RecordedByHttp
<1> QED
  BY <1>0, <1>2, <1>3, <1>4, <1>5, <1>7, <1>9, <1>10, <1>12, <1>13, <1>14
     DEF Next, ConsumerStep

\* A delivery in the hands of a worker stays there until it is recorded, copied
\* to a queue or taken back, or the broker loses the copy.
LEMMA DeliveryKept ==
    ASSUME IInv, [Next]_vars, TypeOK',
           NEW c \in Consumers, live[c], pc[c] \in {"handling", "failing"},
           NEW n \in Messages, held[c].message = n
    PROVE  Accounted(n)'
<1>0. /\ TypeOK /\ WorkersOK /\ held[c] \in Copies
      /\ queue' \in [Copies -> Nat] /\ waiting' \in [Copies -> Nat]
      /\ pc \in [Consumers -> {"down", "idle", "handling", "failing", "acking"}]
      /\ held \in [Consumers -> {None} \cup Copies]
      /\ live \in [Consumers -> BOOLEAN]
  BY CopyFields DEF IInv, TypeOK, WorkersOK
<1>1. CASE live'[c] /\ pc'[c] \in {"handling", "failing"} /\ held'[c] = held[c]
  BY <1>1 DEF Accounted, Pending
<1>2. CASE UNCHANGED worker
  BY <1>0, <1>1, <1>2 DEF worker
<1>3. ASSUME NEW d \in Consumers, d # c, ConsumerStep(d) \/ ConnectionLost(d) \/ Crash(d)
      PROVE  live'[c] /\ pc'[c] = pc[c] /\ held'[c] = held[c]
  BY <1>0, <1>3 DEF ConsumerStep, Start, Receive, Handle, Fails, Republish, Ack,
                    BadHeader, Disconnected, ConnectionLost, Crash, Down
<1>4. CASE Handle(c)
  <2>1. CASE n \in recorded'
    BY <2>1 DEF Accounted
  <2>2. CASE pc' = [pc EXCEPT ![c] = "failing"]
    BY <1>0, <1>1, <1>4, <2>2 DEF Handle
  <2> QED BY <1>4, <2>1, <2>2 DEF Handle, Fails
<1>5. ASSUME HandOver(c), held[c].attempt # Garbled PROVE Accounted(n)'
  <2>1. PICK y \in Copies : y.message = n /\ (waiting'[y] > 0 \/ dead'[y] > 0)
    BY <1>0, <1>5, HandedOver
  <2> QED BY <1>0, <2>1 DEF Accounted, Pending, DeadLettered
<1>6. CASE Republish(c)
  <2>1. CASE lost' = Count(lost, n)
    BY <1>0, <2>1, CountUp DEF Accounted, TypeOK
  <2> QED BY <1>5, <1>6, <2>1 DEF Republish
<1>7. ASSUME Requeue(c) PROVE Accounted(n)'
  <2>1. held[c] # None
    BY <1>0, NoneAssumption
  <2>2. queue'[held[c]] > 0
    BY <1>7, <2>1, TakenBack
  <2> QED BY <1>0, <2>2 DEF Accounted, Pending
<1>8. CASE ConnectionLost(c) \/ Crash(c) \/ BadHeader(c)
  BY <1>7, <1>8 DEF ConnectionLost, Crash, BadHeader
<1>9. ~Start(c) /\ ~Ack(c) /\ ~Disconnected(c) /\ \A x \in Copies : ~Receive(c, x)
  BY DEF Start, Ack, Disconnected, Receive
<1>10. ASSUME NEW d \in Consumers, ConsumerStep(d) \/ ConnectionLost(d) \/ Crash(d)
       PROVE  Accounted(n)'
  <2>1. CASE d = c
    BY <1>4, <1>6, <1>8, <1>9, <1>10, <2>1 DEF ConsumerStep
  <2>2. CASE d # c
    BY <1>1, <1>3, <1>10, <2>2
  <2> QED BY <2>1, <2>2
<1> QED BY <1>2, <1>10 DEF Next, Publish, RecordedByHttp, Expire, vars

LEMMA VanishStep == IInv /\ [Next]_vars => NothingVanishes'
<1> SUFFICES ASSUME IInv, [Next]_vars, NEW m \in Messages, sent'[m] > 0
             PROVE  Accounted(m)'
  BY DEF NothingVanishes
<1>0. TypeOK /\ TypeOK'
  BY TypeStep DEF IInv
<1>1. CASE Accounted(m)
  <2>1. CASE m \in recorded \/ DeadLettered(m) \/ lost[m] > 0
    BY <1>0, <2>1, NothingUndone DEF Accounted, DeadLettered, TypeOK
  <2>2. CASE \E x \in Copies : x.message = m /\ queue[x] + waiting[x] > 0
    BY <1>0, <2>2, CopyKept DEF Accounted
  <2>3. CASE \E c \in Consumers : /\ live[c] /\ pc[c] \in {"handling", "failing"}
                                  /\ held[c].message = m
    BY <1>0, <2>3, DeliveryKept
  <2> QED BY <1>1, <2>1, <2>2, <2>3 DEF Accounted, Pending
<1>2. ASSUME Publish(m) PROVE Accounted(m)'
  <2>1. CASE queue' = Put(queue, FirstCopy(m)) /\ waiting' = waiting
    <3>1. FirstCopy(m) \in Copies /\ FirstCopy(m).message = m /\ queue'[FirstCopy(m)] > 0
      BY <1>0, <2>1, FirstCopyFields, PutCopy DEF TypeOK
    <3> QED BY <1>0, <3>1 DEF Accounted, Pending, TypeOK
  <2>2. CASE lost' = Count(lost, m)
    BY <1>0, <2>2, CountUp DEF Accounted, TypeOK
  <2> QED BY <1>2, <2>1, <2>2 DEF Publish
<1>3. CASE sent'[m] = sent[m]
  BY <1>1, <1>3 DEF IInv, NothingVanishes
<1>4. ASSUME NEW n \in Messages, n # m, Publish(n) PROVE sent'[m] = sent[m]
  BY <1>0, <1>4 DEF Publish, Count, TypeOK
<1>5. ASSUME NEW c \in Consumers, ConsumerStep(c) \/ ConnectionLost(c) \/ Crash(c)
      PROVE  sent' = sent
  BY <1>5 DEF ConsumerStep, Start, Receive, Handle, Republish, BadHeader, Ack, Disconnected,
              ConnectionLost, Crash, tally
<1> QED BY <1>2, <1>3, <1>4, <1>5 DEF Next, RecordedByHttp, Expire, vars, tally

-----------------------------------------------------------------------------

\* The inductive invariant: types, what each worker has in hand, and
\* conservation hold in every reachable state.
THEOREM Invariance == Spec => []IInv
<1>1. IInv /\ [Next]_vars => IInv'
  BY TypeStep, VanishStep DEF IInv
<1> QED BY InitIInv, <1>1, PTL DEF Spec

\* Every variable of the broker and the workers keeps its type.
THEOREM TypeCorrect == Spec => []TypeOK
<1>1. IInv => TypeOK
  BY DEF IInv
<1> QED BY Invariance, <1>1, PTL

\* Handing a delivery over before acknowledging it loses no message, whatever
\* breaks in between.
THEOREM NothingVanishesCorrect == Spec => []NothingVanishes
<1>1. IInv => NothingVanishes
  BY DEF IInv
<1> QED BY Invariance, <1>1, PTL

-----------------------------------------------------------------------------
(* Sums over a range, by their partial sums.  A sum is a recursive function,  *)
(* and what it computes for every range would take an induction; partial sums *)
(* are a witness that can be changed in place instead.                        *)

\* P[k] is the sum of f from lo to k.
PartialSums(P, f, lo, hi) ==
    /\ P \in [(lo - 1)..hi -> Nat]
    /\ P[lo - 1] = 0
    /\ \A k \in lo..hi : P[k] = P[k - 1] + f[k]
    /\ \A i, j \in (lo - 1)..hi : i <= j => P[i] <= P[j]

\* A sum of zeros is zero.
LEMMA SumOfZeros ==
    ASSUME NEW lo \in Int, NEW hi \in Int, lo <= hi, NEW f, \A k \in lo..hi : f[k] = 0
    PROVE  \E P : PartialSums(P, f, lo, hi) /\ P[hi] = 0
<1> DEFINE Z == [k \in (lo - 1)..hi |-> 0]
<1>1. PartialSums(Z, f, lo, hi) /\ Z[hi] = 0
  BY DEF PartialSums
<1> QED BY <1>1

\* A sum changes by as much as one of its terms.
LEMMA SumChangesAt ==
    ASSUME NEW lo \in Int, NEW hi \in Int, NEW k \in lo..hi,
           NEW f \in [lo..hi -> Nat], NEW g \in [lo..hi -> Nat],
           \A i \in lo..hi : i # k => g[i] = f[i],
           NEW P, PartialSums(P, f, lo, hi)
    PROVE  \E Q : PartialSums(Q, g, lo, hi) /\ Q[hi] = P[hi] + (g[k] - f[k])
<1> DEFINE D == (lo - 1)..hi
           Q == [i \in D |-> IF i >= k THEN P[i] + (g[k] - f[k]) ELSE P[i]]
<1>0. /\ P \in [D -> Nat] /\ P[lo - 1] = 0 /\ P[k] = P[k - 1] + f[k]
      /\ \A i \in lo..hi : P[i] = P[i - 1] + f[i]
      /\ \A i, j \in D : i <= j => P[i] <= P[j]
      /\ k \in D /\ k - 1 \in D /\ hi \in D /\ lo - 1 \in D
      /\ f[k] \in Nat /\ g[k] \in Nat
  BY DEF PartialSums
<1>1. ASSUME NEW i \in D, i >= k
      PROVE  Q[i] = P[i] + (g[k] - f[k]) /\ Q[i] >= P[k - 1] /\ Q[i] \in Nat
  <2>1. P[i] >= P[k - 1] + f[k] /\ P[i] \in Nat /\ P[k - 1] \in Nat
    BY <1>0, <1>1
  <2> QED BY <1>0, <1>1, <2>1
<1>2. ASSUME NEW i \in D, ~(i >= k)
      PROVE  Q[i] = P[i] /\ Q[i] \in Nat /\ P[i] <= P[k - 1]
  <2>1. i <= k - 1
    BY <1>2
  <2> QED BY <1>0, <1>2, <2>1
<1> HIDE DEF Q
<1>3. Q \in [D -> Nat]
  <2>1. Q = [i \in D |-> Q[i]]
    BY DEF Q
  <2> QED BY <1>1, <1>2, <2>1
<1>4. Q[lo - 1] = 0
  BY <1>0, <1>2
<1>5. ASSUME NEW i \in lo..hi PROVE Q[i] = Q[i - 1] + g[i]
  <2>0. /\ i \in D /\ i - 1 \in D /\ P[i] = P[i - 1] + f[i]
        /\ P[i] \in Nat /\ P[i - 1] \in Nat /\ f[i] \in Nat
    BY <1>0
  <2>1. CASE i = k
    BY <1>0, <1>1, <1>2, <2>0, <2>1
  <2>2. CASE i > k
    <3>1. Q[i] = P[i] + (g[k] - f[k]) /\ Q[i - 1] = P[i - 1] + (g[k] - f[k]) /\ g[i] = f[i]
      BY <1>1, <2>0, <2>2
    <3> QED BY <1>0, <2>0, <3>1
  <2>3. CASE i < k
    <3>1. Q[i] = P[i] /\ Q[i - 1] = P[i - 1] /\ g[i] = f[i]
      BY <1>2, <2>0, <2>3
    <3> QED BY <2>0, <3>1
  <2> QED BY <2>1, <2>2, <2>3
<1>6. ASSUME NEW i \in D, NEW j \in D, i <= j PROVE Q[i] <= Q[j]
  <2>0. P[i] \in Nat /\ P[j] \in Nat /\ P[k - 1] \in Nat /\ P[i] <= P[j]
    BY <1>0, <1>6
  <2>1. CASE i >= k
    <3>1. j >= k
      BY <1>6, <2>1
    <3>2. Q[i] = P[i] + (g[k] - f[k]) /\ Q[j] = P[j] + (g[k] - f[k])
      BY <1>1, <2>1, <3>1
    <3> QED BY <1>0, <2>0, <3>2
  <2>2. CASE ~(i >= k) /\ j >= k
    BY <1>1, <1>2, <2>0, <2>2, <1>3
  <2>3. CASE ~(i >= k) /\ ~(j >= k)
    BY <1>2, <2>0, <2>3
  <2> QED BY <2>1, <2>2, <2>3
<1>7. PartialSums(Q, g, lo, hi)
  BY <1>3, <1>4, <1>5, <1>6 DEF PartialSums
<1> QED BY <1>0, <1>1, <1>7

-----------------------------------------------------------------------------
(* The deliveries that the copies of a message can still lead to. *)

\* The deliveries one copy can lead to, if nothing takes one of them back.
Value(k) == IF k >= MaxAttempts THEN 1 ELSE MaxAttempts - k + 1

\* A copy in a queue is worth all of them.  One that a worker has been given
\* has used one up, and while it may come to be retried is worth the rest.
Owed(w, ready, given) == w * ready + (w - 1) * given

Holds(c, x) == live[c] /\ pc[c] \in {"handling", "failing"} /\ held[c] = x

Holders(x) == {c \in Consumers : Holds(c, x)}

Stock(x) == queue[x] + waiting[x]

Due(x) == Owed(Value(x.attempt), Stock(x), Cardinality(Holders(x)))

\* The attempt counts a message with a number in its header can have.
LastAttempt(m) == IF FirstAttempt[m] >= MaxAttempts THEN FirstAttempt[m] ELSE MaxAttempts

CopyOf(m, k) == [message |-> m, attempt |-> k]

DueOf(m) == [k \in FirstAttempt[m]..LastAttempt(m) |-> Due(CopyOf(m, k))]

\* What a message was delivered, and what its copies can still lead to, are
\* within the worth of its publications and of the deliveries taken back.
WithinWorth(m) ==
    \E P : /\ PartialSums(P, DueOf(m), FirstAttempt[m], LastAttempt(m))
           /\ deliveries[m] + P[LastAttempt(m)] <= Worth(m) * (sent[m] + breaks[m])

Numbered == {m \in Messages : FirstAttempt[m] # Garbled}

HoldersFinite == \A x \in Copies : IsFiniteSet(Holders(x))

BudgetKept == HoldersFinite /\ \A m \in Numbered : WithinWorth(m)

LEMMA ValueType ==
    ASSUME NEW k \in Int
    PROVE  /\ Value(k) \in Nat /\ Value(k) >= 1
           /\ k < MaxAttempts => Value(k + 1) = Value(k) - 1
           /\ \A i \in Int : i <= k => Value(k) <= Value(i)
BY AttemptsAssumption DEF Value

LEMMA NumberedMessage ==
    ASSUME NEW m \in Numbered
    PROVE  /\ FirstAttempt[m] \in Int /\ LastAttempt(m) \in Int
           /\ FirstAttempt[m] <= LastAttempt(m)
           /\ Attempts(m) = FirstAttempt[m]..LastAttempt(m)
           /\ Worth(m) = Value(FirstAttempt[m]) /\ Worth(m) \in Nat
<1>1. FirstAttempt[m] \in Int
  BY AttemptsAssumption DEF Numbered
<1>2. FirstAttempt[m] # Garbled
  BY DEF Numbered
<1> QED BY <1>1, <1>2, AttemptsAssumption DEF LastAttempt, Attempts, Worth, Value

\* The copies of such a message are those with an attempt in its range.
LEMMA NumberedCopy ==
    ASSUME NEW m \in Numbered
    PROVE  /\ \A k \in FirstAttempt[m]..LastAttempt(m) :
                 /\ CopyOf(m, k) \in Copies
                 /\ CopyOf(m, k).message = m /\ CopyOf(m, k).attempt = k
           /\ \A x \in Copies : x.message = m =>
                 /\ x.attempt \in FirstAttempt[m]..LastAttempt(m)
                 /\ x = CopyOf(m, x.attempt)
                 /\ x.attempt # Garbled /\ x.attempt \in Int
<1>0. m \in Messages /\ Attempts(m) = FirstAttempt[m]..LastAttempt(m)
  BY NumberedMessage DEF Numbered
<1>1. ASSUME NEW k \in FirstAttempt[m]..LastAttempt(m)
      PROVE  /\ CopyOf(m, k) \in Copies
             /\ CopyOf(m, k).message = m /\ CopyOf(m, k).attempt = k
  <2>1. CopyOf(m, k) \in [message : {m}, attempt : Attempts(m)]
    BY <1>0 DEF CopyOf
  <2> QED BY <1>0, <2>1 DEF Copies, CopyOf
<1>2. ASSUME NEW x \in Copies, x.message = m
      PROVE  /\ x.attempt \in FirstAttempt[m]..LastAttempt(m)
             /\ x = CopyOf(m, x.attempt)
             /\ x.attempt # Garbled /\ x.attempt \in Int
  <2>1. PICK n \in Messages : x \in [message : {n}, attempt : Attempts(n)]
    BY DEF Copies
  <2>2. n = m /\ x.attempt \in FirstAttempt[m]..LastAttempt(m) /\ x = CopyOf(m, x.attempt)
    BY <1>0, <1>2, <2>1 DEF CopyOf
  <2>3. FirstAttempt[m] \in Int /\ LastAttempt(m) \in Int
    BY NumberedMessage
  <2> QED BY <2>2, <2>3, AttemptsAssumption
<1> QED BY <1>1, <1>2

\* One worker more or less.
LEMMA OneMember ==
    ASSUME NEW S, NEW T, NEW c, IsFiniteSet(S), \A d : d # c => (d \in S <=> d \in T)
    PROVE  /\ IsFiniteSet(T) /\ Cardinality(S) \in Nat /\ Cardinality(T) \in Nat
           /\ (c \in S <=> c \in T) => Cardinality(T) = Cardinality(S)
           /\ c \notin S /\ c \in T => Cardinality(T) = Cardinality(S) + 1
           /\ c \in S /\ c \notin T => Cardinality(T) = Cardinality(S) - 1
<1>0. Cardinality(S) \in Nat
  BY FS_CardinalityType
<1>1. CASE c \in S <=> c \in T
  <2>1. S = T
    BY <1>1
  <2> QED BY <1>0, <1>1, <2>1
<1>2. CASE c \notin S /\ c \in T
  <2>1. T = S \cup {c}
    BY <1>2
  <2> QED BY <1>0, <1>2, <2>1, FS_AddElement, FS_CardinalityType
<1>3. CASE c \in S /\ c \notin T
  <2>1. T = S \ {c}
    BY <1>3
  <2> QED BY <1>0, <1>3, <2>1, FS_RemoveElement, FS_CardinalityType
<1> QED BY <1>1, <1>2, <1>3

LEMMA OwedBy ==
    ASSUME NEW w \in Nat, w >= 1, NEW q \in Nat, NEW h \in Nat
    PROVE  /\ Owed(w, q, h) \in Nat
           /\ Owed(w, q + 1, h) = Owed(w, q, h) + w
           /\ Owed(w, q, h + 1) = Owed(w, q, h) + (w - 1)
           /\ h >= 1 => Owed(w, q, h - 1) = Owed(w, q, h) - (w - 1)
           /\ h >= 1 => Owed(w, q + 1, h - 1) = Owed(w, q, h) + 1
           /\ q >= 1 => Owed(w, q - 1, h + 1) = Owed(w, q, h) - 1
<1> DEFINE v == w - 1
<1>1. v \in Nat /\ w = v + 1
  OBVIOUS
<1>2. w * q \in Nat /\ v * h \in Nat
  BY <1>1
<1>3. w * (q + 1) = w * q + w /\ w * (q - 1) = w * q - w
  OBVIOUS
<1>4. v * (h + 1) = v * h + v /\ v * (h - 1) = v * h - v
  BY <1>1
<1> QED BY <1>1, <1>2, <1>3, <1>4 DEF Owed

\* What a copy of a numbered message may lead to is a number, now and after a
\* step that leaves the holders of each copy finite in number.
LEMMA DueType ==
    ASSUME TypeOK, HoldersFinite, NEW m \in Numbered, NEW x \in Copies, x.message = m
    PROVE  /\ Due(x) \in Nat /\ Cardinality(Holders(x)) \in Nat
           /\ Stock(x) \in Nat
           /\ Value(x.attempt) \in Nat /\ Value(x.attempt) >= 1
           /\ Value(x.attempt) <= Worth(m)
<1>1. Stock(x) \in Nat
  BY DEF TypeOK, Stock
<1>2. Cardinality(Holders(x)) \in Nat
  BY FS_CardinalityType DEF HoldersFinite
<1>3. /\ x.attempt \in Int /\ FirstAttempt[m] \in Int /\ FirstAttempt[m] <= x.attempt
      /\ Worth(m) = Value(FirstAttempt[m])
  BY NumberedCopy, NumberedMessage
<1>4. Value(x.attempt) \in Nat /\ Value(x.attempt) >= 1 /\ Value(x.attempt) <= Worth(m)
  BY <1>3, ValueType
<1> QED BY <1>1, <1>2, <1>4, OwedBy DEF Due

LEMMA DueOfType ==
    ASSUME TypeOK, HoldersFinite, NEW m \in Numbered
    PROVE  /\ DueOf(m) \in [FirstAttempt[m]..LastAttempt(m) -> Nat]
           /\ \A x \in Copies : x.message = m =>
                 Due(x) \in Nat /\ DueOf(m)[x.attempt] = Due(x)
<1>1. \A k \in FirstAttempt[m]..LastAttempt(m) : Due(CopyOf(m, k)) \in Nat
  BY NumberedCopy, DueType
<1>2. \A x \in Copies : x.message = m => Due(x) \in Nat /\ DueOf(m)[x.attempt] = Due(x)
  BY NumberedCopy, DueType DEF DueOf
<1> QED BY <1>1, <1>2 DEF DueOf

\* The same of the state a step leads to.
DueTyped ==
    \A m \in Numbered :
        /\ DueOf(m) \in [FirstAttempt[m]..LastAttempt(m) -> Nat]
        /\ \A x \in Copies : x.message = m =>
              Due(x) \in Nat /\ DueOf(m)[x.attempt] = Due(x)

LEMMA DueTypedNext == TypeOK' /\ HoldersFinite' => DueTyped'
<1>1. TypeOK /\ HoldersFinite => DueTyped
  BY DueOfType DEF DueTyped
<1> QED BY <1>1, PTL

\* A step may publish the message or take a delivery of it back.
Gains(m, g) ==
    \/ g = 0 /\ sent'[m] + breaks'[m] = sent[m] + breaks[m]
    \/ g = Worth(m) /\ sent'[m] + breaks'[m] = sent[m] + breaks[m] + 1

LEMMA Gained ==
    ASSUME TypeOK, NEW m \in Numbered, NEW g, Gains(m, g)
    PROVE  /\ g \in Nat
           /\ Worth(m) * (sent[m] + breaks[m]) \in Nat
           /\ Worth(m) * (sent'[m] + breaks'[m]) = Worth(m) * (sent[m] + breaks[m]) + g
<1> DEFINE w == Worth(m)
           n == sent[m] + breaks[m]
<1>1. w \in Nat /\ n \in Nat
  BY NumberedMessage DEF TypeOK, Numbered
<1> HIDE DEF w, n
<1>2. w * n \in Nat /\ w * (n + 1) = w * n + w
  BY <1>1
<1>3. w * n = Worth(m) * (sent[m] + breaks[m])
  BY DEF w, n
<1> QED BY <1>1, <1>2, <1>3 DEF Gains, w, n

\* A step keeps a message within its worth if it adds no more deliveries and
\* deliveries to come than it gains, whether it changes what no copy of the
\* message, one copy or two copies can lead to.
LEMMA WithinStepNone ==
    ASSUME TypeOK, TypeOK', HoldersFinite, HoldersFinite', NEW m \in Numbered, WithinWorth(m),
           \A x \in Copies : x.message = m => Due(x)' = Due(x),
           NEW g, Gains(m, g), deliveries'[m] <= deliveries[m] + g
    PROVE  WithinWorth(m)'
<1>1. DueOf(m)' = DueOf(m)
  BY NumberedCopy DEF DueOf
<1>2. PICK P : /\ PartialSums(P, DueOf(m), FirstAttempt[m], LastAttempt(m))
               /\ deliveries[m] + P[LastAttempt(m)] <= Worth(m) * (sent[m] + breaks[m])
  BY DEF WithinWorth
<1>3. P[LastAttempt(m)] \in Nat /\ deliveries[m] \in Nat /\ deliveries'[m] \in Nat
  BY <1>2, NumberedMessage DEF PartialSums, TypeOK, Numbered
<1>4. /\ g \in Nat /\ Worth(m) * (sent[m] + breaks[m]) \in Nat
      /\ Worth(m) * (sent'[m] + breaks'[m]) = Worth(m) * (sent[m] + breaks[m]) + g
  BY Gained
<1>5. deliveries'[m] + P[LastAttempt(m)] <= Worth(m) * (sent'[m] + breaks'[m])
  BY <1>2, <1>3, <1>4
<1> QED BY <1>1, <1>2, <1>5 DEF WithinWorth

LEMMA WithinStepOne ==
    ASSUME TypeOK, TypeOK', HoldersFinite, HoldersFinite', NEW m \in Numbered, WithinWorth(m),
           NEW x \in Copies, x.message = m,
           \A y \in Copies : y.message = m /\ y # x => Due(y)' = Due(y),
           NEW g, Gains(m, g),
           deliveries'[m] + (Due(x)' - Due(x)) <= deliveries[m] + g
    PROVE  WithinWorth(m)'
<1> DEFINE lo == FirstAttempt[m]
           hi == LastAttempt(m)
           k == x.attempt
<1>0. /\ lo \in Int /\ hi \in Int /\ k \in lo..hi /\ lo <= hi
  BY NumberedMessage, NumberedCopy
<1>1. DueOf(m) \in [lo..hi -> Nat] /\ DueOf(m)' \in [lo..hi -> Nat]
  BY DueOfType, DueTypedNext DEF DueTyped
<1>2. DueOf(m)[k] = Due(x) /\ DueOf(m)'[k] = Due(x)'
  BY DueOfType, DueTypedNext DEF DueTyped
<1>3. \A i \in lo..hi : i # k => DueOf(m)'[i] = DueOf(m)[i]
  BY NumberedCopy DEF DueOf
<1>4. PICK P : /\ PartialSums(P, DueOf(m), lo, hi)
               /\ deliveries[m] + P[hi] <= Worth(m) * (sent[m] + breaks[m])
  BY DEF WithinWorth
<1>5. PICK Q : /\ PartialSums(Q, DueOf(m)', lo, hi)
               /\ Q[hi] = P[hi] + (DueOf(m)'[k] - DueOf(m)[k])
  <2> DEFINE f == DueOf(m)
             h == DueOf(m)'
  <2> HIDE DEF lo, hi, k
  <2>2. /\ f \in [lo..hi -> Nat] /\ h \in [lo..hi -> Nat]
        /\ PartialSums(P, f, lo, hi)
    BY <1>1, <1>4
  <2>3. \A i \in lo..hi : i # k => h[i] = f[i]
    BY <1>3
  <2> HIDE DEF f, h
  <2>4. \E Q : PartialSums(Q, h, lo, hi) /\ Q[hi] = P[hi] + (h[k] - f[k])
    BY <1>0, <2>2, <2>3, SumChangesAt
  <2> QED BY <2>4 DEF f, h
<1>6. P[hi] \in Nat /\ deliveries[m] \in Nat /\ deliveries'[m] \in Nat
  <2>1. P \in [(lo - 1)..hi -> Nat]
    BY <1>4 DEF PartialSums
  <2>2. hi \in (lo - 1)..hi
    BY <1>0
  <2> QED BY <2>1, <2>2 DEF TypeOK, Numbered
<1>7. /\ g \in Nat /\ Worth(m) * (sent[m] + breaks[m]) \in Nat
      /\ Worth(m) * (sent'[m] + breaks'[m]) = Worth(m) * (sent[m] + breaks[m]) + g
  BY Gained
<1>8. Due(x) \in Nat /\ Due(x)' \in Nat
  BY DueOfType, DueTypedNext DEF DueTyped
<1>9. deliveries'[m] + Q[hi] <= Worth(m) * (sent'[m] + breaks'[m])
  BY <1>2, <1>4, <1>5, <1>6, <1>7, <1>8
<1> QED BY <1>5, <1>9 DEF WithinWorth

LEMMA WithinStepTwo ==
    ASSUME TypeOK, TypeOK', HoldersFinite, HoldersFinite', NEW m \in Numbered, WithinWorth(m),
           NEW x \in Copies, NEW y \in Copies, x.message = m, y.message = m,
           x.attempt # y.attempt,
           \A z \in Copies : z.message = m /\ z # x /\ z # y => Due(z)' = Due(z),
           NEW g, Gains(m, g),
           deliveries'[m] + (Due(x)' - Due(x)) + (Due(y)' - Due(y)) <= deliveries[m] + g
    PROVE  WithinWorth(m)'
<1> DEFINE lo == FirstAttempt[m]
           hi == LastAttempt(m)
           j == x.attempt
           k == y.attempt
<1>0. /\ lo \in Int /\ hi \in Int /\ j \in lo..hi /\ k \in lo..hi /\ lo <= hi
  BY NumberedMessage, NumberedCopy
<1>1. DueOf(m) \in [lo..hi -> Nat] /\ DueOf(m)' \in [lo..hi -> Nat]
  BY DueOfType, DueTypedNext DEF DueTyped
<1>2. /\ DueOf(m)[j] = Due(x) /\ DueOf(m)'[j] = Due(x)'
      /\ DueOf(m)[k] = Due(y) /\ DueOf(m)'[k] = Due(y)'
  BY DueOfType, DueTypedNext DEF DueTyped
<1>3. \A i \in lo..hi : i # j /\ i # k => DueOf(m)'[i] = DueOf(m)[i]
  BY NumberedCopy DEF DueOf
<1>4. PICK P : /\ PartialSums(P, DueOf(m), lo, hi)
               /\ deliveries[m] + P[hi] <= Worth(m) * (sent[m] + breaks[m])
  BY DEF WithinWorth
<1>5. PICK Q : /\ PartialSums(Q, DueOf(m)', lo, hi)
               /\ Q[hi] = P[hi] + (DueOf(m)'[j] - DueOf(m)[j]) + (DueOf(m)'[k] - DueOf(m)[k])
  <2>1. j # k
    OBVIOUS
  <2> DEFINE f == DueOf(m)
             h == DueOf(m)'
  <2> HIDE DEF lo, hi, j, k
  <2>2. /\ f \in [lo..hi -> Nat] /\ h \in [lo..hi -> Nat]
        /\ PartialSums(P, f, lo, hi)
    BY <1>1, <1>4
  <2>3. \A i \in lo..hi : i # j /\ i # k => h[i] = f[i]
    BY <1>3
  <2> HIDE DEF f, h
  <2>4. \E Q : PartialSums(Q, h, lo, hi) /\ Q[hi] = P[hi] + (h[j] - f[j]) + (h[k] - f[k])
    <3> DEFINE e == [f EXCEPT ![j] = h[j]]
    <3>1. /\ e[j] = h[j] /\ e[k] = f[k]
          /\ \A i \in lo..hi : i # j => e[i] = f[i]
          /\ \A i \in lo..hi : i # k => h[i] = e[i]
      BY <1>0, <2>1, <2>2, <2>3
    <3>2. e \in [lo..hi -> Nat]
      BY <1>0, <2>2
    <3> HIDE DEF e
    <3>3. PICK R : PartialSums(R, e, lo, hi) /\ R[hi] = P[hi] + (e[j] - f[j])
      BY <1>0, <2>2, <3>1, <3>2, SumChangesAt
    <3>4. PICK Q : PartialSums(Q, h, lo, hi) /\ Q[hi] = R[hi] + (h[k] - e[k])
      BY <1>0, <2>2, <3>1, <3>2, <3>3, SumChangesAt
    <3> QED BY <3>1, <3>3, <3>4
  <2> QED BY <2>4 DEF f, h
<1>6. P[hi] \in Nat /\ deliveries[m] \in Nat /\ deliveries'[m] \in Nat
  <2>1. P \in [(lo - 1)..hi -> Nat]
    BY <1>4 DEF PartialSums
  <2>2. hi \in (lo - 1)..hi
    BY <1>0
  <2> QED BY <2>1, <2>2 DEF TypeOK, Numbered
<1>7. /\ g \in Nat /\ Worth(m) * (sent[m] + breaks[m]) \in Nat
      /\ Worth(m) * (sent'[m] + breaks'[m]) = Worth(m) * (sent[m] + breaks[m]) + g
  BY Gained
<1>8. Due(x) \in Nat /\ Due(x)' \in Nat /\ Due(y) \in Nat /\ Due(y)' \in Nat
  BY DueOfType, DueTypedNext DEF DueTyped
<1>9. deliveries'[m] + Q[hi] <= Worth(m) * (sent'[m] + breaks'[m])
  BY <1>2, <1>4, <1>5, <1>6, <1>7, <1>8
<1> QED BY <1>5, <1>9 DEF WithinWorth

-----------------------------------------------------------------------------
(* Every step keeps every message within its worth. *)

WorkerStep(c) == ConsumerStep(c) \/ ConnectionLost(c) \/ Crash(c)

\* A step of one worker changes what no other holds.
LEMMA OthersHold ==
    ASSUME IInv, NEW c \in Consumers, WorkerStep(c), NEW d \in Consumers, d # c
    PROVE  \A x : Holds(d, x)' <=> Holds(d, x)
<1>1. live'[d] = live[d] /\ pc'[d] = pc[d] /\ held'[d] = held[d]
  BY DEF IInv, TypeOK, WorkerStep, ConsumerStep, Start, Receive, Handle, Fails, Republish, Ack,
         BadHeader, Disconnected, ConnectionLost, Crash, Down
<1> QED BY <1>1 DEF Holds

\* So the holders of a copy change by at most the worker that takes the step.
LEMMA HoldersStep ==
    ASSUME IInv, HoldersFinite, NEW c \in Consumers, WorkerStep(c), NEW x \in Copies
    PROVE  /\ IsFiniteSet(Holders(x)')
           /\ Cardinality(Holders(x)) \in Nat
           /\ (Holds(c, x)' <=> Holds(c, x)) => Cardinality(Holders(x))' = Cardinality(Holders(x))
           /\ ~Holds(c, x) /\ Holds(c, x)' => Cardinality(Holders(x))' = Cardinality(Holders(x)) + 1
           /\ Holds(c, x) /\ ~Holds(c, x)' => /\ Cardinality(Holders(x))' = Cardinality(Holders(x)) - 1
                                             /\ Cardinality(Holders(x)) >= 1
<1> DEFINE S == Holders(x)
           T == Holders(x)'
<1>1. IsFiniteSet(S)
  BY DEF HoldersFinite
<1>2. \A d : d # c => (d \in S <=> d \in T)
  BY OthersHold DEF Holders
<1>3. (c \in S <=> Holds(c, x)) /\ (c \in T <=> Holds(c, x)')
  BY DEF Holders
<1> HIDE DEF S, T
<1>4. /\ IsFiniteSet(T) /\ Cardinality(S) \in Nat /\ Cardinality(T) \in Nat
      /\ (c \in S <=> c \in T) => Cardinality(T) = Cardinality(S)
      /\ c \notin S /\ c \in T => Cardinality(T) = Cardinality(S) + 1
      /\ c \in S /\ c \notin T => Cardinality(T) = Cardinality(S) - 1
  BY <1>1, <1>2, OneMember
<1>5. /\ IsFiniteSet(T) /\ Cardinality(S) \in Nat
      /\ (Holds(c, x)' <=> Holds(c, x)) => Cardinality(T) = Cardinality(S)
      /\ ~Holds(c, x) /\ Holds(c, x)' => Cardinality(T) = Cardinality(S) + 1
      /\ Holds(c, x) /\ ~Holds(c, x)' => Cardinality(T) = Cardinality(S) - 1 /\ Cardinality(S) >= 1
  BY <1>3, <1>4
<1> QED BY <1>5 DEF S, T

\* What the step makes of the deliveries a copy can lead to.
LEMMA DueStep ==
    ASSUME IInv, HoldersFinite, NEW c \in Consumers, WorkerStep(c),
           NEW m \in Numbered, NEW x \in Copies, x.message = m
    PROVE  /\ Stock(x)' = Stock(x) /\ (Holds(c, x)' <=> Holds(c, x)) => Due(x)' = Due(x)
           /\ Stock(x)' = Stock(x) /\ Holds(c, x) /\ ~Holds(c, x)' => Due(x)' = Due(x) - (Value(x.attempt) - 1)
           /\ Stock(x)' = Stock(x) + 1 /\ Holds(c, x) /\ ~Holds(c, x)' => Due(x)' = Due(x) + 1
           /\ Stock(x)' = Stock(x) + 1 /\ (Holds(c, x)' <=> Holds(c, x)) => Due(x)' = Due(x) + Value(x.attempt)
           /\ Stock(x)' = Stock(x) - 1 /\ Stock(x) >= 1
              /\ ~Holds(c, x) /\ Holds(c, x)' => Due(x)' = Due(x) - 1
<1> DEFINE w == Value(x.attempt)
           h == Cardinality(Holders(x))
           i == Cardinality(Holders(x))'
           n == Stock(x)
           k == Stock(x)'
<1>1. w \in Nat /\ w >= 1 /\ n \in Nat /\ h \in Nat
  BY DueType DEF IInv
<1>2. Due(x) = Owed(w, n, h) /\ Due(x)' = Owed(w, k, i)
  BY DEF Due
<1>3. /\ (Holds(c, x)' <=> Holds(c, x)) => i = h
      /\ ~Holds(c, x) /\ Holds(c, x)' => i = h + 1
      /\ Holds(c, x) /\ ~Holds(c, x)' => i = h - 1 /\ h >= 1
  BY HoldersStep
<1> HIDE DEF w, h, i, n, k
<1>4. /\ Owed(w, n, h) \in Nat
      /\ Owed(w, n + 1, h) = Owed(w, n, h) + w
      /\ h >= 1 => Owed(w, n, h - 1) = Owed(w, n, h) - (w - 1)
      /\ h >= 1 => Owed(w, n + 1, h - 1) = Owed(w, n, h) + 1
      /\ n >= 1 => Owed(w, n - 1, h + 1) = Owed(w, n, h) - 1
  BY <1>1, OwedBy
<1>5. w = Value(x.attempt) /\ n = Stock(x) /\ k = Stock(x)'
  BY DEF w, n, k
<1> QED BY <1>2, <1>3, <1>4, <1>5

\* Nothing, of a copy that stays where it was;
LEMMA DueSame ==
    ASSUME IInv, HoldersFinite, NEW c \in Consumers, WorkerStep(c),
           NEW m \in Numbered, NEW x \in Copies, x.message = m,
           Stock(x)' = Stock(x), Holds(c, x)' <=> Holds(c, x)
    PROVE  Due(x)' = Due(x)
BY DueStep

\* the retries, of one that is in hand no more;
LEMMA DueReleased ==
    ASSUME IInv, HoldersFinite, NEW c \in Consumers, WorkerStep(c),
           NEW m \in Numbered, NEW x \in Copies, x.message = m,
           Stock(x)' = Stock(x), Holds(c, x), ~Holds(c, x)'
    PROVE  Due(x)' = Due(x) - (Value(x.attempt) - 1)
BY DueStep

\* all but the delivery before, of one that is taken back;
LEMMA DueReturned ==
    ASSUME IInv, HoldersFinite, NEW c \in Consumers, WorkerStep(c),
           NEW m \in Numbered, NEW x \in Copies, x.message = m,
           Stock(x)' = Stock(x) + 1, Holds(c, x), ~Holds(c, x)'
    PROVE  Due(x)' = Due(x) + 1
BY DueStep

\* all of it, of one that arrives in a queue.
LEMMA DueArrived ==
    ASSUME IInv, HoldersFinite, NEW c \in Consumers, WorkerStep(c),
           NEW m \in Numbered, NEW x \in Copies, x.message = m,
           Stock(x)' = Stock(x) + 1, Holds(c, x)' <=> Holds(c, x)
    PROVE  Due(x)' = Due(x) + Value(x.attempt)
BY DueStep

\* What every lemma about a worker's step starts from.
Ready(c, m) ==
    /\ IInv /\ TypeOK' /\ HoldersFinite /\ HoldersFinite'
    /\ c \in Consumers /\ WorkerStep(c)
    /\ m \in Numbered /\ WithinWorth(m)

\* A step that touches no queue changes nothing, if the worker has no delivery
\* in hand that may still be retried.
LEMMA NeutralStep ==
    ASSUME NEW c, NEW m, Ready(c, m),
           UNCHANGED <<queue, waiting, sent, deliveries, breaks>>,
           pc[c] \notin {"handling", "failing"} \/ ~live[c],
           pc'[c] \notin {"handling", "failing"}
    PROVE  WithinWorth(m)'
<1>0. c \in Consumers /\ m \in Numbered /\ IInv /\ TypeOK /\ HoldersFinite /\ WorkerStep(c)
  BY DEF Ready, IInv
<1>1. \A y \in Copies : ~Holds(c, y) /\ ~Holds(c, y)' /\ Stock(y)' = Stock(y)
  BY DEF Holds, Stock
<1>2. ASSUME NEW y \in Copies, y.message = m PROVE Due(y)' = Due(y)
  BY <1>0, <1>1, <1>2, DueSame
<1>3. Gains(m, 0) /\ deliveries'[m] <= deliveries[m] + 0
  BY <1>0 DEF Gains, TypeOK, Numbered
<1> QED BY <1>0, <1>2, <1>3, WithinStepNone DEF Ready

\* A delivery uses up one of those its copy can lead to.
LEMMA ReceiveStep ==
    ASSUME NEW c, NEW m, Ready(c, m), NEW x \in Copies, Receive(c, x)
    PROVE  WithinWorth(m)'
<1>0. /\ c \in Consumers /\ m \in Numbered /\ m \in Messages
      /\ IInv /\ TypeOK /\ WorkersOK /\ HoldersFinite /\ WorkerStep(c)
  BY DEF Ready, IInv, Numbered
<1>1. /\ queue' = [queue EXCEPT ![x] = queue[x] - 1] /\ waiting' = waiting
      /\ queue \in [Copies -> Nat] /\ waiting \in [Copies -> Nat] /\ queue[x] > 0
      /\ deliveries' = CountCopy(deliveries, x) /\ sent' = sent /\ breaks' = breaks
      /\ deliveries \in [Messages -> Nat]
  BY <1>0 DEF Receive, Drop, TypeOK
<1>2. \A y \in Copies : ~Holds(c, y) /\ (Holds(c, y)' <=> y = x)
  BY <1>0 DEF Receive, Holds, TypeOK
<1>3. ASSUME NEW y \in Copies, y.message = m, y # x PROVE Due(y)' = Due(y)
  BY <1>0, <1>1, <1>2, <1>3, DueStep DEF Stock
<1>4. Gains(m, 0)
  BY <1>1 DEF Gains
<1>5. CASE x.message = m
  <2>1. Due(x)' = Due(x) - 1
    <3>1. Stock(x)' = Stock(x) - 1 /\ Stock(x) >= 1
      BY <1>1 DEF Stock
    <3> QED BY <1>0, <1>2, <1>5, <3>1, DueStep DEF Stock
  <2>2. deliveries'[m] = deliveries[m] + 1
    BY <1>0, <1>1, <1>5, NumberedCopy DEF CountCopy, Count
  <2>3. Due(x) \in Nat /\ deliveries[m] \in Nat
    BY <1>0, <1>1, <1>5, DueType
  <2>4. deliveries'[m] + (Due(x)' - Due(x)) <= deliveries[m] + 0
    BY <2>1, <2>2, <2>3
  <2> QED BY <1>0, <1>3, <1>4, <1>5, <2>4, WithinStepOne DEF Ready
<1>6. CASE x.message # m
  <2>1. deliveries'[m] = deliveries[m]
    BY <1>0, <1>1, <1>6 DEF CountCopy, Count
  <2>2. deliveries'[m] <= deliveries[m] + 0
    BY <1>0, <1>1, <2>1
  <2> QED BY <1>0, <1>3, <1>4, <1>6, <2>2, WithinStepNone DEF Ready
<1> QED BY <1>5, <1>6

\* Handling a delivery, with or without success, adds no delivery to come.
LEMMA HandleStep ==
    ASSUME NEW c, NEW m, Ready(c, m), Handle(c)
    PROVE  WithinWorth(m)'
<1> DEFINE x == held[c]
<1>0. /\ c \in Consumers /\ m \in Numbered /\ m \in Messages
      /\ IInv /\ TypeOK /\ WorkersOK /\ HoldersFinite /\ WorkerStep(c)
  BY DEF Ready, IInv, Numbered
<1>1. /\ UNCHANGED <<queue, waiting, held, live, sent, deliveries, breaks>>
      /\ pc[c] = "handling" /\ x \in Copies
  BY <1>0 DEF Handle, broker, tally, WorkersOK
<1>2. ASSUME NEW y \in Copies, y.message = m, y # x PROVE Due(y)' = Due(y)
  BY <1>0, <1>1, <1>2, DueStep DEF Holds, Stock
<1>3. Gains(m, 0)
  BY <1>1 DEF Gains
<1>4. CASE x.message = m
  <2>1. Due(x)' = Due(x) \/ Due(x)' = Due(x) - (Value(x.attempt) - 1)
    <3>1. Holds(c, x)' => Holds(c, x)
      BY <1>1 DEF Holds
    <3> QED BY <1>0, <1>1, <1>4, <3>1, DueStep DEF Stock
  <2>2. Due(x) \in Nat /\ Value(x.attempt) \in Nat /\ Value(x.attempt) >= 1 /\ deliveries[m] \in Nat
    BY <1>0, <1>1, <1>4, DueType DEF TypeOK
  <2>3. deliveries'[m] + (Due(x)' - Due(x)) <= deliveries[m] + 0
    BY <1>1, <2>1, <2>2
  <2> QED BY <1>0, <1>1, <1>2, <1>3, <1>4, <2>3, WithinStepOne DEF Ready
<1>5. CASE x.message # m
  <2>1. deliveries'[m] <= deliveries[m] + 0
    BY <1>0, <1>1 DEF TypeOK
  <2> QED BY <1>0, <1>2, <1>3, <1>5, <2>1, WithinStepNone DEF Ready
<1> QED BY <1>4, <1>5

\* A delivery taken back is worth no more than what the message gains by it.
LEMMA TakenBackStep ==
    ASSUME NEW c, NEW m, Ready(c, m), Requeue(c),
           UNCHANGED <<waiting, sent, deliveries>>, ~live'[c]
    PROVE  WithinWorth(m)'
<1>x. PICK x : x = held[c]
  OBVIOUS
<1>0. /\ c \in Consumers /\ m \in Numbered /\ m \in Messages
      /\ IInv /\ TypeOK /\ WorkersOK /\ HoldersFinite /\ WorkerStep(c)
      /\ \A y \in Copies : ~Holds(c, y)'
      /\ queue \in [Copies -> Nat] /\ waiting \in [Copies -> Nat]
      /\ deliveries[m] \in Nat /\ breaks \in [Messages -> Nat] /\ sent[m] \in Nat
  BY DEF Ready, IInv, Numbered, Holds, TypeOK
<1>1. CASE queue' = queue /\ breaks' = breaks /\ (~live[c] \/ x = None)
  <2>1. \A y \in Copies : ~Holds(c, y)
    BY <1>x, <1>1, NoneAssumption DEF Holds
  <2>2. \A y \in Copies : y.message = m => Due(y)' = Due(y)
    BY <1>0, <1>1, <2>1, DueStep DEF Stock
  <2>3. Gains(m, 0) /\ deliveries'[m] <= deliveries[m] + 0
    BY <1>0, <1>1 DEF Gains
  <2> QED BY <1>0, <2>2, <2>3, WithinStepNone DEF Ready
<1>2. CASE /\ live[c] /\ x # None
           /\ queue' = Put(queue, x) /\ breaks' = CountCopy(breaks, x)
  <2>0. x \in Copies
    BY <1>x, <1>0, <1>2 DEF TypeOK
  <2>1. \A y \in Copies : y # x => queue'[y] = queue[y] /\ ~Holds(c, y)
    BY <1>x, <1>0, <1>2, <2>0 DEF Put, Holds
  <2>2. \A y \in Copies : y.message = m /\ y # x => Due(y)' = Due(y)
    BY <1>0, <2>1, DueStep DEF Stock
  <2>3. CASE x.message = m
    <3>1. Gains(m, Worth(m))
      <4>1. x.attempt # Garbled
        BY <1>0, <2>0, <2>3, NumberedCopy
      <4>2. breaks'[m] = breaks[m] + 1
        BY <1>0, <1>2, <2>3, <4>1 DEF CountCopy, Count
      <4> QED BY <1>0, <4>2 DEF Gains
    <3>2. Due(x)' = Due(x) + 1 \/ Due(x)' = Due(x) + Value(x.attempt)
      <4>1. Stock(x)' = Stock(x) + 1
        BY <1>0, <1>2, <2>0 DEF Put, Stock
      <4> QED BY <1>0, <2>0, <2>3, <4>1, DueReturned, DueArrived
    <3>3. /\ Due(x) \in Nat /\ Value(x.attempt) \in Nat /\ Value(x.attempt) >= 1
          /\ Value(x.attempt) <= Worth(m) /\ Worth(m) \in Nat
      BY <1>0, <2>0, <2>3, DueType, NumberedMessage
    <3>4. deliveries'[m] + (Due(x)' - Due(x)) <= deliveries[m] + Worth(m)
      BY <1>0, <3>2, <3>3
    <3> QED BY <1>0, <2>0, <2>2, <2>3, <3>1, <3>4, WithinStepOne DEF Ready
  <2>4. CASE x.message # m
    <3>1. x.message \in Messages
      BY <2>0, CopyFields
    <3>2. breaks'[m] = breaks[m]
      BY <1>0, <1>2, <2>4, <3>1 DEF CountCopy, Count
    <3>3. Gains(m, 0) /\ deliveries'[m] <= deliveries[m] + 0
      BY <1>0, <3>2 DEF Gains
    <3> QED BY <1>0, <2>2, <2>4, <3>3, WithinStepNone DEF Ready
  <2> QED BY <2>3, <2>4
<1> QED BY <1>x, <1>1, <1>2 DEF Requeue

\* A failed delivery gives way to a retry copy worth one delivery less, whether
\* it is acknowledged after that or taken back as well.
LEMMA HandedOverStep ==
    ASSUME NEW c, NEW m, Ready(c, m),
           pc[c] = "failing", live[c], held[c].attempt # Garbled,
           HandOver(c) \/ waiting' = waiting,
           \/ queue' = queue /\ breaks' = breaks
           \/ queue' = Put(queue, held[c]) /\ breaks' = CountCopy(breaks, held[c]),
           UNCHANGED <<sent, deliveries>>,
           pc'[c] \notin {"handling", "failing"}
    PROVE  WithinWorth(m)'
<1>x. PICK x : x = held[c]
  OBVIOUS
<1> DEFINE v == Value(x.attempt)
<1>0. /\ c \in Consumers /\ m \in Numbered /\ m \in Messages /\ x \in Copies
      /\ IInv /\ TypeOK /\ WorkersOK /\ HoldersFinite /\ WorkerStep(c)
      /\ \A y \in Copies : ~Holds(c, y)' /\ (Holds(c, y) <=> y = x)
      /\ queue \in [Copies -> Nat] /\ waiting \in [Copies -> Nat]
      /\ deliveries[m] \in Nat /\ breaks \in [Messages -> Nat] /\ sent[m] \in Nat
  BY <1>x DEF Ready, IInv, Numbered, Holds, TypeOK, WorkersOK
<1>1. \A y \in Copies : y # x => queue'[y] = queue[y]
  BY <1>x, <1>0 DEF Put, Stock
<1>2. CASE x.message # m
  <2>1. x.message \in Messages
    BY <1>0, CopyFields
  <2>2. breaks'[m] = breaks[m]
    BY <1>x, <1>0, <1>2, <2>1 DEF CountCopy, Count
  <2>3. \A y \in Copies : y.message = m => waiting'[y] = waiting[y]
    BY <1>x, <1>0, <1>2, CopyFields DEF HandOver, Put
  <2>4. \A y \in Copies : y.message = m => Due(y)' = Due(y)
    BY <1>0, <1>1, <1>2, <2>3, DueStep DEF Stock
  <2>5. Gains(m, 0) /\ deliveries'[m] <= deliveries[m] + 0
    BY <1>0, <2>2 DEF Gains
  <2> QED BY <1>0, <2>4, <2>5, WithinStepNone DEF Ready
<1>3. CASE x.message = m
  <2>0. /\ Due(x) \in Nat /\ v \in Nat /\ v >= 1 /\ v <= Worth(m) /\ Worth(m) \in Nat
        /\ x.attempt \in Int
    BY <1>0, <1>3, DueType, NumberedMessage, NumberedCopy
  <2>1. ASSUME waiting'[x] = waiting[x]
        PROVE  \E g : /\ Gains(m, g) /\ g \in Nat
                      /\ Due(x)' \in Int /\ Due(x)' - Due(x) <= g - (v - 1)
    <3>1. CASE queue' = queue /\ breaks' = breaks
      <4>1. Due(x)' = Due(x) - (v - 1)
        <5>1. Stock(x)' = Stock(x)
          BY <2>1, <3>1 DEF Stock
        <5> QED BY <1>0, <1>3, <5>1, DueReleased
      <4>2. Gains(m, 0)
        BY <3>1 DEF Gains
      <4> QED BY <2>0, <4>1, <4>2
    <3>2. CASE queue' = Put(queue, x) /\ breaks' = CountCopy(breaks, x)
      <4>1. Stock(x)' = Stock(x) + 1
        BY <1>0, <2>1, <3>2 DEF Put, Stock
      <4>2. Due(x)' = Due(x) + 1
        BY <1>0, <1>3, <4>1, DueReturned
      <4>3. Gains(m, Worth(m))
        BY <1>x, <1>0, <1>3, <3>2 DEF Gains, CountCopy, Count
      <4> QED BY <2>0, <4>2, <4>3
    <3> QED BY <1>x, <3>1, <3>2
  <2>2. CASE waiting' = waiting
    <3>1. PICK g : /\ Gains(m, g) /\ g \in Nat
                   /\ Due(x)' \in Int /\ Due(x)' - Due(x) <= g - (v - 1)
      BY <2>1, <2>2
    <3>2. deliveries'[m] + (Due(x)' - Due(x)) <= deliveries[m] + g
      BY <1>0, <2>0, <3>1
    <3>3. \A y \in Copies : y.message = m /\ y # x => Due(y)' = Due(y)
      <4>1. \A y \in Copies : y # x => Stock(y)' = Stock(y)
        BY <1>1, <2>2 DEF Stock
      <4> QED BY <1>0, <4>1, DueSame
    <3> QED BY <1>0, <1>3, <3>1, <3>2, <3>3, WithinStepOne DEF Ready
  <2>3. CASE x.attempt < MaxAttempts /\ waiting' = Put(waiting, NextCopy(x))
    <3> DEFINE y == NextCopy(x)
    <3>1. y \in Copies /\ y.message = m
      BY <1>x, <1>0, <1>3, <2>3, CopyFields
    <3>2. y.attempt = x.attempt + 1
      <4>1. x = CopyOf(m, x.attempt)
        BY <1>0, <1>3, NumberedCopy
      <4> QED BY <4>1 DEF NextCopy, CopyOf
    <3>3. y # x /\ y.attempt # x.attempt
      BY <2>0, <3>2
    <3>4. Value(y.attempt) = v - 1
      BY <2>0, <2>3, <3>2, ValueType
    <3> HIDE DEF y
    <3>5. /\ waiting'[y] = waiting[y] + 1 /\ waiting'[x] = waiting[x]
          /\ \A z \in Copies : z # y => waiting'[z] = waiting[z]
      BY <1>0, <2>3, <3>1, <3>3 DEF Put, y
    <3>6. Stock(y)' = Stock(y) + 1
      BY <1>0, <1>1, <3>1, <3>3, <3>5 DEF Stock
    <3>7. Due(y)' = Due(y) + (v - 1) /\ Due(y) \in Nat
      BY <1>0, <3>1, <3>3, <3>4, <3>6, DueArrived, DueType
    <3>8. PICK g : /\ Gains(m, g) /\ g \in Nat
                   /\ Due(x)' \in Int /\ Due(x)' - Due(x) <= g - (v - 1)
      BY <2>1, <3>5
    <3>9. deliveries'[m] + (Due(x)' - Due(x)) + (Due(y)' - Due(y)) <= deliveries[m] + g
      BY <1>0, <2>0, <3>7, <3>8
    <3>10. \A z \in Copies : z.message = m /\ z # x /\ z # y => Due(z)' = Due(z)
      <4>1. \A z \in Copies : z # x /\ z # y => Stock(z)' = Stock(z)
        BY <1>1, <3>5 DEF Stock
      <4> QED BY <1>0, <4>1, DueSame
    <3> QED BY <1>0, <1>3, <3>1, <3>3, <3>8, <3>9, <3>10, WithinStepTwo DEF Ready
  <2> QED BY <1>x, <2>2, <2>3 DEF HandOver
<1> QED BY <1>2, <1>3

LEMMA WorkerStepBudget ==
    ASSUME NEW c, NEW m, Ready(c, m)
    PROVE  WithinWorth(m)'
<1>0. /\ c \in Consumers /\ IInv /\ TypeOK /\ WorkersOK /\ WorkerStep(c)
  BY DEF Ready, IInv
<1>1. CASE Start(c) \/ Ack(c) \/ Disconnected(c)
  <2>1. /\ UNCHANGED <<queue, waiting, sent, deliveries, breaks>>
        /\ pc[c] \notin {"handling", "failing"} \/ ~live[c]
        /\ pc'[c] \notin {"handling", "failing"}
    BY <1>0, <1>1 DEF Start, Ack, Disconnected, Down, broker, tally, TypeOK
  <2> QED BY <2>1, NeutralStep
<1>2. ASSUME NEW x \in Copies, Receive(c, x) PROVE WithinWorth(m)'
  BY <1>2, ReceiveStep
<1>3. CASE Handle(c)
  BY <1>3, HandleStep
<1>4. CASE Republish(c)
  <2>1. /\ pc[c] = "failing" /\ live[c] /\ held[c].attempt # Garbled
        /\ HandOver(c) \/ waiting' = waiting
        /\ queue' = queue /\ breaks' = breaks
        /\ UNCHANGED <<sent, deliveries>>
        /\ pc'[c] \notin {"handling", "failing"}
    BY <1>0, <1>4 DEF Republish, TypeOK
  <2> QED BY <2>1, HandedOverStep
<1>5. CASE BadHeader(c) \/ ConnectionLost(c)
  <2>1. Requeue(c) /\ UNCHANGED <<waiting, sent, deliveries>> /\ ~live'[c]
    BY <1>0, <1>5 DEF BadHeader, ConnectionLost, Down, TypeOK
  <2> QED BY <2>1, TakenBackStep
<1>6. CASE Crash(c)
  <2>0. UNCHANGED <<sent, deliveries>> /\ ~live'[c] /\ pc'[c] = "down"
    BY <1>0, <1>6 DEF Crash, Down, TypeOK
  <2>1. CASE Requeue(c) /\ waiting' = waiting
    BY <2>0, <2>1, TakenBackStep
  <2>2. CASE /\ pc[c] = "failing" /\ live[c] /\ held[c].attempt # Garbled
             /\ HandOver(c) /\ Requeue(c)
    <3>1. held[c] # None
      BY <1>0, <2>2, NoneAssumption DEF WorkersOK
    <3>2. queue' = Put(queue, held[c]) /\ breaks' = CountCopy(breaks, held[c])
      BY <2>2, <3>1 DEF Requeue
    <3>3. pc'[c] \notin {"handling", "failing"}
      BY <2>0
    <3> QED BY <2>0, <2>2, <3>2, <3>3, HandedOverStep
  <2>3. CASE pc[c] = "acking" /\ UNCHANGED <<queue, breaks, waiting>>
    <3>1. /\ UNCHANGED <<queue, waiting, sent, deliveries, breaks>>
          /\ pc[c] \notin {"handling", "failing"} \/ ~live[c]
          /\ pc'[c] \notin {"handling", "failing"}
      BY <2>0, <2>3
    <3> QED BY <3>1, NeutralStep
  <2> QED BY <1>6, <2>1, <2>2, <2>3 DEF Crash
<1> QED BY <1>0, <1>1, <1>2, <1>3, <1>4, <1>5, <1>6 DEF WorkerStep, ConsumerStep

\* Publications, other clients and the broker's clock.
LEMMA OutsideStepBudget ==
    ASSUME IInv, TypeOK', BudgetKept, NEW m \in Numbered,
           \/ \E n \in Messages : Publish(n) \/ RecordedByHttp(n)
           \/ \E x \in Copies : Expire(x)
           \/ UNCHANGED vars
    PROVE  HoldersFinite' /\ WithinWorth(m)'
<1>0. /\ m \in Messages /\ TypeOK /\ HoldersFinite /\ WithinWorth(m)
      /\ queue \in [Copies -> Nat] /\ waiting \in [Copies -> Nat]
      /\ sent \in [Messages -> Nat] /\ deliveries[m] \in Nat /\ breaks[m] \in Nat
  BY DEF IInv, BudgetKept, Numbered, TypeOK
<1>1. /\ UNCHANGED <<worker, deliveries, breaks>>
      /\ UNCHANGED sent \/ \E n \in Messages : Publish(n)
  BY DEF Publish, RecordedByHttp, Expire, vars, tally
<1>2. \A x : Holders(x)' = Holders(x)
  BY <1>1 DEF Holders, Holds, worker
<1>3. HoldersFinite'
  BY <1>0, <1>2 DEF HoldersFinite
<1>4. ASSUME NEW x \in Copies, Stock(x)' = Stock(x) PROVE Due(x)' = Due(x)
  BY <1>2, <1>4 DEF Due
<1>5. ASSUME NEW n \in Messages, Publish(n) PROVE WithinWorth(m)'
  <2> DEFINE x == FirstCopy(n)
  <2>1. x \in Copies /\ x.message = n /\ x.attempt = FirstAttempt[n]
    BY FirstCopyFields DEF FirstCopy
  <2>2. \A y \in Copies : y # x => Stock(y)' = Stock(y)
    BY <1>0, <1>5, <2>1 DEF Publish, Put, Stock
  <2>3. \A y \in Copies : y # x => Due(y)' = Due(y)
    BY <1>4, <2>2
  <2>4. CASE n # m
    <3>1. Gains(m, 0) /\ deliveries'[m] <= deliveries[m] + 0
      BY <1>0, <1>1, <1>5, <2>4 DEF Publish, Count, Gains
    <3>2. \A y \in Copies : y.message = m => Due(y)' = Due(y)
      BY <2>1, <2>3, <2>4
    <3> QED BY <1>0, <1>3, <3>1, <3>2, WithinStepNone
  <2>5. CASE n = m
    <3>1. Gains(m, Worth(m))
      BY <1>0, <1>1, <1>5, <2>5 DEF Publish, Count, Gains
    <3>2. Due(x) \in Nat /\ Worth(m) \in Nat /\ Value(x.attempt) = Worth(m)
      BY <1>0, <2>1, <2>5, DueType, NumberedMessage
    <3>3. Due(x)' = Due(x) \/ Due(x)' = Due(x) + Worth(m)
      <4>1. CASE queue' = Put(queue, x)
        <5>1. Stock(x)' = Stock(x) + 1
          BY <1>0, <1>5, <2>1, <4>1 DEF Publish, Put, Stock
        <5>2. /\ Stock(x) \in Nat /\ Cardinality(Holders(x)) \in Nat
              /\ Value(x.attempt) \in Nat /\ Value(x.attempt) >= 1
          BY <1>0, <2>1, <2>5, DueType
        <5>3. Due(x)' = Owed(Value(x.attempt), Stock(x) + 1, Cardinality(Holders(x)))
          BY <1>2, <5>1 DEF Due
        <5> QED BY <3>2, <5>2, <5>3, OwedBy DEF Due
      <4>2. CASE queue' = queue
        BY <1>4, <1>5, <2>1, <4>2 DEF Publish, Stock
      <4> QED BY <1>5, <4>1, <4>2 DEF Publish
    <3>4. deliveries'[m] + (Due(x)' - Due(x)) <= deliveries[m] + Worth(m)
      BY <1>0, <1>1, <3>2, <3>3
    <3> QED BY <1>0, <1>3, <2>1, <2>3, <2>5, <3>1, <3>4, WithinStepOne
  <2> QED BY <2>4, <2>5
<1>6. CASE \A x \in Copies : Stock(x)' = Stock(x)
  <2>1. CASE UNCHANGED sent
    <3>1. Gains(m, 0) /\ deliveries'[m] <= deliveries[m] + 0
      BY <1>0, <1>1, <2>1 DEF Gains
    <3>2. \A x \in Copies : x.message = m => Due(x)' = Due(x)
      BY <1>4, <1>6
    <3> QED BY <1>0, <1>3, <3>1, <3>2, WithinStepNone
  <2>2. CASE \E n \in Messages : Publish(n)
    BY <1>3, <1>5, <2>2
  <2> QED BY <1>1, <2>1, <2>2
<1>7. ASSUME NEW y \in Copies, Expire(y) PROVE \A x \in Copies : Stock(x)' = Stock(x)
  BY <1>0, <1>7 DEF Expire, Put, Drop, Stock
<1>8. ASSUME NEW n \in Messages, RecordedByHttp(n) PROVE \A x \in Copies : Stock(x)' = Stock(x)
  BY <1>8 DEF RecordedByHttp, broker, Stock
<1>9. CASE UNCHANGED vars
  BY <1>6, <1>9 DEF vars, broker, Stock
<1> QED BY <1>3, <1>5, <1>6, <1>7, <1>8, <1>9

LEMMA BudgetStep == IInv /\ TypeOK' /\ BudgetKept /\ [Next]_vars => BudgetKept'
<1> SUFFICES ASSUME IInv, TypeOK', BudgetKept, [Next]_vars PROVE BudgetKept'
  OBVIOUS
<1>0. HoldersFinite /\ \A m \in Numbered : WithinWorth(m)
  BY DEF BudgetKept
<1>1. ASSUME NEW c \in Consumers, WorkerStep(c) PROVE BudgetKept'
  <2>1. HoldersFinite'
    BY <1>0, <1>1, HoldersStep DEF HoldersFinite
  <2>2. ASSUME NEW m \in Numbered PROVE WithinWorth(m)'
    <3>1. Ready(c, m)
      BY <1>0, <1>1, <2>1 DEF Ready
    <3> QED BY <3>1, WorkerStepBudget
  <2> QED BY <2>1, <2>2 DEF BudgetKept
<1>2. CASE \/ \E n \in Messages : Publish(n) \/ RecordedByHttp(n)
           \/ \E x \in Copies : Expire(x)
           \/ UNCHANGED vars
  <2>1. \A m \in Numbered : HoldersFinite' /\ WithinWorth(m)'
    BY <1>2, OutsideStepBudget
  <2>2. HoldersFinite'
    <3>1. UNCHANGED worker
      BY <1>2 DEF Publish, RecordedByHttp, Expire, vars
    <3>2. \A x : Holders(x)' = Holders(x)
      BY <3>1 DEF Holders, Holds, worker
    <3> QED BY <1>0, <3>2 DEF HoldersFinite
  <2> QED BY <2>1, <2>2 DEF BudgetKept
<1> QED BY <1>1, <1>2 DEF Next, WorkerStep

LEMMA InitBudget == Init => BudgetKept
<1> SUFFICES ASSUME Init PROVE BudgetKept
  OBVIOUS
<1>1. TypeOK
  BY DEF Init, TypeOK
<1>2. \A x : Holders(x) = {}
  BY DEF Init, Holders, Holds
<1>3. HoldersFinite
  BY <1>2, FS_EmptySet DEF HoldersFinite
<1>4. ASSUME NEW m \in Numbered PROVE WithinWorth(m)
  <2>0. /\ FirstAttempt[m] \in Int /\ LastAttempt(m) \in Int
        /\ FirstAttempt[m] <= LastAttempt(m) /\ Worth(m) \in Nat /\ m \in Messages
    BY NumberedMessage DEF Numbered
  <2>1. \A x \in Copies : x.message = m => Due(x) = 0
    <3>1. ASSUME NEW x \in Copies, x.message = m PROVE Due(x) = 0
      <4>1. Stock(x) = 0 /\ Cardinality(Holders(x)) = 0
        BY <1>2, FS_EmptySet DEF Init, Stock
      <4>2. Value(x.attempt) \in Nat
        BY <1>1, <1>3, <3>1, DueType
      <4> QED BY <4>1, <4>2 DEF Due, Owed
    <3> QED BY <3>1
  <2>2. \A k \in FirstAttempt[m]..LastAttempt(m) : DueOf(m)[k] = 0
    BY <2>1, NumberedCopy DEF DueOf
  <2>3. PICK P : /\ PartialSums(P, DueOf(m), FirstAttempt[m], LastAttempt(m))
                 /\ P[LastAttempt(m)] = 0
    BY <2>0, <2>2, SumOfZeros
  <2>4. deliveries[m] = 0 /\ sent[m] + breaks[m] = 0
    BY <2>0 DEF Init
  <2>5. deliveries[m] + P[LastAttempt(m)] <= Worth(m) * (sent[m] + breaks[m])
    BY <2>0, <2>3, <2>4
  <2> QED BY <2>3, <2>5 DEF WithinWorth
<1> QED BY <1>3, <1>4 DEF BudgetKept

\* Types are kept, so a message within its worth was not delivered more often.
LEMMA BudgetBounds == TypeOK /\ BudgetKept => RetriesAreBounded
<1> SUFFICES ASSUME TypeOK, BudgetKept, NEW m \in Messages, FirstAttempt[m] # Garbled
             PROVE  deliveries[m] <= Worth(m) * (sent[m] + breaks[m])
  BY DEF RetriesAreBounded
<1>1. m \in Numbered
  BY DEF Numbered
<1>2. PICK P : /\ PartialSums(P, DueOf(m), FirstAttempt[m], LastAttempt(m))
               /\ deliveries[m] + P[LastAttempt(m)] <= Worth(m) * (sent[m] + breaks[m])
  BY <1>1 DEF BudgetKept, WithinWorth
<1>3. /\ FirstAttempt[m] \in Int /\ LastAttempt(m) \in Int /\ FirstAttempt[m] <= LastAttempt(m)
      /\ Worth(m) \in Nat
  BY <1>1, NumberedMessage
<1>4. P[LastAttempt(m)] \in Nat /\ deliveries[m] \in Nat /\ sent[m] + breaks[m] \in Nat
  BY <1>2, <1>3 DEF PartialSums, TypeOK
<1>5. Worth(m) * (sent[m] + breaks[m]) \in Nat
  BY <1>3, <1>4
<1> QED BY <1>2, <1>4, <1>5

-----------------------------------------------------------------------------

\* Retries end: a message is delivered no more often than its publications and
\* the deliveries of it taken back are worth, whatever the maximum of attempts,
\* the header it is sent with and the moments at which workers die.
THEOREM RetriesCorrect == Spec => []RetriesAreBounded
<1>1. IInv => TypeOK
  BY DEF IInv
<1> QED BY <1>1, Invariance, InitBudget, BudgetStep, BudgetBounds, PTL DEF Spec

=============================================================================
