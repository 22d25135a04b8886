------------------------ MODULE EventIngestionProofs ------------------------
(***************************************************************************)
(* Theorems about EventIngestion, and about ShipmentQueries that reads     *)
(* beside it, for every set of shipments, processes and deliveries.        *)
(*                                                                         *)
(* The inductive invariant is TypeOK /\ RequestsOK /\ Exclusive: what a    *)
(* transaction holds at each of its statements, and that two transactions  *)
(* never hold the same event identity while it is not committed.  Explains *)
(* says where the values of a projection come from, RegistrationsWhole     *)
(* that a row and its creation event come together, ReferencesExclusive    *)
(* who holds a reference number, RepeatsOK what a transaction knows of the *)
(* event it was given, QueriesInv what a reader was shown; each is         *)
(* inductive together with the first.  CopiesAreCurrent is so as long as   *)
(* the requests for a shipment do not overlap: then ingestion is the       *)
(* serial ledger, whose own invariant is LedgerInv.                        *)
(***************************************************************************)
EXTENDS ShipmentQueries, TLAPS

-----------------------------------------------------------------------------
(* The domain. *)

\* The handler returns a processing status or raises one of its errors.
LEMMA OutcomeType ==
    ASSUME NEW sh, NEW e
    PROVE  Outcome(sh, e) \in ProcessingStatuses \cup Refusals \cup {"TypeError"}
BY DEF Outcome, ProcessingStatuses, Refusals

\* A transition of the table leads to a status.
LEMMA TransitionType ==
    ASSUME NEW status \in Statuses, NEW type, Allowed(status, type)
    PROVE  Transitions[status][type] \in Statuses
BY DEF Statuses, Allowed, Transitions

\* Handling an event turns a projection into a projection.
LEMMA AfterType ==
    ASSUME NEW sh \in Projections, NEW e \in Events
    PROVE  After(sh, e) \in Projections
<1>1. CASE Outcome(sh, e) # "APPLIED"
  BY <1>1 DEF After
<1>2. CASE Outcome(sh, e) = "APPLIED" /\ e.type = "LOCATION_UPDATED"
  BY <1>2 DEF After, UpdateLocation, Projections, Events
<1>3. CASE Outcome(sh, e) = "APPLIED" /\ e.type # "LOCATION_UPDATED"
  <2>1. e.type \in LifecycleTypes /\ Allowed(sh.status, e.type)
    BY <1>3 DEF Outcome, Events, EventTypes
  <2>2. Transitions[sh.status][e.type] \in Statuses
    BY <2>1, TransitionType DEF Projections
  <2> QED
    BY <1>3, <2>2 DEF After, ChangeStatus, Projections, Events
<1> QED BY <1>1, <1>2, <1>3

LEMMA CreatedType == Created \in Projections
BY CreationTimeAssumption DEF Created, Projections, Statuses

\* Writing some columns of one projection over another gives a projection,
\* each column of which comes from one of the two.
LEMMA MergeType ==
    ASSUME NEW old \in {None} \cup Projections, NEW new \in Projections,
           NEW columns \in SUBSET Columns
    PROVE  /\ Merge(old, new, columns) \in Projections
           /\ old # None => \A c \in Columns :
                  Merge(old, new, columns)[c] \in {old[c], new[c]}
BY NoneAssumption DEF Merge, Projections, Columns

LEMMA CreationEventType ==
    ASSUME NEW s \in Shipments
    PROVE  CreationEvent(s) \in Events
BY CreationTimeAssumption DEF CreationEvent, Events, EventTypes

-----------------------------------------------------------------------------
(* The inductive invariant. *)

Ingesting(p) == pc[p] # "idle" /\ ~Creating(p)

Registering(p) == pc[p] # "idle" /\ Creating(p)

\* What a transaction has at hand at each of its statements.
RequestOK(p) ==
    /\ pc[p] # "idle" => event[p] \in Events
    /\ Registering(p) => /\ \E s \in Shipments : event[p] = CreationEvent(s)
                         /\ pc[p] \in {"register", "reply", "commit"}
    /\ Ingesting(p) => event[p] \in Deliveries /\ pc[p] # "register"
    /\ view[p] # None => Ingesting(p)
    /\ Ingesting(p) /\ pc[p] \notin {"load", "reload"}
          => view[p] \in Projections /\ row[event[p].shipment] # None
    /\ Ingesting(p) /\ pc[p] \notin {"load", "reload", "check"}
          => Outcome(view[p], event[p]) \in ProcessingStatuses

RequestsOK == \A p \in Processes : RequestOK(p)

Holding(p) == pc[p] \in {"flush", "reply", "commit"}

\* An identity a transaction has inserted is in no committed record and in no
\* other transaction; so is the identity of a shipment being registered.
Exclusive ==
    /\ \A p \in Processes : Holding(p) => history[event[p].id] = None
    /\ \A p, q \in Processes :
          Holding(p) /\ Holding(q) /\ p # q => event[p].id # event[q].id
    /\ \A p \in Processes : Registering(p) => row[event[p].shipment] = None
    /\ \A p, q \in Processes :
          Registering(p) /\ Registering(q) /\ p # q
             => event[p].shipment # event[q].shipment
    /\ \A s \in Shipments : row[s] = None => history[s] = None

IInv == TypeOK /\ RequestsOK /\ Exclusive

LEMMA InitIInv == Init => IInv
<1> SUFFICES ASSUME Init PROVE IInv
  OBVIOUS
<1> USE DEF Init, LedgerInit
<1>1. TypeOK
  BY DEF TypeOK, Steps
<1>2. RequestsOK
  BY DEF RequestsOK, RequestOK, Registering, Ingesting
<1>3. Exclusive
  BY DEF Exclusive, Holding, Registering, Ids
<1> QED BY <1>1, <1>2, <1>3 DEF IInv

\* The identity and the shipment of an event at hand are known ones.
LEMMA EventAtHand ==
    ASSUME IInv, NEW p \in Processes, pc[p] # "idle"
    PROVE  /\ event[p] \in Events
           /\ event[p].shipment \in Shipments
           /\ event[p].id \in Ids
           /\ Creating(p) => event[p].id = event[p].shipment
           /\ ~Creating(p) => event[p].id \notin Shipments
<1>1. event[p] \in Events /\ event[p].shipment \in Shipments
  BY DEF IInv, RequestsOK, RequestOK, Events
<1>2. CASE Creating(p)
  <2>1. PICK s \in Shipments : event[p] = CreationEvent(s)
    BY <1>2 DEF IInv, RequestsOK, RequestOK, Registering
  <2>2. event[p].id = s /\ event[p].shipment = s
    BY <2>1 DEF CreationEvent
  <2> QED BY <1>1, <1>2, <2>2 DEF Ids
<1>3. CASE ~Creating(p)
  BY <1>1, <1>3, DeliveriesAssumption DEF IInv, RequestsOK, RequestOK, Ingesting, Ids
<1> QED BY <1>1, <1>2, <1>3

\* What a transaction about to commit stores.
LEMMA DraftType ==
    ASSUME IInv, NEW p \in Processes, pc[p] \in {"save", "insert", "flush", "reply", "commit"}
    PROVE  Draft(p) \in Projections /\ RecordOf(p) \in Records
<1>1. event[p] \in Events
  BY EventAtHand
<1>2. CASE Creating(p)
  BY <1>1, <1>2, CreatedType DEF Draft, RecordOf, Records, ProcessingStatuses
<1>3. CASE ~Creating(p)
  <2>1. view[p] \in Projections /\ Outcome(view[p], event[p]) \in ProcessingStatuses
    BY <1>3 DEF IInv, RequestsOK, RequestOK, Ingesting
  <2> QED BY <1>1, <1>3, <2>1, AfterType DEF Draft, RecordOf, Records
<1> QED BY <1>2, <1>3

-----------------------------------------------------------------------------
(* Every step preserves it. *)

\* A step preserves the types of the variables.
LEMMA TypeStep == IInv /\ [Next]_vars => TypeOK'
<1> SUFFICES ASSUME IInv, [Next]_vars PROVE TypeOK'
  OBVIOUS
<1>0. TypeOK
  BY DEF IInv
<1>1. CASE UNCHANGED vars
  BY <1>0, <1>1 DEF TypeOK, vars
<1>2. ASSUME NEW p \in Processes, NEW s \in Shipments, RequestCreation(p, s) PROVE TypeOK'
  BY <1>0, <1>2, CreationEventType DEF TypeOK, RequestCreation, Start, Goto, ledger, Steps, Answers
<1>3. ASSUME NEW p \in Processes, InsertShipment(p) PROVE TypeOK'
  BY <1>0, <1>3 DEF TypeOK, InsertShipment, End, Goto, ledger, Steps, Answers
<1>4. ASSUME NEW p \in Processes, NEW e \in Deliveries, Deliver(p, e) PROVE TypeOK'
  <2>1. e \in Events
    BY DeliveriesAssumption
  <2> QED BY <1>0, <1>4, <2>1 DEF TypeOK, Deliver, Start, Goto, ledger, Steps, Answers
<1>5. ASSUME NEW p \in Processes, NEW e \in Deliveries, RefuseCreation(p, e) PROVE TypeOK'
  <2>1. e \in Events
    BY DeliveriesAssumption
  <2> QED BY <1>0, <1>5, <2>1 DEF TypeOK, RefuseCreation, End, Goto, ledger, Steps, Answers, Refusals
<1>6. ASSUME NEW p \in Processes, Load(p) PROVE TypeOK'
  <2>1. event[p].shipment \in Shipments
    BY <1>6, EventAtHand DEF Load
  <2> QED BY <1>0, <1>6, <2>1 DEF TypeOK, Load, End, Goto, ledger, Steps, Answers, Refusals
<1>7. ASSUME NEW p \in Processes, Check(p) PROVE TypeOK'
  BY <1>0, <1>7, OutcomeType DEF TypeOK, Check, End, Goto, ledger, Steps, Answers
<1>8. ASSUME NEW p \in Processes, Save(p) PROVE TypeOK'
  BY <1>0, <1>8 DEF TypeOK, Save, End, Goto, ledger, Steps, Answers
<1>9. ASSUME NEW p \in Processes, Insert(p) PROVE TypeOK'
  BY <1>0, <1>9 DEF TypeOK, Insert, End, Goto, ledger, Steps, Answers
<1>10. ASSUME NEW p \in Processes, Flush(p) PROVE TypeOK'
  BY <1>0, <1>10 DEF TypeOK, Flush, End, Goto, ledger, Steps, Answers
<1>11. ASSUME NEW p \in Processes, Reload(p) PROVE TypeOK'
  BY <1>0, <1>11 DEF TypeOK, Reload, End, Goto, ledger, Steps, Answers
<1>12. ASSUME NEW p \in Processes, Reply(p) PROVE TypeOK'
  BY <1>0, <1>12 DEF TypeOK, Reply, End, Goto, ledger, Steps, Answers
<1>13. ASSUME NEW p \in Processes, Commit(p) PROVE TypeOK'
  <2>1. Draft(p) \in Projections /\ RecordOf(p) \in Records
    BY <1>13, DraftType DEF Commit
  <2>2. event[p].shipment \in Shipments /\ event[p].id \in Ids
    BY <1>13, EventAtHand DEF Commit
  <2>3. Merge(row[event[p].shipment], Draft(p), dirty[p]) \in Projections
    BY <1>0, <2>1, <2>2, MergeType DEF TypeOK
  <2> QED BY <1>0, <1>13, <2>1, <2>2, <2>3 DEF TypeOK, Commit, Install, End, Goto, Steps, Answers
<1>14. ASSUME NEW p \in Processes, CommitUnacknowledged(p) PROVE TypeOK'
  <2>1. Draft(p) \in Projections /\ RecordOf(p) \in Records
    BY <1>14, DraftType DEF CommitUnacknowledged
  <2>2. event[p].shipment \in Shipments /\ event[p].id \in Ids
    BY <1>14, EventAtHand DEF CommitUnacknowledged
  <2>3. Merge(row[event[p].shipment], Draft(p), dirty[p]) \in Projections
    BY <1>0, <2>1, <2>2, MergeType DEF TypeOK
  <2> QED BY <1>0, <1>14, <2>1, <2>2, <2>3 DEF TypeOK, CommitUnacknowledged, Install, End, Goto, Steps, Answers
<1>15. ASSUME NEW p \in Processes, Fail(p) PROVE TypeOK'
  BY <1>0, <1>15 DEF TypeOK, Fail, End, Goto, ledger, Steps, Answers
<1> QED BY <1>1, <1>2, <1>3, <1>4, <1>5, <1>6, <1>7, <1>8, <1>9, <1>10, <1>11, <1>12, <1>13, <1>14, <1>15 DEF Next, Step, Advance

\* A step of one process leaves the transactions of the others alone.
LEMMA OthersKeep ==
    ASSUME IInv, NEW p \in Processes, NEW q \in Processes, p # q, Step(p)
    PROVE  /\ pc'[q] = pc[q] /\ event'[q] = event[q] /\ view'[q] = view[q]
           /\ dirty'[q] = dirty[q] /\ known'[q] = known[q] /\ answer'[q] = answer[q]
BY DEF IInv, TypeOK, Step, Advance, RequestCreation, InsertShipment, Deliver,
       RefuseCreation, Load, Check, Save, Insert, Flush, Reload, Reply, Commit,
       CommitUnacknowledged, Fail, Start, End, Goto

\* A shipment's row and an event's record, once there, stay.
LEMMA TablesGrow ==
    ASSUME IInv, NEW p \in Processes, Step(p)
    PROVE  /\ \A s \in Shipments : row[s] # None => row'[s] # None
           /\ \A i \in Ids : history[i] # None => history'[i] = history[i]
<1>1. CASE ~(Commit(p) \/ CommitUnacknowledged(p))
  BY <1>1 DEF Step, Advance, RequestCreation, InsertShipment, Deliver,
       RefuseCreation, Load, Check, Save, Insert, Flush, Reload, Reply, Fail,
       Start, ledger
<1>2. CASE Commit(p) \/ CommitUnacknowledged(p)
  <2> USE <1>2 DEF Commit, CommitUnacknowledged
  <2>1. Draft(p) \in Projections /\ event[p].shipment \in Shipments /\ event[p].id \in Ids
    BY DraftType, EventAtHand
  <2>2. Merge(row[event[p].shipment], Draft(p), dirty[p]) \in Projections
    BY <2>1, MergeType DEF IInv, TypeOK
  <2>3. history[event[p].id] = None
    BY DEF IInv, Exclusive, Holding
  <2> QED BY <2>1, <2>2, <2>3, NoneAssumption DEF Install, IInv, TypeOK
<1> QED BY <1>1, <1>2

\* A step preserves what each transaction has at hand.
LEMMA RequestsStep ==
    ASSUME IInv, NEW p \in Processes, Step(p)
    PROVE  RequestsOK'
<1> SUFFICES ASSUME NEW q \in Processes PROVE RequestOK(q)'
  BY DEF RequestsOK
<1> USE DEF Registering, Ingesting, Creating
<1>0. RequestOK(q) /\ RequestOK(p)
  BY DEF IInv, RequestsOK
<1>1. CASE p # q
  <2>1. /\ pc'[q] = pc[q] /\ event'[q] = event[q] /\ view'[q] = view[q]
    BY <1>1, OthersKeep
  <2>2. pc[q] # "idle" /\ row[event[q].shipment] # None => row'[event[q].shipment] # None
    BY EventAtHand, TablesGrow
  <2> QED BY <1>0, <2>1, <2>2 DEF RequestOK
<1>2. CASE p = q
  <2> USE <1>2
  <2>t. TypeOK
    BY DEF IInv
  <2>1. ASSUME NEW s \in Shipments, RequestCreation(p, s) PROVE RequestOK(q)'
    <3>1. CreationEvent(s) \in Events /\ CreationEvent(s).type = "SHIPMENT_CREATED"
      BY CreationEventType DEF CreationEvent
    <3> QED BY <1>0, <2>t, <2>1, <3>1 DEF RequestOK, RequestCreation, Start, Goto, TypeOK
  <2>2. ASSUME InsertShipment(p) PROVE RequestOK(q)'
    BY <1>0, <2>t, <2>2 DEF RequestOK, InsertShipment, End, Goto, TypeOK, ledger
  <2>3. ASSUME NEW e \in Deliveries, Deliver(p, e) PROVE RequestOK(q)'
    <3>1. e \in Events
      BY DeliveriesAssumption
    <3> QED BY <1>0, <2>t, <2>3, <3>1 DEF RequestOK, Deliver, Start, Goto, TypeOK
  <2>4. ASSUME NEW e \in Deliveries, RefuseCreation(p, e) PROVE RequestOK(q)'
    BY <1>0, <2>t, <2>4 DEF RequestOK, RefuseCreation, End, Goto, TypeOK, ledger
  <2>5. ASSUME Load(p) PROVE RequestOK(q)'
    <3>1. event[p].shipment \in Shipments
      BY <2>5, EventAtHand DEF Load
    <3> QED BY <1>0, <2>t, <2>5, <3>1 DEF RequestOK, Load, End, Goto, TypeOK, ledger
  <2>6. ASSUME Check(p) PROVE RequestOK(q)'
    BY <1>0, <2>t, <2>6 DEF RequestOK, Check, End, Goto, TypeOK, ledger
  <2>7. ASSUME Save(p) PROVE RequestOK(q)'
    BY <1>0, <2>t, <2>7 DEF RequestOK, Save, End, Goto, TypeOK, ledger
  <2>8. ASSUME Insert(p) PROVE RequestOK(q)'
    BY <1>0, <2>t, <2>8 DEF RequestOK, Insert, End, Goto, TypeOK, ledger
  <2>9. ASSUME Flush(p) PROVE RequestOK(q)'
    BY <1>0, <2>t, <2>9 DEF RequestOK, Flush, End, Goto, TypeOK, ledger
  <2>10. ASSUME Reload(p) PROVE RequestOK(q)'
    BY <1>0, <2>t, <2>10 DEF RequestOK, Reload, End, Goto, TypeOK, ledger
  <2>11. ASSUME Reply(p) PROVE RequestOK(q)'
    BY <1>0, <2>t, <2>11 DEF RequestOK, Reply, End, Goto, TypeOK, ledger
  <2>12. ASSUME Commit(p) PROVE RequestOK(q)'
    BY <1>0, <2>t, <2>12 DEF RequestOK, Commit, End, Goto, TypeOK, ledger
  <2>13. ASSUME CommitUnacknowledged(p) PROVE RequestOK(q)'
    BY <1>0, <2>t, <2>13 DEF RequestOK, CommitUnacknowledged, End, Goto, TypeOK, ledger
  <2>14. ASSUME Fail(p) PROVE RequestOK(q)'
    BY <1>0, <2>t, <2>14 DEF RequestOK, Fail, End, Goto, TypeOK, ledger
  <2> QED BY <2>1, <2>2, <2>3, <2>4, <2>5, <2>6, <2>7, <2>8, <2>9, <2>10, <2>11, <2>12, <2>13, <2>14 DEF Step, Advance
<1> QED BY <1>1, <1>2

\* What the steps other than commits leave alone, and what a commit changes.
LEMMA CommitOrNot ==
    ASSUME IInv, NEW p \in Processes, Step(p)
    PROVE  \/ UNCHANGED ledger
           \/ pc[p] = "commit" /\ pc'[p] = "idle" /\ Install(p)
BY DEF Step, Advance, RequestCreation, InsertShipment, Deliver, RefuseCreation,
       Load, Check, Save, Insert, Flush, Reload, Reply, Commit,
       CommitUnacknowledged, Fail, Start, End, Goto, IInv, TypeOK

\* How a transaction comes to hold an event identity, or a shipment.
LEMMA Acquire ==
    ASSUME IInv, NEW p \in Processes, Step(p)
    PROVE  /\ Holding(p)' => event'[p] = event[p]
           /\ Holding(p)' /\ ~Holding(p) =>
                 \/ IdHolders(event[p].id) = {} /\ history[event[p].id] = None
                 \/ pc[p] = "register"
           /\ Registering(p)' /\ ~Registering(p) =>
                 /\ row[event'[p].shipment] = None
                 /\ \A q \in Processes : Registering(q) =>
                       event[q].shipment # event'[p].shipment
           /\ Registering(p) /\ Registering(p)' => event'[p] = event[p]
<1> USE DEF Holding, Registering, Ingesting, Creating
<1>t. TypeOK /\ RequestOK(p)
  BY DEF IInv, RequestsOK
<1>1. ASSUME NEW s \in Shipments, RequestCreation(p, s)
      PROVE  /\ ~Holding(p)' /\ ~Registering(p) /\ row[event'[p].shipment] = None
             /\ \A q \in Processes : Registering(q) =>
                   event[q].shipment # event'[p].shipment
  BY <1>t, <1>1 DEF RequestCreation, Start, Goto, TypeOK, CreationEvent
<1>2. ASSUME NEW e \in Deliveries, Deliver(p, e) \/ RefuseCreation(p, e)
      PROVE  ~Holding(p)' /\ ~Registering(p)'
  BY <1>t, <1>2 DEF Deliver, RefuseCreation, Start, End, Goto, TypeOK
<1>3. CASE Advance(p) \/ Fail(p)
  <2>1. event' = event
    BY <1>3 DEF Advance, Fail, InsertShipment, Load, Check, Save, Insert, Flush,
                Reload, Reply, Commit, CommitUnacknowledged
  <2>2. pc[p] # "idle"
    BY <1>3 DEF Advance, Fail, InsertShipment, Load, Check, Save, Insert, Flush,
                Reload, Reply, Commit, CommitUnacknowledged
  <2>3. Holding(p)' /\ ~Holding(p) =>
                 \/ IdHolders(event[p].id) = {} /\ history[event[p].id] = None
                 \/ pc[p] = "register"
    BY <1>3, <1>t DEF Advance, Fail, InsertShipment, Load, Check, Save, Insert, Flush,
                Reload, Reply, Commit, CommitUnacknowledged, End, Goto, TypeOK
  <2> QED BY <2>1, <2>2, <2>3
<1> QED BY <1>1, <1>2, <1>3 DEF Step

\* A step preserves mutual exclusion.
LEMMA ExclusiveStep ==
    ASSUME IInv, NEW p \in Processes, Step(p)
    PROVE  Exclusive'
<1>a. /\ TypeOK /\ RequestsOK /\ Exclusive /\ RequestsOK'
  BY RequestsStep DEF IInv
<1>b. \A q \in Processes : p # q =>
         /\ Holding(q)' = Holding(q) /\ Registering(q)' = Registering(q)
         /\ event'[q] = event[q]
  BY OthersKeep DEF Holding, Registering, Creating
<1>c. \A q \in Processes : Holding(q) \/ Registering(q) => pc[q] # "idle"
  BY DEF Holding, Registering
<1>d. \A q \in Processes : pc[q] = "register" => Registering(q) /\ ~Holding(q)
  BY <1>a DEF RequestsOK, RequestOK, Ingesting, Registering, Holding
<1>1. ASSUME NEW q \in Processes, Holding(q)' PROVE history'[event'[q].id] = None
  <2>1. history[event'[q].id] = None
    <3>1. CASE p # q
      BY <1>1, <3>1, <1>a, <1>b DEF Exclusive
    <3>2. CASE p = q /\ Holding(q)
      BY <1>1, <3>2, <1>a, Acquire DEF Exclusive
    <3>3. CASE p = q /\ pc[q] = "register"
      BY <1>1, <3>3, <1>a, <1>c, <1>d, Acquire, EventAtHand DEF Exclusive, Registering
    <3> QED BY <1>1, <3>1, <3>2, <3>3, Acquire
  <2>2. CASE UNCHANGED ledger
    BY <2>1, <2>2 DEF ledger
  <2>3. CASE pc[p] = "commit" /\ pc'[p] = "idle" /\ Install(p)
    <3>1. p # q /\ Holding(p) /\ Holding(q)
      BY <1>1, <1>b, <2>3 DEF Holding
    <3>2. event[p].id # event'[q].id
      BY <3>1, <1>a, <1>b DEF Exclusive
    <3>3. event'[q].id \in Ids /\ event[p].id \in Ids
      BY <3>1, <1>b, <1>c, EventAtHand
    <3> QED BY <2>1, <2>3, <3>2, <3>3, <1>a DEF Install, TypeOK
  <2> QED BY <2>2, <2>3, CommitOrNot
<1>2. ASSUME NEW q \in Processes, NEW r \in Processes, q # r, Holding(q)', Holding(r)'
      PROVE  event'[q].id # event'[r].id
  <2>1. ASSUME NEW o \in Processes, o # p, Holding(o)', Holding(p)'
        PROVE  event'[o].id # event'[p].id
    <3>1. Holding(o) /\ event'[o] = event[o] /\ event'[p] = event[p]
      BY <2>1, <1>b, Acquire
    <3>2. CASE Holding(p)
      BY <2>1, <3>1, <3>2, <1>a DEF Exclusive
    <3>3. CASE IdHolders(event[p].id) = {}
      BY <3>1, <3>3 DEF IdHolders, Holding
    <3>4. CASE pc[p] = "register"
      <4>1. Registering(p) /\ event[p].id = event[p].shipment
        BY <3>4, <1>c, <1>d, EventAtHand DEF Registering
      <4>2. CASE Registering(o)
        <5>1. event[o].id = event[o].shipment
          BY <4>2, EventAtHand DEF Registering
        <5> QED BY <2>1, <3>1, <4>1, <4>2, <5>1, <1>a DEF Exclusive
      <4>3. CASE ~Registering(o)
        <5>1. event[o].id \notin Shipments
          BY <3>1, <4>3, <1>c, EventAtHand DEF Registering
        <5>2. event[p].id \in Shipments
          BY <4>1, <1>c, EventAtHand
        <5> QED BY <3>1, <5>1, <5>2
      <4> QED BY <4>2, <4>3
    <3> QED BY <2>1, <3>2, <3>3, <3>4, Acquire
  <2>2. CASE q = p \/ r = p
    BY <1>2, <2>1, <2>2
  <2>3. CASE q # p /\ r # p
    BY <1>2, <2>3, <1>a, <1>b DEF Exclusive
  <2> QED BY <2>2, <2>3
<1>3. ASSUME NEW q \in Processes, Registering(q)' PROVE row'[event'[q].shipment] = None
  <2>1. row[event'[q].shipment] = None
    <3>1. CASE Registering(q)
      BY <1>3, <3>1, <1>a, <1>b, Acquire DEF Exclusive
    <3>2. CASE ~Registering(q)
      BY <1>3, <3>2, <1>b, Acquire
    <3> QED BY <3>1, <3>2
  <2>2. CASE UNCHANGED ledger
    BY <2>1, <2>2 DEF ledger
  <2>3. CASE pc[p] = "commit" /\ pc'[p] = "idle" /\ Install(p)
    <3>1. p # q /\ Registering(q) /\ event'[q] = event[q]
      BY <1>3, <2>3, <1>b DEF Registering
    <3>2. event[p].shipment # event[q].shipment
      <4>1. CASE Registering(p)
        BY <3>1, <4>1, <1>a DEF Exclusive
      <4>2. CASE ~Registering(p)
        BY <2>1, <2>3, <3>1, <4>2, <1>a DEF RequestsOK, RequestOK, Ingesting, Registering
      <4> QED BY <4>1, <4>2
    <3>3. event[p].shipment \in Shipments /\ event[q].shipment \in Shipments
      BY <2>3, <3>1, <1>c, EventAtHand
    <3> QED BY <2>1, <2>3, <3>1, <3>2, <3>3, <1>a DEF Install, TypeOK
  <2> QED BY <2>2, <2>3, CommitOrNot
<1>4. ASSUME NEW q \in Processes, NEW r \in Processes, q # r,
             Registering(q)', Registering(r)'
      PROVE  event'[q].shipment # event'[r].shipment
  BY <1>4, <1>a, <1>b, Acquire DEF Exclusive
<1>5. ASSUME NEW s \in Shipments, row'[s] = None PROVE history'[s] = None
  <2>1. row[s] = None /\ history[s] = None
    BY <1>5, <1>a, TablesGrow DEF Exclusive
  <2>2. CASE UNCHANGED ledger
    BY <2>1, <2>2 DEF ledger
  <2>3. CASE pc[p] = "commit" /\ Install(p)
    <3>1. CASE Creating(p)
      <4>1. event[p].id = event[p].shipment /\ event[p].shipment \in Shipments
        BY <2>3, <3>1, EventAtHand
      <4>2. Draft(p) # None
        BY <3>1, CreatedType, NoneAssumption DEF Draft
      <4>3. event[p].shipment # s
        BY <1>5, <2>1, <2>3, <4>1, <4>2, <1>a DEF Install, TypeOK, Merge
      <4> QED BY <2>1, <2>3, <4>1, <4>3, <1>a DEF Install, TypeOK, Ids
    <3>2. CASE ~Creating(p)
      <4>1. event[p].id # s /\ event[p].id \in Ids
        BY <2>3, <3>2, EventAtHand
      <4> QED BY <2>1, <2>3, <4>1, <1>a DEF Install, TypeOK, Ids
    <3> QED BY <3>1, <3>2
  <2> QED BY <2>2, <2>3, CommitOrNot
<1> QED BY <1>1, <1>2, <1>3, <1>4, <1>5 DEF Exclusive

LEMMA StepIInv == IInv /\ [Next]_vars => IInv'
<1> SUFFICES ASSUME IInv, [Next]_vars PROVE IInv'
  OBVIOUS
<1>1. TypeOK'
  BY TypeStep
<1>2. CASE UNCHANGED vars
  BY <1>1, <1>2 DEF IInv, vars, RequestsOK, RequestOK, Exclusive, Holding,
                    Registering, Ingesting, Creating
<1>3. CASE \E p \in Processes : Step(p)
  BY <1>1, <1>3, RequestsStep, ExclusiveStep DEF IInv
<1> QED BY <1>2, <1>3 DEF Next

\* The inductive invariant is one.
THEOREM Invariance == Spec => []IInv
BY InitIInv, StepIInv, PTL DEF Spec

\* Every variable keeps its type, whatever the shipments, processes and
\* deliveries are.
THEOREM TypeCorrect == Spec => []TypeOK
<1>1. IInv => TypeOK
  BY DEF IInv
<1> QED BY <1>1, Invariance, PTL

-----------------------------------------------------------------------------
(* Records and intents. *)

\* A committing transaction stores a record where there was none.
LEMMA CommitStores ==
    ASSUME IInv, NEW p \in Processes, pc[p] = "commit", Install(p)
    PROVE  /\ event[p].id \in Ids /\ event[p].shipment \in Shipments
           /\ history[event[p].id] = None
           /\ RecordOf(p) \in Records /\ RecordOf(p) # None
           /\ history' = [history EXCEPT ![event[p].id] = RecordOf(p)]
           /\ Draft(p) \in Projections
           /\ row' = [row EXCEPT ![event[p].shipment] =
                                     Merge(row[event[p].shipment], Draft(p), dirty[p])]
           /\ RecordOf(p).event = event[p]
<1>1. event[p].id \in Ids /\ event[p].shipment \in Shipments
  BY EventAtHand
<1>2. Draft(p) \in Projections /\ RecordOf(p) \in Records
  BY DraftType
<1>3. history[event[p].id] = None
  BY DEF IInv, Exclusive, Holding
<1> QED BY <1>1, <1>2, <1>3, NoneIsNoRecord DEF Install, RecordOf

\* The outbox and the history hold the same records, for every interleaving of
\* requests, deliveries and failures: each recorded event has its intent, under
\* its verdict, and nothing else has one.
THEOREM IntentsCorrect == Spec => []IntentsMatchHistory
<1>1. Init => IntentsMatchHistory
  BY DEF Init, LedgerInit, IntentsMatchHistory
<1>2. IInv /\ IntentsMatchHistory /\ [Next]_vars => IntentsMatchHistory'
  <2> SUFFICES ASSUME IInv, IntentsMatchHistory, [Next]_vars
               PROVE  IntentsMatchHistory'
    OBVIOUS
  <2>1. CASE UNCHANGED ledger
    BY <2>1 DEF ledger, IntentsMatchHistory
  <2>2. ASSUME NEW p \in Processes, pc[p] = "commit", Install(p)
        PROVE  IntentsMatchHistory'
    <3>1. /\ event[p].id \in Ids /\ history[event[p].id] = None
          /\ RecordOf(p) # None
          /\ history' = [history EXCEPT ![event[p].id] = RecordOf(p)]
      BY <2>2, CommitStores
    <3>2. outbox' = outbox \cup {RecordOf(p)}
      BY <2>2 DEF Install
    <3>3. history \in [Ids -> {None} \cup Records]
      BY DEF IInv, TypeOK
    <3> QED BY <3>1, <3>2, <3>3 DEF IntentsMatchHistory
  <2> QED BY <2>1, <2>2, CommitOrNot DEF Next, vars, ledger
<1> QED BY <1>1, <1>2, Invariance, PTL DEF Spec

-----------------------------------------------------------------------------
(* Where the values of a projection come from. *)

\* A change of the aggregate is one its event writes.
LEMMA AfterWrites ==
    ASSUME NEW sh \in Projections, NEW e \in Events, NEW c \in Columns
    PROVE  \/ After(sh, e)[c] = sh[c]
           \/ Outcome(sh, e) = "APPLIED" /\ Writes(e, c, After(sh, e)[c])
<1>1. CASE Outcome(sh, e) # "APPLIED"
  BY <1>1 DEF After
<1>2. CASE Outcome(sh, e) = "APPLIED" /\ e.type = "LOCATION_UPDATED"
  BY <1>2 DEF After, UpdateLocation, Projections, Columns, Writes
<1>3. CASE Outcome(sh, e) = "APPLIED" /\ e.type # "LOCATION_UPDATED"
  <2>1. sh.status \in Statuses /\ Allowed(sh.status, e.type)
    BY <1>3 DEF Outcome, Events, EventTypes, Projections
  <2> QED BY <1>3, <2>1 DEF After, ChangeStatus, Projections, Columns, Writes
<1> QED BY <1>1, <1>2, <1>3

\* A transition adds its own event, and no other, to the chain of custody.
LEMMA CustodyGrows ==
    ASSUME NEW status \in Statuses, NEW type, Allowed(status, type)
    PROVE  Custody[Transitions[status][type]] \subseteq Custody[status] \cup {type}
BY DEF Statuses, Allowed, Transitions, Custody

\* What a history explains: the values of the rows and of the copies that
\* transactions have read.
Explained(s, sh, h) ==
    /\ \A c \in Columns : Witnessed(s, c, sh[c], h)
    /\ Custody[sh.status] \subseteq AppliedTypes(s, h)

Explains ==
    /\ \A s \in Shipments : row[s] # None => Explained(s, row[s], history)
    /\ \A p \in Processes : pc[p] # "idle" /\ view[p] # None
                               => Explained(event[p].shipment, view[p], history)

\* Recorded events stay, so what was explained remains so.
LEMMA ExplainedStays ==
    ASSUME IInv, NEW p \in Processes, Step(p), NEW s, NEW sh, Explained(s, sh, history)
    PROVE  Explained(s, sh, history')
<1>1. history \in [Ids -> {None} \cup Records]
  BY DEF IInv, TypeOK
<1>2. history' \in [Ids -> {None} \cup Records]
  BY TypeStep DEF IInv, TypeOK, Next
<1>3. \A i \in Ids : history[i] # None => history'[i] = history[i]
  BY TablesGrow
<1>4. /\ Applied(s, history) \subseteq Applied(s, history')
      /\ \A i \in Applied(s, history) : history'[i] = history[i]
  BY <1>1, <1>2, <1>3 DEF Applied
<1> QED BY <1>4 DEF Explained, Witnessed, AppliedTypes

\* The aggregate a transaction is about to commit is explained once its own
\* record is there.
LEMMA DraftExplained ==
    ASSUME IInv, Explains, NEW p \in Processes, Step(p), pc[p] = "commit", Install(p)
    PROVE  Explained(event[p].shipment, Draft(p), history')
<1> DEFINE s == event[p].shipment
           r == RecordOf(p)
<1>1. /\ event[p].id \in Ids /\ r # None /\ r.event = event[p]
      /\ history' = [history EXCEPT ![event[p].id] = r]
  BY CommitStores
<1>2. history \in [Ids -> {None} \cup Records]
  BY DEF IInv, TypeOK
<1>3. CASE Creating(p)
  BY <1>3 DEF Draft, Explained, Witnessed, Created, Custody
<1>4. CASE ~Creating(p)
  <2>1. /\ view[p] \in Projections /\ event[p] \in Events
        /\ Draft(p) = After(view[p], event[p])
        /\ r.processing = Outcome(view[p], event[p])
    BY <1>4 DEF IInv, RequestsOK, RequestOK, Ingesting, Draft, RecordOf
  <2>2. Explained(s, view[p], history')
    BY <2>1, NoneAssumption, ExplainedStays DEF Explains
  <2>3. r.processing = "APPLIED" =>
           event[p].id \in Applied(s, history') /\ history'[event[p].id].event = event[p]
    BY <1>1, <1>2 DEF Applied
  <2>4. ASSUME NEW c \in Columns PROVE Witnessed(s, c, Draft(p)[c], history')
    <3>1. \/ Draft(p)[c] = view[p][c]
          \/ r.processing = "APPLIED" /\ Writes(event[p], c, Draft(p)[c])
      BY <2>1, AfterWrites
    <3>2. Draft(p)[c] = view[p][c] => Witnessed(s, c, Draft(p)[c], history')
      BY <2>2 DEF Explained
    <3> QED BY <2>3, <3>1, <3>2 DEF Witnessed
  <2>5. Custody[Draft(p).status] \subseteq AppliedTypes(s, history')
    <3>1. \/ Draft(p).status = view[p].status
          \/ /\ r.processing = "APPLIED" /\ Allowed(view[p].status, event[p].type)
             /\ Draft(p).status = Transitions[view[p].status][event[p].type]
      BY <2>1 DEF After, UpdateLocation, ChangeStatus, Outcome, Projections, Events, EventTypes
    <3>2. Custody[view[p].status] \subseteq AppliedTypes(s, history')
      BY <2>2 DEF Explained
    <3>3. r.processing = "APPLIED" => event[p].type \in AppliedTypes(s, history')
      BY <2>3 DEF AppliedTypes
    <3>4. view[p].status \in Statuses
      BY <2>1 DEF Projections
    <3> QED BY <3>1, <3>2, <3>3, <3>4, CustodyGrows
  <2> QED BY <2>4, <2>5 DEF Explained
<1> QED BY <1>3, <1>4

LEMMA ExplainsStep ==
    ASSUME IInv, Explains, NEW p \in Processes, Step(p)
    PROVE  Explains'
<1>a. TypeOK /\ TypeOK' /\ RequestsOK
  BY TypeStep DEF IInv, Next
<1>1. ASSUME NEW s \in Shipments, row'[s] # None
      PROVE  Explained(s, row'[s], history')
  <2>1. CASE row'[s] = row[s]
    BY <1>1, <2>1, ExplainedStays DEF Explains
  <2>2. CASE row'[s] # row[s]
    <3>1. pc[p] = "commit" /\ Install(p)
      BY <2>2, CommitOrNot DEF ledger
    <3>2. /\ s = event[p].shipment /\ Draft(p) \in Projections
          /\ row'[s] = Merge(row[s], Draft(p), dirty[p])
      BY <2>2, <3>1, <1>a, CommitStores DEF TypeOK
    <3>3. Explained(s, Draft(p), history')
      BY <3>1, <3>2, DraftExplained
    <3>4. CASE row[s] = None
      BY <3>2, <3>3, <3>4 DEF Merge
    <3>5. CASE row[s] # None
      <4>1. Explained(s, row[s], history')
        BY <3>5, ExplainedStays DEF Explains
      <4>2. \A c \in Columns : row'[s][c] \in {row[s][c], Draft(p)[c]}
        BY <3>2, <3>5, <1>a, MergeType DEF TypeOK
      <4>3. row'[s].status \in {row[s].status, Draft(p).status}
        BY <4>2 DEF Columns
      <4> QED BY <3>3, <4>1, <4>2, <4>3 DEF Explained
    <3> QED BY <3>4, <3>5
  <2> QED BY <2>1, <2>2
<1>2. ASSUME NEW q \in Processes, pc'[q] # "idle", view'[q] # None
      PROVE  Explained(event'[q].shipment, view'[q], history')
  <2>1. CASE view'[q] = view[q] /\ event'[q] = event[q] /\ pc[q] # "idle"
    BY <1>2, <2>1, ExplainedStays DEF Explains
  <2>2. CASE p = q /\ Load(p)
    <3>1. /\ event'[q].shipment = event[q].shipment
          /\ view'[q] = row[event[q].shipment]
          /\ event[q].shipment \in Shipments
      BY <1>2, <2>2, <1>a, EventAtHand DEF Load, End, Goto, TypeOK
    <3> QED BY <1>2, <3>1, ExplainedStays DEF Explains
  <2>3. CASE p # q
    BY <1>2, <2>1, <2>3, OthersKeep
  <2>4. CASE p = q /\ ~Load(p)
    <3>0. view[p] # None => pc[p] # "idle"
      BY <1>a DEF RequestsOK, RequestOK, Ingesting
    <3>1. pc[p] # "idle"
      BY <1>2, <2>4, <3>0, <1>a DEF TypeOK, Step, Advance, RequestCreation, InsertShipment,
            Deliver, RefuseCreation, Check, Save, Insert, Flush, Reload, Reply,
            Commit, CommitUnacknowledged, Fail, Start, End, Goto
    <3>2. view'[p] \in {view[p], None} /\ event' = event
      BY <2>4, <3>1, <1>a DEF TypeOK, Step, Advance, RequestCreation, InsertShipment,
            Deliver, RefuseCreation, Check, Save, Insert, Flush, Reload, Reply,
            Commit, CommitUnacknowledged, Fail, Start, End, Goto
    <3> QED BY <1>2, <2>1, <2>4, <3>1, <3>2
  <2> QED BY <2>2, <2>3, <2>4
<1> QED BY <1>1, <1>2 DEF Explains

LEMMA InitExplains == Init => Explains
BY DEF Init, LedgerInit, Explains

LEMMA ExplainsAlways == Spec => [](IInv /\ Explains)
<1>1. IInv /\ Explains /\ [Next]_vars => Explains'
  <2> SUFFICES ASSUME IInv, Explains, [Next]_vars PROVE Explains'
    OBVIOUS
  <2>1. CASE UNCHANGED vars
    BY <2>1 DEF vars, Explains
  <2>2. CASE \E p \in Processes : Step(p)
    BY <2>2, ExplainsStep
  <2> QED BY <2>1, <2>2 DEF Next
<1> QED BY InitExplains, <1>1, Invariance, PTL DEF Spec

\* No value of a refused, rolled back, late or foreign event is ever in a
\* projection, although transactions overwrite each other's columns.
THEOREM ProjectionsWitnessed == Spec => []ProjectionIsWitnessed
<1>1. Explains => ProjectionIsWitnessed
  BY DEF Explains, Explained, ProjectionIsWitnessed
<1> QED BY <1>1, ExplainsAlways, PTL

\* A shipment has its status because all events of the chain of custody that
\* leads there were applied to it.
THEOREM CustodyCorrect == Spec => []CustodyIsComplete
<1>1. Explains => CustodyIsComplete
  BY DEF Explains, Explained, CustodyIsComplete
<1> QED BY <1>1, ExplainsAlways, PTL

-----------------------------------------------------------------------------
(* The transactions implement the ledger. *)

\* A committing transaction is a step of the ledger.
LEMMA CommitRefines ==
    ASSUME IInv, Explains, NEW p \in Processes, Step(p), pc[p] = "commit", Install(p)
    PROVE  LedgerNext
<1> DEFINE s == event[p].shipment
           r == RecordOf(p)
<1>1. /\ s \in Shipments /\ history[event[p].id] = None /\ r.event = event[p]
      /\ history' = [history EXCEPT ![event[p].id] = r]
      /\ Draft(p) \in Projections
      /\ row' = [row EXCEPT ![s] = Merge(row[s], Draft(p), dirty[p])]
  BY CommitStores
<1>2. outbox' = outbox \cup {r}
  BY DEF Install
<1>3. Store(r)
  BY <1>1, <1>2 DEF Store
<1>4. TypeOK /\ RequestsOK
  BY DEF IInv
<1>5. CASE Creating(p)
  <2>1. PICK t \in Shipments : event[p] = CreationEvent(t)
    BY <1>4, <1>5 DEF RequestsOK, RequestOK, Registering
  <2>2. s = t /\ r = [event |-> CreationEvent(t), processing |-> "APPLIED"]
    BY <1>5, <2>1 DEF CreationEvent, RecordOf
  <2>3. row[t] = None
    BY <1>5, <2>2 DEF IInv, Exclusive, Registering
  <2>4. row' = [row EXCEPT ![t] = Created]
    BY <1>1, <1>5, <2>2, <2>3 DEF Merge, Draft
  <2>5. Register(t)
    BY <1>3, <2>2, <2>3, <2>4 DEF Register
  <2> QED BY <2>5 DEF LedgerNext
<1>6. CASE ~Creating(p)
  <2> DEFINE e == event[p]
             verdict == Outcome(view[p], e)
  <2>1. /\ e \in Deliveries /\ e \in Events /\ view[p] \in Projections
        /\ row[s] # None /\ verdict \in ProcessingStatuses
    BY <1>4, <1>6 DEF RequestsOK, RequestOK, Ingesting
  <2>2. Store([event |-> e, processing |-> verdict])
    BY <1>3, <1>6 DEF RecordOf
  <2>3. ASSUME verdict = "APPLIED", e.type # "LOCATION_UPDATED" PROVE Caused(e, history)
    <3>1. view[p].status \in Statuses /\ Allowed(view[p].status, e.type)
      BY <2>1, <2>3 DEF Outcome, Projections, Events, EventTypes
    <3>2. Witnessed(s, "status", view[p].status, history)
      BY <2>1, NoneAssumption DEF Explains, Explained, Columns
    <3> QED BY <3>1, <3>2 DEF Caused
  <2>4. row[s] \in Projections /\ row'[s] = Merge(row[s], Draft(p), dirty[p])
    BY <1>1, <1>4, <2>1 DEF TypeOK
  <2>5. /\ row'[s] \in Projections
        /\ \A c \in Columns : row'[s][c] \in {row[s][c], Draft(p)[c]}
    BY <1>1, <1>4, <2>1, <2>4, MergeType DEF TypeOK
  <2>6. \A c \in Columns : Witnessed(s, c, Draft(p)[c], history')
    BY DraftExplained DEF Explained
  <2>7. \A c \in Columns : \/ row'[s][c] = row[s][c]
                           \/ Witnessed(s, c, row'[s][c], history')
    BY <2>5, <2>6
  <2>8. row' = [row EXCEPT ![s] = row'[s]]
    BY <1>1, <2>4
  <2>9. Record(e, verdict)
    BY <2>1, <2>2, <2>3, <2>5, <2>7, <2>8 DEF Record
  <2> QED BY <2>1, <2>9 DEF LedgerNext
<1> QED BY <1>5, <1>6

\* Ingestion implements the ledger: registering and recording look atomic,
\* records are never changed or stored twice, a request that is refused, that
\* fails or that repeats an event leaves no trace.
THEOREM ImplementsLedger == Spec => LedgerSpec
<1>1. Init => LedgerInit
  BY DEF Init
<1>2. IInv /\ Explains /\ [Next]_vars => [LedgerNext]_ledger
  <2> SUFFICES ASSUME IInv, Explains, [Next]_vars PROVE [LedgerNext]_ledger
    OBVIOUS
  <2>1. CASE UNCHANGED vars
    BY <2>1 DEF vars, ledger
  <2>2. ASSUME NEW p \in Processes, Step(p) PROVE [LedgerNext]_ledger
    BY <2>2, CommitOrNot, CommitRefines
  <2> QED BY <2>1, <2>2 DEF Next
<1> QED BY <1>1, <1>2, ExplainsAlways, PTL DEF Spec, LedgerSpec

-----------------------------------------------------------------------------
(* Registrations. *)

\* The row of a shipment and its creation event are stored together.
RegistrationsWhole ==
    /\ \A s \in Shipments : row[s] # None => history[s] # None
    /\ \A i \in Ids : history[i] # None =>
          history[i].event.shipment \in Shipments /\ row[history[i].event.shipment] # None

\* A commit stores a creation event with the shipment's row, and any other
\* record only for a row that is there.
LEMMA RegistrationsStep ==
    ASSUME IInv, RegistrationsWhole, NEW p \in Processes, Step(p)
    PROVE  RegistrationsWhole'
<1>1. CASE UNCHANGED ledger
  BY <1>1 DEF ledger, RegistrationsWhole
<1>2. CASE pc[p] = "commit" /\ Install(p)
  <2> DEFINE s == event[p].shipment
             i == event[p].id
  <2>1. /\ i \in Ids /\ s \in Shipments /\ RecordOf(p) # None /\ RecordOf(p).event = event[p]
        /\ history' = [history EXCEPT ![i] = RecordOf(p)]
        /\ row' = [row EXCEPT ![s] = Merge(row[s], Draft(p), dirty[p])]
    BY <1>2, CommitStores
  <2>2. /\ row \in [Shipments -> {None} \cup Projections]
        /\ history \in [Ids -> {None} \cup Records]
    BY DEF IInv, TypeOK
  <2>3. row'[s] # None /\ \A t \in Shipments : row[t] # None => row'[t] # None
    <3>1. Merge(row[s], Draft(p), dirty[p]) # None
      <4>1. Draft(p) \in Projections /\ dirty[p] \in SUBSET Columns
        BY <1>2, CommitStores DEF IInv, TypeOK
      <4>2. row[s] \in {None} \cup Projections
        BY <2>1, <2>2
      <4>3. Merge(row[s], Draft(p), dirty[p]) \in Projections
        BY <4>1, <4>2, MergeType
      <4> QED BY <4>3, NoneAssumption
    <3> QED BY <2>1, <2>2, <3>1
  <2>4. \A j \in Ids : history[j] # None => history'[j] = history[j]
    BY TablesGrow
  <2>5. history'[s] # None
    <3>1. CASE Creating(p)
      BY <1>2, <2>1, <2>2, <3>1, EventAtHand
    <3>2. CASE ~Creating(p)
      <4>1. row[s] # None
        BY <1>2, <3>2 DEF IInv, RequestsOK, RequestOK, Ingesting
      <4> QED BY <2>1, <2>4, <4>1 DEF RegistrationsWhole, Ids
    <3> QED BY <3>1, <3>2
  <2>6. ASSUME NEW t \in Shipments, row'[t] # None PROVE history'[t] # None
    <3>1. t # s => row[t] # None
      BY <2>1, <2>2, <2>6
    <3> QED BY <2>4, <2>5, <3>1 DEF RegistrationsWhole, Ids
  <2>7. ASSUME NEW j \in Ids, history'[j] # None
        PROVE  history'[j].event.shipment \in Shipments /\ row'[history'[j].event.shipment] # None
    <3>1. CASE j = i
      BY <2>1, <2>2, <2>3, <3>1
    <3>2. CASE j # i
      BY <2>1, <2>2, <2>3, <2>7, <3>2 DEF RegistrationsWhole
    <3> QED BY <3>1, <3>2
  <2> QED BY <2>6, <2>7 DEF RegistrationsWhole
<1> QED BY <1>1, <1>2, CommitOrNot

LEMMA RegistrationsAlways == Spec => []RegistrationsWhole
<1>1. Init => RegistrationsWhole
  BY DEF Init, LedgerInit, RegistrationsWhole
<1>2. IInv /\ RegistrationsWhole /\ [Next]_vars => RegistrationsWhole'
  <2> SUFFICES ASSUME IInv, RegistrationsWhole, [Next]_vars PROVE RegistrationsWhole'
    OBVIOUS
  <2>1. CASE UNCHANGED vars
    BY <2>1 DEF vars, RegistrationsWhole
  <2>2. CASE \E p \in Processes : Step(p)
    BY <2>2, RegistrationsStep
  <2> QED BY <2>1, <2>2 DEF Next
<1> QED BY <1>1, <1>2, Invariance, PTL DEF Spec

\* Each record belongs to a registered shipment with its creation in the
\* history, whatever replies were sent before commits that failed.
THEOREM RegistrationCorrect == Spec => []RecordsFollowRegistration
<1>1. RegistrationsWhole => RecordsFollowRegistration
  BY DEF RegistrationsWhole, RecordsFollowRegistration
<1> QED BY <1>1, RegistrationsAlways, PTL

-----------------------------------------------------------------------------
(* Reference numbers. *)

Inserted(p) == pc[p] \in {"reply", "commit"} /\ Creating(p)

ReferenceOf(p) == Reference[event[p].shipment]

\* A reference number a transaction has inserted is in no committed row and in
\* no other transaction.
ReferencesExclusive ==
    /\ ReferenceIsUnique
    /\ \A p \in Processes, s \in Shipments :
          Inserted(p) /\ row[s] # None => Reference[s] # ReferenceOf(p)
    /\ \A p, q \in Processes :
          Inserted(p) /\ Inserted(q) /\ p # q => ReferenceOf(p) # ReferenceOf(q)

\* A transaction comes to hold a reference number when nobody else does.
LEMMA InsertReference ==
    ASSUME IInv, NEW p \in Processes, Step(p), Inserted(p)'
    PROVE  /\ event'[p] = event[p]
           /\ ~Inserted(p) => /\ UNCHANGED ledger
                              /\ \A s \in Shipments : row[s] # None => Reference[s] # ReferenceOf(p)
                              /\ \A q \in Processes : Inserted(q) => ReferenceOf(q) # ReferenceOf(p)
<1>t. TypeOK /\ RequestOK(p)
  BY DEF IInv, RequestsOK
<1>1. ~(\E s \in Shipments : RequestCreation(p, s)) /\ ~(\E e \in Deliveries : Deliver(p, e) \/ RefuseCreation(p, e))
  BY <1>t DEF RequestCreation, Deliver, RefuseCreation, Start, End, Goto, TypeOK, Inserted
<1>2. event' = event /\ (Advance(p) \/ Fail(p))
  BY <1>1 DEF Step, Advance, Fail, InsertShipment, Load, Check, Save, Insert, Flush,
              Reload, Reply, Commit, CommitUnacknowledged
<1>3. CASE Inserted(p)
  BY <1>2, <1>3
<1>4. CASE ~Inserted(p)
  <2>1. InsertShipment(p)
    BY <1>2, <1>4, <1>t DEF Advance, Fail, Load, Check, Save, Insert, Flush, Reload,
       Reply, Commit, CommitUnacknowledged, End, Goto, TypeOK, Inserted, Creating,
       RequestOK, Registering
  <2>2. /\ ReferenceHolders(ReferenceOf(p)) = {} /\ UNCHANGED ledger
        /\ {t \in Shipments : row[t] # None /\ Reference[t] = ReferenceOf(p)} = {}
    BY <2>1, <1>t DEF InsertShipment, End, Goto, TypeOK, Inserted, ReferenceOf
  <2>3. \A q \in Processes : Inserted(q) => ReferenceOf(q) # ReferenceOf(p)
    BY <2>2 DEF ReferenceHolders, Inserted, ReferenceOf
  <2> QED BY <1>2, <2>2, <2>3
<1> QED BY <1>3, <1>4

LEMMA ReferencesStep ==
    ASSUME IInv, ReferencesExclusive, NEW p \in Processes, Step(p)
    PROVE  ReferencesExclusive'
<1>a. \A q \in Processes : p # q => Inserted(q)' = Inserted(q) /\ event'[q] = event[q]
  BY OthersKeep DEF Inserted, Creating
<1>1. ASSUME NEW q \in Processes, NEW r \in Processes, q # r, Inserted(q)', Inserted(r)'
      PROVE  ReferenceOf(q)' # ReferenceOf(r)'
  BY <1>1, <1>a, InsertReference DEF ReferencesExclusive, ReferenceOf
<1>2. ASSUME NEW q \in Processes, Inserted(q)'
      PROVE  /\ ReferenceOf(q)' = ReferenceOf(q)
             /\ \A s \in Shipments : row[s] # None => Reference[s] # ReferenceOf(q)'
  BY <1>2, <1>a, InsertReference DEF ReferencesExclusive, ReferenceOf
<1>3. CASE UNCHANGED ledger
  BY <1>1, <1>2, <1>3 DEF ledger, ReferencesExclusive, ReferenceIsUnique
<1>4. CASE pc[p] = "commit" /\ pc'[p] = "idle" /\ Install(p)
  <2> DEFINE s == event[p].shipment
  <2>1. /\ s \in Shipments /\ row \in [Shipments -> {None} \cup Projections]
        /\ row' = [row EXCEPT ![s] = Merge(row[s], Draft(p), dirty[p])]
    BY <1>4, CommitStores DEF IInv, TypeOK
  <2>2. \A t \in Shipments : t # s => row'[t] = row[t]
    BY <2>1
  <2>3. CASE Creating(p)
    <3>1. Inserted(p) /\ ReferenceOf(p) = Reference[s]
      BY <1>4, <2>3 DEF Inserted, ReferenceOf
    <3>2. \A t \in Shipments : row[t] # None => Reference[t] # Reference[s]
      BY <3>1 DEF ReferencesExclusive
    <3>3. ReferenceIsUnique'
      BY <2>2, <3>2 DEF ReferencesExclusive, ReferenceIsUnique
    <3>4. ASSUME NEW q \in Processes, NEW t \in Shipments, Inserted(q)', row'[t] # None
          PROVE  Reference[t] # ReferenceOf(q)'
      <4>1. p # q /\ Inserted(q)
        BY <1>4, <1>a, <3>4 DEF Inserted
      <4>2. ReferenceOf(q) # Reference[s]
        BY <3>1, <4>1 DEF ReferencesExclusive
      <4> QED BY <1>2, <2>2, <3>4, <4>2
    <3> QED BY <1>1, <3>3, <3>4 DEF ReferencesExclusive
  <2>4. CASE ~Creating(p)
    <3>1. row[s] # None
      BY <1>4, <2>4 DEF IInv, RequestsOK, RequestOK, Ingesting
    <3>2. \A t \in Shipments : row'[t] # None => row[t] # None
      BY <2>2, <3>1
    <3> QED BY <1>1, <1>2, <3>2 DEF ReferencesExclusive, ReferenceIsUnique
  <2> QED BY <2>3, <2>4
<1> QED BY <1>3, <1>4, CommitOrNot

LEMMA InitReferences == Init => ReferencesExclusive
BY DEF Init, LedgerInit, ReferencesExclusive, ReferenceIsUnique, Inserted

\* However many creations under one reference number are admitted together, at
\* most one of them is ever registered.
THEOREM ReferencesCorrect == Spec => []ReferenceIsUnique
<1>1. IInv /\ ReferencesExclusive /\ [Next]_vars => ReferencesExclusive'
  <2> SUFFICES ASSUME IInv, ReferencesExclusive, [Next]_vars PROVE ReferencesExclusive'
    OBVIOUS
  <2>1. CASE UNCHANGED vars
    BY <2>1 DEF vars, ledger, ReferencesExclusive, ReferenceIsUnique, Inserted, Creating, ReferenceOf
  <2>2. CASE \E p \in Processes : Step(p)
    BY <2>2, ReferencesStep
  <2> QED BY <2>1, <2>2 DEF Next
<1>2. ReferencesExclusive => ReferenceIsUnique
  BY DEF ReferencesExclusive
<1> QED BY InitReferences, <1>1, <1>2, Invariance, PTL DEF Spec

-----------------------------------------------------------------------------
(* Repeats. *)

\* An event that was recorded when its request read the shipment is there
\* still, and the request does not get past its duplicate check.
KnownOK(p) ==
    /\ pc[p] \in {"load", "check"} => answer[p] = None
    /\ known[p] => /\ event[p].id \in Ids /\ history[event[p].id] # None
                   /\ pc[p] \in {"idle", "check"}

\* A request that recovers has met a record.
RecoveryOK(p) ==
    /\ pc[p] = "reload" => history[event[p].id] # None
    /\ answer[p] = "Recovered" => pc[p] = "idle" /\ known[p]

Repeated(p) == known[p] /\ history[event[p].id].event.shipment = event[p].shipment

RepeatsOK ==
    \A p \in Processes : /\ KnownOK(p) /\ RecoveryOK(p)
                         /\ Repeated(p) => answer[p] \notin Refusals \cup {"TypeError"}

\* What the step of another process leaves of it.
LEMMA RepeatsOthers ==
    ASSUME IInv, RepeatsOK, NEW p \in Processes, NEW q \in Processes, p # q, Step(p)
    PROVE  /\ KnownOK(q)' /\ RecoveryOK(q)'
           /\ Repeated(q)' => answer'[q] \notin Refusals \cup {"TypeError"}
<1>1. /\ pc'[q] = pc[q] /\ event'[q] = event[q]
      /\ known'[q] = known[q] /\ answer'[q] = answer[q]
  BY OthersKeep
<1>2. \A i \in Ids : history[i] # None => history'[i] = history[i]
  BY TablesGrow
<1>3. KnownOK(q) /\ RecoveryOK(q) /\ (Repeated(q) => answer[q] \notin Refusals \cup {"TypeError"})
  BY DEF RepeatsOK
<1>4. pc[q] = "reload" => event[q].id \in Ids
  BY EventAtHand
<1>5. known[q] => history'[event[q].id] = history[event[q].id]
  BY <1>2, <1>3 DEF KnownOK
<1>6. KnownOK(q)'
  BY <1>1, <1>3, <1>5 DEF KnownOK
<1>7. RecoveryOK(q)'
  BY <1>1, <1>2, <1>3, <1>4 DEF RecoveryOK
<1>8. Repeated(q)' => Repeated(q)
  BY <1>1, <1>5 DEF Repeated
<1> QED BY <1>1, <1>3, <1>6, <1>7, <1>8

\* And what the step of the process itself makes of it.
LEMMA RepeatsOwn ==
    ASSUME IInv, RegistrationsWhole, RepeatsOK, NEW p \in Processes, Step(p)
    PROVE  /\ KnownOK(p)' /\ RecoveryOK(p)'
           /\ Repeated(p)' => answer'[p] \notin Refusals \cup {"TypeError"}
<1> DEFINE Goal == /\ KnownOK(p)' /\ RecoveryOK(p)'
                   /\ Repeated(p)' => answer'[p] \notin Refusals \cup {"TypeError"}
<1>t. /\ TypeOK
      /\ KnownOK(p) /\ RecoveryOK(p)
      /\ Repeated(p) => answer[p] \notin Refusals \cup {"TypeError"}
  BY DEF IInv, RepeatsOK
<1>i. pc[p] # "idle" => event[p].id \in Ids /\ event[p].shipment \in Shipments
  BY EventAtHand
<1> USE DEF KnownOK, RecoveryOK, Repeated
<1>1. ASSUME NEW s \in Shipments, RequestCreation(p, s) PROVE Goal
  <2>1. pc'[p] # "idle" /\ pc'[p] # "reload" /\ answer'[p] = None /\ ~known'[p]
    BY <1>t, <1>1 DEF RequestCreation, Start, Goto, TypeOK
  <2> QED BY <2>1, NoAnswerAssumption DEF Answers
<1>2. ASSUME NEW e \in Deliveries, Deliver(p, e) PROVE Goal
  <2>1. pc'[p] # "idle" /\ pc'[p] # "reload" /\ answer'[p] = None /\ ~known'[p]
    BY <1>t, <1>2 DEF Deliver, Start, Goto, TypeOK
  <2> QED BY <2>1, NoAnswerAssumption DEF Answers
<1>3. ASSUME NEW e \in Deliveries, RefuseCreation(p, e) PROVE Goal
  BY <1>t, <1>3 DEF RefuseCreation, End, Goto, TypeOK
<1>4. CASE InsertShipment(p)
  BY <1>t, <1>4 DEF InsertShipment, End, Goto, TypeOK, ledger
<1>5. CASE Load(p)
  <2>1. /\ event' = event /\ history' = history
        /\ known'[p] = (history[event[p].id] # None)
        /\ answer[p] # "Recovered"
    BY <1>t, <1>5 DEF Load, TypeOK, ledger
  <2>2. CASE row[event[p].shipment] = None
    <3>1. Repeated(p)' => FALSE
      BY <1>i, <1>5, <2>1, <2>2 DEF RegistrationsWhole, Load
    <3>2. pc'[p] = "idle" /\ answer'[p] = "ValueError"
      BY <1>t, <1>5, <2>2 DEF Load, End, Goto, TypeOK
    <3> QED BY <1>i, <1>5, <2>1, <3>1, <3>2 DEF Load
  <2>3. CASE row[event[p].shipment] # None
    <3>1. pc'[p] = "check" /\ answer'[p] = answer[p] /\ answer[p] = None
      BY <1>t, <1>5, <2>3 DEF Load, End, Goto, TypeOK
    <3> QED BY <1>i, <1>5, <2>1, <3>1, NoAnswerAssumption DEF Load, Answers, Refusals
  <2> QED BY <2>2, <2>3
<1>6. CASE Check(p)
  <2>1. CASE known[p]
    <3>1. /\ pc'[p] = "idle" /\ answer'[p] = "Duplicate"
          /\ event' = event /\ history' = history /\ known' = known
      BY <1>t, <1>6, <2>1 DEF Check, End, Goto, TypeOK, ledger
    <3> QED BY <1>t, <2>1, <3>1 DEF Refusals
  <2>2. CASE ~known[p]
    <3>1. pc'[p] \in {"idle", "save"} /\ answer'[p] # "Recovered" /\ ~known'[p]
      BY <1>t, <1>6, <2>2, OutcomeType, NoAnswerAssumption DEF Answers, Check, End, Goto, TypeOK, Refusals
    <3> QED BY <3>1
  <2> QED BY <2>1, <2>2
<1>7. CASE Save(p) \/ Flush(p) \/ Reply(p)
  BY <1>t, <1>7 DEF Save, Flush, Reply, Goto, TypeOK, ledger
<1>8. CASE Insert(p)
  BY <1>t, <1>8 DEF Insert, End, Goto, TypeOK, ledger
<1>9. CASE Reload(p)
  <2>1. /\ event' = event /\ history' = history /\ pc'[p] = "idle"
        /\ answer'[p] = "Recovered" /\ known'[p]
    BY <1>t, <1>9 DEF Reload, End, Goto, TypeOK, ledger
  <2> QED BY <1>t, <1>i, <1>9, <2>1 DEF Reload, Refusals
<1>10. CASE Commit(p) \/ CommitUnacknowledged(p)
  BY <1>t, <1>10 DEF Commit, CommitUnacknowledged, End, Goto, TypeOK
<1>11. CASE Fail(p)
  <2>1. /\ event' = event /\ history' = history /\ known' = known /\ pc'[p] = "idle"
        /\ answer'[p] = IF answer[p] = None THEN "Failure" ELSE answer[p]
    BY <1>t, <1>11 DEF Fail, End, Goto, TypeOK, ledger
  <2> QED BY <1>t, <1>11, <2>1 DEF Fail, Refusals
<1> QED
  BY <1>1, <1>2, <1>3, <1>4, <1>5, <1>6, <1>7, <1>8, <1>9, <1>10, <1>11 DEF Step, Advance

LEMMA RepeatsAlways == Spec => []RepeatsOK
<1>1. Init => RepeatsOK
  BY NoAnswerAssumption DEF Init, RepeatsOK, KnownOK, RecoveryOK, Repeated, Answers
<1>2. IInv /\ RegistrationsWhole /\ RepeatsOK /\ [Next]_vars => RepeatsOK'
  <2> SUFFICES ASSUME IInv, RegistrationsWhole, RepeatsOK, [Next]_vars PROVE RepeatsOK'
    OBVIOUS
  <2>1. CASE UNCHANGED vars
    BY <2>1 DEF vars, RepeatsOK, KnownOK, RecoveryOK, Repeated
  <2>2. ASSUME NEW p \in Processes, Step(p) PROVE RepeatsOK'
    BY <2>2, RepeatsOthers, RepeatsOwn DEF RepeatsOK
  <2> QED BY <2>1, <2>2 DEF Next
<1> QED BY <1>1, <1>2, Invariance, RegistrationsAlways, PTL DEF Spec

\* A repeat of an event that was recorded when its request began to read is
\* never refused, whatever happened to the shipment since.
THEOREM RepeatsCorrect == Spec => []RepeatIsNeverRefused
<1>1. RepeatsOK => RepeatIsNeverRefused
  BY DEF RepeatsOK, Repeated, RepeatIsNeverRefused
<1> QED BY <1>1, RepeatsAlways, PTL

\* The projection a loser of the race for an event identity is answered with
\* was read after the winner's commit.
THEOREM RecoveryCorrect == Spec => []RecoveredAnswerIsCurrent
<1>1. RepeatsOK => RecoveredAnswerIsCurrent
  BY DEF RepeatsOK, RecoveryOK, RecoveredAnswerIsCurrent
<1> QED BY <1>1, RepeatsAlways, PTL

-----------------------------------------------------------------------------
(* Read endpoints: the theorems of ShipmentQueries. *)

\* A list of records explains a projection by itself.
ExplainedBy(records, sh) ==
    LET applied == {record \in records : record.processing = "APPLIED"}
    IN  /\ \A c \in Columns :
              \/ sh[c] = Created[c]
              \/ \E record \in applied : Writes(record.event, c, sh[c])
        /\ Custody[sh.status] \subseteq {record.event.type : record \in applied}

\* What the history explains, so do the records of the shipment it lists.
LEMMA ListExplains ==
    ASSUME TypeOK, NEW s, NEW sh, Explained(s, sh, history)
    PROVE  ExplainedBy(Listed(s), sh)
<1> DEFINE applied == {record \in Listed(s) : record.processing = "APPLIED"}
<1>1. DOMAIN history = Ids
  BY DEF TypeOK
<1>2. \A i \in Applied(s, history) : history[i] \in applied
  BY <1>1 DEF Applied, Listed
<1>3. \A c \in Columns : \/ sh[c] = Created[c]
                         \/ \E record \in applied : Writes(record.event, c, sh[c])
  BY <1>2 DEF Explained, Witnessed
<1>4. AppliedTypes(s, history) \subseteq {record.event.type : record \in applied}
  BY <1>2 DEF AppliedTypes
<1> QED BY <1>3, <1>4 DEF ExplainedBy, Explained

\* What a reader was shown stays explained by the history as it grows, and is
\* explained by the list it has got.
ReaderOK(r) ==
    shown[r] # None /\ shown[r].projection # None =>
        /\ Explained(shown[r].shipment, shown[r].projection, history)
        /\ listed[r] # None => ExplainedBy(listed[r], shown[r].projection)

ReadersOK == /\ shown \in [Readers -> {None} \cup ShipmentAnswers]
             /\ listed \in [Readers -> {None} \cup SUBSET Records]
             /\ \A r \in Readers : ReaderOK(r)

QueriesInv == IInv /\ Explains /\ ReferencesExclusive /\ ReadersOK

\* A query changes nothing and gives its reader what is committed.
LEMMA QueryStep ==
    ASSUME QueriesInv, NEW r \in Readers, Query(r)
    PROVE  QueriesInv'
<1>0. UNCHANGED vars
  BY DEF Query, GetShipment, GetShipmentEvents
<1>1. IInv' /\ Explains' /\ ReferencesExclusive'
  <2>1. IInv'
    BY <1>0, StepIInv DEF QueriesInv
  <2>2. Explains' /\ ReferencesExclusive'
    BY <1>0 DEF QueriesInv, vars, Explains, ReferencesExclusive, ReferenceIsUnique, Inserted,
                Creating, ReferenceOf
  <2> QED BY <2>1, <2>2
<1>2. history' = history
  BY <1>0 DEF vars
<1>3. /\ TypeOK /\ Explains /\ ReadersOK
      /\ \A q \in Readers : ReaderOK(q)
  BY DEF QueriesInv, IInv, ReadersOK
<1>4. ASSUME NEW s \in Shipments, GetShipment(r, s) PROVE ReadersOK'
  <2>1. /\ shown' = [shown EXCEPT ![r] = [shipment |-> s, projection |-> row[s]]]
        /\ listed' = [listed EXCEPT ![r] = None]
    BY <1>4 DEF GetShipment
  <2>2. ASSUME NEW q \in Readers PROVE ReaderOK(q)'
    <3>1. CASE q = r
      <4>1. /\ shown'[q].shipment = s /\ shown'[q].projection = row[s]
            /\ listed'[q] = None
        BY <1>3, <2>1, <3>1 DEF ReadersOK
      <4>2. row[s] # None => Explained(s, row[s], history)
        BY <1>3 DEF Explains
      <4> QED BY <1>2, <4>1, <4>2 DEF ReaderOK
    <3>2. CASE q # r
      <4>1. shown'[q] = shown[q] /\ listed'[q] = listed[q]
        BY <1>3, <2>1, <3>2 DEF ReadersOK
      <4> QED BY <1>2, <1>3, <4>1 DEF ReaderOK
    <3> QED BY <3>1, <3>2
  <2>3. [shipment |-> s, projection |-> row[s]] \in ShipmentAnswers
    BY <1>3 DEF TypeOK, ShipmentAnswers
  <2> QED BY <1>3, <2>1, <2>2, <2>3 DEF ReadersOK
<1>5. CASE GetShipmentEvents(r)
  <2>1. /\ shown' = shown /\ shown[r] # None
        /\ listed' = [listed EXCEPT ![r] = Listed(shown[r].shipment)]
    BY <1>5 DEF GetShipmentEvents
  <2>2. ASSUME NEW q \in Readers PROVE ReaderOK(q)'
    <3>1. CASE q = r
      <4>1. listed'[q] = Listed(shown[q].shipment)
        BY <1>3, <2>1, <3>1 DEF ReadersOK
      <4>2. shown[q].projection # None =>
                /\ Explained(shown[q].shipment, shown[q].projection, history)
                /\ ExplainedBy(Listed(shown[q].shipment), shown[q].projection)
        BY <1>3, <2>1, <3>1, ListExplains DEF ReaderOK
      <4> QED BY <1>2, <2>1, <4>1, <4>2 DEF ReaderOK
    <3>2. CASE q # r
      <4>1. shown'[q] = shown[q] /\ listed'[q] = listed[q]
        BY <1>3, <2>1, <3>2 DEF ReadersOK
      <4> QED BY <1>2, <1>3, <4>1 DEF ReaderOK
    <3> QED BY <3>1, <3>2
  <2>3. Listed(shown[r].shipment) \in SUBSET Records
    BY <1>3 DEF TypeOK, Listed
  <2>4. ReadersOK'
    BY <1>3, <2>1, <2>2, <2>3 DEF ReadersOK
  <2> QED BY <1>1, <2>4 DEF QueriesInv
<1> QED BY <1>1, <1>4, <1>5 DEF Query, QueriesInv

\* A commit beside the readers takes nothing away that explains their answers.
LEMMA WriterStep ==
    ASSUME QueriesInv, NEW p \in Processes, Step(p), UNCHANGED queries
    PROVE  QueriesInv'
<1>0. IInv /\ Explains /\ ReferencesExclusive /\ ReadersOK
  BY DEF QueriesInv
<1>1. IInv' /\ Explains' /\ ReferencesExclusive'
  BY <1>0, StepIInv, ExplainsStep, ReferencesStep DEF Next
<1>2. shown' = shown /\ listed' = listed
  BY DEF queries
<1>3. ASSUME NEW r \in Readers PROVE ReaderOK(r)'
  <2>1. CASE shown[r] # None /\ shown[r].projection # None
    <3>1. Explained(shown[r].shipment, shown[r].projection, history)
      BY <1>0, <2>1 DEF ReadersOK, ReaderOK
    <3>2. Explained(shown[r].shipment, shown[r].projection, history')
      BY <1>0, <3>1, ExplainedStays
    <3> QED BY <1>0, <1>2, <2>1, <3>2 DEF ReadersOK, ReaderOK
  <2>2. CASE ~(shown[r] # None /\ shown[r].projection # None)
    BY <1>2, <2>2 DEF ReaderOK
  <2> QED BY <2>1, <2>2
<1> QED BY <1>0, <1>1, <1>2, <1>3 DEF QueriesInv, ReadersOK

LEMMA QueriesInvariance == QueriesSpec => []QueriesInv
<1>1. QueriesInit => QueriesInv
  <2> SUFFICES ASSUME QueriesInit PROVE QueriesInv
    OBVIOUS
  <2>1. IInv /\ Explains /\ ReferencesExclusive
    BY InitIInv, InitExplains, InitReferences DEF QueriesInit
  <2>2. ReadersOK
    BY DEF QueriesInit, QueryInit, ReadersOK, ReaderOK
  <2> QED BY <2>1, <2>2 DEF QueriesInv
<1>2. QueriesInv /\ [QueriesNext]_<<vars, queries>> => QueriesInv'
  <2> SUFFICES ASSUME QueriesInv, [QueriesNext]_<<vars, queries>> PROVE QueriesInv'
    OBVIOUS
  <2>1. ASSUME NEW p \in Processes, Step(p), UNCHANGED queries PROVE QueriesInv'
    BY <2>1, WriterStep
  <2>2. ASSUME NEW r \in Readers, Query(r) PROVE QueriesInv'
    BY <2>2, QueryStep
  <2>3. CASE UNCHANGED <<vars, queries>>
    <3>1. IInv'
      BY <2>3, StepIInv DEF QueriesInv
    <3>2. Explains' /\ ReferencesExclusive' /\ ReadersOK'
      BY <2>3 DEF QueriesInv, vars, queries, Explains, ReferencesExclusive, ReferenceIsUnique,
                  Inserted, Creating, ReferenceOf, ReadersOK, ReaderOK
    <3> QED BY <3>1, <3>2 DEF QueriesInv
  <2> QED BY <2>1, <2>2, <2>3 DEF QueriesNext, Next
<1> QED BY <1>1, <1>2, PTL DEF QueriesSpec

\* However many commits come between the two requests of a client, the events
\* it is given explain the shipment it was shown.
THEOREM AnswersExplained == QueriesSpec => []HistoryExplainsAnswer
<1>1. QueriesInv => HistoryExplainsAnswer
  BY DEF QueriesInv, ReadersOK, ReaderOK, ExplainedBy, HistoryExplainsAnswer
<1> QED BY <1>1, QueriesInvariance, PTL

\* Reading beside them, clients never come to see two shipments registered
\* under one reference number.
THEOREM ReferencesCorrectForReaders == QueriesSpec => []ReferenceIsUnique
<1>1. QueriesInv => ReferenceIsUnique
  BY DEF QueriesInv, ReferencesExclusive
<1> QED BY <1>1, QueriesInvariance, PTL

-----------------------------------------------------------------------------
(* Requests in turn. *)

\* Requests and deliveries for one shipment do not overlap; those for different
\* shipments may.
Serialized ==
    \A p, q \in Processes :
        p # q /\ pc[p] # "idle" /\ pc[q] # "idle" => event[p].shipment # event[q].shipment

\* The columns an UPDATE must write to turn one projection into another.
Changed(old, new) == {c \in Columns : new[c] # old[c]}

\* Writing the columns that changed, and no other, stores the new projection.
LEMMA MergeChanged ==
    ASSUME NEW old \in Projections, NEW new \in Projections
    PROVE  Merge(old, new, Changed(old, new)) = new
<1>1. Merge(old, new, Changed(old, new)) = [c \in Columns |-> new[c]]
  BY NoneAssumption DEF Merge, Changed
<1>2. new = [c \in Columns |-> new[c]]
  BY DEF Projections, Columns
<1> QED BY <1>1, <1>2

\* Without another request for its shipment the copy a transaction works on is
\* the committed row, and its UPDATE writes what the handler changed.
CopyIsCurrent(p) ==
    /\ Ingesting(p) /\ pc[p] \notin {"load", "reload"}
          => view[p] = row[event[p].shipment]
    /\ Ingesting(p) /\ pc[p] \in {"insert", "flush", "reply", "commit"}
          => dirty[p] = Changed(view[p], Draft(p))

CopiesAreCurrent == \A p \in Processes : CopyIsCurrent(p)

\* A commit for another shipment leaves a transaction's row alone.
LEMMA CopyOthers ==
    ASSUME IInv, Serialized, NEW p \in Processes, NEW q \in Processes, p # q,
           Step(p), CopyIsCurrent(q)
    PROVE  CopyIsCurrent(q)'
<1>1. /\ pc'[q] = pc[q] /\ event'[q] = event[q] /\ view'[q] = view[q]
      /\ dirty'[q] = dirty[q]
  BY OthersKeep
<1>2. Draft(q)' = Draft(q) /\ Ingesting(q)' = Ingesting(q)
  BY <1>1 DEF Draft, Ingesting, Creating
<1>3. pc[q] # "idle" => row'[event[q].shipment] = row[event[q].shipment]
  <2>1. CASE UNCHANGED ledger
    BY <2>1 DEF ledger
  <2>2. ASSUME pc[p] = "commit", Install(p), pc[q] # "idle"
        PROVE  row'[event[q].shipment] = row[event[q].shipment]
    <3>1. event[p].shipment # event[q].shipment
      BY <2>2 DEF Serialized
    <3>2. event[p].shipment \in Shipments /\ event[q].shipment \in Shipments
      BY <2>2, EventAtHand
    <3> QED BY <2>2, <3>1, <3>2 DEF Install, IInv, TypeOK
  <2> QED BY <2>1, <2>2, CommitOrNot
<1> QED BY <1>1, <1>2, <1>3 DEF CopyIsCurrent, Ingesting

\* A transaction reads the committed row, handles the event on it and finds the
\* same row when it saves.
LEMMA CopyOwn ==
    ASSUME IInv, NEW p \in Processes, Step(p), CopyIsCurrent(p)
    PROVE  CopyIsCurrent(p)'
<1> USE DEF Ingesting, Creating
<1>0. TypeOK
  BY DEF IInv
<1>1. ASSUME NEW s \in Shipments, RequestCreation(p, s) PROVE CopyIsCurrent(p)'
  BY <1>0, <1>1 DEF CopyIsCurrent, RequestCreation, Start, Goto, TypeOK, CreationEvent
<1>2. ASSUME NEW e \in Deliveries, Deliver(p, e) PROVE CopyIsCurrent(p)'
  BY <1>0, <1>2 DEF CopyIsCurrent, Deliver, Start, Goto, TypeOK
<1>3. CASE /\ Step(p) /\ pc'[p] \in {"idle", "reload"}
  BY <1>0, <1>3 DEF CopyIsCurrent
<1>4. CASE InsertShipment(p)
  <2>1. Registering(p)
    BY <1>4 DEF IInv, RequestsOK, RequestOK, InsertShipment, Registering
  <2>2. event' = event
    BY <1>4 DEF InsertShipment
  <2> QED BY <2>1, <2>2 DEF CopyIsCurrent, Registering
<1>5. CASE Load(p)
  BY <1>0, <1>5 DEF CopyIsCurrent, Load, End, Goto, TypeOK, ledger
<1>6. CASE Check(p)
  BY <1>0, <1>6 DEF CopyIsCurrent, Check, End, Goto, TypeOK, ledger
<1>7. CASE Save(p)
  <2>1. /\ pc[p] = "save" /\ pc' = [pc EXCEPT ![p] = "insert"]
        /\ row' = row /\ event' = event /\ view' = view
    BY <1>7 DEF Save, Goto, ledger
  <2>2. Draft(p)' = Draft(p)
    BY <2>1 DEF Draft
  <2>3. ASSUME ~Creating(p)
        PROVE  /\ view'[p] = row'[event'[p].shipment]
               /\ dirty'[p] = Changed(view'[p], Draft(p)')
    <3>1. view[p] = row[event[p].shipment]
      BY <2>1, <2>3 DEF CopyIsCurrent
    <3>2. dirty' = [dirty EXCEPT ![p] = {c \in Columns : Draft(p)[c] # view[p][c]}]
      BY <1>7, <3>1 DEF Save
    <3> QED BY <1>0, <2>1, <2>2, <3>1, <3>2 DEF Changed, TypeOK
  <2> QED BY <2>1, <2>3 DEF CopyIsCurrent
<1>8. CASE Insert(p) \/ Flush(p) \/ Reply(p)
  <2>1. CASE pc'[p] \in {"idle", "reload"}
    BY <1>3, <2>1
  <2>2. CASE pc'[p] \notin {"idle", "reload"}
    <3>1. /\ row' = row /\ event' = event /\ view' = view /\ dirty' = dirty
          /\ pc[p] \in {"insert", "flush", "reply"}
      BY <1>0, <1>8, <2>2 DEF Insert, Flush, Reply, End, Goto, TypeOK, ledger
    <3>2. Draft(p)' = Draft(p)
      BY <3>1 DEF Draft
    <3> QED BY <3>1, <3>2 DEF CopyIsCurrent
  <2> QED BY <2>1, <2>2
<1>9. ASSUME NEW e \in Deliveries, RefuseCreation(p, e) PROVE pc'[p] = "idle"
  BY <1>0, <1>9 DEF RefuseCreation, End, Goto, TypeOK
<1>10. ASSUME Reload(p) \/ Commit(p) \/ CommitUnacknowledged(p) \/ Fail(p)
       PROVE  pc'[p] = "idle"
  BY <1>0, <1>10 DEF Reload, Commit, CommitUnacknowledged, Fail, End, Goto, TypeOK
<1> QED BY <1>1, <1>2, <1>3, <1>4, <1>5, <1>6, <1>7, <1>8, <1>9, <1>10 DEF Step, Advance

LEMMA CopiesStep ==
    IInv /\ Serialized /\ CopiesAreCurrent /\ [Next]_vars => CopiesAreCurrent'
<1> SUFFICES ASSUME IInv, Serialized, CopiesAreCurrent, [Next]_vars
             PROVE  CopiesAreCurrent'
  OBVIOUS
<1>1. CASE UNCHANGED vars
  BY <1>1 DEF vars, CopiesAreCurrent, CopyIsCurrent, Ingesting, Creating, Draft, Changed
<1>2. ASSUME NEW p \in Processes, Step(p), NEW q \in Processes PROVE CopyIsCurrent(q)'
  BY <1>2, CopyOthers, CopyOwn DEF CopiesAreCurrent
<1> QED BY <1>1, <1>2 DEF CopiesAreCurrent, Next

\* Without overlap a commit is a step of the serial ledger.
LEMMA CommitInTurn ==
    ASSUME IInv, CopiesAreCurrent, NEW p \in Processes, Step(p), pc[p] = "commit", Install(p)
    PROVE  SerialLedgerNext
<1> DEFINE s == event[p].shipment
           r == RecordOf(p)
<1>1. /\ s \in Shipments /\ history[event[p].id] = None /\ r.event = event[p]
      /\ history' = [history EXCEPT ![event[p].id] = r]
      /\ Draft(p) \in Projections
      /\ row' = [row EXCEPT ![s] = Merge(row[s], Draft(p), dirty[p])]
  BY CommitStores
<1>2. Store(r)
  BY <1>1 DEF Store, Install
<1>3. TypeOK /\ RequestsOK
  BY DEF IInv
<1>4. CASE Creating(p)
  <2>1. PICK t \in Shipments : event[p] = CreationEvent(t)
    BY <1>3, <1>4 DEF RequestsOK, RequestOK, Registering
  <2>2. s = t /\ r = [event |-> CreationEvent(t), processing |-> "APPLIED"]
    BY <1>4, <2>1 DEF CreationEvent, RecordOf
  <2>3. row[t] = None
    BY <1>4, <2>2 DEF IInv, Exclusive, Registering
  <2>4. row' = [row EXCEPT ![t] = Created]
    BY <1>1, <1>4, <2>2, <2>3 DEF Merge, Draft
  <2>5. Register(t)
    BY <1>2, <2>2, <2>3, <2>4 DEF Register
  <2> QED BY <2>5 DEF SerialLedgerNext
<1>5. CASE ~Creating(p)
  <2> DEFINE e == event[p]
  <2>1. /\ e \in Deliveries /\ view[p] \in Projections /\ row[s] # None
        /\ Outcome(view[p], e) \in ProcessingStatuses
    BY <1>3, <1>5 DEF RequestsOK, RequestOK, Ingesting
  <2>2. view[p] = row[s] /\ dirty[p] = Changed(row[s], Draft(p))
    BY <1>5 DEF CopiesAreCurrent, CopyIsCurrent, Ingesting
  <2>3. Store([event |-> e, processing |-> Outcome(row[s], e)])
    BY <1>2, <1>5, <2>2 DEF RecordOf
  <2>4. Draft(p) = After(row[s], e)
    BY <1>5, <2>2 DEF Draft
  <2>5. Merge(row[s], Draft(p), dirty[p]) = After(row[s], e)
    BY <1>1, <2>1, <2>2, <2>4, MergeChanged
  <2>6. row' = [row EXCEPT ![s] = After(row[s], e)]
    BY <1>1, <2>5
  <2>7. RecordInTurn(e)
    BY <2>1, <2>2, <2>3, <2>6 DEF RecordInTurn
  <2> QED BY <2>1, <2>7 DEF SerialLedgerNext
<1> QED BY <1>4, <1>5

\* When the requests for each shipment come one after the other, ingestion is
\* the serial ledger: an event is judged by the current projection and changes
\* it as the handler says, whatever fails and whoever works on other shipments.
THEOREM SerialInTurn == Spec /\ []Serialized => SerialLedgerSpec
<1>1. Init => LedgerInit /\ CopiesAreCurrent
  BY DEF Init, CopiesAreCurrent, CopyIsCurrent, Ingesting
<1>2. IInv /\ CopiesAreCurrent /\ [Next]_vars => [SerialLedgerNext]_ledger
  <2> SUFFICES ASSUME IInv, CopiesAreCurrent, [Next]_vars PROVE [SerialLedgerNext]_ledger
    OBVIOUS
  <2>1. CASE UNCHANGED vars
    BY <2>1 DEF vars, ledger
  <2>2. ASSUME NEW p \in Processes, Step(p) PROVE [SerialLedgerNext]_ledger
    BY <2>2, CommitOrNot, CommitInTurn
  <2> QED BY <2>1, <2>2 DEF Next
<1> QED BY <1>1, <1>2, CopiesStep, Invariance, PTL DEF Spec, SerialLedgerSpec

-----------------------------------------------------------------------------
(* What the serial ledger promises. *)

\* Types of the ledger's variables, and no record before its shipment.
LedgerTypes ==
    /\ row \in [Shipments -> {None} \cup Projections]
    /\ history \in [Ids -> {None} \cup Records]
    /\ \A i \in Ids : history[i] # None => row[history[i].event.shipment] # None

\* Record i keeps to the timeline of the projection sh.
InTime(r, sh) ==
    LET clock == sh[ClockColumn(r.event)] IN
    /\ clock # None
    /\ r.event.at <= clock
    /\ r.processing = "STORED_OUT_OF_ORDER" => r.event.at < clock

Foretold(s, sh, h) ==
    \A i \in Ids :
        /\ h[i] # None /\ h[i].event.shipment = s
        /\ h[i].event.type # "SHIPMENT_CREATED"
        => InTime(h[i], sh)

StatusIsOne(s, sh, h) ==
    sh.status # "CREATED" =>
        \E i \in Applied(s, h) : /\ h[i].event.at = sh.lifecycleAt
                                 /\ Writes(h[i].event, "status", sh.status)

LocationIsOne(s, sh, h) ==
    sh.locationAt # None =>
        \E i \in Applied(s, h) : /\ h[i].event.type = "LOCATION_UPDATED"
                                 /\ h[i].event.at = sh.locationAt
                                 /\ h[i].event.lat = sh.lat
                                 /\ h[i].event.lon = sh.lon

\* ProjectionIsCurrent, for one projection and part by part.
Current(s, sh, h) == Foretold(s, sh, h) /\ StatusIsOne(s, sh, h) /\ LocationIsOne(s, sh, h)

LedgerInv ==
    /\ LedgerTypes
    /\ \A s \in Shipments : row[s] # None =>
          Explained(s, row[s], history) /\ Current(s, row[s], history)

LEMMA CurrentMeans == LedgerInv => ProjectionIsCurrent
BY DEF LedgerInv, Current, Foretold, InTime, StatusIsOne, LocationIsOne,
       ProjectionIsCurrent

\* Storing a record takes no other away.
LEMMA StoreKeeps ==
    ASSUME LedgerTypes, NEW r \in Records, r.event.id \in Ids, Store(r), NEW s
    PROVE  /\ history' \in [Ids -> {None} \cup Records]
           /\ \A i \in Ids \ {r.event.id} : history'[i] = history[i]
           /\ history'[r.event.id] = r /\ r # None
           /\ Applied(s, history) \subseteq Applied(s, history')
           /\ \A i \in Applied(s, history) : history'[i] = history[i] /\ i # r.event.id
           /\ r.event.shipment # s => Applied(s, history') = Applied(s, history)
           /\ \A sh : Explained(s, sh, history) => Explained(s, sh, history')
           /\ \A sh : StatusIsOne(s, sh, history) => StatusIsOne(s, sh, history')
           /\ \A sh : LocationIsOne(s, sh, history) => LocationIsOne(s, sh, history')
<1>1. /\ history' \in [Ids -> {None} \cup Records]
      /\ \A i \in Ids \ {r.event.id} : history'[i] = history[i]
      /\ history'[r.event.id] = r /\ r # None
      /\ history[r.event.id] = None
  BY NoneIsNoRecord DEF LedgerTypes, Store
<1>2. /\ Applied(s, history) \subseteq Applied(s, history')
      /\ \A i \in Applied(s, history) : history'[i] = history[i] /\ i # r.event.id
      /\ r.event.shipment # s => Applied(s, history') = Applied(s, history)
  BY <1>1 DEF Applied, LedgerTypes
<1>3. \A sh : Explained(s, sh, history) => Explained(s, sh, history')
  BY <1>2 DEF Explained, Witnessed, AppliedTypes
<1>4. \A sh : /\ StatusIsOne(s, sh, history) => StatusIsOne(s, sh, history')
              /\ LocationIsOne(s, sh, history) => LocationIsOne(s, sh, history')
  BY <1>2 DEF StatusIsOne, LocationIsOne
<1> QED BY <1>1, <1>2, <1>3, <1>4

\* A record of another shipment, or of a creation, makes no projection stale.
LEMMA BesideIt ==
    ASSUME LedgerTypes, NEW r \in Records, r.event.id \in Ids, Store(r),
           NEW s, NEW sh, Explained(s, sh, history), Current(s, sh, history),
           r.event.shipment # s \/ r.event.type = "SHIPMENT_CREATED"
    PROVE  Explained(s, sh, history') /\ Current(s, sh, history')
<1>1. Foretold(s, sh, history')
  BY StoreKeeps DEF Current, Foretold
<1> QED BY <1>1, StoreKeeps DEF Current

\* Clocks never go back, and the event itself is in time.
LEMMA AfterInTime ==
    ASSUME NEW sh \in Projections, NEW e \in Events, Outcome(sh, e) \in ProcessingStatuses
    PROVE  /\ InTime([event |-> e, processing |-> Outcome(sh, e)], After(sh, e))
           /\ \A r \in Records : InTime(r, sh) => InTime(r, After(sh, e))
<1>1. CASE Outcome(sh, e) # "APPLIED"
  <2>1. After(sh, e) = sh /\ Outcome(sh, e) = "STORED_OUT_OF_ORDER"
    BY <1>1 DEF After, ProcessingStatuses
  <2>2. Late(sh, e)
    BY <2>1 DEF Outcome
  <2>3. sh[ClockColumn(e)] \in Nat /\ e.at \in Nat
    BY <2>2 DEF Late, ClockColumn, Projections, Events
  <2> QED BY <2>1, <2>2, <2>3 DEF InTime, Late
<1>2. CASE Outcome(sh, e) = "APPLIED"
  <2>1. ~Late(sh, e) /\ e.at \in Nat
    BY <1>2 DEF Outcome, Events
  <2>2. /\ After(sh, e)[ClockColumn(e)] = e.at
        /\ \A k \in {"locationAt", "lifecycleAt"} :
              k # ClockColumn(e) => After(sh, e)[k] = sh[k]
    BY <1>2 DEF After, UpdateLocation, ChangeStatus, ClockColumn, Projections
  <2>3. InTime([event |-> e, processing |-> Outcome(sh, e)], After(sh, e))
    <3>1. After(sh, e)[ClockColumn(e)] # None
      BY <2>1, <2>2, NoneAssumption
    <3> QED BY <1>2, <2>1, <2>2, <3>1 DEF InTime
  <2>4. ASSUME NEW r \in Records, InTime(r, sh) PROVE InTime(r, After(sh, e))
    <3> DEFINE k == ClockColumn(r.event)
    <3>1. k \in {"locationAt", "lifecycleAt"}
      BY DEF ClockColumn
    <3>2. CASE k # ClockColumn(e)
      BY <2>2, <2>4, <3>1, <3>2 DEF InTime
    <3>3. CASE k = ClockColumn(e)
      <4>1. sh[k] \in Nat /\ r.event.at \in Nat
        BY <2>4, <3>1 DEF InTime, Projections, Records, Events
      <4>2. sh[k] <= e.at
        BY <2>1, <2>4, <3>3, <4>1 DEF Late, InTime
      <4>3. After(sh, e)[k] = e.at /\ After(sh, e)[k] # None
        BY <2>1, <2>2, <3>3, NoneAssumption
      <4> QED BY <2>1, <2>4, <4>1, <4>2, <4>3 DEF InTime
    <3> QED BY <3>2, <3>3
  <2> QED BY <2>3, <2>4
<1> QED BY <1>1, <1>2

\* Recording an event in turn leaves a projection that its record and the
\* earlier ones explain, and that is current.
LEMMA RecordedInTurn ==
    ASSUME LedgerInv, NEW e \in Deliveries, RecordInTurn(e)
    PROVE  LET s == e.shipment
               sh == After(row[s], e)
           IN  /\ s \in Shipments /\ row[s] \in Projections
               /\ sh \in Projections
               /\ Explained(s, sh, history') /\ Current(s, sh, history')
<1> DEFINE s == e.shipment
           sh == After(row[s], e)
           r == [event |-> e, processing |-> Outcome(row[s], e)]
<1>1. /\ e \in Events /\ s \in Shipments /\ e.id \in Ids
      /\ row[s] \in Projections /\ sh \in Projections
  <2>1. e \in Events /\ s \in Shipments /\ e.id \in Ids
    BY DeliveriesAssumption DEF Ids, Events
  <2>2. row[s] \in Projections
    BY <2>1 DEF LedgerInv, LedgerTypes, RecordInTurn
  <2> QED BY <2>1, <2>2, AfterType
<1>2. r \in Records /\ r.event.id \in Ids /\ Store(r)
  BY <1>1 DEF RecordInTurn, Records
<1>3. LedgerTypes /\ Explained(s, row[s], history) /\ Current(s, row[s], history)
  BY <1>1 DEF LedgerInv, RecordInTurn
<1>4. /\ Explained(s, row[s], history')
      /\ StatusIsOne(s, row[s], history') /\ LocationIsOne(s, row[s], history')
  BY <1>2, <1>3, StoreKeeps DEF Current
<1>5. Outcome(row[s], e) = "APPLIED" =>
         e.id \in Applied(s, history') /\ history'[e.id].event = e
  BY <1>2, <1>3, StoreKeeps DEF Applied
<1>6. Explained(s, sh, history')
  <2>1. ASSUME NEW c \in Columns PROVE Witnessed(s, c, sh[c], history')
    <3>1. \/ sh[c] = row[s][c]
          \/ Outcome(row[s], e) = "APPLIED" /\ Writes(e, c, sh[c])
      BY <1>1, AfterWrites
    <3> QED BY <1>4, <1>5, <3>1 DEF Explained, Witnessed
  <2>2. Custody[sh.status] \subseteq AppliedTypes(s, history')
    <3>1. \/ sh.status = row[s].status
          \/ /\ Outcome(row[s], e) = "APPLIED" /\ Allowed(row[s].status, e.type)
             /\ sh.status = Transitions[row[s].status][e.type]
      BY <1>1 DEF After, UpdateLocation, ChangeStatus, Outcome, Projections, Events, EventTypes
    <3>2. row[s].status \in Statuses
      BY <1>1 DEF Projections
    <3>3. Outcome(row[s], e) = "APPLIED" => e.type \in AppliedTypes(s, history')
      BY <1>5 DEF AppliedTypes
    <3> QED BY <1>4, <3>1, <3>2, <3>3, CustodyGrows DEF Explained
  <2> QED BY <2>1, <2>2 DEF Explained
<1>7. Foretold(s, sh, history')
  <2>1. InTime(r, sh) /\ \A q \in Records : InTime(q, row[s]) => InTime(q, sh)
    BY <1>1, AfterInTime DEF RecordInTurn
  <2>2. ASSUME NEW i \in Ids, history'[i] # None, history'[i].event.shipment = s,
               history'[i].event.type # "SHIPMENT_CREATED"
        PROVE  InTime(history'[i], sh)
    <3>1. CASE i = e.id
      BY <1>2, <1>3, <2>1, <3>1, StoreKeeps
    <3>2. CASE i # e.id
      <4>1. history'[i] = history[i] /\ history[i] \in Records
        BY <1>2, <1>3, <2>2, <3>2, StoreKeeps DEF LedgerTypes
      <4> QED BY <1>3, <2>1, <2>2, <4>1 DEF Current, Foretold
    <3> QED BY <3>1, <3>2
  <2> QED BY <2>2 DEF Foretold
<1>8. StatusIsOne(s, sh, history') /\ LocationIsOne(s, sh, history')
  <2>1. CASE Outcome(row[s], e) # "APPLIED"
    BY <1>4, <2>1 DEF After
  <2>2. CASE Outcome(row[s], e) = "APPLIED" /\ e.type = "LOCATION_UPDATED"
    <3>1. /\ sh.status = row[s].status /\ sh.lifecycleAt = row[s].lifecycleAt
          /\ sh.locationAt = e.at /\ sh.lat = e.lat /\ sh.lon = e.lon
      BY <1>1, <2>2 DEF After, UpdateLocation, Projections
    <3> QED BY <1>4, <1>5, <2>2, <3>1 DEF StatusIsOne, LocationIsOne
  <2>3. CASE Outcome(row[s], e) = "APPLIED" /\ e.type # "LOCATION_UPDATED"
    <3>1. Allowed(row[s].status, e.type) /\ row[s].status \in Statuses
      BY <1>1, <2>3 DEF Outcome, Projections, Events, EventTypes
    <3>2. /\ sh.status = Transitions[row[s].status][e.type] /\ sh.lifecycleAt = e.at
          /\ sh.locationAt = row[s].locationAt /\ sh.lat = row[s].lat
          /\ sh.lon = row[s].lon
      BY <1>1, <2>3 DEF After, ChangeStatus, Projections
    <3>3. Writes(e, "status", sh.status)
      BY <3>1, <3>2 DEF Writes
    <3> QED BY <1>4, <1>5, <2>3, <3>2, <3>3 DEF StatusIsOne, LocationIsOne
  <2> QED BY <2>1, <2>2, <2>3
<1> QED BY <1>1, <1>6, <1>7, <1>8 DEF Current

\* A shipment just registered has its initial values and no events.
LEMMA Registered ==
    ASSUME LedgerInv, NEW s \in Shipments, Register(s)
    PROVE  Explained(s, Created, history') /\ Current(s, Created, history')
<1> DEFINE r == [event |-> CreationEvent(s), processing |-> "APPLIED"]
<1>1. /\ r \in Records /\ r.event.id = s /\ s \in Ids /\ Store(r)
      /\ r.event.type = "SHIPMENT_CREATED"
  BY CreationEventType DEF Register, Records, ProcessingStatuses, CreationEvent, Ids
<1>2. Explained(s, Created, history')
  BY DEF Explained, Witnessed, Created, Custody
<1>3. Foretold(s, Created, history')
  <2>1. \A i \in Ids : history[i] # None => history[i].event.shipment # s
    BY DEF LedgerInv, LedgerTypes, Register
  <2> QED BY <1>1, <2>1, StoreKeeps DEF Foretold, LedgerInv
<1> QED BY <1>2, <1>3 DEF Current, StatusIsOne, LocationIsOne, Created

LEMMA LedgerStep == LedgerInv /\ [SerialLedgerNext]_ledger => LedgerInv'
<1> SUFFICES ASSUME LedgerInv, [SerialLedgerNext]_ledger PROVE LedgerInv'
  OBVIOUS
<1>1. ASSUME NEW s \in Shipments, NEW sh \in Projections, NEW r \in Records,
             r.event.id \in Ids, r.event.shipment = s, Store(r),
             row' = [row EXCEPT ![s] = sh],
             Explained(s, sh, history'), Current(s, sh, history')
      PROVE  LedgerInv'
  <2>1. LedgerTypes
    BY DEF LedgerInv
  <2>2. /\ row' \in [Shipments -> {None} \cup Projections] /\ row'[s] = sh /\ sh # None
        /\ \A t \in Shipments \ {s} : row'[t] = row[t]
    BY <1>1, <2>1, NoneAssumption DEF LedgerTypes
  <2>3. /\ history' \in [Ids -> {None} \cup Records]
        /\ \A i \in Ids \ {r.event.id} : history'[i] = history[i]
        /\ history'[r.event.id] = r
    BY <1>1, <2>1, StoreKeeps
  <2>4. ASSUME NEW i \in Ids, history'[i] # None PROVE row'[history'[i].event.shipment] # None
    <3>1. history'[i].event.shipment \in Shipments
      BY <2>3, <2>4 DEF Records, Events
    <3>2. CASE i = r.event.id
      BY <1>1, <2>2, <2>3, <3>2
    <3>3. CASE i # r.event.id
      BY <2>1, <2>2, <2>3, <2>4, <3>1, <3>3 DEF LedgerTypes
    <3> QED BY <3>2, <3>3
  <2>5. ASSUME NEW t \in Shipments, row'[t] # None
        PROVE  Explained(t, row'[t], history') /\ Current(t, row'[t], history')
    <3>1. CASE t = s
      BY <1>1, <2>2, <3>1
    <3>2. CASE t # s
      <4>1. Explained(t, row[t], history) /\ Current(t, row[t], history)
        BY <2>2, <2>5, <3>2 DEF LedgerInv
      <4> QED BY <1>1, <2>1, <2>2, <3>2, <4>1, BesideIt
    <3> QED BY <3>1, <3>2
  <2> QED BY <2>2, <2>3, <2>4, <2>5 DEF LedgerInv, LedgerTypes
<1>2. ASSUME NEW s \in Shipments, Register(s) PROVE LedgerInv'
  <2> DEFINE r == [event |-> CreationEvent(s), processing |-> "APPLIED"]
  <2>1. r \in Records /\ r.event.id \in Ids /\ r.event.shipment = s
    BY CreationEventType DEF Records, ProcessingStatuses, CreationEvent, Ids
  <2>2. Store(r) /\ row' = [row EXCEPT ![s] = Created]
    BY <1>2 DEF Register
  <2> HIDE DEF r
  <2> QED BY <1>1, <1>2, <2>1, <2>2, Registered, CreatedType
<1>3. ASSUME NEW e \in Deliveries, RecordInTurn(e) PROVE LedgerInv'
  <2> DEFINE s == e.shipment
             sh == After(row[s], e)
             r == [event |-> e, processing |-> Outcome(row[s], e)]
  <2>1. /\ s \in Shipments /\ sh \in Projections
        /\ Explained(s, sh, history') /\ Current(s, sh, history')
    BY <1>3, RecordedInTurn
  <2>2. r \in Records /\ r.event.id \in Ids /\ r.event.shipment = s
    BY <1>3, DeliveriesAssumption DEF RecordInTurn, Records, Ids
  <2>3. Store(r) /\ row' = [row EXCEPT ![s] = sh]
    BY <1>3 DEF RecordInTurn
  <2> HIDE DEF r, sh, s
  <2> QED BY <1>1, <2>1, <2>2, <2>3
<1>4. CASE UNCHANGED ledger
  BY <1>4 DEF ledger, LedgerInv, LedgerTypes, Current, Foretold, StatusIsOne, LocationIsOne
<1> QED BY <1>2, <1>3, <1>4 DEF SerialLedgerNext

LEMMA LedgerAlways == SerialLedgerSpec => []LedgerInv
<1>1. LedgerInit => LedgerInv
  BY DEF LedgerInit, LedgerInv, LedgerTypes
<1> QED BY <1>1, LedgerStep, PTL DEF SerialLedgerSpec

\* What the serial ledger promises the other one promises too: it is the same
\* promise without the licence to mix columns of several events.
THEOREM SerialIsStronger == SerialLedgerSpec => LedgerSpec
<1>1. LedgerInv /\ [SerialLedgerNext]_ledger => [LedgerNext]_ledger
  <2> SUFFICES ASSUME LedgerInv, NEW e \in Deliveries, RecordInTurn(e)
               PROVE  Record(e, Outcome(row[e.shipment], e))
    BY DEF SerialLedgerNext, LedgerNext, RecordInTurn
  <2> DEFINE s == e.shipment
             sh == After(row[s], e)
  <2>1. /\ s \in Shipments /\ row[s] \in Projections /\ sh \in Projections
        /\ Explained(s, sh, history')
    BY RecordedInTurn
  <2>2. row' = [row EXCEPT ![s] = sh] /\ row'[s] = sh
    BY <2>1 DEF RecordInTurn, LedgerInv, LedgerTypes
  <2>3. ASSUME Outcome(row[s], e) = "APPLIED", e.type # "LOCATION_UPDATED"
        PROVE  Caused(e, history)
    <3>1. row[s].status \in Statuses /\ Allowed(row[s].status, e.type)
      BY <2>1, <2>3, DeliveriesAssumption DEF Outcome, Projections, Events, EventTypes
    <3>2. Witnessed(s, "status", row[s].status, history)
      BY <2>1 DEF LedgerInv, RecordInTurn, Explained, Columns
    <3> QED BY <3>1, <3>2 DEF Caused
  <2> QED BY <2>1, <2>2, <2>3 DEF Record, RecordInTurn, Explained
<1> QED BY <1>1, LedgerAlways, PTL DEF SerialLedgerSpec, LedgerSpec

\* When the requests for each shipment come one after the other, late events
\* never move a projection back and no projection mixes two events.
THEOREM CurrentInTurn == Spec /\ []Serialized => []ProjectionIsCurrent
BY SerialInTurn, LedgerAlways, CurrentMeans, PTL

\* A single process, an API thread or a worker, cannot overlap with another.
THEOREM SerialAlone ==
    ASSUME \A p, q \in Processes : p = q
    PROVE  Spec => SerialLedgerSpec /\ []ProjectionIsCurrent
<1>1. Serialized
  BY DEF Serialized
<1> QED BY <1>1, SerialInTurn, CurrentInTurn, PTL

=============================================================================
