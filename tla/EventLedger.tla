----------------------------- MODULE EventLedger -----------------------------
(***************************************************************************)
(* What event ingestion promises, with no transactions, locks or failures: *)
(* a ledger of recorded events that only grows, one outbound intent per    *)
(* record, and a projection per shipment.  Registering a shipment and      *)
(* recording an event are single atomic steps; a request that is rejected, *)
(* that fails or that repeats a recorded event is no step at all.          *)
(*                                                                         *)
(* The ledger does not promise that the projection is the fold of its      *)
(* events: the code disclaims lost updates between concurrent events of a  *)
(* shipment (docs/context.md, section 7).  It promises that every column   *)
(* holds a value some applied event of the shipment put there.             *)
(* SerialLedgerSpec is the stronger promise that holds when requests do    *)
(* not overlap.                                                            *)
(***************************************************************************)
EXTENDS ShipmentDomain

CONSTANTS Deliveries  \* the events clients and carriers may send

VARIABLES row,      \* projection of each shipment, None before registration
          history,  \* the record stored under each event identity, or None
          outbox    \* the intents: envelopes built when an event is recorded

ledger == <<row, history, outbox>>

Ids == Shipments \cup {e.id : e \in Deliveries}

\* A row of shipment_events, and the envelope of its notification.
Records == [event : Events, processing : ProcessingStatuses]

ASSUME NoneIsNoRecord == None \notin Records

Applied(s, h) ==
    {i \in DOMAIN h : /\ h[i] # None
                      /\ h[i].event.shipment = s
                      /\ h[i].processing = "APPLIED"}

\* Column c of shipment s may hold v: its value at registration, or the one
\* an applied event of s writes there.
Writes(e, c, v) ==
    \/ e.type = "LOCATION_UPDATED" /\ \/ c = "lat" /\ v = e.lat
                                      \/ c = "lon" /\ v = e.lon
                                      \/ c \in {"locationAt", "updatedAt"} /\ v = e.at
    \/ \E status \in Statuses :
          /\ Allowed(status, e.type)
          /\ \/ c = "status" /\ v = Transitions[status][e.type]
             \/ c \in {"lifecycleAt", "updatedAt"} /\ v = e.at

Witnessed(s, c, v, h) ==
    v = Created[c] \/ \E i \in Applied(s, h) : Writes(h[i].event, c, v)

\* A lifecycle event may be applied only if the status it leaves is the
\* initial one or the one an event already applied to the shipment reached.
Caused(e, h) ==
    \E status \in Statuses : /\ Allowed(status, e.type)
                             /\ Witnessed(e.shipment, "status", status, h)

\* The events that must have been applied before a shipment can reach a status.
Custody ==
    LET scheduled == {"PICKUP_SCHEDULED"}
        pickedUp  == scheduled \cup {"PICKUP_COMPLETED"}
        departed  == pickedUp \cup {"SHIPMENT_DEPARTED"}
    IN  [CREATED |-> {}, SCHEDULED |-> scheduled, PICKED_UP |-> pickedUp,
         IN_TRANSIT |-> departed, DELAYED |-> departed \cup {"DELAY_DETECTED"},
         DELIVERED |-> departed \cup {"DELIVERED"}]

AppliedTypes(s, h) == {h[i].event.type : i \in Applied(s, h)}

-----------------------------------------------------------------------------

LedgerInit == /\ row = [s \in Shipments |-> None]
              /\ history = [i \in Ids |-> None]
              /\ outbox = {}

Store(r) == /\ history[r.event.id] = None
            /\ history' = [history EXCEPT ![r.event.id] = r]
            /\ outbox' = outbox \cup {r}

Register(s) == /\ row[s] = None
               /\ Store([event |-> CreationEvent(s), processing |-> "APPLIED"])
               /\ row' = [row EXCEPT ![s] = Created]

Record(e, verdict) ==
    LET s == e.shipment IN
    /\ row[s] # None
    /\ Store([event |-> e, processing |-> verdict])
    /\ verdict = "APPLIED" /\ e.type # "LOCATION_UPDATED" => Caused(e, history)
    /\ row'[s] \in Projections
    /\ row' = [row EXCEPT ![s] = row'[s]]
    /\ \A c \in Columns : \/ row'[s][c] = row[s][c]
                          \/ Witnessed(s, c, row'[s][c], history')

\* Nobody else is at work: the event is applied to the current projection.
RecordInTurn(e) ==
    LET s == e.shipment IN
    /\ row[s] # None
    /\ Outcome(row[s], e) \in ProcessingStatuses
    /\ Store([event |-> e, processing |-> Outcome(row[s], e)])
    /\ row' = [row EXCEPT ![s] = After(row[s], e)]

LedgerNext ==
    \/ \E s \in Shipments : Register(s)
    \/ \E e \in Deliveries, verdict \in ProcessingStatuses : Record(e, verdict)

SerialLedgerNext ==
    \/ \E s \in Shipments : Register(s)
    \/ \E e \in Deliveries : RecordInTurn(e)

LedgerSpec == LedgerInit /\ [][LedgerNext]_ledger

SerialLedgerSpec == LedgerInit /\ [][SerialLedgerNext]_ledger

=============================================================================
