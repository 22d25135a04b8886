--------------------------- MODULE ShipmentDomain ---------------------------
(***************************************************************************)
(* The pure domain of a shipment: the aggregate, its state machine and the *)
(* policy that decides what one event does to one copy of the projection.  *)
(* Source: app/domain/shipment (entities, events, state_machine,           *)
(* event_handler).  The module has no variables; the transactional modules *)
(* say when, and on which copy, these operators are applied.               *)
(*                                                                         *)
(* A projection is a record of the columns an event can change.  Reference *)
(* number, origin, destination, carrier and created_at never change after  *)
(* creation and are left out.  Instants and coordinates are naturals.      *)
(***************************************************************************)
EXTENDS Integers

CONSTANTS Shipments,    \* identities a shipment may be given
          CreationTime, \* the instant at which shipments are registered
          None          \* a null column, a missing row, no answer yet

ASSUME CreationTimeAssumption == CreationTime \in Nat

Statuses == {"CREATED", "SCHEDULED", "PICKED_UP", "IN_TRANSIT", "DELAYED", "DELIVERED"}

LifecycleTypes == {"PICKUP_SCHEDULED", "PICKUP_COMPLETED", "SHIPMENT_DEPARTED",
                   "DELAY_DETECTED", "DELIVERED"}

EventTypes == LifecycleTypes \cup {"SHIPMENT_CREATED", "LOCATION_UPDATED"}

ProcessingStatuses == {"APPLIED", "STORED_OUT_OF_ORDER"}

Columns == {"status", "updatedAt", "lat", "lon", "locationAt", "lifecycleAt"}

Projections == [status : Statuses, updatedAt : Nat,
                lat : {None} \cup Nat, lon : {None} \cup Nat,
                locationAt : {None} \cup Nat, lifecycleAt : {None} \cup Nat]

ASSUME NoneAssumption == None \notin Nat \cup Projections

\* "exact" payloads hold latitude and longitude and nothing else, "extended"
\* ones hold further keys too, "incomplete" ones lack a coordinate.  "zoned"
\* says whether occurred_at carries a time zone.
Events == [id : Nat \cup Shipments, shipment : Shipments, type : EventTypes,
           at : Nat, zoned : BOOLEAN, lat : Nat, lon : Nat,
           shape : {"exact", "extended", "incomplete"}]

Created == [status |-> "CREATED", updatedAt |-> CreationTime, lat |-> None,
            lon |-> None, locationAt |-> None, lifecycleAt |-> None]

CreationEvent(s) ==
    [id |-> s, shipment |-> s, type |-> "SHIPMENT_CREATED", at |-> CreationTime,
     zoned |-> TRUE, lat |-> 0, lon |-> 0, shape |-> "exact"]

-----------------------------------------------------------------------------

(* Mutants of the table: a transition that names its event instead of its    *)
(* target, and one that skips the scheduling of the pickup.                  *)
MisnamedTransitions ==
    [status \in Statuses |-> IF status = "CREATED"
                             THEN [PICKUP_SCHEDULED |-> "PICKUP_SCHEDULED"] ELSE <<>>]

ShortcutTransitions ==
    [status \in Statuses |-> IF status = "CREATED"
                             THEN [PICKUP_COMPLETED |-> "PICKED_UP"] ELSE <<>>]

Transitions ==
    [CREATED    |-> [PICKUP_SCHEDULED  |-> "SCHEDULED"],
     SCHEDULED  |-> [PICKUP_COMPLETED  |-> "PICKED_UP"],
     PICKED_UP  |-> [SHIPMENT_DEPARTED |-> "IN_TRANSIT"],
     IN_TRANSIT |-> [DELAY_DETECTED    |-> "DELAYED",
                     DELIVERED         |-> "DELIVERED"],
     DELAYED    |-> [SHIPMENT_DEPARTED |-> "IN_TRANSIT",
                     DELIVERED         |-> "DELIVERED"],
     DELIVERED  |-> <<>>]

Allowed(status, type) == type \in DOMAIN Transitions[status]

\* The timeline an event is compared with: locations and lifecycle events
\* have a clock each.
ClockColumn(e) == IF e.type = "LOCATION_UPDATED" THEN "locationAt" ELSE "lifecycleAt"

\* Mutant: an event as old as the clock is late as well.
LateWhenEqual(sh, e) == sh[ClockColumn(e)] # None /\ e.at <= sh[ClockColumn(e)]

Late(sh, e) == sh[ClockColumn(e)] # None /\ e.at < sh[ClockColumn(e)]

\* What ShipmentEventHandler.handle returns or raises, tests in source order.
\* Comparing a naive occurred_at with a stored (aware) clock is a TypeError.
Outcome(sh, e) ==
    IF e.type = "SHIPMENT_CREATED" THEN "InvalidShipmentEvent"
    ELSE IF e.type = "LOCATION_UPDATED" /\ e.shape # "exact" THEN "ValueError"
    ELSE IF sh[ClockColumn(e)] # None /\ ~e.zoned THEN "TypeError"
    ELSE IF Late(sh, e) THEN "STORED_OUT_OF_ORDER"
    ELSE IF e.type \in LifecycleTypes /\ ~Allowed(sh.status, e.type)
         THEN "InvalidStateTransition"
    ELSE "APPLIED"

UpdateLocation(sh, e) ==
    [sh EXCEPT !.lat = e.lat, !.lon = e.lon, !.locationAt = e.at, !.updatedAt = e.at]

ChangeStatus(sh, e) ==
    [sh EXCEPT !.status = Transitions[sh.status][e.type],
               !.lifecycleAt = e.at, !.updatedAt = e.at]

\* Mutant: the early return for a late location is lost.
AfterAppliesLate(sh, e) ==
    IF Outcome(sh, e) \notin ProcessingStatuses THEN sh
    ELSE IF e.type = "LOCATION_UPDATED" THEN UpdateLocation(sh, e)
    ELSE IF Outcome(sh, e) = "APPLIED" THEN ChangeStatus(sh, e) ELSE sh

\* The aggregate after the handler returned: only an applied event changes it.
After(sh, e) ==
    IF Outcome(sh, e) # "APPLIED" THEN sh
    ELSE IF e.type = "LOCATION_UPDATED" THEN UpdateLocation(sh, e)
    ELSE ChangeStatus(sh, e)

=============================================================================
