-------------------------- MODULE MCEventIngestion --------------------------
(* Instances of EventIngestion for TLC. *)
EXTENDS EventIngestion

CONSTANTS s1, h1, w1

Lifecycle(i, type, t) ==
    [id |-> i, shipment |-> s1, type |-> type, at |-> t, zoned |-> TRUE,
     lat |-> 0, lon |-> 0, shape |-> "exact"]

Location(i, t, x, y) ==
    [Lifecycle(i, "LOCATION_UPDATED", t) EXCEPT !.lat = x, !.lon = y]

\* Two locations that share a coordinate, the second late if it comes second,
\* the first two lifecycle events, and a location without its coordinates, which
\* only a worker can be given.
RaceDeliveries ==
    {Lifecycle(1, "PICKUP_SCHEDULED", 2), Lifecycle(2, "PICKUP_COMPLETED", 3),
     Location(3, 3, 1, 1), Location(4, 1, 2, 1),
     [Location(5, 2, 2, 2) EXCEPT !.shape = "incomplete"]}

\* The whole lifecycle with a delay, late and premature lifecycle events, and
\* locations of the shapes POST /events lets through.
SerialDeliveries ==
    {Lifecycle(1, "PICKUP_SCHEDULED", 1), Lifecycle(2, "PICKUP_COMPLETED", 2),
     Lifecycle(3, "SHIPMENT_DEPARTED", 3), Lifecycle(4, "DELAY_DETECTED", 4),
     Lifecycle(5, "SHIPMENT_DEPARTED", 4), Lifecycle(6, "DELIVERED", 5),
     Location(7, 3, 1, 1), Location(8, 1, 2, 1),
     [Location(9, 4, 2, 2) EXCEPT !.zoned = FALSE],
     [Location(10, 4, 3, 3) EXCEPT !.shape = "extended"],
     Lifecycle(11, "SHIPMENT_CREATED", 4)}

\* A location with a key besides its coordinates.
ExtendedDelivery == {[Location(1, 1, 1, 1) EXCEPT !.shape = "extended"]}

OneReference == [s \in Shipments |-> "SHIP-001"]

=============================================================================
