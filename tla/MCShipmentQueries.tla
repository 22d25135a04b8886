------------------------- MODULE MCShipmentQueries -------------------------
(* Instances of ShipmentQueries for TLC. *)
EXTENDS ShipmentQueries

CONSTANTS s1, s2, s3, h1, h2, q1

Location(i, s, t) ==
    [id |-> i, shipment |-> s, type |-> "LOCATION_UPDATED", at |-> t, zoned |-> TRUE,
     lat |-> t, lon |-> t, shape |-> "exact"]

\* A pickup, and a location before it whose identity is sent for another
\* shipment too.
SharedDeliveries ==
    {[Location(1, s1, 2) EXCEPT !.type = "PICKUP_SCHEDULED"],
     Location(2, s1, 1), Location(2, s3, 1)}

\* Two shipments under one reference number, and another one.
SharedReferences == [s \in Shipments |-> IF s = s3 THEN "SHIP-002" ELSE "SHIP-001"]

=============================================================================
