------------------------ MODULE MCConsumerIngestion ------------------------
(* Instances of ConsumerIngestion for TLC. *)
EXTENDS ConsumerIngestion

CONSTANTS s1, h1, c1, c2

Lifecycle(i, type, t) ==
    [id |-> i, shipment |-> s1, type |-> type, at |-> t, zoned |-> TRUE,
     lat |-> 0, lon |-> 0, shape |-> "exact"]

\* A pickup scheduled and its completion, which is recorded, refused or late
\* depending on who comes first.
AllEvents == {Lifecycle(1, "PICKUP_SCHEDULED", 2), Lifecycle(2, "PICKUP_COMPLETED", 3)}

\* The completion arrives as a message too, and so does a malformed body with a
\* header nobody can read.
EventSent == [m \in Messages |-> CHOOSE e \in AllEvents : e.type = "PICKUP_COMPLETED"]

BodyOf == [m \in Messages |-> IF m = 1 THEN "valid" ELSE "malformed"]

HeaderOf == [m \in Messages |-> IF m = 1 THEN 1 ELSE Garbled]

OneReference == [s \in Shipments |-> "SHIP-001"]

=============================================================================
