--------------------------- MODULE ShipmentQueries ---------------------------
(***************************************************************************)
(* The read endpoints beside the write paths of EventIngestion: a client   *)
(* asks for a shipment and then for its events.  Each request has a        *)
(* session of its own and sees what is committed when its SELECT runs, so  *)
(* other transactions may commit between the two answers.  The order of    *)
(* the events and the wording of the bodies are left out.                  *)
(***************************************************************************)
EXTENDS EventIngestion

CONSTANT Readers  \* clients that read

VARIABLES shown,  \* the answer of GET /shipments/{id}, None before the first
          listed  \* the answer of GET /shipments/{id}/events that followed it

queries == <<shown, listed>>

\* A projection, or None for HTTP 404.
ShipmentAnswers == [shipment : Shipments, projection : {None} \cup Projections]

QueryInit == /\ shown = [r \in Readers |-> None]
             /\ listed = [r \in Readers |-> None]

GetShipment(r, s) ==
    /\ shown' = [shown EXCEPT ![r] = [shipment |-> s, projection |-> row[s]]]
    /\ listed' = [listed EXCEPT ![r] = None]
    /\ UNCHANGED vars

\* Mutant: events received late are not listed with their shipment's.
ListedInTime(s) ==
    {history[i] : i \in {j \in Ids : /\ history[j] # None
                                     /\ history[j].event.shipment = s
                                     /\ row[s] # None
                                     /\ history[j].event.at >= row[s].updatedAt}}

\* ShipmentEventRepository.list_by_shipment; of a shipment nobody registered
\* there are none, and no 404.
Listed(s) ==
    {history[i] : i \in {j \in Ids : history[j] # None /\ history[j].event.shipment = s}}

GetShipmentEvents(r) ==
    /\ shown[r] # None /\ listed[r] = None
    /\ listed' = [listed EXCEPT ![r] = Listed(shown[r].shipment)]
    /\ UNCHANGED shown
    /\ UNCHANGED vars

Query(r) == (\E s \in Shipments : GetShipment(r, s)) \/ GetShipmentEvents(r)

QueriesInit == Init /\ QueryInit

QueriesNext == \/ Next /\ UNCHANGED queries
               \/ \E r \in Readers : Query(r)

QueriesSpec == QueriesInit /\ [][QueriesNext]_<<vars, queries>>

-----------------------------------------------------------------------------
(* Properties *)

\* The history a client lists explains the shipment it was shown before: each
\* value comes from the registration or from an event in the list, and the
\* status has its whole chain of custody there, whatever was committed, lost
\* or rolled back between the two requests.
HistoryExplainsAnswer ==
    \A r \in Readers :
        shown[r] # None /\ listed[r] # None /\ shown[r].projection # None =>
            LET shipment == shown[r].projection
                applied == {record \in listed[r] : record.processing = "APPLIED"}
            IN  /\ \A c \in Columns :
                      \/ shipment[c] = Created[c]
                      \/ \E record \in applied : Writes(record.event, c, shipment[c])
                /\ Custody[shipment.status] \subseteq {record.event.type : record \in applied}

=============================================================================
