------------------------ MODULE NotificationDelivery ------------------------
(***************************************************************************)
(* What the outbox promises about outbound notifications: a notification   *)
(* goes out only for a recorded intent, an intent is settled only when the *)
(* broker has taken a copy, and a settled intent stays settled.  Copies    *)
(* may be repeated: publication is at least once.                          *)
(***************************************************************************)
EXTENDS Naturals

CONSTANT Intents

VARIABLES state,   \* "absent", "pending" or "settled"
          copies   \* how many copies the broker's queue has taken

delivery == <<state, copies>>

DeliveryInit == /\ state = [i \in Intents |-> "absent"]
                /\ copies = [i \in Intents |-> 0]

Intend(i) == /\ state[i] = "absent"
             /\ state' = [state EXCEPT ![i] = "pending"]
             /\ UNCHANGED copies

\* A relay that has lost its session may still send a settled intent.
Send(i) == /\ state[i] # "absent"
           /\ copies' = [copies EXCEPT ![i] = @ + 1]
           /\ UNCHANGED state

Settle(i) == /\ state[i] = "pending"
             /\ copies[i] > 0
             /\ state' = [state EXCEPT ![i] = "settled"]
             /\ UNCHANGED copies

DeliveryNext == \E i \in Intents : Intend(i) \/ Send(i) \/ Settle(i)

DeliverySpec == DeliveryInit /\ [][DeliveryNext]_delivery

=============================================================================
