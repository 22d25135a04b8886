---------------------------- MODULE Publication ----------------------------
(***************************************************************************)
(* What RabbitMQRecordedEventPublisher.publish promises the relay, which   *)
(* marks an intent published when it returns and failed when it raises.    *)
(* It returns only when the broker has queued the message.  When it raises *)
(* nothing is known: the broker may have taken the message or take it yet. *)
(***************************************************************************)

VARIABLES outcome,   \* "running", "returned" or "raised"
          taken      \* has the broker queued the message?

vars == <<outcome, taken>>

Init == /\ outcome = "running"
        /\ taken = FALSE

Take == /\ ~taken
        /\ taken' = TRUE
        /\ UNCHANGED outcome

Return == /\ outcome = "running" /\ taken
          /\ outcome' = "returned"
          /\ UNCHANGED taken

Raise == /\ outcome = "running"
         /\ outcome' = "raised"
         /\ UNCHANGED taken

Next == Take \/ Return \/ Raise

Spec == Init /\ [][Next]_vars

=============================================================================
