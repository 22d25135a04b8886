------------------------ MODULE MCIngestionConsumer ------------------------
(* Instances of IngestionConsumer for TLC. *)
EXTENDS IngestionConsumer, TLC

CONSTANTS c1, c2, ok, malformed, mistyped

\* One message the use case can record and one of each kind it never sees.
BodyOf == (ok :> "valid") @@ (malformed :> "malformed") @@ (mistyped :> "mistyped")

BodiesSent == [m \in Messages |-> BodyOf[m]]

\* External adapters write something else than a number on the malformed
\* message, and a count beyond RABBITMQ_MAX_ATTEMPTS on the mistyped one, as if
\* that limit were lower.
ForeignHeaders ==
    [m \in Messages |-> CASE m = malformed -> Garbled
                          [] m = mistyped -> MaxAttempts + 1
                          [] OTHER -> 1]

=============================================================================
