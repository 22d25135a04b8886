------------------------ MODULE OutboundPublication ------------------------
(***************************************************************************)
(* One publication of the relay: _Publication in infra/messaging/outbox.py,*)
(* callbacks on an event loop of its own that lives as long as the         *)
(* publication.  The broker answers or keeps silent at every step of the   *)
(* dialogue, closes the channel or the connection, routes the message,     *)
(* returns it or refuses it; the deadline may come between any two frames. *)
(*                                                                         *)
(* Pika is external and modelled by what the callbacks see of it: close()  *)
(* asks the peer and waits for it, abort() drops the transport and the     *)
(* loop reports the end of channel and connection in one later callback.   *)
(***************************************************************************)

VARIABLES stage,      \* what the dialogue waits for
          link,       \* the connection
          channel,    \* "none", "open" or "closed"
          inFlight,   \* is the message on its way to the broker?
          taken,      \* has the broker queued it?
          reply,      \* frames of the broker on their way to the publisher
          confirmed,  \* _Publication.confirmed
          error,      \* _Publication.error
          expired,    \* has the deadline struck?
          broken,     \* has an exception of another kind left the loop?
          stopped,    \* has the loop been stopped?
          outcome     \* what publish() has come to

dialogue == <<stage, link, channel>>
wire     == <<inFlight, taken, reply>>
verdict  == <<confirmed, error>>
loop     == <<expired, broken, stopped>>
vars     == <<dialogue, wire, verdict, loop, outcome>>

Stages == {"connection", "channel", "exchange", "queue", "binding",
           "confirm_mode", "confirmation"}
Links == {"opening", "open", "closing", "aborted", "closed"}

Init == /\ stage = "connection" /\ link = "opening" /\ channel = "none"
        /\ inFlight = FALSE /\ taken = FALSE /\ reply = "none"
        /\ confirmed = FALSE /\ error = "none"
        /\ expired = FALSE /\ broken = FALSE /\ stopped = FALSE
        /\ outcome = "running"

-----------------------------------------------------------------------------
(* The dialogue: each answer of the broker runs the callback that asks for *)
(* the next thing.                                                          *)

OnOpen == /\ link = "opening"
          /\ link' = "open"
          /\ stage' = "channel"
          /\ UNCHANGED <<channel, wire, verdict, loop, outcome>>

OnChannel == /\ link = "open" /\ stage = "channel"
             /\ channel' = "open"
             /\ stage' = "exchange"
             /\ UNCHANGED <<link, wire, verdict, loop, outcome>>

\* on_exchange, on_queue and on_bound.
OnDeclared == /\ link = "open" /\ channel = "open"
              /\ \/ stage = "exchange" /\ stage' = "queue"
                 \/ stage = "queue" /\ stage' = "binding"
                 \/ stage = "binding" /\ stage' = "confirm_mode"
              /\ UNCHANGED <<link, channel, wire, verdict, loop, outcome>>

OnConfirmMode == /\ link = "open" /\ channel = "open" /\ stage = "confirm_mode"
                 /\ stage' = "confirmation"
                 /\ inFlight' = TRUE
                 /\ UNCHANGED <<link, channel, taken, reply, verdict, loop, outcome>>

\* The broker reads the message, which it may do after the publisher has given
\* up.  A mandatory message no queue is bound for comes back before it is
\* confirmed: the binding may have been removed since.
Route == /\ inFlight
         /\ inFlight' = FALSE
         /\ \/ taken' = TRUE /\ reply' = "ack"
            \/ taken' = taken /\ reply' \in {"return_ack", "nack"}
         /\ UNCHANGED <<dialogue, verdict, loop, outcome>>

-----------------------------------------------------------------------------
(* How it ends *)

\* connection.close() waits for the peer: first for the channel's end.
Close == link' = "closing"

\* _DeadlineConnection.abort needs no peer.
Abort == link' = "aborted"

\* Mutants: an error after the verdict replaces it; the end of the connection
\* is no error.
FirstErrorLast(reason) == error' = reason

FirstErrorOpen(reason) == error' = error

\* on_channel_closed and on_closed keep the verdict that has been reached.
FirstError(reason) ==
    error' = IF ~confirmed /\ error = "none" THEN reason ELSE error

\* Mutant: the message that came back is forgotten.
OnReturnedIgnored ==
    /\ link = "open" /\ channel = "open" /\ reply = "return_ack"
    /\ reply' = "ack"
    /\ UNCHANGED <<dialogue, inFlight, taken, verdict, loop, outcome>>

OnReturned == /\ link = "open" /\ channel = "open" /\ reply = "return_ack"
              /\ reply' = "ack"
              /\ error' = "unroutable"
              /\ UNCHANGED <<dialogue, inFlight, taken, confirmed, loop, outcome>>

OnConfirmation ==
    /\ link = "open" /\ channel = "open" /\ reply \in {"ack", "nack"}
    /\ reply' = "none"
    /\ confirmed' = (confirmed \/ (reply = "ack" /\ error = "none"))
    /\ error' = IF error = "none" /\ reply = "nack" THEN "nack" ELSE error
    /\ Close
    /\ UNCHANGED <<stage, channel, inFlight, taken, loop, outcome>>

\* The broker closes the channel, of its own accord or as close() asked it.
OnChannelClosed ==
    /\ link \in {"open", "closing"} /\ channel = "open"
    /\ channel' = "closed"
    /\ FirstError("channel_closed")
    /\ Close
    /\ UNCHANGED <<stage, wire, confirmed, loop, outcome>>

\* The peer agrees to the end of the connection.
OnClosed ==
    /\ link = "closing" /\ channel # "open"
    /\ link' = "closed"
    /\ FirstError("connection_closed")
    /\ stopped' = TRUE
    /\ UNCHANGED <<stage, channel, wire, confirmed, expired, broken, outcome>>

\* Mutant: the deadline asks the peer to close.
OnDeadlineCloses ==
    /\ ~expired /\ ~stopped
    /\ expired' = TRUE
    /\ FirstError("timeout")
    /\ link' = IF link \in {"opening", "open"} THEN "closing" ELSE link
    /\ UNCHANGED <<stage, channel, wire, confirmed, broken, stopped, outcome>>

OnDeadline ==
    /\ ~expired /\ ~stopped
    /\ expired' = TRUE
    /\ FirstError("timeout")
    /\ Abort
    /\ UNCHANGED <<stage, channel, wire, confirmed, broken, stopped, outcome>>

\* The connection cannot be opened, breaks, is closed by the broker or stays
\* blocked for too long.
ConnectionFails ==
    /\ link \in {"opening", "open", "closing"}
    /\ Abort
    /\ UNCHANGED <<stage, channel, wire, verdict, loop, outcome>>

\* The loop reports a dropped transport: on_channel_closed, which finds the
\* connection not open, and then on_closed.
OnAborted ==
    /\ link = "aborted"
    /\ link' = "closed"
    /\ channel' = IF channel = "open" THEN "closed" ELSE channel
    /\ FirstError("connection_closed")
    /\ stopped' = TRUE
    /\ UNCHANGED <<stage, wire, confirmed, expired, broken, outcome>>

\* An exception leaves loop.start(), such as a KeyboardInterrupt: run() aborts
\* and lets the loop drain.
LoopBreaks ==
    /\ ~broken /\ ~stopped
    /\ broken' = TRUE
    /\ Abort
    /\ UNCHANGED <<stage, channel, wire, verdict, expired, stopped, outcome>>

\* run() after its loop.  "ended" is its RuntimeError, "Publication ended
\* without confirmation".
Finish ==
    /\ stopped /\ outcome = "running"
    /\ \/ (broken \/ error # "none") /\ outcome' = "raised"
       \/ ~broken /\ error = "none" /\ ~confirmed /\ outcome' = "ended"
       \/ ~broken /\ error = "none" /\ confirmed /\ outcome' = "returned"
    /\ UNCHANGED <<dialogue, wire, verdict, loop>>

Next == \/ OnOpen \/ OnChannel \/ OnDeclared \/ OnConfirmMode \/ Route
        \/ OnReturned \/ OnConfirmation \/ OnChannelClosed \/ OnClosed
        \/ OnDeadline \/ ConnectionFails \/ OnAborted \/ LoopBreaks
        \/ Finish

\* The loop's own doings only: its timer, its dropped transport and the code
\* after it.  The broker owes no answer.
Fairness == WF_vars(OnDeadline) /\ WF_vars(OnAborted) /\ WF_vars(Finish)

Spec == Init /\ [][Next]_vars /\ Fairness

-----------------------------------------------------------------------------
(* Properties *)

\* Every variable keeps its type; run() never gets to its RuntimeError, since
\* each way out of the loop leaves a verdict behind.
TypeOK ==
    /\ stage \in Stages /\ link \in Links /\ channel \in {"none", "open", "closed"}
    /\ inFlight \in BOOLEAN /\ taken \in BOOLEAN
    /\ reply \in {"none", "ack", "nack", "return_ack"}
    /\ confirmed \in BOOLEAN
    /\ error \in {"none", "unroutable", "nack", "channel_closed", "connection_closed", "timeout"}
    /\ expired \in BOOLEAN /\ broken \in BOOLEAN /\ stopped \in BOOLEAN
    /\ outcome \in {"running", "returned", "raised"}

\* The verdict on a message is reached once.  A confirmation stands although
\* closing fails, hangs or runs into the deadline, so that a message the broker
\* has confirmed is not published again; and the error stored with the intent
\* is the first one, not a consequence of it.
VerdictIsFinal ==
    [][/\ confirmed => confirmed' /\ error' = "none"
       /\ error # "none" => error' = error]_vars

\* publish() returns only for messages the broker has queued, whatever comes
\* between the broker's frames and in which order.
Promise == INSTANCE Publication
ImplementsPublication == Promise!Spec

\* The publication ends, wherever the broker stops answering: while it connects,
\* declares, confirms or closes.
PublicationEnds == <>(outcome # "running")

=============================================================================
