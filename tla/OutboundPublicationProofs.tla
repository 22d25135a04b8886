--------------------- MODULE OutboundPublicationProofs ---------------------
(***************************************************************************)
(* Theorems about one publication of the relay.  There are no constants:   *)
(* what the proofs add to the runs is the reason, which frames can follow  *)
(* which, stated as an inductive invariant.                                *)
(***************************************************************************)
EXTENDS OutboundPublication, TLAPS

\* What the broker's frames and the publisher's verdict have to do with each
\* other and with the connection.
FramesOK ==
    /\ link = "opening" => stage = "connection" /\ channel = "none" /\ error = "none"
    /\ stage # "confirmation" => ~inFlight /\ ~taken /\ reply = "none"
    /\ inFlight => ~taken /\ reply = "none" /\ ~confirmed
    /\ confirmed => taken /\ error = "none" /\ reply = "none" /\ link # "open"
    /\ reply = "ack" => taken \/ error = "unroutable"
    /\ link = "open" /\ error # "none" => error = "unroutable" /\ reply = "ack"
    /\ channel = "closed" => link # "open"

\* The loop stops with the connection, and with a verdict.
EndOK == /\ stopped <=> link = "closed"
         /\ stopped => confirmed \/ error # "none"

IInv == TypeOK /\ FramesOK /\ EndOK

LEMMA InitIInv == Init => IInv
BY DEF Init, IInv, TypeOK, FramesOK, EndOK, Stages, Links

LEMMA TypeStep == IInv /\ [Next]_vars => TypeOK'
<1> SUFFICES ASSUME IInv, [Next]_vars PROVE TypeOK'
  OBVIOUS
<1> USE DEF IInv, TypeOK, Stages, Links
<1>1. CASE OnOpen \/ OnChannel \/ OnDeclared \/ OnConfirmMode
  BY <1>1 DEF OnOpen, OnChannel, OnDeclared, OnConfirmMode, dialogue, wire, verdict, loop
<1>2. CASE Route \/ OnReturned \/ OnConfirmation
  BY <1>2 DEF Route, OnReturned, OnConfirmation, Close, dialogue, wire, verdict, loop
<1>3. CASE OnChannelClosed \/ OnClosed \/ OnDeadline
  BY <1>3 DEF OnChannelClosed, OnClosed, OnDeadline, FirstError, Close, Abort,
              dialogue, wire, verdict, loop
<1>4. CASE ConnectionFails \/ OnAborted \/ LoopBreaks
  BY <1>4 DEF ConnectionFails, OnAborted, LoopBreaks, FirstError, Abort,
              dialogue, wire, verdict, loop
<1>5. CASE Finish
  BY <1>5 DEF Finish, EndOK, dialogue, wire, verdict, loop
<1>6. CASE UNCHANGED vars
  BY <1>6 DEF vars, dialogue, wire, verdict, loop
<1> QED BY <1>1, <1>2, <1>3, <1>4, <1>5, <1>6 DEF Next

LEMMA FramesStep == IInv /\ [Next]_vars => FramesOK' /\ EndOK'
<1> SUFFICES ASSUME IInv, [Next]_vars PROVE FramesOK' /\ EndOK'
  OBVIOUS
<1> USE DEF IInv, TypeOK, Stages, Links, FramesOK, EndOK
<1>1. CASE OnOpen \/ OnChannel
  BY <1>1 DEF OnOpen, OnChannel, dialogue, wire, verdict, loop
<1>7. CASE OnDeclared
  BY <1>7 DEF OnDeclared, dialogue, wire, verdict, loop
<1>8. CASE OnConfirmMode
  BY <1>8 DEF OnConfirmMode, dialogue, wire, verdict, loop
<1>2. CASE Route \/ OnReturned \/ OnConfirmation
  BY <1>2 DEF Route, OnReturned, OnConfirmation, Close, dialogue, wire, verdict, loop
<1>3. CASE OnChannelClosed \/ OnClosed \/ OnDeadline
  BY <1>3 DEF OnChannelClosed, OnClosed, OnDeadline, FirstError, Close, Abort,
              dialogue, wire, verdict, loop
<1>4. CASE ConnectionFails \/ OnAborted \/ LoopBreaks
  BY <1>4 DEF ConnectionFails, OnAborted, LoopBreaks, FirstError, Abort,
              dialogue, wire, verdict, loop
<1>5. CASE Finish
  BY <1>5 DEF Finish, dialogue, wire, verdict, loop
<1>6. CASE UNCHANGED vars
  BY <1>6 DEF vars, dialogue, wire, verdict, loop
<1> QED BY <1>1, <1>2, <1>3, <1>4, <1>5, <1>6, <1>7, <1>8 DEF Next

THEOREM Invariance == Spec => []IInv
<1>1. IInv /\ [Next]_vars => IInv'
  BY TypeStep, FramesStep DEF IInv
<1> QED BY InitIInv, <1>1, PTL DEF Spec

\* No way out of the loop leaves publish() without a verdict, so its
\* RuntimeError is never raised.
THEOREM TypeCorrect == Spec => []TypeOK
<1>1. IInv => TypeOK
  BY DEF IInv
<1> QED BY Invariance, <1>1, PTL

\* A step changes neither a confirmation nor the first error: OnReturned alone
\* overwrites, and comes before any other verdict.
LEMMA VerdictStep ==
    IInv /\ [Next]_vars => /\ confirmed => confirmed' /\ error' = "none"
                           /\ error # "none" => error' = error
<1> SUFFICES ASSUME IInv, [Next]_vars
             PROVE  /\ confirmed => confirmed' /\ error' = "none"
                    /\ error # "none" => error' = error
  OBVIOUS
<1> USE DEF IInv, TypeOK, FramesOK
<1>1. CASE OnReturned \/ OnConfirmation
  BY <1>1 DEF OnReturned, OnConfirmation
<1>2. CASE OnChannelClosed \/ OnClosed \/ OnDeadline \/ OnAborted
  BY <1>2 DEF OnChannelClosed, OnClosed, OnDeadline, OnAborted, FirstError
<1>3. CASE UNCHANGED verdict
  BY <1>3 DEF verdict
<1> QED BY <1>1, <1>2, <1>3
        DEF Next, OnOpen, OnChannel, OnDeclared, OnConfirmMode, Route, ConnectionFails,
            LoopBreaks, Finish, vars

\* The verdict on a message is reached once.
THEOREM VerdictCorrect == Spec => VerdictIsFinal
<1> USE VerdictStep
<1>1. IInv /\ [Next]_vars
        => [/\ confirmed => confirmed' /\ error' = "none"
            /\ error # "none" => error' = error]_vars
  OBVIOUS
<1> QED BY Invariance, <1>1, PTL DEF Spec, VerdictIsFinal

\* Every step is a step of the promise or changes nothing of it.
LEMMA PromiseStep == IInv /\ [Next]_vars => [Promise!Next]_(Promise!vars)
<1> SUFFICES ASSUME IInv, [Next]_vars PROVE [Promise!Next]_(Promise!vars)
  OBVIOUS
<1> USE DEF IInv, TypeOK, FramesOK, EndOK
<1>1. CASE Route
  BY <1>1 DEF Route, dialogue, verdict, loop, Promise!Next, Promise!Take, Promise!vars
<1>2. CASE Finish
  BY <1>2 DEF Finish, dialogue, wire, verdict, loop,
              Promise!Next, Promise!Return, Promise!Raise, Promise!vars
<1>3. CASE UNCHANGED <<outcome, taken>>
  BY <1>3 DEF Promise!vars
<1> QED BY <1>1, <1>2, <1>3
        DEF Next, OnOpen, OnChannel, OnDeclared, OnConfirmMode, OnReturned, OnConfirmation,
            OnChannelClosed, OnClosed, OnDeadline, ConnectionFails, OnAborted, LoopBreaks,
            vars, wire

\* publish() implements what the relay relies on: it returns only for messages
\* the broker has queued.
THEOREM PromiseKept == Spec => ImplementsPublication
<1>1. Init => Promise!Init
  BY DEF Init, Promise!Init
<1> QED BY Invariance, PromiseStep, <1>1, PTL DEF Spec, ImplementsPublication, Promise!Spec

=============================================================================
