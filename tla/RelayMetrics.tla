---------------------------- MODULE RelayMetrics ----------------------------
(***************************************************************************)
(* What the relay of OutboxRelay tells Prometheus: the counters called     *)
(* freight_outbox_total that each relay process keeps in memory            *)
(* (infra/observability, and publish_one in workers/outbox_worker.py), and *)
(* the pending gauge that OutboxBacklogCollector reads from the database   *)
(* at every scrape.                                                        *)
(*                                                                         *)
(* Counters and gauges describe one system from two places.  A commit and  *)
(* its count are two steps, a scrape reads the counters before the         *)
(* database, and a restart zeroes the counters and keeps the rows.         *)
(***************************************************************************)
EXTENDS OutboxRelay

VARIABLES metrics,  \* the counters of each relay process
          report,   \* the outcome of a transaction a relay has yet to count
          scrape    \* the latest scrape: counters first, then the backlog

metricsVars == <<now, outbox, copies, pc, claim, live, retryAt, orphans, faults,
                 metrics, report, scrape>>

Sent      == {"broker_confirmed", "publish_failed"}
Ended     == {"published_committed", "retry_committed", "transaction_failed"}
Outcomes  == Sent \cup Ended

Zero == [outcome \in Outcomes |-> 0]

PublishedRows == {i \in Intents : Recorded(i) /\ outbox[i].published}
PendingRows   == {i \in Intents : Recorded(i) /\ ~outbox[i].published}
RecordedRows  == {i \in Intents : Recorded(i)}

Scrapes == [relay : Relays, counted : Nat, pending : {None} \cup Nat]

ASSUME NoScrapeAssumption == None \notin Scrapes \cup Ended

Inc(r, outcome) == metrics' = [metrics EXCEPT ![r][outcome] = @ + 1]

MetricsInit == /\ Init
               /\ metrics = [r \in Relays |-> Zero]
               /\ report = [r \in Relays |-> None]
               /\ scrape = None

-----------------------------------------------------------------------------
(* The relay, observed *)

\* publish_one counts the transaction it has left before it starts another.
ObservedClaim(r, i) == /\ report[r] = None
                       /\ ClaimNext(r, i)
                       /\ UNCHANGED <<metrics, report, scrape>>

\* ObservedPublisher.publish: the count is in its finally clause.
ObservedPublish(r) ==
    /\ \/ Confirm(r) /\ Inc(r, "broker_confirmed")
       \/ PublishFails(r) /\ Inc(r, "publish_failed")
    /\ UNCHANGED <<report, scrape>>

Left(r, outcome) == report' = [report EXCEPT ![r] = outcome]

CommittedOutcome(r) ==
    IF pc[r] = "confirmed" THEN "published_committed" ELSE "retry_committed"

\* Mutant: a transaction that fails after the broker's answer is not counted.
ExitUncounted(r) ==
    /\ \/ Commit(r) /\ Left(r, CommittedOutcome(r))
       \/ (Commit(r) \/ CommitFails(r)) /\ UNCHANGED report
    /\ UNCHANGED <<metrics, scrape>>

\* The session.begin() block of publish_one exits.  A commit() that raises is
\* counted as failed, also when the server has applied it and only the answer
\* was lost.
ObservedExit(r) ==
    /\ \/ Commit(r) /\ Left(r, CommittedOutcome(r))
       \/ (Commit(r) \/ CommitFails(r)) /\ Left(r, "transaction_failed")
    /\ UNCHANGED <<metrics, scrape>>

\* Mutant: a failed claim is given an outcome nobody declared.
PollFailsUnlabelled(r) ==
    /\ pc[r] = "ready"
    /\ report[r] = None
    /\ Left(r, "poll_failed")
    /\ UNCHANGED <<vars, metrics, scrape>>

\* The claim itself raises: nothing was sent, and a transaction has failed.
\* MaxFaults also bounds the failures counted.
PollFails(r) ==
    /\ pc[r] = "ready"
    /\ report[r] = None
    /\ metrics[r]["transaction_failed"] < MaxFaults
    /\ Left(r, "transaction_failed")
    /\ UNCHANGED <<vars, metrics, scrape>>

Report(r) == /\ report[r] # None
             /\ Inc(r, report[r])
             /\ Left(r, None)
             /\ UNCHANGED <<vars, scrape>>

\* The process ends, at work or between two transactions, and starts again.
Restart(r) == /\ Crash(r) \/ (pc[r] = "ready" /\ UNCHANGED vars)
              /\ metrics' = [metrics EXCEPT ![r] = Zero]
              /\ Left(r, None)
              /\ scrape' = IF scrape # None /\ scrape.relay = r
                           THEN None ELSE scrape

-----------------------------------------------------------------------------
(* The scrape *)

\* The registry collects in the order of registration: the counters first.
ScrapeCounters(r) ==
    /\ scrape' = [relay |-> r, counted |-> metrics[r]["published_committed"],
                  pending |-> None]
    /\ UNCHANGED <<vars, metrics, report>>

Reading == scrape # None /\ scrape.pending = None

\* Mutant: the query has lost its condition on published_at.
BacklogOfAllRows ==
    /\ Reading
    /\ scrape' = [scrape EXCEPT !.pending = Cardinality(RecordedRows)]
    /\ UNCHANGED <<vars, metrics, report>>

\* OutboxBacklogCollector.collect: one query in a transaction of its own.
ScrapeBacklog ==
    /\ Reading
    /\ scrape' = [scrape EXCEPT !.pending = Cardinality(PendingRows)]
    /\ UNCHANGED <<vars, metrics, report>>

\* The query fails: success is zero and the backlog gauges are omitted.
ScrapeFails == /\ Reading
               /\ scrape' = None
               /\ UNCHANGED <<vars, metrics, report>>

MetricsNext ==
    \/ Tick /\ UNCHANGED <<metrics, report, scrape>>
    \/ \E i \in Intents : Record(i) /\ UNCHANGED <<metrics, report, scrape>>
    \/ \E r \in Relays :
          \/ \E i \in Intents : ObservedClaim(r, i)
          \/ ObservedPublish(r) \/ ObservedExit(r)
          \/ SessionLost(r) /\ UNCHANGED <<metrics, report, scrape>>
          \/ PollFails(r) \/ Report(r) \/ Restart(r)
          \/ ScrapeCounters(r)
    \/ ScrapeBacklog \/ ScrapeFails

MetricsSpec == MetricsInit /\ [][MetricsNext]_metricsVars

-----------------------------------------------------------------------------
(* Properties *)

\* Every variable of the observers keeps its type.
MetricsTypeOK ==
    /\ metrics \in [Relays -> [Outcomes -> Nat]]
    /\ report \in [Relays -> {None} \cup Ended]
    /\ scrape \in {None} \cup Scrapes

\* A broker's answer whose transaction has not been counted yet.
Unfinished(r) ==
    IF pc[r] \in {"confirmed", "failed"} \/ report[r] # None THEN 1 ELSE 0

\* The counters of one process explain one another.  No committed outcome
\* lacks the broker's answer it came from, and each answer without one is at
\* most one transaction still open or one counted as failed.
AnswersAreAccountedFor ==
    \A r \in Relays :
        LET n == metrics[r] IN
        /\ n["published_committed"] <= n["broker_confirmed"]
        /\ n["retry_committed"] <= n["publish_failed"]
        /\ n["broker_confirmed"] + n["publish_failed"]
             <= n["published_committed"] + n["retry_committed"]
                  + n["transaction_failed"] + Unfinished(r)

\* One scrape never shows an intent twice, as published and as pending: what
\* the counter and the gauge say together does not exceed what was recorded,
\* although the two are read at different times from different places.
ScrapeNeverCountsTwice ==
    scrape # None /\ scrape.pending # None =>
        scrape.counted + scrape.pending <= Cardinality(RecordedRows)

=============================================================================
