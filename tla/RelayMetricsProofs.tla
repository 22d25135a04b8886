------------------------- MODULE RelayMetricsProofs -------------------------
(***************************************************************************)
(* Theorems about RelayMetrics, for every set of intents and relays and    *)
(* every bound on time and failures.                                       *)
(***************************************************************************)
EXTENDS RelayMetrics, OutboxRelayProofs

Flag(condition) == IF condition THEN 1 ELSE 0

\* AnswersAreAccountedFor with the answers that are still on their way from
\* the broker to a counter.
BalancedCounters(r) ==
    /\ metrics[r]["published_committed"] + Flag(report[r] = "published_committed")
         + Flag(pc[r] = "confirmed") <= metrics[r]["broker_confirmed"]
    /\ metrics[r]["retry_committed"] + Flag(report[r] = "retry_committed")
         + Flag(pc[r] = "failed") <= metrics[r]["publish_failed"]
    /\ metrics[r]["broker_confirmed"] + metrics[r]["publish_failed"]
         <= metrics[r]["published_committed"] + metrics[r]["retry_committed"]
              + metrics[r]["transaction_failed"] + Unfinished(r)

\* A relay counts one transaction before it starts the next.
ReportsFirst(r) == report[r] # None => pc[r] = "ready"

\* Each process has counted only rows that are published.
CountsRows(r) == metrics[r]["published_committed"]
                   + Flag(report[r] = "published_committed")
                     <= Cardinality(PublishedRows)

ScrapeOK == scrape # None =>
    /\ scrape.counted <= Cardinality(PublishedRows)
    /\ scrape.pending # None =>
           scrape.counted + scrape.pending <= Cardinality(RecordedRows)

MInv == /\ IInv
        /\ MetricsTypeOK
        /\ IsFiniteSet(RecordedRows)
        /\ ScrapeOK
        /\ \A r \in Relays : BalancedCounters(r) /\ ReportsFirst(r) /\ CountsRows(r)

-----------------------------------------------------------------------------
(* The observers and the relay *)

\* An observed step is a step of the relay, or leaves it alone: what is
\* measured decides nothing.
LEMMA ObserversDecideNothing == [MetricsNext]_metricsVars => [Next]_vars
<1> SUFFICES ASSUME [MetricsNext]_metricsVars PROVE [Next]_vars
  OBVIOUS
<1>1. CASE UNCHANGED metricsVars
  BY <1>1 DEF metricsVars, vars
<1>2. ASSUME NEW r \in Relays, NEW i \in Intents, ObservedClaim(r, i) PROVE Next
  BY <1>2 DEF ObservedClaim, Next, RelayStep
<1>3. ASSUME NEW r \in Relays, ObservedPublish(r) \/ ObservedExit(r) PROVE Next
  BY <1>3 DEF ObservedPublish, ObservedExit, Next, RelayStep
<1>4. ASSUME NEW r \in Relays, SessionLost(r) PROVE Next
  BY <1>4 DEF Next
<1>5. ASSUME NEW r \in Relays, PollFails(r) \/ Report(r) \/ ScrapeCounters(r)
      PROVE  UNCHANGED vars
  BY <1>5 DEF PollFails, Report, ScrapeCounters
<1>6. ASSUME NEW r \in Relays, Restart(r) PROVE [Next]_vars
  BY <1>6 DEF Restart, Next
<1>7. ASSUME ScrapeBacklog \/ ScrapeFails PROVE UNCHANGED vars
  BY <1>7 DEF ScrapeBacklog, ScrapeFails
<1>8. ASSUME Tick \/ \E i \in Intents : Record(i) PROVE Next
  BY <1>8 DEF Next
<1> QED BY <1>1, <1>2, <1>3, <1>4, <1>5, <1>6, <1>7, <1>8 DEF MetricsNext

\* What counting one outcome does to the counters.
LEMMA Counted ==
    ASSUME MetricsTypeOK, NEW r \in Relays, NEW outcome \in Outcomes,
           Inc(r, outcome)
    PROVE  /\ metrics' \in [Relays -> [Outcomes -> Nat]]
           /\ \A q \in Relays \ {r} : metrics'[q] = metrics[q]
           /\ \A other \in Outcomes \ {outcome} :
                  metrics'[r][other] = metrics[r][other]
           /\ metrics'[r][outcome] = metrics[r][outcome] + 1
BY DEF MetricsTypeOK, Inc

\* The outcomes are five different names.
LEMMA Names ==
    /\ Sent \subseteq Outcomes /\ Ended \subseteq Outcomes
    /\ "published_committed" \in Ended /\ "retry_committed" \in Ended
    /\ "transaction_failed" \in Ended
    /\ "broker_confirmed" \in Sent /\ "publish_failed" \in Sent
    /\ \A o \in Ended : o \in {"published_committed", "retry_committed",
                               "transaction_failed"}
BY DEF Sent, Ended, Outcomes

LEMMA Typed ==
    ASSUME MetricsTypeOK, NEW r \in Relays
    PROVE  /\ metrics[r]["published_committed"] \in Nat
           /\ metrics[r]["retry_committed"] \in Nat
           /\ metrics[r]["transaction_failed"] \in Nat
           /\ metrics[r]["broker_confirmed"] \in Nat
           /\ metrics[r]["publish_failed"] \in Nat
           /\ report[r] \in {None} \cup Ended
BY DEF MetricsTypeOK, Outcomes, Sent, Ended

-----------------------------------------------------------------------------
(* Rows *)

\* A published row stays published.
LEMMA PublicationsStay ==
    ASSUME IInv, [Next]_vars
    PROVE  PublishedRows \subseteq PublishedRows'
<1> SUFFICES ASSUME NEW i \in PublishedRows PROVE i \in PublishedRows'
  OBVIOUS
<1>0. i \in Intents /\ Recorded(i) /\ outbox[i].published
  BY DEF PublishedRows
<1>1. Recorded(i)'
  BY <1>0, NothingForgotten
<1>2. CASE outbox' = outbox
  BY <1>0, <1>1, <1>2 DEF PublishedRows
<1>3. ASSUME NEW j \in Intents, Record(j) PROVE outbox'[i] = outbox[i]
  BY <1>0, <1>3 DEF Record, IInv, TypeOK
<1>4. ASSUME NEW r \in Relays, Commit(r) PROVE outbox'[i] = outbox[i]
  <2>1. claim[r] # i
    BY <1>0, <1>4, CommitRow, NoneAssumption, IntentsAssumption
       DEF IInv, ClaimsAreExclusive, Commit
  <2> QED BY <1>0, <1>4, <2>1, CommitRow
<1>5. outbox' = outbox \/ outbox'[i] = outbox[i]
  BY <1>3, <1>4 DEF Next, RelayStep, vars, Tick, ClaimNext, Confirm,
                    PublishFails, CommitFails, SessionLost, Crash
<1> QED BY <1>0, <1>1, <1>2, <1>5 DEF PublishedRows

\* A step records at most one row.
LEMMA RecordedGrowsByOne ==
    ASSUME IInv, [Next]_vars
    PROVE  \E i : RecordedRows' \subseteq RecordedRows \cup {i}
<1>1. ASSUME NEW i \in Intents, Record(i)
      PROVE  RecordedRows' \subseteq RecordedRows \cup {i}
  BY <1>1 DEF RecordedRows, Recorded, Record, IInv, TypeOK
<1>2. ASSUME NEW r \in Relays, Commit(r)
      PROVE  RecordedRows' \subseteq RecordedRows \cup {claim[r]}
  BY <1>2, CommitRow DEF RecordedRows, Recorded
<1>3. CASE outbox' = outbox
  BY <1>3 DEF RecordedRows, Recorded
<1> QED BY <1>1, <1>2, <1>3 DEF Next, RelayStep, vars, Tick, ClaimNext, Confirm,
                                PublishFails, CommitFails, SessionLost, Crash

\* Published rows are recorded ones, and there are finitely many of both.
LEMMA RowsAreFinite ==
    ASSUME IsFiniteSet(RecordedRows)
    PROVE  /\ PublishedRows \subseteq RecordedRows
           /\ IsFiniteSet(PublishedRows) /\ IsFiniteSet(PendingRows)
           /\ Cardinality(PublishedRows) \in Nat
           /\ Cardinality(RecordedRows) \in Nat
           /\ Cardinality(PendingRows) \in Nat
<1>1. PublishedRows \subseteq RecordedRows /\ PendingRows \subseteq RecordedRows
  BY DEF PublishedRows, PendingRows, RecordedRows
<1> QED BY <1>1, FS_Subset, FS_CardinalityType

LEMMA RowsGrow ==
    ASSUME IInv, [Next]_vars, IsFiniteSet(RecordedRows)
    PROVE  /\ IsFiniteSet(RecordedRows')
           /\ Cardinality(PublishedRows') \in Nat
           /\ Cardinality(RecordedRows') \in Nat
           /\ Cardinality(PublishedRows) <= Cardinality(PublishedRows')
           /\ Cardinality(RecordedRows) <= Cardinality(RecordedRows')
<1>1. RecordedRows \subseteq RecordedRows' /\ PublishedRows \subseteq PublishedRows'
  BY NothingForgotten, PublicationsStay DEF RecordedRows
<1>2. PICK i : RecordedRows' \subseteq RecordedRows \cup {i}
  BY RecordedGrowsByOne
<1>3. IsFiniteSet(RecordedRows')
  BY <1>2, FS_AddElement, FS_Subset
<1>4. PublishedRows' \subseteq RecordedRows'
  BY DEF PublishedRows, RecordedRows
<1>5. IsFiniteSet(PublishedRows')
  BY <1>3, <1>4, FS_Subset
<1> QED BY <1>1, <1>3, <1>5, FS_Subset, FS_CardinalityType

\* Committing a confirmed row publishes one row more.
LEMMA CommitPublishes ==
    ASSUME IInv, NEW r \in Relays, Commit(r), pc[r] = "confirmed",
           IsFiniteSet(RecordedRows)
    PROVE  Cardinality(PublishedRows') = Cardinality(PublishedRows) + 1
<1>1. /\ claim[r] \in Intents /\ outbox'[claim[r]] \in Rows
      /\ outbox'[claim[r]].published
      /\ \A i \in Intents \ {claim[r]} : outbox'[i] = outbox[i]
  BY CommitRow
<1>2. claim[r] \notin PublishedRows
  BY <1>1, NoneAssumption, IntentsAssumption
     DEF IInv, ClaimsAreExclusive, Commit, PublishedRows
<1>3. PublishedRows' = PublishedRows \cup {claim[r]}
  BY <1>1, NoneAssumption DEF PublishedRows, Recorded
<1> QED BY <1>2, <1>3, RowsAreFinite, FS_AddElement

-----------------------------------------------------------------------------
(* Counters *)

\* A step that does not concern relay q leaves its accounts in order.
LEMMA Bystander ==
    ASSUME MInv, [Next]_vars, NEW q \in Relays, pc'[q] = pc[q],
           report'[q] = report[q], metrics'[q] = metrics[q]
    PROVE  BalancedCounters(q)' /\ ReportsFirst(q)' /\ CountsRows(q)'
<1>1. BalancedCounters(q)' /\ ReportsFirst(q)'
  BY DEF MInv, BalancedCounters, ReportsFirst, Unfinished, Flag
<1>2. /\ Cardinality(PublishedRows) \in Nat /\ Cardinality(PublishedRows') \in Nat
      /\ Cardinality(PublishedRows) <= Cardinality(PublishedRows')
  BY RowsGrow, RowsAreFinite DEF MInv
<1>3. metrics[q]["published_committed"] \in Nat
  BY Typed DEF MInv
<1> QED BY <1>1, <1>2, <1>3 DEF MInv, CountsRows, Flag

\* The broker answers: one answer more, and one transaction left to finish.
LEMMA PublishKeepsCounters ==
    ASSUME MInv, [Next]_vars, NEW r \in Relays, ObservedPublish(r)
    PROVE  /\ metrics' \in [Relays -> [Outcomes -> Nat]]
           /\ \A q \in Relays : BalancedCounters(q)' /\ ReportsFirst(q)' /\ CountsRows(q)'
<1> DEFINE answer == IF pc'[r] = "confirmed" THEN "broker_confirmed" ELSE "publish_failed"
<1>0. MetricsTypeOK /\ pc \in [Relays -> {"ready", "publishing", "confirmed", "failed"}]
  BY DEF MInv, IInv, TypeOK
<1>1. /\ pc[r] = "publishing" /\ pc'[r] \in {"confirmed", "failed"}
      /\ report' = report /\ Inc(r, answer)
      /\ \A q \in Relays \ {r} : pc'[q] = pc[q]
  BY <1>0 DEF ObservedPublish, Confirm, PublishFails
<1>2. answer \in Outcomes
  BY Names
<1>3. report[r] = None
  BY <1>1 DEF MInv, ReportsFirst
<1>4. BalancedCounters(r)' /\ ReportsFirst(r)'
  BY <1>0, <1>1, <1>2, <1>3, Counted, Typed, Names, NoScrapeAssumption
     DEF MInv, BalancedCounters, ReportsFirst, Unfinished, Flag
<1>5. CountsRows(r)'
  <2>1. metrics'[r]["published_committed"] = metrics[r]["published_committed"]
    BY <1>0, <1>1, <1>2, Counted, Names
  <2>2. PublishedRows' = PublishedRows
    BY DEF ObservedPublish, Confirm, PublishFails, PublishedRows, Recorded
  <2> QED BY <1>1, <2>1, <2>2 DEF MInv, CountsRows, Flag
<1>6. \A q \in Relays \ {r} : metrics'[q] = metrics[q]
  BY <1>0, <1>1, <1>2, Counted
<1> QED BY <1>0, <1>1, <1>2, <1>4, <1>5, <1>6, Counted, Bystander

\* The transaction exits: its outcome is known, and not yet counted.
LEMMA ExitKeepsCounters ==
    ASSUME MInv, [Next]_vars, NEW r \in Relays, ObservedExit(r)
    PROVE  \A q \in Relays : BalancedCounters(q)' /\ ReportsFirst(q)' /\ CountsRows(q)'
<1>0. /\ MetricsTypeOK /\ report \in [Relays -> {None} \cup Ended]
      /\ pc \in [Relays -> {"ready", "publishing", "confirmed", "failed"}]
  BY DEF MInv, IInv, TypeOK, MetricsTypeOK
<1>1. /\ pc[r] \in {"confirmed", "failed"} /\ pc'[r] = "ready"
      /\ metrics' = metrics
      /\ \A q \in Relays \ {r} : pc'[q] = pc[q] /\ report'[q] = report[q]
      /\ \/ Commit(r) /\ report'[r] = CommittedOutcome(r)
         \/ report'[r] = "transaction_failed"
  BY <1>0 DEF ObservedExit, Commit, CommitFails, Leave, Left
<1>2. report[r] = None /\ None \notin Ended
  BY <1>1, NoScrapeAssumption DEF MInv, ReportsFirst
<1>3. BalancedCounters(r)' /\ ReportsFirst(r)'
  BY <1>0, <1>1, <1>2, Typed, Names
     DEF MInv, BalancedCounters, ReportsFirst, Unfinished, Flag, CommittedOutcome
<1>4. CountsRows(r)'
  <2>0. /\ Cardinality(PublishedRows) \in Nat /\ Cardinality(PublishedRows') \in Nat
        /\ Cardinality(PublishedRows) <= Cardinality(PublishedRows')
        /\ metrics[r]["published_committed"] \in Nat
        /\ metrics[r]["published_committed"] <= Cardinality(PublishedRows)
    BY <1>0, <1>2, RowsGrow, RowsAreFinite, Typed, Names DEF MInv, CountsRows, Flag
  <2>1. CASE report'[r] = "published_committed"
    <3>1. Commit(r) /\ pc[r] = "confirmed"
      BY <1>1, <2>1 DEF CommittedOutcome
    <3> QED BY <1>1, <2>0, <3>1, CommitPublishes DEF MInv, CountsRows, Flag
  <2>2. CASE report'[r] # "published_committed"
    BY <1>1, <2>0, <2>2 DEF CountsRows, Flag
  <2> QED BY <2>1, <2>2
<1> QED BY <1>1, <1>3, <1>4, Bystander

\* Counting an outcome moves it from the report to its counter.
LEMMA ReportKeepsCounters ==
    ASSUME MInv, [Next]_vars, NEW r \in Relays, Report(r)
    PROVE  /\ metrics' \in [Relays -> [Outcomes -> Nat]]
           /\ \A q \in Relays : BalancedCounters(q)' /\ ReportsFirst(q)' /\ CountsRows(q)'
<1> DEFINE outcome == report[r]
<1>0. MetricsTypeOK /\ report \in [Relays -> {None} \cup Ended] /\ None \notin Ended
  BY NoScrapeAssumption DEF MInv, MetricsTypeOK
<1>1. /\ outcome \in Ended /\ Inc(r, outcome) /\ report'[r] = None
      /\ \A q \in Relays \ {r} : report'[q] = report[q]
      /\ pc' = pc /\ outbox' = outbox /\ pc[r] = "ready"
  BY <1>0 DEF Report, Left, vars, MInv, ReportsFirst
<1>2. /\ outcome \in Outcomes
      /\ outcome \in {"published_committed", "retry_committed", "transaction_failed"}
  BY <1>1, Names
<1>3. /\ \A o \in Outcomes \ {outcome} : metrics'[r][o] = metrics[r][o]
      /\ metrics'[r][outcome] = metrics[r][outcome] + 1
  BY <1>0, <1>1, <1>2, Counted
<1>4. BalancedCounters(r)' /\ ReportsFirst(r)'
  BY <1>0, <1>1, <1>2, <1>3, Typed, Names
     DEF MInv, BalancedCounters, ReportsFirst, Unfinished, Flag
<1>5. CountsRows(r)'
  <2>1. PublishedRows' = PublishedRows
    BY <1>1 DEF PublishedRows, Recorded
  <2> QED BY <1>0, <1>1, <1>2, <1>3, <2>1, Typed, Names DEF MInv, CountsRows, Flag
<1>6. \A q \in Relays \ {r} : metrics'[q] = metrics[q]
  BY <1>0, <1>1, <1>2, Counted
<1> QED BY <1>0, <1>1, <1>2, <1>4, <1>5, <1>6, Counted, Bystander

\* A new process starts counting from zero.
LEMMA RestartKeepsCounters ==
    ASSUME MInv, [Next]_vars, NEW r \in Relays, Restart(r)
    PROVE  /\ metrics' \in [Relays -> [Outcomes -> Nat]]
           /\ \A q \in Relays : BalancedCounters(q)' /\ ReportsFirst(q)' /\ CountsRows(q)'
<1>0. /\ metrics \in [Relays -> [Outcomes -> Nat]]
      /\ report \in [Relays -> {None} \cup Ended] /\ None \notin Ended
      /\ pc \in [Relays -> {"ready", "publishing", "confirmed", "failed"}]
  BY NoScrapeAssumption DEF MInv, IInv, TypeOK, MetricsTypeOK
<1>1. pc'[r] = "ready" /\ \A q \in Relays \ {r} : pc'[q] = pc[q]
  BY <1>0 DEF Restart, Crash, Leave, vars
<1>2. /\ report'[r] = None /\ metrics'[r] = Zero
      /\ \A q \in Relays \ {r} : report'[q] = report[q] /\ metrics'[q] = metrics[q]
  BY <1>0 DEF Restart, Left
<1>3. Zero \in [Outcomes -> Nat] /\ \A o \in Outcomes : Zero[o] = 0
  BY DEF Zero
<1>4. metrics' \in [Relays -> [Outcomes -> Nat]]
  BY <1>0, <1>3 DEF Restart
<1>5. \A o \in Sent \cup Ended : metrics'[r][o] = 0
  BY <1>2, <1>3, Names
<1>6. BalancedCounters(r)' /\ ReportsFirst(r)'
  BY <1>0, <1>1, <1>2, <1>5, Names
     DEF BalancedCounters, ReportsFirst, Unfinished, Flag
<1>7. CountsRows(r)'
  BY <1>0, <1>2, <1>5, RowsGrow, Names DEF MInv, CountsRows, Flag
<1> QED BY <1>1, <1>2, <1>4, <1>6, <1>7, Bystander

\* A step that moves neither relays nor counters nor reports.
LEMMA NobodyMoved ==
    ASSUME MInv, [Next]_vars, pc' = pc, report' = report, metrics' = metrics
    PROVE  \A q \in Relays : BalancedCounters(q)' /\ ReportsFirst(q)' /\ CountsRows(q)'
BY Bystander

LEMMA CountersStep ==
    ASSUME MInv, [MetricsNext]_metricsVars
    PROVE  /\ metrics' \in [Relays -> [Outcomes -> Nat]]
           /\ report' \in [Relays -> {None} \cup Ended]
           /\ \A q \in Relays : BalancedCounters(q)' /\ ReportsFirst(q)' /\ CountsRows(q)'
<1>0. /\ [Next]_vars /\ MetricsTypeOK
      /\ metrics \in [Relays -> [Outcomes -> Nat]]
      /\ report \in [Relays -> {None} \cup Ended]
      /\ pc \in [Relays -> {"ready", "publishing", "confirmed", "failed"}]
  BY ObserversDecideNothing DEF MInv, IInv, TypeOK, MetricsTypeOK
<1> DEFINE InOrder == \A q \in Relays : BalancedCounters(q)' /\ ReportsFirst(q)' /\ CountsRows(q)'
<1>1. CASE UNCHANGED <<pc, metrics, report>>
  BY <1>0, <1>1, NobodyMoved
<1>2. ASSUME NEW r \in Relays, NEW i \in Intents, ObservedClaim(r, i)
      PROVE  metrics' = metrics /\ report' = report /\ InOrder
  <2>1. /\ pc[r] = "ready" /\ pc'[r] = "publishing" /\ report[r] = None
        /\ metrics' = metrics /\ report' = report
        /\ \A q \in Relays \ {r} : pc'[q] = pc[q]
        /\ PublishedRows' = PublishedRows
    BY <1>0, <1>2 DEF ObservedClaim, ClaimNext, PublishedRows, Recorded
  <2>2. BalancedCounters(r)' /\ ReportsFirst(r)' /\ CountsRows(r)'
    BY <2>1 DEF MInv, BalancedCounters, ReportsFirst, CountsRows, Unfinished, Flag
  <2> QED BY <1>0, <2>1, <2>2, Bystander
<1>3. ASSUME NEW r \in Relays, ObservedPublish(r)
      PROVE  metrics' \in [Relays -> [Outcomes -> Nat]] /\ report' = report /\ InOrder
  BY <1>0, <1>3, PublishKeepsCounters DEF ObservedPublish
<1>4. ASSUME NEW r \in Relays, ObservedExit(r)
      PROVE  /\ metrics' = metrics /\ report' \in [Relays -> {None} \cup Ended]
             /\ InOrder
  <2>1. report' \in [Relays -> {None} \cup Ended] /\ metrics' = metrics
    BY <1>0, <1>4, Names DEF ObservedExit, Left, CommittedOutcome
  <2> QED BY <1>0, <1>4, <2>1, ExitKeepsCounters
<1>5. ASSUME NEW r \in Relays, PollFails(r)
      PROVE  /\ metrics' = metrics /\ report' \in [Relays -> {None} \cup Ended]
             /\ InOrder
  <2>1. /\ pc' = pc /\ pc[r] = "ready" /\ metrics' = metrics /\ report[r] = None
        /\ report' = [report EXCEPT ![r] = "transaction_failed"]
        /\ PublishedRows' = PublishedRows
    BY <1>5 DEF PollFails, Left, vars, PublishedRows, Recorded
  <2>2. BalancedCounters(r)' /\ ReportsFirst(r)' /\ CountsRows(r)'
    BY <1>0, <2>1, Typed, Names, NoScrapeAssumption
       DEF MInv, BalancedCounters, ReportsFirst, CountsRows, Unfinished, Flag
  <2> QED BY <1>0, <2>1, <2>2, Bystander, Names
<1>6. ASSUME NEW r \in Relays, Report(r) \/ Restart(r)
      PROVE  /\ metrics' \in [Relays -> [Outcomes -> Nat]]
             /\ report' \in [Relays -> {None} \cup Ended] /\ InOrder
  <2>1. report' \in [Relays -> {None} \cup Ended]
    BY <1>0, <1>6 DEF Report, Restart, Left
  <2> QED BY <1>0, <1>6, <2>1, ReportKeepsCounters, RestartKeepsCounters
<1>7. ASSUME NEW r \in Relays, SessionLost(r) \/ ScrapeCounters(r),
             UNCHANGED <<metrics, report>>
      PROVE  UNCHANGED <<pc, metrics, report>>
  BY <1>7 DEF SessionLost, ScrapeCounters, vars
<1>8. ASSUME ScrapeBacklog \/ ScrapeFails \/ UNCHANGED metricsVars
      PROVE  UNCHANGED <<pc, metrics, report>>
  BY <1>8 DEF ScrapeBacklog, ScrapeFails, metricsVars, vars
<1>9. ASSUME Tick \/ (\E i \in Intents : Record(i)), UNCHANGED <<metrics, report>>
      PROVE  UNCHANGED <<pc, metrics, report>>
  BY <1>9 DEF Tick, Record
<1>10. ASSUME NEW r \in Relays, ScrapeCounters(r) PROVE UNCHANGED <<metrics, report>>
  BY <1>10 DEF ScrapeCounters
<1> QED
  BY <1>0, <1>1, <1>2, <1>3, <1>4, <1>5, <1>6, <1>7, <1>8, <1>9, <1>10 DEF MetricsNext

-----------------------------------------------------------------------------
(* Scrapes *)

\* Pending and published rows are the recorded ones.
LEMMA RowsSplit ==
    ASSUME IsFiniteSet(RecordedRows)
    PROVE  Cardinality(PublishedRows) + Cardinality(PendingRows)
             = Cardinality(RecordedRows)
<1>1. /\ PublishedRows \cup PendingRows = RecordedRows
      /\ PublishedRows \cap PendingRows = {}
  BY DEF PublishedRows, PendingRows, RecordedRows
<1>2. Cardinality(RecordedRows) = Cardinality(PublishedRows)
                                    + Cardinality(PendingRows) - Cardinality({})
  BY <1>1, RowsAreFinite, FS_Union
<1>3. Cardinality({}) = 0
  BY FS_EmptySet
<1> QED BY <1>2, <1>3, RowsAreFinite

LEMMA ScrapeStep ==
    ASSUME MInv, [MetricsNext]_metricsVars
    PROVE  scrape' \in {None} \cup Scrapes /\ ScrapeOK'
<1>0. /\ [Next]_vars /\ MetricsTypeOK /\ ScrapeOK
      /\ IsFiniteSet(RecordedRows) /\ scrape \in {None} \cup Scrapes
      /\ None \notin Scrapes /\ None \notin Nat
  BY ObserversDecideNothing, NoScrapeAssumption, NoneAssumption
     DEF MInv, MetricsTypeOK
<1>1. /\ Cardinality(PublishedRows) \in Nat /\ Cardinality(PublishedRows') \in Nat
      /\ Cardinality(RecordedRows) \in Nat /\ Cardinality(RecordedRows') \in Nat
      /\ Cardinality(PublishedRows) <= Cardinality(PublishedRows')
      /\ Cardinality(RecordedRows) <= Cardinality(RecordedRows')
  BY <1>0, RowsGrow, RowsAreFinite DEF MInv
<1>2. CASE scrape' = scrape
  BY <1>0, <1>1, <1>2 DEF ScrapeOK, Scrapes
<1>3. CASE scrape' = None
  BY <1>3 DEF ScrapeOK
<1>4. ASSUME NEW r \in Relays, ScrapeCounters(r)
      PROVE  scrape' \in Scrapes /\ ScrapeOK'
  <2>1. /\ metrics[r]["published_committed"] \in Nat
        /\ metrics[r]["published_committed"] <= Cardinality(PublishedRows)
    BY <1>0, <1>1, Typed DEF MInv, CountsRows, Flag
  <2>2. scrape'.counted = metrics[r]["published_committed"] /\ scrape'.pending = None
    BY <1>4 DEF ScrapeCounters
  <2>3. scrape' \in Scrapes
    BY <1>4, <2>1 DEF ScrapeCounters, Scrapes
  <2> QED BY <1>1, <2>1, <2>2, <2>3 DEF ScrapeOK
<1>5. ASSUME ScrapeBacklog PROVE scrape' \in Scrapes /\ ScrapeOK'
  <2> DEFINE n == Cardinality(PendingRows)
  <2>1. n \in Nat /\ Cardinality(PublishedRows) + n = Cardinality(RecordedRows)
    BY <1>0, RowsAreFinite, RowsSplit
  <2>2. scrape' = [scrape EXCEPT !.pending = n] /\ scrape \in Scrapes
        /\ UNCHANGED outbox
    BY <1>0, <1>5 DEF ScrapeBacklog, Reading, vars
  <2> HIDE DEF n
  <2>3. scrape' \in Scrapes /\ scrape'.counted = scrape.counted /\ scrape'.pending = n
    BY <2>1, <2>2 DEF Scrapes
  <2>4. scrape.counted \in Nat /\ scrape.counted <= Cardinality(PublishedRows)
    BY <1>0, <2>2 DEF ScrapeOK, Scrapes
  <2>5. PublishedRows' = PublishedRows /\ RecordedRows' = RecordedRows
    BY <2>2 DEF PublishedRows, RecordedRows, Recorded
  <2> QED BY <1>1, <2>1, <2>3, <2>4, <2>5 DEF ScrapeOK
<1>6. ASSUME ~(scrape' = scrape)
      PROVE  \/ scrape' = None \/ ScrapeBacklog
             \/ \E r \in Relays : ScrapeCounters(r)
  BY <1>6 DEF MetricsNext, metricsVars, ObservedClaim, ObservedPublish,
              ObservedExit, PollFails, Report, Restart, ScrapeFails
<1> QED BY <1>2, <1>3, <1>4, <1>5, <1>6

-----------------------------------------------------------------------------

\* The inductive invariant: that of the relay, and counters, reports and
\* scrapes that agree with its rows.
THEOREM MetricsInvariance == MetricsSpec => []MInv
<1>1. MetricsInit => MInv
  <2> SUFFICES ASSUME MetricsInit PROVE MInv
    OBVIOUS
  <2>1. IInv
    BY InitIInv DEF MetricsInit
  <2>2. RecordedRows = {} /\ PublishedRows = {}
    BY DEF MetricsInit, Init, RecordedRows, PublishedRows, Recorded
  <2>3. Zero \in [Outcomes -> Nat] /\ \A o \in Outcomes : Zero[o] = 0
    BY DEF Zero
  <2>4. MetricsTypeOK /\ ScrapeOK
    BY <2>3 DEF MetricsInit, MetricsTypeOK, ScrapeOK
  <2>5. ASSUME NEW r \in Relays
        PROVE  BalancedCounters(r) /\ ReportsFirst(r) /\ CountsRows(r)
    <3>1. /\ pc[r] = "ready" /\ report[r] = None
          /\ \A o \in Sent \cup Ended : metrics[r][o] = 0
      BY <2>3, Names DEF MetricsInit, Init
    <3>2. Cardinality(PublishedRows) = 0
      BY <2>2, FS_EmptySet
    <3> QED BY <3>1, <3>2, Names, NoScrapeAssumption
            DEF BalancedCounters, ReportsFirst, CountsRows, Unfinished, Flag
  <2> QED BY <2>1, <2>2, <2>4, <2>5, FS_EmptySet DEF MInv
<1>2. MInv /\ [MetricsNext]_metricsVars => MInv'
  <2> SUFFICES ASSUME MInv, [MetricsNext]_metricsVars PROVE MInv'
    OBVIOUS
  <2>1. [Next]_vars /\ IInv /\ IsFiniteSet(RecordedRows)
    BY ObserversDecideNothing DEF MInv
  <2>2. IInv'
    BY <2>1, TypeStep, RelaysStep, ClaimsStep DEF IInv
  <2>3. IsFiniteSet(RecordedRows)'
    BY <2>1, RowsGrow
  <2> QED BY <2>2, <2>3, CountersStep, ScrapeStep DEF MInv, MetricsTypeOK
<1> QED BY <1>1, <1>2, PTL DEF MetricsSpec

\* Every variable of the observers keeps its type.
THEOREM MetricsTypeCorrect == MetricsSpec => []MetricsTypeOK
<1>1. MInv => MetricsTypeOK
  BY DEF MInv
<1> QED BY MetricsInvariance, <1>1, PTL

\* publish_one counts every way its transaction can end, once: a broker's
\* answer that was not committed is in transaction_failed or still open.
THEOREM AnswersCorrect == MetricsSpec => []AnswersAreAccountedFor
<1>1. MInv => AnswersAreAccountedFor
  <2> SUFFICES ASSUME MInv, NEW r \in Relays
               PROVE  LET n == metrics[r] IN
                      /\ n["published_committed"] <= n["broker_confirmed"]
                      /\ n["retry_committed"] <= n["publish_failed"]
                      /\ n["broker_confirmed"] + n["publish_failed"]
                           <= n["published_committed"] + n["retry_committed"]
                                + n["transaction_failed"] + Unfinished(r)
    BY DEF AnswersAreAccountedFor
  <2> QED BY Typed DEF MInv, BalancedCounters, Flag
<1> QED BY MetricsInvariance, <1>1, PTL

\* Because the count follows the commit and the scrape reads counters first,
\* a scrape shows no intent both as published and as pending.
THEOREM ScrapesCorrect == MetricsSpec => []ScrapeNeverCountsTwice
<1>1. MInv => ScrapeNeverCountsTwice
  BY DEF MInv, ScrapeOK, ScrapeNeverCountsTwice
<1> QED BY MetricsInvariance, <1>1, PTL

=============================================================================
