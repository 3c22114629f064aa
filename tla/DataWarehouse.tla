---------------------------- MODULE DataWarehouse ----------------------------
(***************************************************************************)
(* What the analyzer computes (components/src/analyzer/data_warehouse.rs),   *)
(* driven by the arms of its event loop (analyzer.rs): the start and end      *)
(* data of the consensus nodes arrive by unicast, in any order and late; an   *)
(* interval timer and a duration timer wake the loop; the controller gives     *)
(* one item after another.                                                   *)
(*                                                                         *)
(* A request is known by its hash, and every leader numbers its requests the  *)
(* same way, so the same request may be started and completed in several       *)
(* tests.  Only the latency computations read times.                         *)
(***************************************************************************)
EXTENDS Integers, Sequences, FiniteSets, FiniteSetsExt, SequencesExt

CONSTANTS
  Peer, Request,
  Time,             \* the values of the nodes' clocks
  Word,             \* 2^64
  LatencyCap,       \* 100000: a longer latency is not believed
  Internal,         \* performance_test_internal, in milliseconds
  PageSize          \* 100: rows per query of the print functions

ASSUME WarehouseAssumption ==
  /\ IsFiniteSet(Peer) /\ IsFiniteSet(Request)
  /\ Time \subseteq 0..(Word - 1)
  /\ Word \in Nat /\ LatencyCap \in Nat /\ Internal \in Nat
  /\ PageSize \in Nat \ {0}
  /\ \A s, e \in Time : s - e < Word - LatencyCap   \* clocks are not centuries apart

VARIABLES
  item,                  \* current_test_item; NoItem is Option::None
  tStart, tEnd,          \* t_start_data, t_end_data: what has a start, an end
  lStart, lEnd,          \* l_start_data, l_end_data: with their times
  sStart, sEnd,          \* s_start_data, s_end_data
  mid,                   \* throughput_mid_results
  internalRound,         \* internal_round
  throughputInternal,    \* throughput_internal
  tables,                \* the MySQL tables
  crashNodes, crashResults, maliciousResults,
  intervals, stops,      \* interval tasks running; of them, told to stop
  durations,             \* duration timers running
  tickPermit, completedPermit,   \* internal_notify, completed_test_notify
  panicked,              \* the analyzer's loop has panicked
  session,               \* number of test items received
  received,              \* history: end data received, by node and request, and since
  fresh,                 \* the item was set
  times                  \* history: start and end times received since the item was set

dataVars == <<tStart, tEnd, lStart, lEnd, sStart, sEnd>>
resultVars == <<mid, internalRound, tables, crashNodes, crashResults, maliciousResults>>
timerVars == <<intervals, stops, durations, tickPermit, completedPermit>>
historyVars == <<session, received, fresh, times>>
vars == <<item, dataVars, resultVars, timerVars, throughputInternal, panicked, historyVars>>

Kind == {"Throughput", "Latency", "ThroughputAndLatency", "Scalability", "Crash",
         "Malicious"}

\* count: the nodes of a Scalability, the crashed nodes of a Crash item.
Item == [kind : Kind, count : Nat]

NoItem == [kind |-> "None", count |-> 0]

\* HashMap::insert.
Put(f, k, v) == [x \in DOMAIN f \cup {k} |-> IF x = k THEN v ELSE f[x]]

Drop(f, S) == [x \in DOMAIN f \ S |-> f[x]]

NoData == [x \in {} |-> 0]

NoTimes == [start |-> {}, end |-> {}]

Init ==
  /\ item = NoItem
  /\ tStart = {} /\ tEnd = {} /\ sStart = {} /\ sEnd = {}
  /\ lStart = NoData /\ lEnd = NoData
  /\ mid = [p \in Peer |-> 0] /\ internalRound = 0 /\ throughputInternal = 0
  /\ tables = [throughput |-> <<>>, latency |-> <<>>, scalabilityItems |-> <<>>,
               scalabilityThroughput |-> <<>>, scalabilityLatency |-> <<>>]
  /\ crashNodes = NoData /\ crashResults = NoData /\ maliciousResults = NoData
  /\ intervals = 0 /\ stops = 0 /\ durations = 0
  /\ tickPermit = FALSE /\ completedPermit = FALSE /\ panicked = FALSE
  /\ session = 0 /\ times = NoTimes
  /\ received = [k \in Peer \X Request |-> 0] 
  /\ fresh = [k \in Peer \X Request |-> 0]

-----------------------------------------------------------------------------
\* The analyzer's handlers of what it receives.

(***************************************************************************)
(* What a node reads its clock for and unicasts when it begins or completes  *)
(* a request arrives in any order and at any time, also in a later test.     *)
(***************************************************************************)

\* store_consensus_start_data, whoever sent it and whatever is being tested.
StoreStart(r, t) ==
  /\ ~panicked
  /\ tStart' = tStart \cup {r}
  /\ lStart' = Put(lStart, r, t)
  /\ sStart' = sStart \cup {r}
  /\ times' = [times EXCEPT !.start = @ \cup {<<r, t>>}]
  /\ UNCHANGED <<item, tEnd, lEnd, sEnd, resultVars, timerVars, throughputInternal,
                 panicked, session, received, fresh>>

\* store_consensus_end_data.
StoreEnd(p, r, t) ==
  /\ ~panicked
  /\ tEnd' = tEnd \cup {<<p, r>>}
  /\ lEnd' = Put(lEnd, <<p, r>>, t)
  /\ sEnd' = sEnd \cup {<<p, r>>}
  /\ received' = [received EXCEPT ![<<p, r>>] = @ + 1]
  /\ fresh' = [fresh EXCEPT ![<<p, r>>] = @ + 1]
  /\ times' = [times EXCEPT !.end = @ \cup {<<p, r, t>>}]
  /\ UNCHANGED <<item, tStart, lStart, sStart, resultVars, timerVars,
                 throughputInternal, panicked, session>>

\* A node reports what it likes when it likes: clocks differ, reports come late.
ConsensusNodeMessageHandler ==
  \/ \E r \in Request, t \in Time : StoreStart(r, t)
  \/ \E p \in Peer, r \in Request, t \in Time : StoreEnd(p, r, t)

\* Mutant: the request counts of the last item are kept.
ResetKeepsCounts ==
  /\ tStart' = {} /\ tEnd' = {} /\ lStart' = NoData /\ lEnd' = NoData
  /\ internalRound' = 0
  /\ UNCHANGED <<sStart, sEnd, mid>>

\* reset: the data and results of performance tests; s_start_data and s_end_data
\* stay.
Reset ==
  /\ tStart' = {} /\ tEnd' = {} /\ lStart' = NoData /\ lEnd' = NoData
  /\ mid' = [p \in Peer |-> 0] /\ internalRound' = 0
  /\ UNCHANGED <<sStart, sEnd>>

\* The TestItem arm of controller_message_handler.
HandleTestItem(i) ==
  /\ ~panicked
  /\ item' = i /\ session' = session + 1
  /\ tables' = IF i.kind = "Scalability"
                 THEN [tables EXCEPT !.scalabilityItems = Append(@, i)] ELSE tables
  /\ Reset
  /\ fresh' = [k \in Peer \X Request |-> 0] /\ times' = NoTimes
  /\ UNCHANGED <<crashNodes, crashResults, maliciousResults, timerVars,
                 throughputInternal, panicked, received>>

\* record_crash_node: the list of whichever count the HashMap yields last, with
\* one node more.
RecordCrashNode(count, p) ==
  /\ ~panicked
  /\ \E old \in IF DOMAIN crashNodes = {} THEN {<<>>}
                ELSE {crashNodes[c] : c \in DOMAIN crashNodes} :
       crashNodes' = Put(crashNodes, count, Append(old, p))
  /\ UNCHANGED <<item, dataVars, mid, internalRound, tables, crashResults,
                 maliciousResults, timerVars, throughputInternal, panicked,
                 historyVars>>

\* The StartTest arm: a performance test has an interval timer as well.
HandleStartTest ==
  /\ ~panicked
  /\ throughputInternal' = Internal
  /\ intervals' = IF item.kind \in Kind \ {"Crash", "Malicious"} THEN intervals + 1
                  ELSE intervals
  /\ durations' = IF item = NoItem THEN durations ELSE durations + 1
  /\ UNCHANGED <<item, dataVars, resultVars, stops, tickPermit, completedPermit,
                 panicked, historyVars>>

-----------------------------------------------------------------------------
\* The timer tasks of performance_, crash_ and malicious_test_timer_start.

\* The interval ticks, at once and then every performance_test_internal.
IntervalTick ==
  /\ intervals > 0
  /\ tickPermit' = TRUE
  /\ UNCHANGED <<item, dataVars, resultVars, intervals, stops, durations,
                 completedPermit, throughputInternal, panicked, historyVars>>

\* The select! of the interval task takes timer_stop.
IntervalStop ==
  /\ stops > 0
  /\ stops' = stops - 1 /\ intervals' = intervals - 1
  /\ UNCHANGED <<item, dataVars, resultVars, durations, tickPermit, completedPermit,
                 throughputInternal, panicked, historyVars>>

\* The test's duration is over; only a performance test has an interval to stop.
DurationOver ==
  /\ durations > 0
  /\ durations' = durations - 1
  /\ completedPermit' = TRUE
  /\ stops' = IF intervals > stops THEN stops + 1 ELSE stops
  /\ UNCHANGED <<item, dataVars, resultVars, intervals, tickPermit,
                 throughputInternal, panicked, historyVars>>

-----------------------------------------------------------------------------
\* The computations.

\* The rows of a set, in some order: HashMaps are iterated in no order.
Rows(S) == SetToSeq(S)

\* End data whose request has start data.
Matched(starts, ends) == {k \in ends : k[2] \in starts}

\* update_request_count_with_peer for every matched end.
Counted(ends) == [p \in Peer |-> mid[p] + Cardinality({k \in ends : k[1] = p})]

\* The throughput after internal_round intervals; f64 division by 0, then `as u64`.
Throughput(count, rounds) ==
  IF rounds * throughputInternal = 0 THEN Word - 1
  ELSE (count * 1000) \div (rounds * throughputInternal)

\* One row for every node with a count, under the number of the interval.
ThroughputRows(counts) ==
  {[round |-> internalRound, peer |-> p,
    throughput |-> Throughput(counts[p], internalRound + 1)] :
     p \in {q \in Peer : counts[q] > 0}}

\* compute_throughput and compute_scalability_throughput, but for the table they
\* write: ends without a start are kept for later, starts for good.
CountThroughput ==
  LET matched == Matched(tStart, tEnd)
  IN  /\ mid' = Counted(matched)
      /\ tEnd' = tEnd \ matched
      /\ internalRound' = internalRound + 1
      /\ UNCHANGED tStart

\* u64::wrapping_sub.
WrappingSub(a, b) == (a - b) % Word

LatencyOf(k) == WrappingSub(lEnd[k], lStart[k[2]])

LatencyRow(k, latency) == [peer |-> k[1], request |-> k[2], latency |-> latency]

\* Mutant: every latency is believed.
AnyLatency == Matched(DOMAIN lStart, DOMAIN lEnd)

\* The ends whose latency is recorded.
BelievedLatency == {k \in Matched(DOMAIN lStart, DOMAIN lEnd) : LatencyOf(k) <= LatencyCap}

\* compute_latency: an unbelievable end stays, to be tried again.
ComputeLatency ==
  /\ tables' = [tables EXCEPT !.latency =
                  @ \o Rows({LatencyRow(k, LatencyOf(k)) : k \in BelievedLatency})]
  /\ lEnd' = Drop(lEnd, BelievedLatency)
  /\ UNCHANGED lStart

\* Mutant: as compute_latency does, the starts are written back, and the ends too.
ScalabilityLatencyKeeps(panics, rows) ==
  /\ ~panics
  /\ rows = Matched(DOMAIN lStart, DOMAIN lEnd)
  /\ UNCHANGED <<lStart, lEnd>>

\* compute_scalability_latency: a plain subtraction of u64, which panics on
\* underflow in a debug build, after some of the other rows were inserted, and
\* wraps in a release build.  The starts are not written back.
ScalabilityLatency(panics, rows) ==
  LET matched == Matched(DOMAIN lStart, DOMAIN lEnd)
      backwards == {k \in matched : lEnd[k] < lStart[k[2]]}
  IN  /\ panics => backwards # {}
      /\ rows \subseteq matched
      /\ IF panics THEN rows \cap backwards = {} ELSE rows = matched
      /\ lEnd' = Drop(lEnd, matched)
      /\ lStart' = NoData

\* store_security_result for every k in ends.
WithResults(results, ends) ==
  LET peers == {k[1] : k \in ends}
      old(p) == IF p \in DOMAIN results THEN results[p] ELSE <<>>
  IN  [p \in DOMAIN results \cup peers |->
         old(p) \o Rows({k[2] : k \in {e \in ends : e[1] = p}})]

\* crash_results(count) and malicous_results(item).
ResultsOf(results, key) == IF key \in DOMAIN results THEN results[key] ELSE NoData

\* Mutant: the reported ends are kept.
TestCrashKeeps ==
  /\ crashResults' = Put(crashResults, item.count,
                         WithResults(ResultsOf(crashResults, item.count),
                                     Matched(sStart, sEnd)))
  /\ UNCHANGED sEnd

\* test_crash: the completed requests that were started, each reported once.
TestCrash ==
  LET matched == Matched(sStart, sEnd)
  IN  /\ crashResults' = Put(crashResults, item.count,
                             WithResults(ResultsOf(crashResults, item.count), matched))
      /\ sEnd' = sEnd \ matched

\* test_malicious: every completed request, started or not.
TestMalicious ==
  /\ maliciousResults' = Put(maliciousResults, item,
                             WithResults(ResultsOf(maliciousResults, item), sEnd))
  /\ sEnd' = {}

ComputeThroughputItem ==
  /\ item.kind = "Throughput"
  /\ CountThroughput
  /\ tables' = [tables EXCEPT !.throughput = @ \o Rows(ThroughputRows(mid'))]
  /\ UNCHANGED <<lStart, lEnd, sEnd, crashResults, maliciousResults, panicked>>

ComputeLatencyItem ==
  /\ item.kind = "Latency"
  /\ ComputeLatency
  /\ UNCHANGED <<tStart, tEnd, sEnd, mid, internalRound, crashResults,
                 maliciousResults, panicked>>

\* compute_throughput, then compute_latency.
ComputeBothItem ==
  /\ item.kind = "ThroughputAndLatency"
  /\ CountThroughput
  /\ tables' = [tables EXCEPT
       !.throughput = @ \o Rows(ThroughputRows(mid')),
       !.latency = @ \o Rows({LatencyRow(k, LatencyOf(k)) : k \in BelievedLatency})]
  /\ lEnd' = Drop(lEnd, BelievedLatency)
  /\ UNCHANGED <<lStart, sEnd, crashResults, maliciousResults, panicked>>

\* A row of the scalability tables names the round it belongs to.
ScalabilityThroughputRows(counts) ==
  {[item |-> item, row |-> r] : r \in ThroughputRows(counts)}

ScalabilityLatencyRows(ends) ==
  {[item |-> item, row |-> LatencyRow(k, LatencyOf(k))] : k \in ends}

\* compute_scalability: the latencies, then the throughput.
ComputeScalabilityItem ==
  /\ item.kind = "Scalability"
  /\ \E rows \in SUBSET DOMAIN lEnd :
       /\ ScalabilityLatency(FALSE, rows)
       /\ CountThroughput
       /\ tables' = [tables EXCEPT
            !.scalabilityLatency = @ \o
               Rows(ScalabilityLatencyRows(rows)),
            !.scalabilityThroughput = @ \o
               Rows(ScalabilityThroughputRows(mid'))]
  /\ UNCHANGED <<sEnd, crashResults, maliciousResults, panicked>>

\* The same, when a completion lies before its start and overflow is checked.
PanicScalabilityItem ==
  /\ item.kind = "Scalability"
  /\ \E rows \in SUBSET DOMAIN lEnd :
       /\ ScalabilityLatency(TRUE, rows)
       /\ tables' = [tables EXCEPT !.scalabilityLatency = @ \o
               Rows(ScalabilityLatencyRows(rows))]
  /\ panicked' = TRUE
  /\ UNCHANGED <<tStart, tEnd, sEnd, mid, internalRound, crashResults, maliciousResults>>

ComputeCrashItem ==
  /\ item.kind = "Crash"
  /\ TestCrash
  /\ UNCHANGED <<tStart, tEnd, lStart, lEnd, mid, internalRound, tables,
                 maliciousResults, panicked>>

ComputeMaliciousItem ==
  /\ item.kind = "Malicious"
  /\ TestMalicious
  /\ UNCHANGED <<tStart, tEnd, lStart, lEnd, mid, internalRound, tables,
                 crashResults, panicked>>

\* compute_and_analyse with a current item.
ComputeAndAnalyse ==
  /\ \/ ComputeThroughputItem
     \/ ComputeLatencyItem
     \/ ComputeBothItem
     \/ ComputeScalabilityItem
     \/ PanicScalabilityItem
     \/ ComputeCrashItem
     \/ ComputeMaliciousItem
  /\ UNCHANGED <<sStart, crashNodes>>

\* The internal_notify arm of the loop.  A permit left from the last test finds no
\* item, or the next one.
HandleInternal ==
  /\ ~panicked /\ tickPermit
  /\ tickPermit' = FALSE
  /\ IF item = NoItem THEN UNCHANGED <<dataVars, resultVars, panicked>>
                      ELSE ComputeAndAnalyse
  /\ UNCHANGED <<item, intervals, stops, durations, completedPermit,
                 throughputInternal, historyVars>>

\* Mutant: the completed test is not computed once more.
HandleCompletedAtOnce ==
  /\ ~panicked /\ completedPermit /\ item # NoItem
  /\ completedPermit' = FALSE
  /\ item' = NoItem
  /\ UNCHANGED <<dataVars, resultVars, panicked, intervals, stops, durations, tickPermit,
                 throughputInternal, historyVars>>

\* The completed_test_notify arm: compute_and_analyse, then next_test reports the
\* item and clears it; without an item it panics.
HandleCompleted ==
  /\ ~panicked /\ completedPermit
  /\ completedPermit' = FALSE
  /\ IF item = NoItem
       THEN panicked' = TRUE /\ UNCHANGED <<dataVars, resultVars>>
       ELSE ComputeAndAnalyse
  /\ item' = IF panicked' THEN item ELSE NoItem
  /\ UNCHANGED <<intervals, stops, durations, tickPermit,
                 throughputInternal, historyVars>>

\* The query LIMIT start, PageSize.
Page(table, start) ==
  SubSeq(table, start + 1,
         IF start + PageSize < Len(table) THEN start + PageSize ELSE Len(table))

\* Mutant: a full page is taken for the last one.
PrintedOnePage(table) == Page(table, 0)

\* The rows print_*_results prints of a table: pages of LIMIT start, 100 until one
\* is short.
Printed(table) ==
  LET from[start \in Nat] ==
        IF Len(Page(table, start)) < PageSize THEN Page(table, start)
        ELSE Page(table, start) \o from[start + PageSize]
  IN  from[0]

-----------------------------------------------------------------------------
\* The controller gives the next item when the last one is completed.
Next ==
  \/ ConsensusNodeMessageHandler
  \/ \E k \in Kind : item = NoItem /\ HandleTestItem([kind |-> k, count |-> session + 1])
  \/ \E p \in Peer : /\ item.kind = "Crash" /\ item.count \notin DOMAIN crashNodes
                     /\ RecordCrashNode(item.count, p)
  \/ item # NoItem /\ durations = 0 /\ ~completedPermit /\ HandleStartTest
  \/ IntervalTick
  \/ IntervalStop
  \/ DurationOver
  \/ HandleInternal
  \/ HandleCompleted

Spec == Init /\ [][Next]_vars

-----------------------------------------------------------------------------
(***************************************************************************)
(* Properties.                                                              *)
(***************************************************************************)

\* compute_throughput drops no completed request and counts none twice, however
\* starts, ends and interval ticks interleave and whatever an earlier item left:
\* the requests of a node that are counted or wait for their start are those it
\* reported since the item was set (a request reported again while it waits is
\* the same entry of t_end_data).
CountsWhatWasReported ==
  \A p \in Peer :
    LET known == mid[p] + Cardinality({k \in tEnd : k[1] = p})
    IN  /\ known <= MapThenSumSet(LAMBDA r : fresh[<<p, r>>], Request)
        /\ known >= Cardinality({r \in Request : fresh[<<p, r>>] > 0})

\* A request that the scalability test measured the latency of was also counted
\* in its throughput: the latencies of an item are never more than its count,
\* though the two computations keep separate data and only one keeps the starts.
LatencyIsCounted ==
  item.kind = "Scalability" /\ ~panicked =>
    \A p \in Peer :
      Cardinality({i \in DOMAIN tables.scalabilityLatency :
                     /\ tables.scalabilityLatency[i].item = item
                     /\ tables.scalabilityLatency[i].row.peer = p}) <= mid[p]

\* How often results report r for p.
Reports(results, p, r) ==
  LET in(key) == IF p \in DOMAIN results[key]
                   THEN Cardinality({i \in DOMAIN results[key][p] : results[key][p][i] = r})
                   ELSE 0
  IN  MapThenSumSet(in, DOMAIN results)

\* reset leaves s_end_data alone, so a completed request may be reported in the
\* result of a later security test; but it is reported at most once over all
\* crash and malicious results.
SecurityReportsOnce ==
  \A p \in Peer, r \in Request :
    Reports(crashResults, p, r) + Reports(maliciousResults, p, r)
        + Cardinality(sEnd \cap {<<p, r>>}) <= received[<<p, r>>]

\* Paging prints every row of a table once, also when the last page is full.
PrintsEveryRow == Printed(tables.latency) = tables.latency

\* A latency that enters latency_results is the time from a start to an end that
\* were both stored since the item was set: wrapping_sub of a completion that lies
\* before its start (another node's clock, a request started again) never passes
\* for a latency.
LatencyIsReal ==
  [][\A i \in (Len(tables.latency) + 1)..Len(tables'.latency) :
       LET row == tables'.latency[i]
       IN  \E s, e \in Time :
             /\ <<row.request, s>> \in times.start
             /\ <<row.peer, row.request, e>> \in times.end
             /\ e - s = row.latency]_vars

\* When a test is reported as completed, nothing that could still be counted for
\* it is left: data that came after the last interval tick is computed too.
CompletedIsComputed ==
  [][item # NoItem /\ item' = NoItem =>
       /\ item.kind \in {"Throughput", "ThroughputAndLatency", "Scalability"} =>
            Matched(tStart', tEnd') = {}
       /\ item.kind \in {"Crash", "Malicious"} => Matched(sStart', sEnd') = {}
       /\ item.kind \in {"Latency", "ThroughputAndLatency"} =>
            \A k \in Matched(DOMAIN lStart', DOMAIN lEnd') : lEnd'[k] < lStart'[k[2]]
                                 \/ lEnd'[k] - lStart'[k[2]] > LatencyCap]_vars

=============================================================================
