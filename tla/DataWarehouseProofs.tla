------------------------- MODULE DataWarehouseProofs -------------------------
(* Proofs, for any clocks, word size and believed latency, of what the data      *)
(* warehouse makes of the times it is sent.                                     *)
EXTENDS DataWarehouse, FiniteSetTheorems, TLAPS

USE DEF dataVars, resultVars, timerVars, historyVars

\* u64::wrapping_sub of two times of Time, when there is no underflow and when there is.
LEMMA Wraps ==
  ASSUME NEW e \in Time, NEW s \in Time
  PROVE  /\ WrappingSub(e, s) \in Nat
         /\ e >= s => WrappingSub(e, s) = e - s
         /\ e < s => WrappingSub(e, s) > LatencyCap
<1>1. e \in 0..(Word - 1) /\ s \in 0..(Word - 1) /\ Word \in Nat /\ LatencyCap \in Nat /\ s - e < Word - LatencyCap
  BY WarehouseAssumption
<1>2. CASE e >= s
  <2>1. e - s \in Nat /\ e - s < Word BY <1>1, <1>2
  <2>2. \A x \in Nat : x < Word => x % Word = x BY <1>1
  <2> QED BY <2>1, <2>2, <1>2, <1>1 DEF WrappingSub
<1>3. CASE e < s
  <2>1. \A x \in Int : -Word < x /\ x < 0 => x % Word = x + Word BY <1>1
  <2> QED BY <2>1, <1>3, <1>1 DEF WrappingSub
<1> QED BY <1>1, <1>2, <1>3

-----------------------------------------------------------------------------
(* The data and its times.                                                  *)

LatencyRows == [peer : Peer, request : Request, latency : Nat]

\* What is stored was received since the item was set.
StoredTimes ==
  /\ DOMAIN lStart \subseteq Request
  /\ \A r \in DOMAIN lStart : lStart[r] \in Time /\ <<r, lStart[r]>> \in times.start
  /\ DOMAIN lEnd \subseteq Peer \X Request
  /\ \A k \in DOMAIN lEnd : lEnd[k] \in Time /\ <<k[1], k[2], lEnd[k]>> \in times.end

Shape ==
  /\ DOMAIN times = {"start", "end"}
  /\ DOMAIN tables = {"throughput", "latency", "scalabilityItems", "scalabilityThroughput", "scalabilityLatency"}
  /\ tables.latency \in Seq(LatencyRows)

WarehouseInv == StoredTimes /\ Shape

\* The rows compute_latency writes.
NewRows == {LatencyRow(k, LatencyOf(k)) : k \in BelievedLatency}

\* The time from a start to an end that were received.
Real(row) ==
  \E s, e \in Time : /\ <<row.request, s>> \in times.start
                     /\ <<row.peer, row.request, e>> \in times.end
                     /\ e - s = row.latency

LEMMA RowsOfSet ==
  ASSUME NEW S, IsFiniteSet(S)
  PROVE  /\ Rows(S) \in Seq(S) /\ Len(Rows(S)) = Cardinality(S) /\ Cardinality(S) \in Nat
         /\ \A i, j \in 1..Cardinality(S) : Rows(S)[i] = Rows(S)[j] => i = j
<1>1. Cardinality(S) \in Nat /\ ExistsBijection(1..Cardinality(S), S) BY FS_CardinalityType
<1>2. \E f \in [1..Cardinality(S) -> S] : IsInjective(f)
  BY <1>1 DEF ExistsBijection, Bijection, Injection
<1>3. Rows(S) \in [1..Cardinality(S) -> S] /\ IsInjective(Rows(S)) BY <1>2 DEF Rows, SetToSeq
<1>4. \A i, j \in 1..Cardinality(S) : Rows(S)[i] = Rows(S)[j] => i = j BY <1>3 DEF IsInjective
<1> QED BY <1>1, <1>3, <1>4

\* Appended rows come after the old ones.
LEMMA RowsAppended ==
  ASSUME NEW T, NEW old \in Seq(T), NEW S \in SUBSET T, IsFiniteSet(S)
  PROVE  /\ old \o Rows(S) \in Seq(T)
         /\ \A i \in (Len(old) + 1)..Len(old \o Rows(S)) : (old \o Rows(S))[i] \in S
<1>1. Rows(S) \in Seq(S) /\ Len(Rows(S)) = Cardinality(S) /\ Cardinality(S) \in Nat BY RowsOfSet
<1> DEFINE new == Rows(S)
<1> HIDE DEF new
<1>2. new \in Seq(S) BY <1>1 DEF new
<1>3. new \in Seq(T) BY <1>2
<1>4. old \o new \in Seq(T) BY <1>3
<1>5. Len(old \o new) = Len(old) + Len(new) /\ Len(old) \in Nat /\ Len(new) \in Nat BY <1>3
<1>6. ASSUME NEW i \in (Len(old) + 1)..Len(old \o new) PROVE (old \o new)[i] \in S
  <2>1. (old \o new)[i] = new[i - Len(old)] BY <1>3, <1>5
  <2>2. i - Len(old) \in 1..Len(new) BY <1>5
  <2>3. new[i - Len(old)] \in S BY <1>2, <2>2
  <2> QED BY <2>1, <2>3
<1> QED BY <1>4, <1>6 DEF new

LEMMA NewRowsReal ==
  ASSUME StoredTimes
  PROVE  IsFiniteSet(NewRows) /\ NewRows \subseteq LatencyRows /\ \A row \in NewRows : Real(row)
<1>1. BelievedLatency \subseteq DOMAIN lEnd BY DEF BelievedLatency, Matched
<1>2. IsFiniteSet(Peer \X Request) BY WarehouseAssumption, FS_Product
<1>3. IsFiniteSet(BelievedLatency)
  <2>1. BelievedLatency \in SUBSET (Peer \X Request) BY <1>1 DEF StoredTimes
  <2> QED BY <1>2, <2>1, FS_Subset
<1>4. IsFiniteSet(NewRows)
  <2> DEFINE f == [k \in BelievedLatency |-> LatencyRow(k, LatencyOf(k))]
  <2>1. f \in [BelievedLatency -> NewRows] BY DEF NewRows
  <2>2. \A t \in NewRows : \E k \in BelievedLatency : f[k] = t BY DEF NewRows
  <2>3. f \in Surjection(BelievedLatency, NewRows) BY <2>1, <2>2 DEF Surjection
  <2> HIDE DEF f
  <2> QED BY <1>3, <2>3, FS_Surjection
<1>5. ASSUME NEW k \in BelievedLatency
      PROVE  LatencyRow(k, LatencyOf(k)) \in LatencyRows /\ Real(LatencyRow(k, LatencyOf(k)))
  <2>1. k \in DOMAIN lEnd /\ k[2] \in DOMAIN lStart /\ LatencyOf(k) <= LatencyCap
    BY DEF BelievedLatency, Matched
  <2>2. /\ k \in Peer \X Request /\ lEnd[k] \in Time /\ <<k[1], k[2], lEnd[k]>> \in times.end
        /\ lStart[k[2]] \in Time /\ <<k[2], lStart[k[2]]>> \in times.start
    BY <2>1 DEF StoredTimes
  <2> DEFINE e == lEnd[k]
             s == lStart[k[2]]
  <2>3. LatencyOf(k) = WrappingSub(e, s) BY DEF LatencyOf
  <2> HIDE DEF e, s
  <2>4. e \in Time /\ s \in Time BY <2>2 DEF e, s
  <2>5. e \in Nat /\ s \in Nat BY <2>4, WarehouseAssumption
  <2>6. LatencyOf(k) \in Nat /\ LatencyOf(k) = e - s
    <3>1. WrappingSub(e, s) \in Nat /\ (e >= s => WrappingSub(e, s) = e - s) /\ (e < s => WrappingSub(e, s) > LatencyCap)
      BY <2>4, Wraps
    <3>2. LatencyCap \in Nat BY WarehouseAssumption
    <3> QED BY <2>1, <2>3, <2>5, <3>1, <3>2
  <2> DEFINE row == LatencyRow(k, LatencyOf(k))
  <2>7. row.peer = k[1] /\ row.request = k[2] /\ row.latency = LatencyOf(k) BY DEF LatencyRow
  <2>8. row \in LatencyRows BY <2>2, <2>6 DEF LatencyRow, LatencyRows
  <2> HIDE DEF row
  <2>9. <<row.request, s>> \in times.start /\ <<row.peer, row.request, e>> \in times.end
    BY <2>2, <2>7 DEF e, s
  <2>10. Real(row) BY <2>4, <2>6, <2>7, <2>9 DEF Real
  <2> QED BY <2>8, <2>10 DEF row
<1> QED BY <1>4, <1>5 DEF NewRows

\* A computation forgets times and makes up none; of the rows in latency_results it keeps all.
Forgets ==
  /\ DOMAIN lStart' \subseteq DOMAIN lStart /\ \A r \in DOMAIN lStart' : lStart'[r] = lStart[r]
  /\ DOMAIN lEnd' \subseteq DOMAIN lEnd /\ \A k \in DOMAIN lEnd' : lEnd'[k] = lEnd[k]

LatencyTable == tables'.latency = tables.latency \/ tables'.latency = tables.latency \o Rows(NewRows)

LEMMA ComputeEffect ==
  ASSUME Shape, ComputeAndAnalyse
  PROVE  Forgets /\ DOMAIN tables' = DOMAIN tables /\ LatencyTable
<1>1. CASE ComputeThroughputItem
  <2>1. UNCHANGED <<lStart, lEnd>> BY <1>1 DEF ComputeThroughputItem
  <2>2. DOMAIN tables' = DOMAIN tables /\ tables'.latency = tables.latency
    BY <1>1 DEF ComputeThroughputItem, Shape
  <2> QED BY <2>1, <2>2 DEF Forgets, LatencyTable
<1>2. CASE ComputeLatencyItem
  <2>1. UNCHANGED lStart /\ lEnd' = Drop(lEnd, BelievedLatency)
    BY <1>2 DEF ComputeLatencyItem, ComputeLatency
  <2>2. tables' = [tables EXCEPT !.latency = @ \o Rows(NewRows)]
    BY <1>2 DEF ComputeLatencyItem, ComputeLatency, NewRows
  <2>3. DOMAIN tables' = DOMAIN tables /\ tables'.latency = tables.latency \o Rows(NewRows)
    BY <2>2 DEF Shape
  <2>4. Forgets BY <2>1 DEF Forgets, Drop
  <2> QED BY <2>3, <2>4 DEF LatencyTable
<1>3. CASE ComputeBothItem
  <2>1. UNCHANGED lStart /\ lEnd' = Drop(lEnd, BelievedLatency) BY <1>3 DEF ComputeBothItem
  <2>2. tables' = [tables EXCEPT !.throughput = @ \o Rows(ThroughputRows(mid')), !.latency = @ \o Rows(NewRows)]
    BY <1>3 DEF ComputeBothItem, NewRows
  <2>3. DOMAIN tables' = DOMAIN tables /\ tables'.latency = tables.latency \o Rows(NewRows)
    BY <2>2 DEF Shape
  <2>4. Forgets BY <2>1 DEF Forgets, Drop
  <2> QED BY <2>3, <2>4 DEF LatencyTable
<1>4. CASE ComputeScalabilityItem \/ PanicScalabilityItem
  <2>1. PICK panics, rows : ScalabilityLatency(panics, rows)
    BY <1>4 DEF ComputeScalabilityItem, PanicScalabilityItem
  <2>2. lEnd' = Drop(lEnd, Matched(DOMAIN lStart, DOMAIN lEnd)) /\ lStart' = NoData
    BY <2>1 DEF ScalabilityLatency
  <2>3. DOMAIN lStart' = {} BY <2>2 DEF NoData
  <2>4. DOMAIN tables' = DOMAIN tables /\ tables'.latency = tables.latency
    BY <1>4 DEF ComputeScalabilityItem, PanicScalabilityItem, Shape
  <2>5. Forgets BY <2>2, <2>3 DEF Forgets, Drop
  <2> QED BY <2>4, <2>5 DEF LatencyTable
<1>5. CASE ComputeCrashItem \/ ComputeMaliciousItem
  <2>1. UNCHANGED <<lStart, lEnd, tables>> BY <1>5 DEF ComputeCrashItem, ComputeMaliciousItem
  <2> QED BY <2>1 DEF Forgets, LatencyTable
<1> QED BY <1>1, <1>2, <1>3, <1>4, <1>5 DEF ComputeAndAnalyse

LEMMA WarehouseInvStep == ASSUME WarehouseInv, [Next]_vars PROVE WarehouseInv' /\ LatencyTable
<1>t. StoredTimes /\ Shape BY DEF WarehouseInv
<1>1. ASSUME NEW r \in Request, NEW t \in Time, StoreStart(r, t) PROVE WarehouseInv' /\ LatencyTable
  <2>1. lStart' = Put(lStart, r, t) /\ times' = [times EXCEPT !.start = @ \cup {<<r, t>>}] /\ UNCHANGED <<lEnd, tables>>
    BY <1>1 DEF StoreStart
  <2>2. DOMAIN times' = {"start", "end"} /\ times'.start = times.start \cup {<<r, t>>} /\ times'.end = times.end
    BY <1>t, <2>1 DEF Shape
  <2>3. DOMAIN lStart' = DOMAIN lStart \cup {r} /\ \A x \in DOMAIN lStart' : lStart'[x] = IF x = r THEN t ELSE lStart[x]
    BY <2>1 DEF Put
  <2>4. StoredTimes' BY <1>t, <2>1, <2>2, <2>3 DEF StoredTimes
  <2> QED BY <1>t, <2>1, <2>2, <2>4 DEF WarehouseInv, Shape, LatencyTable
<1>2. ASSUME NEW p \in Peer, NEW r \in Request, NEW t \in Time, StoreEnd(p, r, t)
      PROVE  WarehouseInv' /\ LatencyTable
  <2> DEFINE k == <<p, r>>
  <2>1. /\ lEnd' = Put(lEnd, k, t) /\ times' = [times EXCEPT !.end = @ \cup {<<p, r, t>>}]
        /\ UNCHANGED <<lStart, tables>>
    BY <1>2 DEF StoreEnd
  <2>2. DOMAIN times' = {"start", "end"} /\ times'.end = times.end \cup {<<p, r, t>>} /\ times'.start = times.start
    BY <1>t, <2>1 DEF Shape
  <2>3. k \in Peer \X Request /\ k[1] = p /\ k[2] = r OBVIOUS
  <2> HIDE DEF k
  <2>4. DOMAIN lEnd' = DOMAIN lEnd \cup {k} /\ \A x \in DOMAIN lEnd' : lEnd'[x] = IF x = k THEN t ELSE lEnd[x]
    BY <2>1 DEF Put
  <2>5. StoredTimes' BY <1>t, <2>1, <2>2, <2>3, <2>4 DEF StoredTimes
  <2> QED BY <1>t, <2>1, <2>2, <2>5 DEF WarehouseInv, Shape, LatencyTable
<1>3. ASSUME NEW i, HandleTestItem(i) PROVE WarehouseInv' /\ LatencyTable
  <2>1. lStart' = NoData /\ lEnd' = NoData /\ times' = NoTimes BY <1>3 DEF HandleTestItem, Reset
  <2>2. DOMAIN tables' = DOMAIN tables /\ tables'.latency = tables.latency
    BY <1>3, <1>t DEF HandleTestItem, Shape
  <2>3. DOMAIN NoData = {} /\ DOMAIN NoTimes = {"start", "end"} BY DEF NoData, NoTimes
  <2>4. StoredTimes' BY <2>1, <2>3 DEF StoredTimes
  <2> QED BY <1>t, <2>1, <2>2, <2>3, <2>4 DEF WarehouseInv, Shape, LatencyTable
<1>4. ASSUME ComputeAndAnalyse, UNCHANGED times PROVE WarehouseInv' /\ LatencyTable
  <2>1. Forgets /\ DOMAIN tables' = DOMAIN tables /\ LatencyTable BY <1>4, <1>t, ComputeEffect
  <2>2. StoredTimes' BY <1>4, <1>t, <2>1 DEF StoredTimes, Forgets
  <2>3. tables.latency \o Rows(NewRows) \in Seq(LatencyRows)
    BY <1>t, NewRowsReal, RowsAppended DEF Shape
  <2>4. Shape' BY <1>4, <1>t, <2>1, <2>3 DEF Shape, LatencyTable
  <2> QED BY <2>1, <2>2, <2>4 DEF WarehouseInv
<1>5. ASSUME UNCHANGED <<lStart, lEnd, tables, times>> PROVE WarehouseInv' /\ LatencyTable
  BY <1>5, <1>t DEF WarehouseInv, StoredTimes, Shape, LatencyTable
<1>6. CASE HandleInternal
  <2>1. UNCHANGED times /\ (ComputeAndAnalyse \/ UNCHANGED <<lStart, lEnd, tables>>)
    BY <1>6 DEF HandleInternal
  <2> QED BY <1>4, <1>5, <2>1
<1>7. CASE HandleCompleted
  <2>1. UNCHANGED times /\ (ComputeAndAnalyse \/ UNCHANGED <<lStart, lEnd, tables>>)
    BY <1>7 DEF HandleCompleted
  <2> QED BY <1>4, <1>5, <2>1
<1>8. CASE \/ \E c : \E p \in Peer : RecordCrashNode(c, p)
           \/ HandleStartTest \/ IntervalTick \/ IntervalStop \/ DurationOver \/ UNCHANGED vars
  <2>1. UNCHANGED <<lStart, lEnd, tables, times>>
    BY <1>8 DEF RecordCrashNode, HandleStartTest, IntervalTick, IntervalStop, DurationOver, vars
  <2> QED BY <1>5, <2>1
<1> QED BY <1>1, <1>2, <1>3, <1>6, <1>7, <1>8 DEF Next, ConsensusNodeMessageHandler

LEMMA WarehouseInvInit == ASSUME Init PROVE WarehouseInv
<1>1. DOMAIN NoData = {} /\ DOMAIN NoTimes = {"start", "end"} BY DEF NoData, NoTimes
<1>2. <<>> \in Seq(LatencyRows) OBVIOUS
<1>3. tables.latency = <<>> /\ DOMAIN tables = {"throughput", "latency", "scalabilityItems", "scalabilityThroughput", "scalabilityLatency"}
  BY DEF Init
<1>4. lStart = NoData /\ lEnd = NoData /\ times = NoTimes BY DEF Init
<1> QED BY <1>1, <1>2, <1>3, <1>4 DEF WarehouseInv, StoredTimes, Shape

\* compute_latency subtracts u64 times of different machines with wrapping_sub and believes what is
\* at most the cap.  For any word, cap and clocks that are not a word apart, a row of latency_results
\* is the time between a start and an end received for this item, never a wrapped difference.
THEOREM LatencyIsRealAlways == Spec => LatencyIsReal
<1>1. Init => WarehouseInv BY WarehouseInvInit
<1>2. WarehouseInv /\ [Next]_vars => WarehouseInv' BY WarehouseInvStep
<1>3. WarehouseInv /\ [Next]_vars =>
        [\A i \in (Len(tables.latency) + 1)..Len(tables'.latency) :
           LET row == tables'.latency[i]
           IN  \E s, e \in Time :
                 /\ <<row.request, s>> \in times.start
                 /\ <<row.peer, row.request, e>> \in times.end
                 /\ e - s = row.latency]_vars
  <2> SUFFICES ASSUME WarehouseInv, [Next]_vars, NEW i \in (Len(tables.latency) + 1)..Len(tables'.latency)
               PROVE  Real(tables'.latency[i])
    BY DEF Real
  <2>1. LatencyTable BY WarehouseInvStep
  <2>2. tables.latency \in Seq(LatencyRows) /\ StoredTimes BY DEF WarehouseInv, Shape
  <2>3. CASE tables'.latency = tables.latency
    <3>1. Len(tables.latency) \in Nat BY <2>2
    <3> QED BY <2>3, <3>1
  <2>4. CASE tables'.latency = tables.latency \o Rows(NewRows)
    <3>1. tables'.latency[i] \in NewRows BY <2>2, <2>4, NewRowsReal, RowsAppended
    <3> QED BY <2>2, <3>1, NewRowsReal
  <2> QED BY <2>1, <2>3, <2>4 DEF LatencyTable
<1> QED BY <1>1, <1>2, <1>3, PTL DEF Spec, LatencyIsReal

-----------------------------------------------------------------------------
(* The end of a test.                                                       *)

\* Nothing is left to compute for an item.
Computed(i) ==
  /\ i.kind \in {"Throughput", "ThroughputAndLatency", "Scalability"} => Matched(tStart', tEnd') = {}
  /\ i.kind \in {"Crash", "Malicious"} => Matched(sStart', sEnd') = {}
  /\ i.kind \in {"Latency", "ThroughputAndLatency"} =>
       \A k \in Matched(DOMAIN lStart', DOMAIN lEnd') : lEnd'[k] < lStart'[k[2]]
                                 \/ lEnd'[k] - lStart'[k[2]] > LatencyCap

LEMMA CountThroughputDone == ASSUME CountThroughput PROVE Matched(tStart', tEnd') = {}
BY DEF CountThroughput, Matched

\* An end that stays is one whose latency is not believed.
LEMMA LatencyDone ==
  ASSUME StoredTimes, UNCHANGED lStart, lEnd' = Drop(lEnd, BelievedLatency),
         NEW k \in Matched(DOMAIN lStart', DOMAIN lEnd')
  PROVE  lEnd'[k] < lStart'[k[2]] \/ lEnd'[k] - lStart'[k[2]] > LatencyCap
<1>1. k \in DOMAIN lEnd \ BelievedLatency /\ lEnd'[k] = lEnd[k] /\ k[2] \in DOMAIN lStart
  BY DEF Matched, Drop
<1> DEFINE e == lEnd[k]
           s == lStart[k[2]]
<1>2. e \in Time /\ s \in Time BY <1>1 DEF StoredTimes
<1>3. ~(WrappingSub(e, s) <= LatencyCap) BY <1>1 DEF BelievedLatency, Matched, LatencyOf
<1>4. lEnd'[k] = e /\ lStart'[k[2]] = s BY <1>1
<1> HIDE DEF e, s
<1>5. e \in Nat /\ s \in Nat /\ LatencyCap \in Nat BY <1>2, WarehouseAssumption
<1>6. WrappingSub(e, s) \in Nat /\ (e >= s => WrappingSub(e, s) = e - s) BY <1>2, Wraps
<1> QED BY <1>3, <1>4, <1>5, <1>6

LEMMA ComputeDone ==
  ASSUME StoredTimes, ComputeAndAnalyse, ~panicked, ~panicked'
  PROVE  Computed(item)
<1>1. CASE ComputeThroughputItem
  BY <1>1, CountThroughputDone DEF ComputeThroughputItem, Computed
<1>2. CASE ComputeLatencyItem
  BY <1>2, LatencyDone DEF ComputeLatencyItem, ComputeLatency, Computed
<1>3. CASE ComputeBothItem
  BY <1>3, LatencyDone, CountThroughputDone DEF ComputeBothItem, Computed
<1>4. CASE ComputeScalabilityItem
  BY <1>4, CountThroughputDone DEF ComputeScalabilityItem, Computed
<1>5. CASE ComputeCrashItem
  <2>1. Matched(sStart', sEnd') = {}
    BY <1>5 DEF ComputeCrashItem, TestCrash, Matched, ComputeAndAnalyse
  <2> QED BY <1>5, <2>1 DEF ComputeCrashItem, Computed
<1>6. CASE ComputeMaliciousItem
  <2>1. Matched(sStart', sEnd') = {} BY <1>6 DEF ComputeMaliciousItem, TestMalicious, Matched
  <2> QED BY <1>6, <2>1 DEF ComputeMaliciousItem, Computed
<1>7. ~PanicScalabilityItem BY DEF PanicScalabilityItem
<1> QED BY <1>1, <1>2, <1>3, <1>4, <1>5, <1>6, <1>7 DEF ComputeAndAnalyse

\* next_test ends an item only after one more compute_and_analyse: for any clocks and whatever came in
\* since the last tick, no completed request that has its start, and no latency that would be
\* believed, is left out of what is reported.
THEOREM CompletedIsComputedAlways == Spec => CompletedIsComputed
<1>1. Init => WarehouseInv BY WarehouseInvInit
<1>2. WarehouseInv /\ [Next]_vars => WarehouseInv' BY WarehouseInvStep
<1>3. WarehouseInv /\ [Next]_vars /\ item # NoItem /\ item' = NoItem => Computed(item)
  <2> SUFFICES ASSUME WarehouseInv, [Next]_vars, item # NoItem, item' = NoItem PROVE Computed(item)
    OBVIOUS
  <2>1. \A k \in Kind : \A c : [kind |-> k, count |-> c] # NoItem BY DEF Kind, NoItem
  <2>2. HandleCompleted
    BY <2>1 DEF Next, vars, ConsensusNodeMessageHandler, StoreStart, StoreEnd, HandleTestItem,
         RecordCrashNode, HandleStartTest, IntervalTick, IntervalStop, DurationOver, HandleInternal
  <2>3. ~panicked /\ ComputeAndAnalyse /\ ~panicked' BY <2>2 DEF HandleCompleted
  <2> QED BY <2>3, ComputeDone DEF WarehouseInv
<1>4. WarehouseInv /\ [Next]_vars =>
        [item # NoItem /\ item' = NoItem =>
          /\ item.kind \in {"Throughput", "ThroughputAndLatency", "Scalability"} =>
               Matched(tStart', tEnd') = {}
          /\ item.kind \in {"Crash", "Malicious"} => Matched(sStart', sEnd') = {}
          /\ item.kind \in {"Latency", "ThroughputAndLatency"} =>
               \A k \in Matched(DOMAIN lStart', DOMAIN lEnd') : lEnd'[k] < lStart'[k[2]]
                                    \/ lEnd'[k] - lStart'[k[2]] > LatencyCap]_vars
  BY <1>3 DEF Computed
<1> QED BY <1>1, <1>2, <1>4, PTL DEF Spec, CompletedIsComputed

-----------------------------------------------------------------------------
(* Latencies and counts of a scalability test.                              *)

ScalabilityRow == [item : Item, row : LatencyRows]

\* Items are numbered, and so are the rows they leave; a request that has a start for its latency
\* has one for its count.
CountShape ==
  /\ session \in Nat
  /\ item = NoItem \/ (item \in Item /\ item.count <= session)
  /\ tables.scalabilityLatency \in Seq(ScalabilityRow)
  /\ \A i \in 1..Len(tables.scalabilityLatency) : tables.scalabilityLatency[i].item.count <= session
  /\ mid \in [Peer -> Nat] /\ tEnd \subseteq Peer \X Request /\ DOMAIN lStart \subseteq tStart

\* The latencies of the current item for p, and its requests that are counted already and whose
\* latency may still be measured.
Measured(p) ==
  {i \in 1..Len(tables.scalabilityLatency) :
     tables.scalabilityLatency[i].item = item /\ tables.scalabilityLatency[i].row.peer = p}

Ahead(p) == {k \in DOMAIN lEnd \ tEnd : k[1] = p}

CountInv ==
  item.kind = "Scalability" /\ ~panicked =>
    \A p \in Peer : Cardinality(Measured(p)) + Cardinality(Ahead(p)) <= mid[p]

\* Sets of ends, and of positions, are finite.
LEMMA EndsFinite ==
  ASSUME NEW S \in SUBSET (Peer \X Request)
  PROVE  IsFiniteSet(S) /\ Cardinality(S) \in Nat
BY WarehouseAssumption, FS_Product, FS_Subset, FS_CardinalityType

LEMMA PositionsFinite ==
  ASSUME NEW T, NEW q \in Seq(T), NEW S \in SUBSET (1..Len(q))
  PROVE  IsFiniteSet(S) /\ Cardinality(S) \in Nat
<1>1. Len(q) \in Nat OBVIOUS
<1>2. IsFiniteSet(1..Len(q)) BY <1>1, FS_Interval
<1> QED BY <1>2, FS_Subset, FS_CardinalityType

LEMMA CountedTyped ==
  ASSUME mid \in [Peer -> Nat], NEW ends \in SUBSET (Peer \X Request)
  PROVE  /\ Counted(ends) \in [Peer -> Nat]
         /\ \A p \in Peer : Counted(ends)[p] = mid[p] + Cardinality({k \in ends : k[1] = p})
<1>1. ASSUME NEW p \in Peer PROVE Cardinality({k \in ends : k[1] = p}) \in Nat
  <2>1. {k \in ends : k[1] = p} \in SUBSET (Peer \X Request) OBVIOUS
  <2> QED BY <2>1, EndsFinite
<1> QED BY <1>1 DEF Counted

LEMMA ThroughputTyped ==
  ASSUME CountShape, CountThroughput
  PROVE  mid' \in [Peer -> Nat] /\ tEnd' \subseteq Peer \X Request /\ UNCHANGED tStart
<1>1. Matched(tStart, tEnd) \in SUBSET (Peer \X Request) BY DEF Matched, CountShape
<1>2. mid' = Counted(Matched(tStart, tEnd)) /\ tEnd' \subseteq tEnd /\ UNCHANGED tStart
  BY DEF CountThroughput
<1>3. mid \in [Peer -> Nat] /\ tEnd \subseteq Peer \X Request BY DEF CountShape
<1> QED BY <1>1, <1>2, <1>3, CountedTyped

\* The rows a scalability computation writes.
LEMMA MeasuredRows ==
  ASSUME StoredTimes, item \in Item, NEW M, M \subseteq Matched(DOMAIN lStart, DOMAIN lEnd)
  PROVE  IsFiniteSet(ScalabilityLatencyRows(M)) /\ ScalabilityLatencyRows(M) \subseteq ScalabilityRow
<1>1. M \in SUBSET (Peer \X Request) BY DEF Matched, StoredTimes
<1>2. IsFiniteSet(M) BY <1>1, EndsFinite
<1> DEFINE g == [k \in M |-> [item |-> item, row |-> LatencyRow(k, LatencyOf(k))]]
           R == ScalabilityLatencyRows(M)
<1>3. g \in [M -> R] BY DEF ScalabilityLatencyRows
<1>4. \A t \in R : \E k \in M : g[k] = t BY DEF ScalabilityLatencyRows
<1>5. g \in Surjection(M, R) BY <1>3, <1>4 DEF Surjection
<1>6. IsFiniteSet(R)
  <2> HIDE DEF g, R
  <2> QED BY <1>2, <1>5, FS_Surjection
<1>7. ASSUME NEW k \in M PROVE [item |-> item, row |-> LatencyRow(k, LatencyOf(k))] \in ScalabilityRow
  <2>1. k \in Peer \X Request /\ lEnd[k] \in Time /\ lStart[k[2]] \in Time
    BY DEF Matched, StoredTimes
  <2>2. LatencyOf(k) \in Nat BY <2>1, Wraps DEF LatencyOf
  <2>3. LatencyRow(k, LatencyOf(k)) \in LatencyRows BY <2>1, <2>2 DEF LatencyRow, LatencyRows
  <2> QED BY <2>3 DEF ScalabilityRow
<1> QED BY <1>6, <1>7 DEF ScalabilityLatencyRows

\* What a computation does to the scalability latencies.
ScalabilityTable ==
  \/ tables'.scalabilityLatency = tables.scalabilityLatency
  \/ \E M \in SUBSET Matched(DOMAIN lStart, DOMAIN lEnd) :
       /\ item.kind = "Scalability"
       /\ tables'.scalabilityLatency = tables.scalabilityLatency \o Rows(ScalabilityLatencyRows(M))

LEMMA ComputeTables ==
  ASSUME Shape, ComputeAndAnalyse
  PROVE  ScalabilityTable
<1>1. CASE ComputeThroughputItem BY <1>1 DEF ComputeThroughputItem, Shape, ScalabilityTable
<1>2. CASE ComputeLatencyItem BY <1>2 DEF ComputeLatencyItem, ComputeLatency, Shape, ScalabilityTable
<1>3. CASE ComputeBothItem BY <1>3 DEF ComputeBothItem, Shape, ScalabilityTable
<1>4. CASE ComputeScalabilityItem \/ PanicScalabilityItem
  <2>1. PICK rows \in SUBSET Matched(DOMAIN lStart, DOMAIN lEnd) :
          \/ tables' = [tables EXCEPT !.scalabilityLatency = @ \o Rows(ScalabilityLatencyRows(rows)),
                          !.scalabilityThroughput = @ \o Rows(ScalabilityThroughputRows(mid'))]
          \/ tables' = [tables EXCEPT !.scalabilityLatency = @ \o Rows(ScalabilityLatencyRows(rows))]
    BY <1>4 DEF ComputeScalabilityItem, PanicScalabilityItem, ScalabilityLatency
  <2>2. tables'.scalabilityLatency = tables.scalabilityLatency \o Rows(ScalabilityLatencyRows(rows))
    BY <2>1 DEF Shape
  <2>3. item.kind = "Scalability" BY <1>4 DEF ComputeScalabilityItem, PanicScalabilityItem
  <2> QED BY <2>2, <2>3 DEF ScalabilityTable
<1>5. CASE ComputeCrashItem \/ ComputeMaliciousItem
  BY <1>5 DEF ComputeCrashItem, ComputeMaliciousItem, ScalabilityTable
<1> QED BY <1>1, <1>2, <1>3, <1>4, <1>5 DEF ComputeAndAnalyse

LEMMA ComputeShape ==
  ASSUME StoredTimes, Shape, CountShape, ComputeAndAnalyse, UNCHANGED session, item' \in {item, NoItem}
  PROVE  CountShape'
<1> DEFINE old == tables.scalabilityLatency
<1>1. old \in Seq(ScalabilityRow) /\ Len(old) \in Nat BY DEF CountShape
<1>2. ScalabilityTable BY ComputeTables
<1>3. /\ tables'.scalabilityLatency \in Seq(ScalabilityRow)
      /\ \A i \in 1..Len(tables'.scalabilityLatency) : tables'.scalabilityLatency[i].item.count <= session
  <2>1. CASE tables'.scalabilityLatency = tables.scalabilityLatency BY <2>1 DEF CountShape
  <2>2. ASSUME NEW M \in SUBSET Matched(DOMAIN lStart, DOMAIN lEnd), item.kind = "Scalability",
               tables'.scalabilityLatency = old \o Rows(ScalabilityLatencyRows(M))
        PROVE  /\ tables'.scalabilityLatency \in Seq(ScalabilityRow)
               /\ \A i \in 1..Len(tables'.scalabilityLatency) : tables'.scalabilityLatency[i].item.count <= session
    <3>1. item \in Item /\ item.count <= session BY <2>2 DEF CountShape, NoItem
    <3> DEFINE R == ScalabilityLatencyRows(M)
    <3>2. \A t \in R : t.item = item BY DEF ScalabilityLatencyRows
    <3>3. IsFiniteSet(R) /\ R \in SUBSET ScalabilityRow BY <3>1, MeasuredRows
    <3> HIDE DEF R
    <3>4. /\ old \o Rows(R) \in Seq(ScalabilityRow)
          /\ \A i \in (Len(old) + 1)..Len(old \o Rows(R)) : (old \o Rows(R))[i] \in R
      BY <1>1, <3>3, RowsAppended
    <3>5. Rows(R) \in Seq(R) BY <3>3, RowsOfSet
    <3>6. Rows(R) \in Seq(ScalabilityRow) BY <3>3, <3>5
    <3>7. \A i \in 1..Len(old) : (old \o Rows(R))[i] = old[i] BY <1>1, <3>6
    <3>8. \A i \in 1..Len(old) : old[i].item.count <= session BY DEF CountShape
    <3>9. Len(old \o Rows(R)) \in Nat BY <3>4
    <3>10. \A i \in 1..Len(old \o Rows(R)) : (old \o Rows(R))[i].item.count <= session
      <4> SUFFICES ASSUME NEW i \in 1..Len(old \o Rows(R)) PROVE (old \o Rows(R))[i].item.count <= session
        OBVIOUS
      <4>1. CASE i \in 1..Len(old) BY <3>7, <3>8, <4>1
      <4>2. CASE i \in (Len(old) + 1)..Len(old \o Rows(R)) BY <3>1, <3>2, <3>4, <4>2
      <4>3. i \in 1..Len(old) \/ i \in (Len(old) + 1)..Len(old \o Rows(R)) BY <1>1, <3>9
      <4> QED BY <4>1, <4>2, <4>3
    <3>11. tables'.scalabilityLatency = old \o Rows(R) BY <2>2 DEF R
    <3> QED BY <3>4, <3>10, <3>11
  <2> QED BY <1>2, <2>1, <2>2 DEF ScalabilityTable
<1>4. mid' \in [Peer -> Nat] /\ tEnd' \subseteq Peer \X Request /\ UNCHANGED tStart
  <2>1. CountThroughput \/ UNCHANGED <<tStart, tEnd, mid>>
    BY DEF ComputeAndAnalyse, ComputeThroughputItem, ComputeLatencyItem, ComputeBothItem,
           ComputeScalabilityItem, PanicScalabilityItem, ComputeCrashItem, ComputeMaliciousItem
  <2> QED BY <2>1, ThroughputTyped DEF CountShape
<1>5. DOMAIN lStart' \subseteq DOMAIN lStart BY ComputeEffect DEF Forgets
<1>6. DOMAIN lStart' \subseteq tStart' BY <1>4, <1>5 DEF CountShape
<1>7. session' \in Nat /\ (item' = NoItem \/ (item' \in Item /\ item'.count <= session'))
  BY DEF CountShape
<1> QED BY <1>3, <1>4, <1>6, <1>7 DEF CountShape

\* What a step does that neither stores, resets nor computes.
KeepsCounts == UNCHANGED <<item, session, tables, mid, tStart, tEnd, lStart, lEnd>>

\* Every step is one of these.
LEMMA StepKinds ==
  ASSUME [Next]_vars
  PROVE  \/ \E r \in Request, t \in Time : StoreStart(r, t)
         \/ \E p \in Peer, r \in Request, t \in Time : StoreEnd(p, r, t)
         \/ \E k \in Kind : HandleTestItem([kind |-> k, count |-> session + 1])
         \/ ComputeAndAnalyse /\ UNCHANGED session /\ item' \in {item, NoItem} /\ (item' = item \/ ~panicked')
              /\ ~panicked
         \/ KeepsCounts /\ (panicked' = panicked \/ panicked')
<1>1. CASE HandleInternal BY <1>1 DEF HandleInternal, KeepsCounts
<1>2. CASE HandleCompleted BY <1>2 DEF HandleCompleted, KeepsCounts
<1>3. CASE \/ \E c : \E p \in Peer : RecordCrashNode(c, p)
           \/ HandleStartTest \/ IntervalTick \/ IntervalStop \/ DurationOver \/ UNCHANGED vars
  BY <1>3 DEF RecordCrashNode, HandleStartTest, IntervalTick, IntervalStop, DurationOver, vars, KeepsCounts
<1> QED BY <1>1, <1>2, <1>3 DEF Next, ConsensusNodeMessageHandler

LEMMA CountShapeStep == ASSUME WarehouseInv, CountShape, [Next]_vars PROVE CountShape'
<1>t. StoredTimes /\ Shape BY DEF WarehouseInv
<1>1. ASSUME NEW r \in Request, NEW t \in Time, StoreStart(r, t) PROVE CountShape'
  <2>1. lStart' = Put(lStart, r, t) /\ tStart' = tStart \cup {r}
        /\ UNCHANGED <<tables, mid, session, item, tEnd>>
    BY <1>1 DEF StoreStart
  <2>2. DOMAIN lStart' = DOMAIN lStart \cup {r} BY <2>1 DEF Put
  <2>3. DOMAIN lStart' \subseteq tStart' BY <2>1, <2>2 DEF CountShape
  <2> QED BY <2>1, <2>3 DEF CountShape
<1>2. ASSUME NEW p \in Peer, NEW r \in Request, NEW t \in Time, StoreEnd(p, r, t) PROVE CountShape'
  <2>1. tEnd' = tEnd \cup {<<p, r>>} /\ UNCHANGED <<tables, mid, session, item, tStart, lStart>>
    BY <1>2 DEF StoreEnd
  <2> QED BY <2>1 DEF CountShape
<1>3. ASSUME NEW k \in Kind, HandleTestItem([kind |-> k, count |-> session + 1]) PROVE CountShape'
  <2>1. session \in Nat BY DEF CountShape
  <2>2. session' = session + 1 /\ item' = [kind |-> k, count |-> session + 1]
    BY <1>3 DEF HandleTestItem
  <2>3. session' \in Nat /\ item' \in Item /\ item'.count <= session' BY <2>1, <2>2 DEF Item
  <2>4. tables'.scalabilityLatency = tables.scalabilityLatency
    BY <1>3, <1>t DEF HandleTestItem, Shape
  <2>5. \A i \in 1..Len(tables.scalabilityLatency) : tables.scalabilityLatency[i].item.count <= session + 1
    <3> SUFFICES ASSUME NEW i \in 1..Len(tables.scalabilityLatency)
                 PROVE  tables.scalabilityLatency[i].item.count <= session + 1
      OBVIOUS
    <3>1. tables.scalabilityLatency[i] \in ScalabilityRow /\ tables.scalabilityLatency[i].item.count <= session
      BY DEF CountShape
    <3>2. tables.scalabilityLatency[i].item.count \in Nat BY <3>1 DEF ScalabilityRow, Item
    <3> QED BY <2>1, <3>1, <3>2
  <2>6. mid' \in [Peer -> Nat] /\ tEnd' = {} /\ lStart' = NoData BY <1>3 DEF HandleTestItem, Reset
  <2>7. DOMAIN lStart' = {} BY <2>6 DEF NoData
  <2>8. tables'.scalabilityLatency \in Seq(ScalabilityRow)
        /\ \A i \in 1..Len(tables'.scalabilityLatency) : tables'.scalabilityLatency[i].item.count <= session'
    BY <2>2, <2>4, <2>5 DEF CountShape
  <2> QED BY <2>3, <2>6, <2>7, <2>8 DEF CountShape
<1>4. ASSUME ComputeAndAnalyse, UNCHANGED session, item' \in {item, NoItem} PROVE CountShape'
  BY <1>4, <1>t, ComputeShape
<1>5. ASSUME KeepsCounts PROVE CountShape' BY <1>5 DEF CountShape, KeepsCounts
<1> QED BY <1>1, <1>2, <1>3, <1>4, <1>5, StepKinds

LEMMA CountShapeInit == ASSUME Init PROVE CountShape
<1>1. DOMAIN NoData = {} BY DEF NoData
<1>2. <<>> \in Seq(ScalabilityRow) /\ Len(<<>>) = 0 OBVIOUS
<1>3. tables.scalabilityLatency = <<>> BY DEF Init
<1>4. \A i \in 1..Len(tables.scalabilityLatency) : FALSE BY <1>2, <1>3
<1>5. /\ session = 0 /\ item = NoItem /\ lStart = NoData /\ tEnd = {}
      /\ mid \in [Peer -> Nat]
  BY DEF Init
<1> QED BY <1>1, <1>2, <1>3, <1>4, <1>5 DEF CountShape

\* Both sets of CountInv are finite.
LEMMA CountsTyped ==
  ASSUME WarehouseInv, CountShape, NEW p \in Peer
  PROVE  /\ IsFiniteSet(Measured(p)) /\ Cardinality(Measured(p)) \in Nat
         /\ IsFiniteSet(Ahead(p)) /\ Cardinality(Ahead(p)) \in Nat
<1>1. Measured(p) \in SUBSET (1..Len(tables.scalabilityLatency)) BY DEF Measured
<1>2. Ahead(p) \in SUBSET (Peer \X Request) BY DEF Ahead, WarehouseInv, StoredTimes
<1>3. tables.scalabilityLatency \in Seq(ScalabilityRow) BY DEF CountShape
<1> QED BY <1>1, <1>2, <1>3, EndsFinite, PositionsFinite

\* A computation measures at most one latency for each end it takes.
LEMMA NewlyMeasured ==
  ASSUME WarehouseInv, CountShape, item.kind = "Scalability", NEW p \in Peer,
         NEW M \in SUBSET Matched(DOMAIN lStart, DOMAIN lEnd),
         NEW new, new = tables.scalabilityLatency \o Rows(ScalabilityLatencyRows(M))
  PROVE  LET measured == {i \in 1..Len(new) : new[i].item = item /\ new[i].row.peer = p}
         IN  /\ IsFiniteSet(measured) /\ Cardinality(measured) \in Nat
             /\ Cardinality(measured) <= Cardinality(Measured(p)) + Cardinality({k \in M : k[1] = p})
<1> DEFINE old == tables.scalabilityLatency
           R == ScalabilityLatencyRows(M)
           J == {i \in (Len(old) + 1)..Len(new) : new[i].item = item /\ new[i].row.peer = p}
           Mp == {k \in M : k[1] = p}
           measured == {i \in 1..Len(new) : new[i].item = item /\ new[i].row.peer = p}
<1>1. old \in Seq(ScalabilityRow) /\ Len(old) \in Nat BY DEF CountShape
<1>2. item \in Item BY DEF CountShape, NoItem
<1>3. IsFiniteSet(R) /\ R \in SUBSET ScalabilityRow BY <1>2, MeasuredRows DEF WarehouseInv
<1>4. \A t \in R : \E k \in M : t = [item |-> item, row |-> LatencyRow(k, LatencyOf(k))]
  BY DEF ScalabilityLatencyRows
<1>5. Mp \in SUBSET (Peer \X Request) BY DEF Matched, WarehouseInv, StoredTimes
<1>6. IsFiniteSet(Mp) /\ Cardinality(Mp) \in Nat BY <1>5, EndsFinite
<1>7. new = old \o Rows(R) OBVIOUS
<1> HIDE DEF R
<1>8. /\ Rows(R) \in Seq(R) /\ Len(Rows(R)) = Cardinality(R) /\ Cardinality(R) \in Nat
      /\ \A i, j \in 1..Cardinality(R) : Rows(R)[i] = Rows(R)[j] => i = j
  BY <1>3, RowsOfSet
<1> DEFINE rows == Rows(R)
<1> HIDE DEF rows
<1>9. /\ rows \in Seq(R) /\ rows \in Seq(ScalabilityRow) /\ Len(rows) \in Nat
      /\ \A i, j \in 1..Len(rows) : rows[i] = rows[j] => i = j
  BY <1>3, <1>8 DEF rows
<1>10. new = old \o rows /\ new \in Seq(ScalabilityRow) /\ Len(new) = Len(old) + Len(rows)
  <2>1. new = old \o rows BY <1>7 DEF rows
  <2> QED BY <1>1, <1>9, <2>1
<1>11. \A i \in 1..Len(old) : new[i] = old[i] BY <1>1, <1>9, <1>10
<1>12. \A i \in (Len(old) + 1)..Len(new) : new[i] = rows[i - Len(old)] /\ i - Len(old) \in 1..Len(rows)
  BY <1>1, <1>9, <1>10
<1>13. \A i \in (Len(old) + 1)..Len(new) : new[i] \in R
  <2> SUFFICES ASSUME NEW i \in (Len(old) + 1)..Len(new) PROVE new[i] \in R OBVIOUS
  <2>1. new[i] = rows[i - Len(old)] /\ i - Len(old) \in 1..Len(rows) BY <1>12
  <2> QED BY <1>9, <2>1
<1>14. measured = Measured(p) \cup J
  <2>1. \A i \in 1..Len(new) : i \in 1..Len(old) \/ i \in (Len(old) + 1)..Len(new) BY <1>1, <1>10
  <2>2. \A i \in 1..Len(old) : i \in 1..Len(new) BY <1>1, <1>9, <1>10
  <2>3. \A i \in (Len(old) + 1)..Len(new) : i \in 1..Len(new) BY <1>1, <1>10
  <2> QED BY <1>11, <2>1, <2>2, <2>3 DEF Measured
<1> DEFINE key == [i \in J |-> <<new[i].row.peer, new[i].row.request>>]
<1>15. \A i \in J : key[i] \in Mp /\ new[i] = [item |-> item, row |-> LatencyRow(key[i], LatencyOf(key[i]))]
  <2> SUFFICES ASSUME NEW i \in J
               PROVE  key[i] \in Mp /\ new[i] = [item |-> item, row |-> LatencyRow(key[i], LatencyOf(key[i]))]
    OBVIOUS
  <2>1. new[i] \in R /\ new[i].row.peer = p BY <1>13
  <2>2. PICK k \in M : new[i] = [item |-> item, row |-> LatencyRow(k, LatencyOf(k))] BY <1>4, <2>1
  <2>3. k \in Peer \X Request BY DEF Matched, WarehouseInv, StoredTimes
  <2>4. new[i].row.peer = k[1] /\ new[i].row.request = k[2] BY <2>2 DEF LatencyRow
  <2>5. key[i] = k BY <2>3, <2>4
  <2>6. k \in Mp BY <2>1, <2>4
  <2> QED BY <2>2, <2>5, <2>6
<1>16. \A i, j \in J : key[i] = key[j] => i = j
  <2> SUFFICES ASSUME NEW i \in J, NEW j \in J, key[i] = key[j] PROVE i = j OBVIOUS
  <2>1. new[i] = new[j]
    <3> HIDE DEF key, J, Mp
    <3> QED BY <1>15
  <2>2. i \in (Len(old) + 1)..Len(new) /\ j \in (Len(old) + 1)..Len(new) OBVIOUS
  <2>3. /\ new[i] = rows[i - Len(old)] /\ i - Len(old) \in 1..Len(rows)
        /\ new[j] = rows[j - Len(old)] /\ j - Len(old) \in 1..Len(rows)
    BY <1>12, <2>2
  <2>4. i - Len(old) = j - Len(old) BY <1>9, <2>1, <2>3
  <2> HIDE DEF key, J, Mp, old
  <2>5. Len(old) \in Int BY <1>1
  <2>6. i \in Int /\ j \in Int
    <3>1. \A x, y : x \in Nat => \A z \in (x + 1)..y : z \in Int OBVIOUS
    <3> QED BY <1>1, <2>2, <3>1
  <2> QED BY <2>4, <2>5, <2>6
<1>17. key \in Injection(J, Mp)
  <2>1. key \in [J -> Mp]
    <3>1. DOMAIN key = J /\ key = [i \in J |-> key[i]] OBVIOUS
    <3> HIDE DEF key, J, Mp
    <3> QED BY <1>15, <3>1
  <2> HIDE DEF key, J, Mp
  <2> QED BY <1>16, <2>1 DEF Injection, IsInjective
<1>18. IsFiniteSet(J) /\ Cardinality(J) <= Cardinality(Mp) /\ Cardinality(J) \in Nat
  <2> HIDE DEF key, J, Mp
  <2> QED BY <1>6, <1>17, FS_Injection, FS_CardinalityType
<1>19. IsFiniteSet(Measured(p)) /\ Cardinality(Measured(p)) \in Nat BY CountsTyped
<1>20. /\ IsFiniteSet(measured) /\ Cardinality(measured) \in Nat
       /\ Cardinality(measured) <= Cardinality(Measured(p)) + Cardinality(Mp)
  <2> HIDE DEF measured, J, Mp
  <2>1. IsFiniteSet(Measured(p) \cap J) /\ Cardinality(Measured(p) \cap J) \in Nat
    BY <1>19, FS_Subset, FS_CardinalityType
  <2>2. /\ IsFiniteSet(Measured(p) \cup J)
        /\ Cardinality(Measured(p) \cup J) =
             Cardinality(Measured(p)) + Cardinality(J) - Cardinality(Measured(p) \cap J)
    BY <1>18, <1>19, FS_Union
  <2>3. Cardinality(Measured(p) \cup J) \in Nat BY <2>2, FS_CardinalityType
  <2> QED BY <1>6, <1>14, <1>18, <1>19, <2>1, <2>2, <2>3
<1> QED BY <1>20

\* Of what was measured or counted before, a computation of the item counts at least as much as it
\* measures.
LEMMA ComputeCounts ==
  ASSUME WarehouseInv, CountShape, CountInv, ComputeScalabilityItem, ~panicked, UNCHANGED item,
         NEW p \in Peer
  PROVE  Cardinality(Measured(p)') + Cardinality(Ahead(p)') <= mid'[p]
<1> DEFINE ml == Matched(DOMAIN lStart, DOMAIN lEnd)
           mt == Matched(tStart, tEnd)
           mlp == {k \in ml : k[1] = p}
           mtp == {k \in mt : k[1] = p}
<1>1. item.kind = "Scalability" BY DEF ComputeScalabilityItem
<1>2. /\ lEnd' = Drop(lEnd, ml) /\ CountThroughput
      /\ tables'.scalabilityLatency = tables.scalabilityLatency \o Rows(ScalabilityLatencyRows(ml))
  BY DEF ComputeScalabilityItem, ScalabilityLatency, WarehouseInv, Shape
<1>3. /\ Cardinality(Measured(p)') \in Nat
      /\ Cardinality(Measured(p)') <= Cardinality(Measured(p)) + Cardinality(mlp)
  <2>1. PICK new : new = tables'.scalabilityLatency OBVIOUS
  <2>2. Measured(p)' = {i \in 1..Len(new) : new[i].item = item /\ new[i].row.peer = p}
    BY <2>1 DEF Measured
  <2>3. new = tables.scalabilityLatency \o Rows(ScalabilityLatencyRows(ml)) BY <1>2, <2>1
  <2>4. ml \in SUBSET Matched(DOMAIN lStart, DOMAIN lEnd) OBVIOUS
  <2> HIDE DEF ml
  <2>5. PICK measured : measured = {i \in 1..Len(new) : new[i].item = item /\ new[i].row.peer = p} OBVIOUS
  <2>6. Cardinality(measured) \in Nat
        /\ Cardinality(measured) <= Cardinality(Measured(p)) + Cardinality({k \in ml : k[1] = p})
    BY <1>1, <2>3, <2>4, <2>5, NewlyMeasured
  <2> QED BY <2>2, <2>5, <2>6
<1>4. mid' = Counted(mt) /\ tEnd' = tEnd \ mt BY <1>2 DEF CountThroughput
<1>5. mt \in SUBSET (Peer \X Request) BY DEF Matched, CountShape
<1>6. mid'[p] = mid[p] + Cardinality(mtp) /\ mid[p] \in Nat
  <2>1. mid \in [Peer -> Nat] BY DEF CountShape
  <2> HIDE DEF mt
  <2> QED BY <1>4, <1>5, <2>1, CountedTyped
<1>7. DOMAIN lEnd' = DOMAIN lEnd \ ml BY <1>2 DEF Drop
<1>8. PICK ahead : ahead = Ahead(p)' OBVIOUS
<1>9. ahead = {k \in (DOMAIN lEnd \ ml) \ (tEnd \ mt) : k[1] = p} BY <1>4, <1>7, <1>8 DEF Ahead
<1>10. mlp \cap ahead = {} BY <1>9
<1>11. mlp \cup ahead \subseteq Ahead(p) \cup mtp
  BY <1>9 DEF Ahead, Matched, CountShape
<1>12. /\ mlp \in SUBSET (Peer \X Request) /\ ahead \in SUBSET (Peer \X Request)
       /\ mtp \in SUBSET (Peer \X Request) /\ Ahead(p) \in SUBSET (Peer \X Request)
  BY <1>5, <1>9 DEF Ahead, Matched, WarehouseInv, StoredTimes
<1> HIDE DEF ml, mt, mlp, mtp
<1>13. /\ IsFiniteSet(mlp) /\ IsFiniteSet(ahead) /\ IsFiniteSet(mtp) /\ IsFiniteSet(Ahead(p))
       /\ Cardinality(mlp) \in Nat /\ Cardinality(ahead) \in Nat /\ Cardinality(mtp) \in Nat
       /\ Cardinality(Ahead(p)) \in Nat
  BY <1>12, EndsFinite
<1>14. Cardinality(mlp \cup ahead) = Cardinality(mlp) + Cardinality(ahead)
  <2>1. Cardinality(mlp \cup ahead) = Cardinality(mlp) + Cardinality(ahead) - Cardinality(mlp \cap ahead)
    BY <1>13, FS_Union
  <2>2. Cardinality(mlp \cap ahead) = 0 BY <1>10, FS_EmptySet
  <2> QED BY <1>13, <2>1, <2>2
<1>15. /\ IsFiniteSet(Ahead(p) \cup mtp) /\ Cardinality(Ahead(p) \cup mtp) \in Nat
       /\ Cardinality(Ahead(p) \cup mtp) <= Cardinality(Ahead(p)) + Cardinality(mtp)
  <2>1. IsFiniteSet(Ahead(p) \cup mtp)
        /\ Cardinality(Ahead(p) \cup mtp) = Cardinality(Ahead(p)) + Cardinality(mtp) - Cardinality(Ahead(p) \cap mtp)
    BY <1>13, FS_Union
  <2>2. Cardinality(Ahead(p) \cap mtp) \in Nat BY <1>13, FS_Subset, FS_CardinalityType
  <2>3. Cardinality(Ahead(p) \cup mtp) \in Nat BY <2>1, FS_CardinalityType
  <2> QED BY <1>13, <2>1, <2>2, <2>3
<1>16. Cardinality(mlp \cup ahead) <= Cardinality(Ahead(p) \cup mtp)
  <2>1. mlp \cup ahead \in SUBSET (Ahead(p) \cup mtp) BY <1>11
  <2> QED BY <1>15, <2>1, FS_Subset
<1>17. Cardinality(Measured(p)) + Cardinality(Ahead(p)) <= mid[p] BY <1>1 DEF CountInv
<1>18. Cardinality(Measured(p)) \in Nat BY CountsTyped
<1>19. Cardinality(Measured(p)') + Cardinality(ahead) <= mid'[p]
  BY <1>3, <1>6, <1>13, <1>14, <1>15, <1>16, <1>17, <1>18
<1> QED BY <1>8, <1>19

LEMMA CountInvStep == ASSUME WarehouseInv, CountShape, CountInv, [Next]_vars PROVE CountInv'
<1>t. StoredTimes /\ Shape BY DEF WarehouseInv
<1>s. CountShape' /\ WarehouseInv' BY CountShapeStep, WarehouseInvStep
<1>1. ASSUME NEW r \in Request, NEW t \in Time, StoreStart(r, t) PROVE CountInv'
  <2>1. UNCHANGED <<item, panicked, tables, lEnd, tEnd, mid>> BY <1>1 DEF StoreStart
  <2> QED BY <2>1 DEF CountInv, Measured, Ahead
<1>2. ASSUME NEW p \in Peer, NEW r \in Request, NEW t \in Time, StoreEnd(p, r, t) PROVE CountInv'
  <2>1. /\ lEnd' = Put(lEnd, <<p, r>>, t) /\ tEnd' = tEnd \cup {<<p, r>>}
        /\ UNCHANGED <<item, panicked, tables, mid>>
    BY <1>2 DEF StoreEnd
  <2>2. DOMAIN lEnd' = DOMAIN lEnd \cup {<<p, r>>} BY <2>1 DEF Put
  <2> SUFFICES ASSUME item.kind = "Scalability", ~panicked, NEW q \in Peer
               PROVE  Cardinality(Measured(q)') + Cardinality(Ahead(q)') <= mid'[q]
    BY <2>1 DEF CountInv
  <2>3. Ahead(q)' \in SUBSET Ahead(q) BY <2>1, <2>2 DEF Ahead
  <2>4. Measured(q)' = Measured(q) BY <2>1 DEF Measured
  <2>5. IsFiniteSet(Ahead(q)) /\ Cardinality(Ahead(q)) \in Nat /\ Cardinality(Measured(q)) \in Nat
    BY CountsTyped
  <2>6. PICK ahead : ahead = Ahead(q)' OBVIOUS
  <2>7. Cardinality(ahead) <= Cardinality(Ahead(q)) /\ Cardinality(ahead) \in Nat
    BY <2>3, <2>5, <2>6, FS_Subset, FS_CardinalityType
  <2>8. mid'[q] = mid[q] /\ mid[q] \in Nat BY <2>1 DEF CountShape
  <2>9. Cardinality(Measured(q)) + Cardinality(Ahead(q)) <= mid[q] BY DEF CountInv
  <2>10. Cardinality(Measured(q)) + Cardinality(ahead) <= mid[q] BY <2>5, <2>7, <2>8, <2>9
  <2> QED BY <2>4, <2>6, <2>8, <2>10
<1>3. ASSUME NEW k \in Kind, HandleTestItem([kind |-> k, count |-> session + 1]) PROVE CountInv'
  <2> SUFFICES ASSUME NEW q \in Peer PROVE Cardinality(Measured(q)') + Cardinality(Ahead(q)') <= mid'[q]
    BY DEF CountInv
  <2>1. item'.count = session + 1 /\ mid'[q] = 0 /\ lEnd' = NoData
    BY <1>3 DEF HandleTestItem, Reset
  <2>2. tables'.scalabilityLatency = tables.scalabilityLatency
    BY <1>3, <1>t DEF HandleTestItem, Shape
  <2>3. Ahead(q)' = {} BY <2>1 DEF Ahead, NoData
  <2>4. \A i \in 1..Len(tables.scalabilityLatency) : tables.scalabilityLatency[i].item # item'
    <3> SUFFICES ASSUME NEW i \in 1..Len(tables.scalabilityLatency), tables.scalabilityLatency[i].item = item'
                 PROVE  FALSE
      OBVIOUS
    <3>1. session \in Nat /\ tables.scalabilityLatency[i].item.count <= session BY DEF CountShape
    <3> QED BY <2>1, <3>1
  <2>5. Measured(q)' = {} BY <2>2, <2>4 DEF Measured
  <2>6. Cardinality({}) = 0 BY FS_EmptySet
  <2> QED BY <2>1, <2>3, <2>5, <2>6
<1>4. ASSUME ComputeAndAnalyse, item' \in {item, NoItem}, item' = item \/ ~panicked', ~panicked
      PROVE  CountInv'
  <2> SUFFICES ASSUME item'.kind = "Scalability", ~panicked', NEW q \in Peer
               PROVE  Cardinality(Measured(q)') + Cardinality(Ahead(q)') <= mid'[q]
    BY DEF CountInv
  <2>1. item' = item /\ item.kind = "Scalability" BY <1>4 DEF NoItem
  <2>2. ComputeScalabilityItem
    BY <1>4, <2>1 DEF ComputeAndAnalyse, ComputeThroughputItem, ComputeLatencyItem, ComputeBothItem,
       PanicScalabilityItem, ComputeCrashItem, ComputeMaliciousItem
  <2> QED BY <1>4, <2>1, <2>2, ComputeCounts
<1>5. ASSUME KeepsCounts, panicked' = panicked \/ panicked' PROVE CountInv'
  BY <1>5 DEF CountInv, KeepsCounts, Measured, Ahead
<1> QED BY <1>1, <1>2, <1>3, <1>4, <1>5, StepKinds

\* compute_scalability keeps the ends of the latencies and of the throughput apart, and drops the
\* starts of one of them.  For any nodes, requests and clocks, and however data and ticks interleave,
\* it has counted every request it measured a latency of.
THEOREM LatencyIsCountedAlways == Spec => []LatencyIsCounted
<1>1. Init => WarehouseInv /\ CountShape /\ CountInv
  <2>1. Init => item.kind # "Scalability" BY DEF Init, NoItem
  <2> QED BY <2>1, WarehouseInvInit, CountShapeInit DEF CountInv
<1>2. WarehouseInv /\ CountShape /\ CountInv /\ [Next]_vars => (WarehouseInv /\ CountShape /\ CountInv)'
  BY WarehouseInvStep, CountShapeStep, CountInvStep
<1>3. WarehouseInv /\ CountShape /\ CountInv => LatencyIsCounted
  <2> SUFFICES ASSUME WarehouseInv, CountShape, CountInv, item.kind = "Scalability", ~panicked, NEW p \in Peer
               PROVE  Cardinality({i \in DOMAIN tables.scalabilityLatency :
                         /\ tables.scalabilityLatency[i].item = item
                         /\ tables.scalabilityLatency[i].row.peer = p}) <= mid[p]
    BY DEF LatencyIsCounted
  <2>1. DOMAIN tables.scalabilityLatency = 1..Len(tables.scalabilityLatency) BY DEF CountShape
  <2>2. Cardinality(Measured(p)) \in Nat /\ Cardinality(Ahead(p)) \in Nat BY CountsTyped
  <2>3. mid[p] \in Nat BY DEF CountShape
  <2>4. Cardinality(Measured(p)) + Cardinality(Ahead(p)) <= mid[p] BY DEF CountInv
  <2>5. Cardinality(Measured(p)) <= mid[p] BY <2>2, <2>3, <2>4
  <2> QED BY <2>1, <2>5 DEF Measured
<1> QED BY <1>1, <1>2, <1>3, PTL DEF Spec

=============================================================================
