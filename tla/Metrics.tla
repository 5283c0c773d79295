------------------------------ MODULE Metrics ------------------------------
(***************************************************************************)
(* MetricsRegistry and its LatencyHistogram (python/cudaforge/metrics.py): *)
(* threads record completions, one reads snapshots, one resets.  The       *)
(* counters have one lock and each histogram its own, so that what takes   *)
(* both is two steps.                                                      *)
(***************************************************************************)
EXTENDS Integers, Sequences, SequencesExt, FiniteSets, FiniteSetsExt, Filtering

CONSTANTS
    Recorders,      \* threads that record completions
    Latencies,      \* values they record
    Window,         \* capacity of the histogram
    MaxRecordings,  \* bound on the completions recorded
    MaxResets       \* bound on the calls of reset

ASSUME MetricsAssumption ==
    /\ IsFiniteSet(Recorders) /\ Latencies \subseteq Nat \ {0}
    /\ Window \in Nat \ {0} /\ MaxRecordings \in Nat /\ MaxResets \in Nat

VARIABLES
    samples,     \* _samples: the window in ascending order
    order,       \* _order: the window in the order of arrival
    recorded,    \* history: every value recorded since the histogram was cleared
    completed,   \* _completed
    recorder,    \* where each recorder is in record_completion
    reading,     \* snapshot: completed, the percentiles read so far, and their number
    resetting,   \* where reset is
    resets       \* the calls of reset so far

metricsVars == <<samples, order, recorded, completed, recorder, reading, resetting, resets>>

NoReading == [at |-> 0, completed |-> 0, values |-> <<>>]

MetricsInit ==
    /\ samples = <<>> /\ order = <<>> /\ recorded = <<>> /\ completed = 0
    /\ recorder = [t \in Recorders |-> "idle"]
    /\ reading = NoReading /\ resetting = FALSE /\ resets = 0

-----------------------------------------------------------------------------
(* LatencyHistogram.                                                       *)

\* bisect.insort: to the right of equal values.
Insort(s, v) == InsertAt(s, Cardinality({i \in DOMAIN s : s[i] <= v}) + 1, v)

\* bisect_left finds the first of equal values.
Evicted(s, v) ==
    LET index == Cardinality({i \in DOMAIN s : s[i] < v}) + 1
    IN  IF index <= Len(s) /\ s[index] = v THEN RemoveAt(s, index) ELSE s

\* Mutation: the smallest sample makes room.
WindowWithoutSmallest == Tail(samples)

WindowWithoutOldest == Evicted(samples, Head(order))

\* quantile in percent; int() truncates.
Percentile(s, quantile) ==
    IF s = <<>> THEN 0 ELSE s[(quantile * (Len(s) - 1)) \div 100 + 1]

-----------------------------------------------------------------------------
(* record_completion: first the histogram, then the counters.              *)

RecordLatency(t, v) ==
    /\ recorder[t] = "idle" /\ Len(recorded) < MaxRecordings /\ completed < MaxRecordings
    /\ LET full == Len(samples) >= Window
       IN  /\ samples' = Insort(IF full THEN WindowWithoutOldest ELSE samples, v)
           /\ order' = Append(IF full THEN Tail(order) ELSE order, v)
    /\ recorded' = Append(recorded, v)
    /\ recorder' = [recorder EXCEPT ![t] = "count"]
    /\ UNCHANGED <<completed, reading, resetting, resets>>

RecordCount(t) ==
    /\ recorder[t] = "count"
    /\ completed' = completed + 1
    /\ recorder' = [recorder EXCEPT ![t] = "idle"]
    /\ UNCHANGED <<samples, order, recorded, reading, resetting, resets>>

-----------------------------------------------------------------------------
(* snapshot: the counters under their lock, then p50, p95, p99 and the     *)
(* maximum, each under the histogram's lock.                               *)

Quantiles == <<50, 95, 99, 100>>

ReadCounters ==
    /\ reading.at = 0
    /\ reading' = [at |-> 1, completed |-> completed, values |-> <<>>]
    /\ UNCHANGED <<samples, order, recorded, completed, recorder, resetting, resets>>

ReadPercentile ==
    /\ reading.at \in DOMAIN Quantiles
    /\ reading' = [reading EXCEPT !.at = @ + 1,
                                  !.values = Append(@, Percentile(samples, Quantiles[reading.at]))]
    /\ UNCHANGED <<samples, order, recorded, completed, recorder, resetting, resets>>

\* The snapshot is handed out.
SnapshotDone ==
    /\ reading.at > Len(Quantiles)
    /\ reading' = NoReading
    /\ UNCHANGED <<samples, order, recorded, completed, recorder, resetting, resets>>

\* reset: the counters, then the histogram.
ResetCounters ==
    /\ ~resetting /\ resets < MaxResets
    /\ completed' = 0 /\ resetting' = TRUE /\ resets' = resets + 1
    /\ UNCHANGED <<samples, order, recorded, recorder, reading>>

ResetHistogram ==
    /\ resetting
    /\ samples' = <<>> /\ order' = <<>> /\ recorded' = <<>> /\ resetting' = FALSE
    /\ UNCHANGED <<completed, recorder, reading, resets>>

MetricsNext ==
    \/ \E t \in Recorders : RecordCount(t) \/ \E v \in Latencies : RecordLatency(t, v)
    \/ ReadCounters \/ ReadPercentile \/ SnapshotDone
    \/ ResetCounters \/ ResetHistogram

MetricsSpec == MetricsInit /\ [][MetricsNext]_metricsVars

-----------------------------------------------------------------------------
(* Properties.                                                             *)

Ascending(s) == \A i, j \in 1 .. Len(s) : i <= j => s[i] <= s[j]
SameValues(s, r) == Len(s) = Len(r) /\ \A v \in Latencies : Len(Keep(s, {v})) = Len(Keep(r, {v}))

\* The histogram's two views of its window agree: the samples are the last values recorded,
\* sorted, whatever was evicted among equal ones and whenever a reset came in between.
WindowIsRecent ==
    /\ order = SubSeq(recorded, Max({1, Len(recorded) - Window + 1}), Len(recorded))
    /\ Ascending(samples) /\ SameValues(samples, order)

\* A snapshot that counts a completion shows latencies for it, and what is counted was
\* recorded, although neither takes the two locks together; a reset voids that.
CountedWasRecorded ==
    resets = 0 => /\ completed <= Len(recorded)
                  /\ reading.completed > 0 => \A i \in DOMAIN reading.values : reading.values[i] > 0

MetricsConsistent == WindowIsRecent /\ CountedWasRecorded

=============================================================================
