------------------------------ MODULE MetricSummary ------------------------------
(***************************************************************************)
(* PerformanceMetricService.getSummary for one operation type.  Durations  *)
(* are in tenths of a millisecond, and come as a bag.  The percentiles     *)
(* come from a histogram of hdr-histogram-js with three significant        *)
(* digits, which counts whole milliseconds in buckets that are the wider   *)
(* the greater the value: it tells 2048 values apart in each width, and    *)
(* answers with the greatest value of a bucket.  The average, a sum of     *)
(* floating-point numbers, is left out.                                    *)
(***************************************************************************)
EXTENDS Integers, Bags, FiniteSetsExt

Count(bag) == SumFunction(bag)
\* Mutant of Least: of the durations sorted the other way.
LastOf(durations) == Max(BagToSet(durations))
Least(durations) == Min(BagToSet(durations))
Greatest(durations) == Max(BagToSet(durations))

\* Math.round of what a duration is in milliseconds.
Rounded(d) == (d + 5) \div 10

\* Bound: the widths of the buckets up to 35 minutes, the powers of two that
\* integers of 32 bits can hold the values of.
Widths == {1, 2, 4, 8, 16, 32, 64, 128, 256, 512, 1024}
SubBuckets == 2048
Trackable(ms) == \E w \in Widths : ms < SubBuckets * w

\* The width of the bucket that counts ms: 1, or such that ms is in the upper
\* half of the values this width can tell apart.
Width(ms) == CHOOSE w \in Widths : ms < SubBuckets * w /\ (w = 1 \/ SubBuckets * w <= 2 * ms)

\* The greatest value in the bucket that counts ms.
HighestEquivalent(ms) == (ms \div Width(ms)) * Width(ms) + Width(ms) - 1

\* recordValue: what the histogram keeps of a duration.
Recorded(d) == HighestEquivalent(Rounded(d))

\* How many were counted in the buckets up to that of ms.
AtMost(durations, ms) ==
    SumFunctionOnSet(durations, {d \in BagToSet(durations) : Recorded(d) <= ms})

\* histogram.getValueAtPercentile(percent)
ValueAtPercentile(durations, percent) ==
    LET wanted == Max({1, (percent * Count(durations) + 50) \div 100})
    IN  Min({ms \in {Recorded(d) : d \in BagToSet(durations)} : AtMost(durations, ms) >= wanted})

Summary(durations) ==
    [count |-> Count(durations), min |-> Least(durations), max |-> Greatest(durations),
     p50 |-> ValueAtPercentile(durations, 50),
     p95 |-> ValueAtPercentile(durations, 95),
     p99 |-> ValueAtPercentile(durations, 99)]
=============================================================================
