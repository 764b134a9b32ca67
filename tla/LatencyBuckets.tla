---------------------------- MODULE LatencyBuckets ----------------------------
(***************************************************************************)
(* The latency buckets of a bio (bpf/iolatency_tracing.c): the arithmetic  *)
(* on kernel time stamps, some of them packed into fewer bits, that picks  *)
(* a bucket, and the cumulative buckets that the collector exports.        *)
(*                                                                         *)
(* A bio is queued, gets a request, is issued, perhaps more than once, and *)
(* completes.  A plugged or merged request may have been got and issued    *)
(* before the bio was queued.                                              *)
(***************************************************************************)
EXTENDS Integers, FiniteSets

CONSTANTS
    Half,          \* half the range of the machine word: 2^63
    StampMod,      \* range of a packed time stamp: 2^51
    Thresholds,    \* upper bounds of the buckets but the last, in order
    N,             \* their number
    MaxTime        \* bound on the clock

Word == 2 * Half
Words == 0..(Word - 1)

ASSUME BucketConstants ==
    /\ Half \in Nat \ {0} /\ N \in Nat \ {0}
    /\ Thresholds \in [1..N -> 0..(Half - 1)]
    /\ \A i, j \in 1..N : i < j => Thresholds[i] < Thresholds[j]

ASSUME ClockConstants ==
    /\ StampMod \in 1..Word /\ Word % StampMod = 0 /\ MaxTime \in 1..(Word - 1)

-----------------------------------------------------------------------------
(* The arithmetic.                                                         *)

\* Unsigned subtraction.
Minus(a, b) == IF a >= b THEN a - b ELSE a - b + Word

HighBit(a) == IF a >= Half THEN 1 ELSE 0

\* io_histogram_above: the high bit of (threshold - value) | value.
HistogramAbove(value, threshold) ==
    IF HighBit(Minus(threshold, value)) = 1 \/ HighBit(value) = 1 THEN 1 ELSE 0

Above(ns) == {k \in 2..N : HistogramAbove(ns, Thresholds[k]) = 1}

\* Mutant of Bucket: the first bucket excludes its upper bound.
BucketExclusive(ns) == IF ns < Thresholds[1] THEN 0 ELSE 1 + Cardinality(Above(ns))

\* The sum of the comparisons, after the fast return for the first bucket.
Bucket(ns) == IF ns <= Thresholds[1] THEN 0 ELSE 1 + Cardinality(Above(ns))

NoBucket == -1

\* io_latency_bucket: zero is a missing time stamp.
LatencyBucket(start, end, queueStage) ==
    IF start = 0 \/ end = 0 THEN NoBucket
    ELSE IF end < start THEN (IF queueStage THEN 0 ELSE NoBucket)
    ELSE Bucket(end - start)

\* The packed stamp, in the epoch that makes it the latest before now.
UnpackedStamp(stamp, now) ==
    LET age == Minus(now, stamp) % StampMod
    IN IF age <= now THEN now - age ELSE 0

\* io_latency_bio_queue_ns.
QueueNs(packed, stamp, now) ==
    IF packed THEN (IF stamp = 0 THEN 0 ELSE UnpackedStamp(stamp, now))
    ELSE IF stamp <= now THEN stamp ELSE 0

-----------------------------------------------------------------------------
(* The life of a bio.                                                      *)

VARIABLES
    now,       \* bpf_ktime_get_ns
    packed,    \* the kernel has bi_issue rather than issue_time_ns
    queued,    \* time at which the bio was queued, or 0
    got,       \* start_time_ns of its request, or 0
    issue,     \* io_start_time_ns of its request, or 0
    sample     \* the buckets of its completion, or NoSample

bioVars == <<now, packed, queued, got, issue, sample>>

NoSample == [q2g |-> NoBucket, q2d |-> NoBucket, d2c |-> NoBucket, at |-> 0]

BioInit ==
    /\ now = 1 /\ packed \in BOOLEAN
    /\ queued = 0 /\ got = 0 /\ issue = 0 /\ sample = NoSample

Tick ==
    /\ now < MaxTime /\ sample = NoSample
    /\ now' = now + 1
    /\ UNCHANGED <<packed, queued, got, issue, sample>>

QueueBio ==
    /\ queued = 0 /\ sample = NoSample
    /\ queued' = now
    /\ UNCHANGED <<now, packed, got, issue, sample>>

GetRequest ==
    /\ got = 0 /\ sample = NoSample
    /\ got' = now
    /\ UNCHANGED <<now, packed, queued, issue, sample>>

\* Reissues refresh the stamp.
IssueRequest ==
    /\ got # 0 /\ sample = NoSample
    /\ issue' = now
    /\ UNCHANGED <<now, packed, queued, got, sample>>

\* What the kernel keeps of the queue time.
Stamp == IF packed THEN queued % StampMod ELSE queued

\* complete_bio_latency with account_io_latency, for the issue stamp d.
Measured(d) ==
    LET queueNs == QueueNs(packed, Stamp, now)
    IN [q2g |-> LatencyBucket(queueNs, got, TRUE), q2d |-> LatencyBucket(queueNs, d, TRUE),
        d2c |-> LatencyBucket(d, now, FALSE), at |-> d]

\* Issue stamps are read from another CPU's clock and may lie behind the
\* completion's.
IssueStamp(skew) == IF issue = 0 THEN 0 ELSE issue + skew

CompleteBio ==
    /\ queued # 0 /\ got # 0 /\ sample = NoSample
    /\ \E skew \in 0..1 : sample' = Measured(IssueStamp(skew))
    /\ UNCHANGED <<now, packed, queued, got, issue>>

BioNext == Tick \/ QueueBio \/ GetRequest \/ IssueRequest \/ CompleteBio

BioSpec == BioInit /\ [][BioNext]_bioVars

\* appendIOLatencyBuckets: whether a sample is in the cumulative bucket le.
InCumulative(bucket, le) == bucket # NoBucket /\ bucket < le

-----------------------------------------------------------------------------
(* Properties.                                                             *)

\* The cumulative bucket of a threshold counts an interval exactly when the
\* interval is not longer than the threshold, for time stamps that the kernel
\* packed as for others.  A stamp older than the packed range, or one that packs
\* to zero, is lost or mistaken; that is left out.
CumulativeCountsAtOrBelow ==
    sample # NoSample /\ now - queued < StampMod /\ Stamp # 0
       => \A le \in 1..N :
            /\ InCumulative(sample.q2g, le) <=> got - queued <= Thresholds[le]
            /\ sample.at # 0 => (InCumulative(sample.q2d, le)
                                   <=> sample.at - queued <= Thresholds[le])

\* Device time is a sample unless its stamps are missing or reversed: an issue
\* stamp behind the completion never counts as a fast request.
DeviceTimeIsReal ==
    sample # NoSample
       => \A le \in 1..N :
            InCumulative(sample.d2c, le)
               <=> sample.at # 0 /\ now - sample.at \in 0..Thresholds[le]

\* The cumulative buckets of a completed bio say what the clock said, for its
\* three intervals.
BucketsExact == CumulativeCountsAtOrBelow /\ DeviceTimeIsReal
=============================================================================
