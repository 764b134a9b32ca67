-------------------------------- MODULE IoLatency --------------------------------
(***************************************************************************)
(* Which disk and which cgroup an I/O latency sample is counted for        *)
(* (bpf/iolatency_tracing.c with core/metrics/iolatency_*.go).             *)
(*                                                                         *)
(* Disks and cgroups are known to the probes by kernel addresses, which    *)
(* are reused.  A disk is enrolled once, at the start of a session, by its *)
(* address; a topology change raises a flag that ends the session.  A      *)
(* cgroup is its CSS address with the serial that a cache gives for it; the*)
(* release of a CSS leaves a marker among the counter rows, from which the *)
(* collector learns to reclaim the rows.                                   *)
(*                                                                         *)
(* There is one disk address.  Histograms are counts of samples here; see  *)
(* RequestCompletion and LatencyBuckets.                                   *)
(***************************************************************************)
EXTENDS Integers, Sequences, FiniteSets

CONSTANTS
    Addrs,          \* CSS addresses
    CPUs,
    MaxSerial,      \* cgroups ever created; serials are not reused
    MaxDisk,        \* disks ever created at the address
    MaxSamples,     \* bound on the number of samples
    MaxSessions,    \* bound on the number of sessions
    MaxFaults,      \* bound on failed map reads and on writes that find EBUSY
    CacheCapacity,  \* max_entries of io_latency_group_map
    RowCapacity     \* max_entries of blkcg_lat_map

Serials == 1..MaxSerial
Disks == 1..MaxDisk
Kinds == {"row", "marker"}
Keys == Serials \X Kinds

ASSUME LatencyConstants ==
    /\ MaxSerial \in Nat \ {0} /\ MaxDisk \in Nat \ {0}
    /\ CacheCapacity \in Nat /\ RowCapacity \in Nat

VARIABLES
    disk,       \* the disk at the address: [inst, up]
    group,      \* per address: [serial, at]: "none", "alive", "marking", "uncaching"
    created,    \* serials given out
    probe,      \* per CPU: the sample it counts: [at, addr, own, serial]
    samples,    \* number of samples begun
    counted,    \* per serial: samples added for cgroups of that serial
    faults,     \* number of faults
    \* the BPF object
    result,     \* the row of io_latency_probe_result: "none", "pending" or a disk
    host,       \* the row of blkdisk_lat_map: [disk, n], n per disk, or NoHost
    cache,      \* io_latency_group_map: per address a serial, or 0
    rows,       \* blkcg_lat_map: the keys that exist
    count,      \* the values of the counter rows
    changed,    \* devices_changed of the status word
    failure,    \* its failure
    \* the collector
    session,    \* "closed", "attaching", "reading", "open", "stopped"
    sessions,
    update,     \* the running Update: [at, seen, host, rows, dead]
    previous,   \* the last snapshot: [valid, first, host, rows, hasRows]
    reported,   \* per serial: samples reported
    hostReported  \* per disk: samples reported for the enrolled disk

kernelVars == <<disk, group, created>>
probeVars == <<probe, samples, counted>>
objectVars == <<result, host, cache, rows, count, changed, failure>>
collectorVars == <<update, previous, reported, hostReported>>
sessionVars == <<session, sessions>>
vars == <<kernelVars, probeVars, faults, objectVars, collectorVars, sessionVars>>

NoProbe == [at |-> "idle", addr |-> CHOOSE a \in Addrs : TRUE, own |-> 0, serial |-> 0]
NoHost == [disk |-> 0, n |-> [d \in Disks |-> 0]]
NoCounts == [s \in Serials |-> 0]
NoSnapshot == [valid |-> FALSE, first |-> FALSE, host |-> NoHost, rows |-> NoCounts,
               hasRows |-> FALSE]
NoUpdate == [at |-> "idle", seen |-> {}, host |-> NoHost, rows |-> {}, dead |-> {},
             counts |-> NoCounts, hasRows |-> TRUE]

EmptyObject ==
    /\ result' = 0 /\ host' = NoHost /\ cache' = [a \in Addrs |-> 0]
    /\ rows' = {} /\ count' = NoCounts /\ changed' = FALSE /\ failure' = FALSE

Init ==
    /\ disk = [inst |-> 1, up |-> TRUE]
    /\ group = [a \in Addrs |-> [serial |-> 0, at |-> "none"]] /\ created = 0
    /\ probe = [c \in CPUs |-> NoProbe] /\ samples = 0 /\ counted = NoCounts /\ faults = 0
    /\ session = "closed" /\ sessions = 0
    /\ result = 0 /\ host = NoHost /\ cache = [a \in Addrs |-> 0]
    /\ rows = {} /\ count = NoCounts /\ changed = FALSE /\ failure = FALSE
    /\ update = NoUpdate /\ previous = NoSnapshot /\ reported = NoCounts
    /\ hostReported = [d \in Disks |-> 0]

RowHasRoom == Cardinality(rows) < RowCapacity

Fault == faults < MaxFaults /\ faults' = faults + 1

-----------------------------------------------------------------------------
(* Disks, and the hooks of IO_CONTROL_DEVICE_HOOKS.                        *)

Attached == session \in {"reading", "open", "ending", "failing"}

NoteDeviceChange == changed' = (changed \/ Attached)

\* del_gendisk; requests still complete until the disk is gone.
DiskRemoved ==
    /\ disk.up
    /\ disk' = [disk EXCEPT !.up = FALSE]
    /\ NoteDeviceChange
    /\ UNCHANGED <<group, created, probeVars, faults, result, host, cache, rows, count, failure,
                   collectorVars, sessionVars>>

\* blk_register_queue of a new disk, whose structure has the same address.
DiskAdded ==
    /\ ~disk.up /\ disk.inst < MaxDisk
    /\ \A c \in CPUs : probe[c].at = "idle"
    /\ disk' = [inst |-> disk.inst + 1, up |-> TRUE]
    /\ NoteDeviceChange
    /\ UNCHANGED <<group, created, probeVars, faults, result, host, cache, rows, count, failure,
                   collectorVars, sessionVars>>

-----------------------------------------------------------------------------
(* Cgroups.                                                                *)

GroupCreated(a) ==
    /\ group[a].at = "none" /\ created < MaxSerial
    /\ created' = created + 1
    /\ group' = [group EXCEPT ![a] = [serial |-> created + 1, at |-> "alive"]]
    /\ UNCHANGED <<disk, probeVars, faults, objectVars, collectorVars, sessionVars>>

\* blkcg_css_free runs when no bio holds the group any more.
GroupReleased(a) ==
    /\ group[a].at = "alive"
    /\ \A c \in CPUs : probe[c].at # "idle" => probe[c].addr # a
    /\ group' = [group EXCEPT ![a].at =
                   IF Attached /\ cache[a] # 0 THEN "marking" ELSE "none"]
    /\ UNCHANGED <<disk, created, probeVars, faults, objectVars, collectorVars, sessionVars>>

\* io_latency_css_released: the marker first, then the cache entry.  A marker
\* that finds no room is a failure.
MarkReleased(a) ==
    LET key == <<cache[a], "marker">>
    IN /\ group[a].at = "marking"
       /\ IF RowHasRoom \/ key \in rows
          THEN rows' = rows \cup {key} /\ UNCHANGED failure
          ELSE failure' = TRUE /\ UNCHANGED rows
       /\ group' = [group EXCEPT ![a].at = "uncaching"]
       /\ UNCHANGED <<disk, created, probeVars, faults, result, host, cache, count, changed,
                      collectorVars, sessionVars>>

\* Mutant of Uncached: the cache entry of a released group stays.
UncachedNever(a) == cache

Uncached(a) == [cache EXCEPT ![a] = 0]

Uncache(a) ==
    /\ group[a].at = "uncaching"
    /\ cache' = Uncached(a)
    /\ group' = [group EXCEPT ![a].at = "none"]
    /\ UNCHANGED <<disk, created, probeVars, faults, result, host, rows, count, changed, failure,
                   collectorVars, sessionVars>>

-----------------------------------------------------------------------------
(* A sample: complete_bio_latency, and queue_bio_latency likewise.  The    *)
(* bio holds its group and its disk while the probe runs.                  *)

At(c, where) == probe' = [probe EXCEPT ![c].at = where]
Done(c) == probe' = [probe EXCEPT ![c] = NoProbe]

\* Only disks that were enrolled are counted, the host first.
CountHost(c, a) ==
    /\ probe[c].at = "idle" /\ samples < MaxSamples
    /\ Attached /\ host.disk # 0
    /\ disk.up /\ group[a].at = "alive"
    /\ samples' = samples + 1
    /\ host' = [host EXCEPT !.n[disk.inst] = @ + 1]
    /\ probe' = [probe EXCEPT ![c] = [at |-> "cache", addr |-> a, own |-> group[a].serial,
                                      serial |-> 0]]
    /\ UNCHANGED <<kernelVars, counted, faults, result, cache, rows, count, changed, failure,
                   collectorVars, sessionVars>>

\* io_latency_css_serial.
LookUpSerial(c) ==
    LET a == probe[c].addr
    IN /\ probe[c].at \in {"cache", "again"}
       /\ \/ /\ cache[a] # 0
             /\ probe' = [probe EXCEPT ![c].at = "row", ![c].serial = cache[a]]
          \/ /\ cache[a] = 0
             /\ IF probe[c].at = "cache" THEN At(c, "insert") ELSE Done(c)
       /\ UNCHANGED <<kernelVars, samples, counted, faults, objectVars, collectorVars,
                      sessionVars>>

\* BPF_NOEXIST; a nested writer skips the sample, a full cache is a failure.
InsertSerial(c) ==
    LET a == probe[c].addr
        room == Cardinality({b \in Addrs : cache[b] # 0}) < CacheCapacity
    IN /\ probe[c].at = "insert"
       /\ \/ Fault /\ Done(c) /\ UNCHANGED <<cache, failure>>
          \/ /\ cache[a] # 0 \/ room
             /\ cache' = IF cache[a] # 0 THEN cache ELSE [cache EXCEPT ![a] = probe[c].own]
             /\ At(c, "again") /\ UNCHANGED <<faults, failure>>
          \/ /\ cache[a] = 0 /\ ~room
             /\ failure' = TRUE /\ Done(c) /\ UNCHANGED <<faults, cache>>
       /\ UNCHANGED <<kernelVars, samples, counted, result, host, rows, count, changed,
                      collectorVars, sessionVars>>

\* lookup_container_counters: a row that cannot be made is a missing sample.
FindRow(c) ==
    LET key == <<probe[c].serial, "row">>
    IN /\ probe[c].at = "row"
       /\ \/ key \in rows /\ At(c, "add") /\ UNCHANGED <<faults, rows, count>>
          \/ key \notin rows /\ Fault /\ Done(c) /\ UNCHANGED <<rows, count>>
          \/ /\ key \notin rows /\ RowHasRoom
             /\ rows' = rows \cup {key} /\ count' = [count EXCEPT ![probe[c].serial] = 0]
             /\ At(c, "add") /\ UNCHANGED faults
          \/ /\ key \notin rows /\ ~RowHasRoom
             /\ Done(c) /\ UNCHANGED <<faults, rows, count>>
       /\ UNCHANGED <<kernelVars, samples, counted, result, host, cache, changed, failure,
                      collectorVars, sessionVars>>

AddSample(c) ==
    /\ probe[c].at = "add"
    /\ IF <<probe[c].serial, "row">> \in rows
       THEN /\ count' = [count EXCEPT ![probe[c].serial] = @ + 1]
            /\ counted' = [counted EXCEPT ![probe[c].own] = @ + 1]
       ELSE UNCHANGED <<count, counted>>
    /\ Done(c)
    /\ UNCHANGED <<kernelVars, samples, faults, result, host, cache, rows, changed, failure,
                   collectorVars, sessionVars>>

-----------------------------------------------------------------------------
(* Start: attach, enroll the disk, publish the session.                    *)

BeginSession ==
    /\ session = "closed" /\ sessions < MaxSessions
    /\ session' = "attaching" /\ sessions' = sessions + 1
    /\ EmptyObject
    /\ UNCHANGED <<kernelVars, probeVars, faults, collectorVars>>

\* attachIOLatencyHooks.  The order of the hooks does not matter: nothing is
\* counted before a disk is enrolled, and that comes later.
AttachHooks ==
    /\ session = "attaching"
    /\ session' = "reading"
    /\ UNCHANGED <<sessions, kernelVars, probeVars, faults, objectVars, collectorVars>>

\* The read of queue/iostats runs probe_queue_stats, which notes the disk.
ReadStats ==
    /\ session = "reading" /\ result = 0 /\ disk.up
    /\ result' = disk.inst
    /\ UNCHANGED <<kernelVars, probeVars, faults, host, cache, rows, count, changed, failure,
                   collectorVars, sessionVars>>

\* discoverDisks: the host row is written for the disk that the probe saw, unless
\* its queue is not supported or its statistics are off.  Then the session is
\* published.
Enroll ==
    /\ session = "reading" /\ result # 0
    /\ host' \in {NoHost, [NoHost EXCEPT !.disk = result]}
    /\ result' = 0
    /\ session' = "open"
    /\ previous' = [NoSnapshot EXCEPT !.valid = TRUE, !.first = TRUE]
    /\ UNCHANGED <<kernelVars, probeVars, faults, cache, rows, count, changed, failure, update,
                   reported, hostReported, sessions>>

\* Start fails, or the session's context is cancelled; closing the object
\* drops its maps.  A failure of the probes stops the tracer for good.
EndSession ==
    /\ session \in {"attaching", "reading", "ending", "failing"} /\ update = NoUpdate
    /\ session' = IF session = "failing" THEN "stopped" ELSE "closed"
    /\ probe' = [c \in CPUs |-> NoProbe]
    /\ group' = [a \in Addrs |-> IF group[a].at \in {"marking", "uncaching"}
                                 THEN [group[a] EXCEPT !.at = "none"] ELSE group[a]]
    /\ EmptyObject
    /\ previous' = NoSnapshot
    /\ UNCHANGED <<disk, created, samples, counted, faults, update, reported, hostReported,
                   sessions>>

-----------------------------------------------------------------------------
(* Update.                                                                 *)

\* checkHealth: a device change ends the session, a failure stops it.  A read
\* error leaves it as it is.
Unhealthy == changed \/ failure
Cancelled == session' = IF changed THEN "ending" ELSE IF failure THEN "failing" ELSE session

UpdateReturns == update' = NoUpdate

\* Mutant of CheckHealth: the health is read, not acted upon.
CheckHealthUnread(next) == update' = [update EXCEPT !.at = next] /\ UNCHANGED <<session, faults>>

CheckHealth(next) ==
    \/ Unhealthy /\ Cancelled /\ UpdateReturns /\ UNCHANGED faults
    \/ Fault /\ UpdateReturns /\ UNCHANGED session
    \/ ~Unhealthy /\ update' = [update EXCEPT !.at = next] /\ UNCHANGED <<session, faults>>

BeginUpdate ==
    /\ session = "open" /\ update.at = "idle"
    /\ update' = [NoUpdate EXCEPT !.at = "check"]
    /\ UNCHANGED <<kernelVars, probeVars, faults, objectVars, previous, reported, hostReported,
                   sessionVars>>

\* The baseline is dropped until the end of a successful Update.
FirstCheck ==
    /\ update.at = "check"
    /\ CheckHealth("host")
    /\ previous' = IF update'.at = "host" THEN previous ELSE NoSnapshot
    /\ UNCHANGED <<kernelVars, probeVars, objectVars, reported, hostReported, sessions>>

CaptureHost ==
    /\ update.at = "host"
    /\ \/ /\ update' = [update EXCEPT !.at = "dump", !.host = host]
          /\ UNCHANGED <<previous, faults>>
       \/ Fault /\ UpdateReturns /\ previous' = NoSnapshot
    /\ UNCHANGED <<kernelVars, probeVars, objectVars, reported, hostReported, sessionVars>>

\* DumpMap visits the keys one by one while the probes go on.
DumpKey(k) ==
    /\ update.at = "dump" /\ k \notin update.seen
    /\ update' = IF k \in rows
                 THEN [update EXCEPT !.seen = @ \cup {k}, !.rows = @ \cup {k},
                                     !.counts[k[1]] = IF k[2] = "row" THEN count[k[1]] ELSE @]
                 ELSE [update EXCEPT !.seen = @ \cup {k}]
    /\ UNCHANGED <<kernelVars, probeVars, faults, objectVars, previous, reported, hostReported,
                   sessionVars>>

\* A failed dump leaves the snapshot without containers.
DumpFails ==
    /\ update.at = "dump"
    /\ Fault
    /\ update' = [update EXCEPT !.at = "verify", !.rows = {}, !.counts = NoCounts,
                                !.hasRows = FALSE]
    /\ UNCHANGED <<kernelVars, probeVars, objectVars, previous, reported, hostReported,
                   sessionVars>>

\* Mutant of Released: only groups that have counter rows.
ReleasedWithRows == {t \in Serials : {t} \X Kinds \subseteq update.rows}

Released == {t \in Serials : <<t, "marker">> \in update.rows}

\* Rows of released groups leave the snapshot.
DumpEnds ==
    /\ update.at = "dump" /\ update.seen = Keys
    /\ update' = [update EXCEPT !.at = IF Released = {} THEN "verify" ELSE "reclaim",
                                !.dead = Released,
                                !.counts = [s \in Serials |->
                                              IF s \in Released THEN 0 ELSE @[s]]]
    /\ UNCHANGED <<kernelVars, probeVars, faults, objectVars, previous, reported, hostReported,
                   sessionVars>>

\* reclaimReleasedCgroups reads the rows again: one may have been added behind
\* the first traversal before its marker appeared.
Doomed == {k \in rows : k[2] = "row" /\ k[1] \in update.dead}

ReclaimRows ==
    /\ update.at = "reclaim"
    /\ \/ rows' = rows \ Doomed /\ update' = [update EXCEPT !.at = "markers"] /\ UNCHANGED faults
       \/ Fault /\ update' = [update EXCEPT !.at = "verify"] /\ UNCHANGED rows
    /\ UNCHANGED <<kernelVars, probeVars, result, host, cache, count, changed, failure, previous,
                   reported, hostReported, sessionVars>>

ReclaimMarkers ==
    /\ update.at = "markers"
    /\ \/ rows' = rows \ (update.dead \X {"marker"}) /\ UNCHANGED faults
       \/ Fault /\ UNCHANGED rows
    /\ update' = [update EXCEPT !.at = "verify"]
    /\ UNCHANGED <<kernelVars, probeVars, result, host, cache, count, changed, failure, previous,
                   reported, hostReported, sessionVars>>

SecondCheck ==
    /\ update.at = "verify"
    /\ CheckHealth("report")
    /\ previous' = IF update'.at = "report" THEN previous ELSE NoSnapshot
    /\ UNCHANGED <<kernelVars, probeVars, objectVars, reported, hostReported, sessions>>

HasBaseline == previous.valid /\ ~previous.first /\ previous.hasRows

\* A counter that went backwards is not a delta.
Delta(from, to) == IF to < from THEN 0 ELSE to - from

\* A row that the last snapshot did not have starts at zero.  Without an
\* enrolled disk there is no data, and no baseline.
Report ==
    /\ update.at = "report"
    /\ previous' = IF update.host.disk = 0 THEN NoSnapshot
                   ELSE [valid |-> TRUE, first |-> FALSE, host |-> update.host,
                         rows |-> update.counts, hasRows |-> update.hasRows]
    /\ hostReported' = [d \in Disks |->
          IF previous.valid /\ ~previous.first
          THEN hostReported[d] + Delta(previous.host.n[d], update.host.n[d])
          ELSE hostReported[d]]
    /\ reported' = [s \in Serials |->
          IF HasBaseline /\ s \notin update.dead /\ <<s, "row">> \in update.rows
          THEN reported[s] + Delta(previous.rows[s], update.counts[s])
          ELSE reported[s]]
    /\ UpdateReturns
    /\ UNCHANGED <<kernelVars, probeVars, faults, objectVars, sessionVars>>

-----------------------------------------------------------------------------

UpdateStep ==
    \/ FirstCheck \/ CaptureHost \/ DumpFails \/ DumpEnds \/ ReclaimRows \/ ReclaimMarkers
    \/ SecondCheck \/ Report
    \/ \E k \in Keys : DumpKey(k)

Next ==
    \/ DiskRemoved \/ DiskAdded
    \/ \E a \in Addrs : \/ GroupCreated(a) \/ GroupReleased(a) \/ MarkReleased(a) \/ Uncache(a)
                        \/ \E c \in CPUs : CountHost(c, a)
    \/ \E c \in CPUs : LookUpSerial(c) \/ InsertSerial(c) \/ FindRow(c) \/ AddSample(c)
    \/ BeginSession \/ AttachHooks \/ ReadStats \/ Enroll \/ EndSession
    \/ BeginUpdate \/ UpdateStep

Spec == Init /\ [][Next]_vars

\* The collector is called again and again, and an Update, a probe of a
\* release and the end of a cancelled session are not suspended for ever.
Fairness ==
    /\ WF_vars(BeginUpdate) /\ WF_vars(UpdateStep) /\ WF_vars(EndSession)
    /\ \A a \in Addrs : WF_vars(MarkReleased(a)) /\ WF_vars(Uncache(a))
    /\ \A c \in CPUs : WF_vars(LookUpSerial(c) \/ InsertSerial(c) \/ FindRow(c) \/ AddSample(c))

-----------------------------------------------------------------------------
(* Properties.                                                             *)

\* A counter row holds samples of the cgroup with that serial only, although
\* its CSS address may by now belong to another one: the release drops the
\* cached serial before the address can be reused.
RowsAreOfTheirGroup == \A s \in Serials : <<s, "row">> \in rows => count[s] <= counted[s]

\* A marker is deleted only when no row of its cgroup is left and none can be
\* added: what is reclaimed stays reclaimed.
ReclaimedForGood ==
    \A s \in Serials :
       <<s, "row">> \in rows /\ <<s, "marker">> \notin rows /\ ~failure
          => \E a \in Addrs : group[a].serial = s /\ group[a].at \in {"alive", "marking"}

\* No sample is reported twice, and none that was not counted.
NothingReportedTwice == \A s \in Serials : reported[s] <= counted[s]

\* What is counted and reported for a cgroup is its own, once, and is gone for
\* good when it is reclaimed, whatever became of its address.
CountersExact == RowsAreOfTheirGroup /\ ReclaimedForGood /\ NothingReportedTwice

\* What is reported under the name of the enrolled disk was done by that disk:
\* a disk that took over its address before or during an Update is noticed.
ReportedDiskIsTheEnrolledOne ==
    [][\A d \in Disks : hostReported'[d] > hostReported[d] => d = host.disk]_vars

\* The rows of a released cgroup are reclaimed, unless the session ends.
ReleasedIsReclaimed ==
    \A s \in Serials :
       (<<s, "marker">> \in rows) ~> (\A k \in Kinds : <<s, k>> \notin rows)
=============================================================================
