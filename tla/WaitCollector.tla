---------------------------- MODULE WaitCollector ----------------------------
(***************************************************************************)
(* The wait counters that the IOCOST and the blk-throttle tracers share    *)
(* with the collector in user space, and that collector.                   *)
(*                                                                         *)
(* The BPF side keeps one row of per-CPU words for every counter lifetime  *)
(* (a cgroup's kernel serial on a disk) and operation.  A word packs the   *)
(* number of waits and their total length, each modulo its own width, so   *)
(* that one store publishes both (bpf/include/bpf_iocontrol.h).  When the  *)
(* kernel frees the group the BPF side leaves a retirement marker.         *)
(*                                                                         *)
(* The collector (core/metrics/iocontrol.go with the Update methods of     *)
(* iocost_collector.go and blk_throtl_collector.go) periodically reads the *)
(* markers, then the rows, then the session status; it reports the         *)
(* difference to the previous snapshot and finally deletes the rows of the *)
(* markers it had read first.                                              *)
(*                                                                         *)
(* The modules IoCost and BlkThrotl extend this one with the hooks that    *)
(* write the rows.                                                         *)
(***************************************************************************)
EXTENDS Integers, FiniteSets, FiniteSetsExt, Functions

CONSTANTS
    CPUs,           \* the possible CPUs
    Serials,        \* counter lifetimes: a kernel CSS serial on one disk
    Ops,            \* the operations that are counted
    CountMod,       \* 2^IO_CONTROL_WAIT_COUNT_BITS
    WaitMod,        \* 2^IO_CONTROL_WAIT_10US_BITS
    AggCapacity,    \* max_entries of the aggregate map
    MaxFaults,      \* bound on the transient errors of the collector
    MaxSessions     \* bound on the number of BPF sessions

ASSUME CollectorConstants ==
    /\ Serials \subseteq Nat \ {0}
    /\ CountMod \in Nat \ {0}
    /\ WaitMod \in Nat \ {0}

Keys == Serials \X Ops
ZeroRow == [c \in CPUs |-> 0]
ZeroRows == [k \in Keys |-> ZeroRow]
ZeroTotals == [k \in Keys |-> 0]

VARIABLES
    rows,           \* keys that have a row in the aggregate map
    word,           \* the packed word of every key and CPU
    retired,        \* serials with a marker in the retired map
    failure,        \* io_control_status.failure, "none" when zero
    devicesChanged, \* io_control_status.devices_changed
    session,        \* "closed", "attaching", "open", "restarting", "stopping", "stopped"
    sessions,       \* number of sessions opened so far
    baselined,      \* session.previous is not nil
    previous,       \* session.previous; an absent row reads as zero
    phase,          \* how far the running Update has come
    seenRetired,    \* the markers captured by the running Update
    mustRead,       \* rows that existed when the traversal started
    current,        \* the snapshot of the running Update
    currentRows,    \* the keys of that snapshot
    faults,         \* transient errors so far
    settled,        \* waits counted by the BPF side, per key
    reported,       \* waits exported by Update, per key
    gap,            \* some Update of this session has failed
    reclaimed       \* serials whose marker has been deleted

mapVars == <<rows, word, retired, failure>>
updateVars == <<phase, seenRetired, mustRead, current, currentRows>>
sessionVars == <<session, sessions, devicesChanged>>
ghostVars == <<settled, reported, gap, reclaimed>>
collectorVars == <<mapVars, updateVars, sessionVars, ghostVars,
                   baselined, previous, faults>>

-----------------------------------------------------------------------------
(* The packed word.                                                        *)

Count(w) == w \div WaitMod
Wait(w) == w % WaitMod

\* io_control_wait_add: one more wait of d units of 10us.
WaitAdd(w, d) ==
    (((Count(w) + 1) % CountMod) * WaitMod) + ((Wait(w) + d) % WaitMod)

\* ioControlWaitCounters.delta: each field modulo its own width.
DeltaCount(w, old) == (Count(w) - Count(old)) % CountMod
DeltaWait(w, old) == (Wait(w) - Wait(old)) % WaitMod

\* deltaIOControlWaitCounters: the increments of a row, summed over the CPUs.
RowDelta(row, old) == MapThenSumSet(LAMBDA c : DeltaCount(row[c], old[c]), CPUs)

\* A lane whose wait advanced although its count did not is an error.
RowInconsistent(row, old) ==
    \E c \in CPUs : DeltaCount(row[c], old[c]) = 0 /\ DeltaWait(row[c], old[c]) # 0

-----------------------------------------------------------------------------
(* What the hooks do to the shared maps; used by the extending modules.    *)

Unhealthy == failure # "none"

\* The row of key k exists or can be inserted.
CanHoldRow(k) == k \in rows \/ Cardinality(rows) < AggCapacity

\* One more wait of length d on CPU c's lane of key k.
Settle(k, c, d) ==
    /\ word' = [word EXCEPT ![k][c] = WaitAdd(@, d)]
    /\ settled' = [settled EXCEPT ![k] = @ + 1]

-----------------------------------------------------------------------------
CollectorInit ==
    /\ rows = {} /\ word = ZeroRows
    /\ retired = {} /\ failure = "none" /\ devicesChanged = FALSE
    /\ session = "closed" /\ sessions = 0
    /\ baselined = FALSE /\ previous = ZeroRows
    /\ phase = "idle" /\ seenRetired = {} /\ mustRead = {}
    /\ current = ZeroRows /\ currentRows = {}
    /\ faults = 0
    /\ settled = ZeroTotals /\ reported = ZeroTotals
    /\ gap = FALSE /\ reclaimed = {}

(* A topology change anywhere on the node sets the sticky flag of the      *)
(* session: io_control_note_device_change.                                 *)
DeviceChange ==
    /\ session \in {"attaching", "open", "restarting", "stopping"}
    /\ ~devicesChanged
    /\ devicesChanged' = TRUE
    /\ UNCHANGED <<mapVars, updateVars, session, sessions, ghostVars,
                   baselined, previous, faults>>

\* The maps and counters of an object that has just been loaded or closed.
EmptyObject ==
    /\ rows' = {} /\ word' = ZeroRows /\ retired' = {}
    /\ failure' = "none" /\ devicesChanged' = FALSE
    /\ previous' = ZeroRows
    /\ settled' = ZeroTotals /\ reported' = ZeroTotals
    /\ gap' = FALSE /\ reclaimed' = {}

(* startWithProfile loads a fresh object and starts from an empty (not     *)
(* nil) baseline.  The programs are attached one by one.                   *)
OpenSession ==
    /\ session = "closed" /\ sessions < MaxSessions
    /\ session' = "attaching" /\ sessions' = sessions + 1
    /\ EmptyObject
    /\ baselined' = TRUE
    /\ UNCHANGED <<updateVars, faults>>

(* The context of the session ends (shutdown), whatever Update is doing.   *)
CancelSession ==
    /\ session \in {"attaching", "open"}
    /\ session' = "stopping"
    /\ UNCHANGED <<mapVars, updateVars, sessions, devicesChanged, ghostVars,
                   baselined, previous, faults>>

(* The deferred withdrawal waits for a running Update (both take the       *)
(* collector's mutex); then the object is closed with all its maps.  Only  *)
(* a topology change lets the tracing manager start the next session.      *)
CloseSession ==
    /\ session \in {"restarting", "stopping"} /\ phase = "idle"
    /\ session' = IF session = "restarting" THEN "closed" ELSE "stopped"
    /\ EmptyObject
    /\ baselined' = FALSE
    /\ UNCHANGED <<updateVars, sessions, faults>>

-----------------------------------------------------------------------------
(* Update.                                                                 *)

\* The variables an Update that returns leaves behind.
UpdateReturns ==
    /\ phase' = "idle" /\ seenRetired' = {} /\ mustRead' = {}
    /\ current' = ZeroRows /\ currentRows' = {}

\* An Update that fails drops the baseline.  next is the session's state
\* afterwards: session.cancel is called for a terminal error.
UpdateFails(next) ==
    /\ UpdateReturns
    /\ baselined' = FALSE /\ previous' = ZeroRows /\ gap' = TRUE
    /\ session' = next
    /\ UNCHANGED <<mapVars, sessions, devicesChanged, settled, reported, reclaimed>>

\* Nothing but the progress of the running Update changes.
UpdateGoesOn ==
    UNCHANGED <<mapVars, sessionVars, ghostVars, baselined, previous, faults>>

\* The status is read first; a session whose topology is unchanged goes on to
\* the markers.  Only the IOCOST collector looks at the failure here already.
BeginUpdate(failureFirst) ==
    /\ session = "open" /\ phase = "idle"
    /\ \/ /\ devicesChanged
          /\ UpdateFails("restarting")
          /\ UNCHANGED faults
       \/ /\ ~devicesChanged /\ failureFirst /\ Unhealthy
          /\ phase' = "resolve"
          /\ UpdateGoesOn
          /\ UNCHANGED <<seenRetired, mustRead, current, currentRows>>
       \/ /\ ~devicesChanged /\ ~(failureFirst /\ Unhealthy)
          /\ phase' = "retired" /\ seenRetired' = retired
          /\ UpdateGoesOn
          /\ UNCHANGED <<mustRead, current, currentRows>>

\* captureIOControlRetired: a marker written while the traversal runs may or
\* may not be met by it.
CaptureRetired ==
    /\ phase = "retired"
    /\ \E late \in SUBSET (retired \ seenRetired) : seenRetired' = seenRetired \cup late
    /\ phase' = "rows" /\ mustRead' = rows
    /\ UpdateGoesOn
    /\ UNCHANGED <<current, currentRows>>

\* readIOControlWaitSnapshot meets the row of key k.
CaptureRow(k) ==
    /\ phase = "rows" /\ k \in rows \ currentRows
    /\ current' = [current EXCEPT ![k] = word[k]]
    /\ currentRows' = currentRows \cup {k}
    /\ UpdateGoesOn
    /\ UNCHANGED <<phase, seenRetired, mustRead>>

\* A map read, the traversal or the disk names fail: no snapshot this time.
CaptureFails ==
    /\ phase \in {"retired", "rows"} /\ faults < MaxFaults
    /\ faults' = faults + 1
    /\ UpdateFails(session)

\* The traversal has met every row that existed when it started.  The status
\* is read again, its two words one after the other: first the flag.
EndCapture ==
    /\ phase = "rows" /\ mustRead \subseteq currentRows
    /\ IF devicesChanged
       THEN /\ UpdateFails("restarting")
            /\ UNCHANGED faults
       ELSE /\ phase' = "status"
            /\ UpdateGoesOn
            /\ UNCHANGED <<seenRetired, mustRead, current, currentRows>>

\* Some lane of the snapshot cannot be subtracted from the baseline.
Undeltable == baselined /\ \E k \in currentRows : RowInconsistent(current[k], previous[k])

\* Then the failure word; a healthy snapshot becomes the baseline, and its
\* differences are exported unless the baseline had been lost.
CommitSnapshot ==
    /\ phase = "status"
    /\ \/ /\ failure # "none"
          /\ phase' = "resolve"
          /\ UpdateGoesOn
          /\ UNCHANGED <<seenRetired, mustRead, current, currentRows>>
       \/ /\ failure = "none" /\ (Undeltable \/ session # "open")
          /\ UpdateFails(session)
          /\ UNCHANGED faults
       \/ /\ failure = "none" /\ ~Undeltable /\ session = "open"
          /\ phase' = "reclaim"
          /\ baselined' = TRUE /\ previous' = current
          /\ reported' = [k \in Keys |->
                            IF baselined /\ k \in currentRows
                            THEN reported[k] + RowDelta(current[k], previous[k])
                            ELSE reported[k]]
          /\ UNCHANGED <<mapVars, sessionVars, settled, gap, reclaimed, faults,
                         seenRetired, mustRead, current, currentRows>>

\* A failure of the BPF side is terminal unless the topology has changed: the
\* flag is read once more, after the failure.
ResolveFailure ==
    /\ phase = "resolve"
    /\ UpdateFails(IF devicesChanged THEN "restarting" ELSE "stopping")
    /\ UNCHANGED faults

\* Mutant of Reclaimable: every marker that is there by now.
ReclaimableNow == retired

\* Only the fixed set read before the snapshot is reclaimable: a newer marker
\* may cover a final increment that the snapshot misses.
Reclaimable == seenRetired

\* Mutant of MarkerMayGo: only a marker that had rows to delete is removed.
MarkerGoesWithRows(own, gone) == own # {} /\ gone = own

\* The marker stays while one of the rows could not be deleted.
MarkerMayGo(own, gone) == gone = own

\* Mutant of BaselinesDropped: also those of rows that could not be deleted.
BaselinesDroppedAll(own, gone) == own

\* Only the baselines of deleted rows are dropped, so that a retry of the
\* deletion cannot report a row again.
BaselinesDropped(own, gone) == gone

\* reclaimIOControlRetired for one identity of the markers read first: its
\* rows of the snapshot are deleted, and the marker only when none of them
\* remains.  The baseline entries go with the rows, because current is the
\* map that session.previous now refers to.
ReclaimIdentity(s) ==
    /\ phase = "reclaim" /\ s \in Reclaimable
    /\ LET own == {k \in currentRows : k[1] = s}
       IN \E gone \in SUBSET own, markerGone \in BOOLEAN :
             LET failed == gone # own \/ (MarkerMayGo(own, gone) /\ ~markerGone)
             IN /\ markerGone => MarkerMayGo(own, gone)
                /\ failed => faults < MaxFaults
                /\ faults' = IF failed THEN faults + 1 ELSE faults
                /\ rows' = rows \ gone
                /\ word' = [k \in Keys |-> IF k \in gone THEN ZeroRow ELSE word[k]]
                /\ previous' = [k \in Keys |-> IF k \in BaselinesDropped(own, gone) THEN ZeroRow ELSE previous[k]]
                /\ currentRows' = currentRows \ gone
                /\ retired' = IF markerGone THEN retired \ {s} ELSE retired
                /\ reclaimed' = IF markerGone THEN reclaimed \cup {s} ELSE reclaimed
    /\ seenRetired' = seenRetired \ {s}
    /\ UNCHANGED <<failure, sessionVars, settled, reported, gap, baselined,
                   phase, mustRead, current>>

EndUpdate ==
    /\ phase = "reclaim" /\ seenRetired = {}
    /\ UpdateReturns
    /\ UpdateGoesOn

\* The steps of a running Update that do not fail by themselves.
UpdateSteps(failureFirst) ==
    \/ BeginUpdate(failureFirst) \/ CaptureRetired \/ EndCapture
    \/ CommitSnapshot \/ ResolveFailure \/ EndUpdate
    \/ \E k \in Keys : CaptureRow(k)
    \/ \E s \in Serials : ReclaimIdentity(s)

\* The steps that leave the object of the session in place; the extending
\* modules add what opening and closing an object does to their own maps.
CollectorSteps(failureFirst) ==
    DeviceChange \/ CancelSession \/ CaptureFails \/ UpdateSteps(failureFirst)

-----------------------------------------------------------------------------
(* Properties of the collector together with any of the two tracers.       *)

\* What the rows still hold for the next Update, per key.
Unread(k) == RowDelta(word[k], previous[k])

\* The exported counts never run ahead of the counted waits, and while no
\* Update has failed nothing is lost: neither the traversal racing the probes
\* nor the deletion of retired rows drops an increment (modulo the width of
\* the packed count).
NothingLostOrReplayed ==
    \A k \in Keys :
       /\ reported[k] <= settled[k]
       /\ ~gap /\ baselined /\ ~devicesChanged =>
             (reported[k] + Unread(k)) % CountMod = settled[k] % CountMod

\* A lifetime whose marker was reclaimed has no row left and gets none again:
\* the maps cannot fill up with rows nobody will delete.
ReclaimedForGood ==
    \A s \in reclaimed : ~devicesChanged => \A k \in rows : k[1] # s

=============================================================================
