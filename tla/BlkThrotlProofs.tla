---------------------------- MODULE BlkThrotlProofs ----------------------------
(***************************************************************************)
(* For every number of CPUs, tasks, bios, groups and lifetimes and any     *)
(* number of missed probes: the blk-throttle tracer counts a wait at most  *)
(* once and for its owner, its entry and return probes stay paired unless  *)
(* one is missed, and a lifetime that the collector has reclaimed gets no  *)
(* row again.                                                              *)
(***************************************************************************)
EXTENDS BlkThrotl, FiniteSetTheorems, SequenceTheorems, TLAPS

-----------------------------------------------------------------------------
(* The inductive invariant.                                                *)

WaitRecord == [bio : Bios, group : Groups, serial : Serials, op : Ops \cup IgnoredOps,
               at : {"group", "root", "popped", "done"}]
Active == {"attaching", "open", "restarting", "stopping"}

\* The prefixes of AttachOrder.
Attached == {<<>>, <<"free">>, <<"free", "popReturn">>, <<"free", "popReturn", "popEntry">>,
             <<"free", "popReturn", "popEntry", "add">>}

KernelType ==
    /\ waits \in Seq(WaitRecord) /\ Len(waits) <= MaxWaits
    /\ live \in [Groups -> Serials \cup {None}]
    /\ popping \in [Tasks -> Nat] /\ observed \in [Tasks -> BOOLEAN]
    /\ missed \in Nat

ProbeType ==
    /\ hooks \in Attached
    /\ pending \in [Bios -> Nat] /\ owner \in [Groups -> Serials \cup {None}]
    /\ popCall \subseteq Tasks
    /\ credited \subseteq Nat \X Keys /\ IsFiniteSet(credited)
    /\ settled \in [Keys -> Nat]

\* A bio that is held back, or is being popped, is so once, in a group that lives.
WaitInv ==
    /\ \A i \in 1..Len(waits) : waits[i].at # "done" => live[waits[i].group] = waits[i].serial
    /\ \A i, j \in 1..Len(waits) :
          waits[i].at # "done" /\ waits[j].at # "done" /\ waits[i].bio = waits[j].bio => i = j

\* The tasks pop different bios.
PopInv ==
    /\ \A t \in Tasks : popping[t] # None =>
          /\ popping[t] \in 1..Len(waits) /\ waits[popping[t]].at = "popped"
          /\ \A u \in Tasks \ {t} : popping[u] # popping[t]
    /\ \A i \in 1..Len(waits) : waits[i].at = "popped" => Popped(i)

\* All programs of the session are attached.
Full == hooks = AttachOrder /\ session \in Active

\* Nothing is recorded before the program that records it is attached.
ObjectInv ==
    /\ ~Full => /\ \A b \in Bios : pending[b] = None
                /\ \A g \in Groups : owner[g] = None
                /\ credited = {}
    /\ ~Probed("popEntry") => popCall = {}

OwnerInv == \A g \in Groups : owner[g] # None => owner[g] = live[g]

SampleInv ==
    \A b \in Bios : pending[b] # None =>
       /\ pending[b] \in 1..Len(waits)
       /\ waits[pending[b]].bio = b /\ CountedOp(waits[pending[b]].op)

\* A wait that is counted is pending no more.
CreditInv ==
    \A p \in credited : p[1] \in 1..Len(waits) /\ \A b \in Bios : pending[b] # p[1]

\* Unless a probe is missed, a task has a call row only while it pops, a bio has a
\* pending wait only while that wait lasts, and its final pop has a call row.
PairInv ==
    missed = 0 =>
       /\ \A t \in popCall : popping[t] # None /\ observed[t]
       /\ \A b \in Bios : pending[b] # None =>
             /\ waits[pending[b]].at # "done"
             /\ \A t \in Tasks : popping[t] = pending[b] => t \in popCall /\ observed[t]

\* One missed probe leaves a healthy session without a pending wait that could be
\* taken for another one.
FreshInv ==
    missed <= 1 /\ ~Unhealthy => \A i \in 1..Len(waits) :
       waits[i].at # "done" /\ CountedOp(waits[i].op) => pending[waits[i].bio] \in {None, i}

TracerInv ==
    /\ KernelType /\ ProbeType /\ WaitInv /\ PopInv /\ ObjectInv /\ OwnerInv
    /\ SampleInv /\ CreditInv /\ PairInv /\ FreshInv
    /\ CreditedOnceToItsOwner /\ PairedUnlessMissed

\* Update runs in an open session only, or in one that has just been cancelled.
PhaseInv ==
    /\ phase # "idle" => session \in {"open", "restarting", "stopping"}
    /\ phase = "idle" => seenRetired = {}

\* A lifetime with a marker, or reclaimed, is over.
OverInv ==
    /\ \A g \in Groups : live[g] # None => live[g] \in used
    /\ \A g, h \in Groups : live[g] # None /\ live[g] = live[h] => g = h
    /\ ~devicesChanged => \A s \in retired \cup seenRetired \cup reclaimed :
          s \in used /\ s # None /\ \A g \in Groups : live[g] # s

\* The rows of the lifetimes whose markers were read first are in the snapshot.
SnapshotInv ==
    ~devicesChanged => \A s \in seenRetired, k \in rows : k[1] = s =>
       /\ phase = "rows" => k \in mustRead
       /\ phase \in {"status", "reclaim"} => k \in currentRows

CollectInv == PhaseInv /\ OverInv /\ SnapshotInv /\ ReclaimedForGood

IInv == TracerInv /\ CollectInv

-----------------------------------------------------------------------------
(* Types and programs.                                                     *)

\* The fields of a wait; its lifetime is a serial and so not None.
LEMMA WaitFields ==
    ASSUME KernelType, NEW i \in 1..Len(waits)
    PROVE  /\ waits[i].bio \in Bios /\ waits[i].group \in Groups
           /\ waits[i].serial \in Serials /\ waits[i].serial # None
           /\ waits[i].op \in Ops \cup IgnoredOps
           /\ waits[i].at \in {"group", "root", "popped", "done"}
           /\ i # None
<1>1. waits[i] \in WaitRecord
  BY SMTT(30) DEF KernelType
<1>2. waits[i].serial # None /\ i # None
  BY SMTT(30), <1>1, CollectorConstants DEF WaitRecord, None
<1> QED
  BY Zenon, <1>1, <1>2 DEF WaitRecord

\* The programs that a prefix of AttachOrder holds.
LEMMA Programs ==
    ASSUME hooks \in Attached
    PROVE  /\ Probed("add") <=> Full
           /\ Full => Probed("popEntry") /\ Probed("popReturn") /\ Probed("free")
           /\ Probed("popEntry") => Probed("popReturn")
<1> DEFINE H == {hooks[n] : n \in 1..Len(hooks)}
<1>1. CASE hooks = <<>>
  <2>1. H = {}
    BY SMTT(30), <1>1
  <2> QED
    BY Zenon, <1>1, <2>1 DEF Probed, Full, AttachOrder
<1>2. CASE hooks = <<"free">>
  <2>1. H = {"free"}
    BY SMTT(30), <1>2
  <2> QED
    BY Zenon, <1>2, <2>1 DEF Probed, Full, AttachOrder
<1>3. CASE hooks = <<"free", "popReturn">>
  <2>1. H = {"free", "popReturn"}
    BY SMTT(30), <1>3
  <2> QED
    BY Zenon, <1>3, <2>1 DEF Probed, Full, AttachOrder
<1>4. CASE hooks = <<"free", "popReturn", "popEntry">>
  <2>1. H = {"free", "popReturn", "popEntry"}
    BY SMTT(30), <1>4
  <2> QED
    BY Zenon, <1>4, <2>1 DEF Probed, Full, AttachOrder
<1>5. CASE hooks = <<"free", "popReturn", "popEntry", "add">>
  <2>1. H = {"free", "popReturn", "popEntry", "add"}
    BY SMTT(30), <1>5
  <2> QED
    BY Zenon, <1>5, <2>1 DEF Probed, Full, AttachOrder, Active
<1> QED
  BY Zenon, <1>1, <1>2, <1>3, <1>4, <1>5 DEF Attached

\* The guards of the kernel model speak of the waits that are not done.
LEMMA NotDone ==
    ASSUME KernelType, PopInv, NEW i \in 1..Len(waits)
    PROVE  /\ Held(i) \/ Popped(i) <=> waits[i].at # "done"
           /\ i \in Ids
<1>1. waits[i].at \in {"group", "root", "popped", "done"} /\ i # None
  BY Zenon, WaitFields
<1>2. Popped(i) => waits[i].at = "popped"
  BY Zenon, <1>1 DEF PopInv, Popped
<1>3. waits[i].at = "popped" => Popped(i)
  BY Zenon DEF PopInv
<1>4. i \in Ids
  BY SMTT(30), TracerConstants DEF KernelType, Ids
<1> QED
  BY Zenon, <1>1, <1>2, <1>3, <1>4 DEF Held

-----------------------------------------------------------------------------
(* The collector.                                                          *)

\* The collector's steps leave the tracer's failure word and the counted waits
\* alone, and the programs stay attached.
LEMMA CollectorLeaves ==
    ASSUME PhaseInv, CollectorSteps(FALSE)
    PROVE  settled' = settled /\ failure' = failure /\ (session' \in Active <=> session \in Active)
<1>1. CASE DeviceChange
  BY Zenon, <1>1 DEF DeviceChange, mapVars, ghostVars, Active
<1>2. CASE CancelSession
  BY Zenon, <1>2 DEF CancelSession, mapVars, ghostVars, Active
<1>3. CASE CaptureFails
  BY Zenon, <1>3 DEF CaptureFails, UpdateFails, mapVars
<1>4. CASE BeginUpdate(FALSE)
  BY Zenon, <1>4 DEF BeginUpdate, UpdateFails, UpdateGoesOn, mapVars, sessionVars, ghostVars, Active
<1>5. CASE CaptureRetired
  BY Zenon, <1>5 DEF CaptureRetired, UpdateGoesOn, mapVars, sessionVars, ghostVars
<1>6. CASE EndCapture
  BY Zenon, <1>6 DEF EndCapture, UpdateFails, UpdateGoesOn, mapVars, sessionVars, ghostVars, Active, PhaseInv
<1>7. CASE CommitSnapshot
  BY Zenon, <1>7 DEF CommitSnapshot, UpdateFails, UpdateGoesOn, mapVars, sessionVars, ghostVars
<1>8. CASE ResolveFailure
  BY Zenon, <1>8 DEF ResolveFailure, UpdateFails, mapVars, Active, PhaseInv
<1>9. CASE EndUpdate
  BY Zenon, <1>9 DEF EndUpdate, UpdateGoesOn, mapVars, sessionVars, ghostVars
<1>10. ASSUME NEW k \in Keys, CaptureRow(k)
       PROVE  settled' = settled /\ failure' = failure /\ session' = session
  BY Zenon, <1>10 DEF CaptureRow, UpdateGoesOn, mapVars, sessionVars, ghostVars
<1>11. ASSUME NEW s \in Serials, ReclaimIdentity(s)
       PROVE  settled' = settled /\ failure' = failure /\ session' = session
  BY Zenon, <1>11 DEF ReclaimIdentity, sessionVars
<1> QED
  BY Zenon, <1>1, <1>2, <1>3, <1>4, <1>5, <1>6, <1>7, <1>8, <1>9, <1>10, <1>11
     DEF CollectorSteps, UpdateSteps

\* A step that reads and writes nothing that the collector's invariant speaks
\* of, except that an Update has returned.
LEMMA UpdateEnds ==
    ASSUME CollectInv, UNCHANGED <<live, used, rows, retired, reclaimed, devicesChanged>>,
           phase' = "idle", seenRetired' = {}
    PROVE  CollectInv'
<1>1. PhaseInv'
  BY Zenon DEF PhaseInv
<1>2. OverInv'
  BY Zenon DEF CollectInv, OverInv
<1>3. SnapshotInv'
  BY Zenon DEF SnapshotInv
<1>4. ReclaimedForGood'
  BY Zenon DEF CollectInv, ReclaimedForGood
<1> QED
  BY Zenon, <1>1, <1>2, <1>3, <1>4 DEF CollectInv

\* A step of an Update that goes on: the markers it has read were there, and the
\* rows of those are still on the way into the snapshot.
LEMMA UpdateGoes ==
    ASSUME CollectInv, UNCHANGED <<live, used, rows, retired, reclaimed, devicesChanged, session>>,
           session \in {"open", "restarting", "stopping"}, phase' # "idle",
           seenRetired' \subseteq seenRetired \cup retired,
           SnapshotInv'
    PROVE  CollectInv'
<1>1. PhaseInv'
  BY Zenon DEF PhaseInv
<1>2. OverInv'
  BY Zenon DEF CollectInv, OverInv
<1>3. ReclaimedForGood'
  BY Zenon DEF CollectInv, ReclaimedForGood
<1> QED
  BY Zenon, <1>1, <1>2, <1>3 DEF CollectInv

\* The deletion of the rows of one identity.
LEMMA IdentityReclaimed ==
    ASSUME CollectInv, NEW s \in Serials, ReclaimIdentity(s), UNCHANGED <<live, used>>
    PROVE  CollectInv'
<1> DEFINE own == {k \in currentRows : k[1] = s}
<1>1. PICK gone \in SUBSET own, markerGone \in BOOLEAN :
         /\ markerGone => gone = own
         /\ rows' = rows \ gone /\ currentRows' = currentRows \ gone
         /\ retired' = IF markerGone THEN retired \ {s} ELSE retired
         /\ reclaimed' = IF markerGone THEN reclaimed \cup {s} ELSE reclaimed
  BY Zenon DEF ReclaimIdentity, MarkerMayGo
<1>2. /\ phase = "reclaim" /\ phase' = phase /\ s \in seenRetired /\ seenRetired' = seenRetired \ {s}
      /\ UNCHANGED <<session, devicesChanged>>
  BY Zenon DEF ReclaimIdentity, Reclaimable, sessionVars
<1>3. PhaseInv'
  BY Zenon, <1>2 DEF PhaseInv, CollectInv
<1>4. OverInv'
  BY SMTT(30), <1>1, <1>2 DEF CollectInv, OverInv
<1>5. SnapshotInv'
  BY Zenon, <1>1, <1>2 DEF CollectInv, SnapshotInv
<1>6. ReclaimedForGood'
  <2> SUFFICES ASSUME ~devicesChanged, NEW r \in reclaimed', NEW k \in rows', k[1] = r
               PROVE  FALSE
    BY Zenon, <1>2 DEF ReclaimedForGood
  <2>1. CASE r \in reclaimed
    BY Zenon, <1>1, <2>1 DEF CollectInv, ReclaimedForGood
  <2>2. CASE r \notin reclaimed
    <3>1. markerGone /\ r = s
      BY Zenon, <1>1, <2>2
    <3>2. k \in currentRows
      BY Zenon, <1>1, <1>2, <3>1 DEF CollectInv, SnapshotInv
    <3> QED
      BY Zenon, <1>1, <3>1, <3>2
  <2> QED
    BY Zenon, <2>1, <2>2
<1> QED
  BY Zenon, <1>3, <1>4, <1>5, <1>6 DEF CollectInv

\* The steps of the collector keep its invariant.
LEMMA CollectorKeeps ==
    ASSUME CollectInv, CollectorSteps(FALSE), UNCHANGED <<live, used>>
    PROVE  CollectInv'
<1>1. CASE DeviceChange
  <2>1. devicesChanged' /\ UNCHANGED <<phase, seenRetired, session>>
    BY Zenon, <1>1 DEF DeviceChange, updateVars
  <2>2. PhaseInv' /\ SnapshotInv' /\ ReclaimedForGood'
    BY Zenon, <2>1 DEF CollectInv, PhaseInv, SnapshotInv, ReclaimedForGood
  <2>3. OverInv'
    BY Zenon, <2>1 DEF CollectInv, OverInv
  <2> QED
    BY Zenon, <2>2, <2>3 DEF CollectInv
<1>2. CASE CancelSession
  <2>1. /\ session' = "stopping"
        /\ UNCHANGED <<rows, retired, phase, seenRetired, mustRead, currentRows, devicesChanged, reclaimed>>
    BY Zenon, <1>2 DEF CancelSession, mapVars, updateVars, ghostVars
  <2>2. PhaseInv'
    BY Zenon, <2>1 DEF CollectInv, PhaseInv
  <2>3. OverInv'
    BY Zenon, <2>1 DEF CollectInv, OverInv
  <2>4. SnapshotInv' /\ ReclaimedForGood'
    BY Zenon, <2>1 DEF CollectInv, SnapshotInv, ReclaimedForGood
  <2> QED
    BY Zenon, <2>2, <2>3, <2>4 DEF CollectInv
<1>3. ASSUME NEW n, UpdateFails(n) PROVE CollectInv'
  <2>1. UNCHANGED <<rows, retired, reclaimed, devicesChanged>> /\ phase' = "idle" /\ seenRetired' = {}
    BY Zenon, <1>3 DEF UpdateFails, UpdateReturns, mapVars
  <2> QED
    BY Zenon, <2>1, UpdateEnds
<1>4. ASSUME UpdateGoesOn
      PROVE  UNCHANGED <<rows, retired, reclaimed, devicesChanged, session>>
  BY Zenon, <1>4 DEF UpdateGoesOn, mapVars, sessionVars, ghostVars
<1>5. phase # "idle" => session \in {"open", "restarting", "stopping"}
  BY Zenon DEF CollectInv, PhaseInv
<1>6. CASE CaptureFails
  BY Zenon, <1>6, <1>3 DEF CaptureFails
<1>7. CASE BeginUpdate(FALSE)
  <2>1. CASE UpdateFails("restarting")
    BY Zenon, <2>1, <1>3
  <2>2. CASE UpdateGoesOn /\ phase' \in {"resolve", "retired"} /\ seenRetired' \in {seenRetired, retired}
    <3>1. SnapshotInv'
      BY Zenon, <2>2 DEF SnapshotInv
    <3>2. session = "open" /\ phase' # "idle"
      BY Zenon, <1>7, <2>2 DEF BeginUpdate
    <3> QED
      BY Zenon, <3>1, <3>2, <2>2, <1>4, UpdateGoes
  <2> QED
    BY Zenon, <2>1, <2>2, <1>7 DEF BeginUpdate
<1>8. CASE CaptureRetired
  <2>1. /\ phase = "retired" /\ phase' = "rows" /\ mustRead' = rows /\ UpdateGoesOn
        /\ seenRetired' \subseteq seenRetired \cup retired
    BY Zenon, <1>8 DEF CaptureRetired
  <2>2. SnapshotInv'
    BY Zenon, <2>1, <1>4 DEF SnapshotInv
  <2> QED
    BY Zenon, <2>1, <2>2, <1>4, <1>5, UpdateGoes
<1>9. CASE EndCapture
  <2>1. CASE UpdateFails("restarting")
    BY Zenon, <2>1, <1>3
  <2>2. CASE phase' = "status" /\ UpdateGoesOn /\ UNCHANGED <<seenRetired, mustRead, currentRows>>
    <3>1. phase = "rows" /\ mustRead \subseteq currentRows
      BY Zenon, <1>9 DEF EndCapture
    <3>2. SnapshotInv'
      BY Zenon, <3>1, <2>2, <1>4 DEF CollectInv, SnapshotInv
    <3> QED
      BY Zenon, <3>1, <3>2, <2>2, <1>4, <1>5, UpdateGoes
  <2> QED
    BY Zenon, <2>1, <2>2, <1>9 DEF EndCapture
<1>10. CASE CommitSnapshot
  <2>1. CASE UpdateFails(session)
    BY Zenon, <2>1, <1>3
  <2>2. CASE /\ phase = "status" /\ phase' \in {"resolve", "reclaim"}
             /\ UNCHANGED <<rows, retired, reclaimed, devicesChanged, session>>
             /\ UNCHANGED <<seenRetired, mustRead, currentRows>>
    <3>1. SnapshotInv'
      BY Zenon, <2>2 DEF CollectInv, SnapshotInv
    <3> QED
      BY Zenon, <3>1, <2>2, <1>5, UpdateGoes
  <2> QED
    BY Zenon, <2>1, <2>2, <1>4, <1>10 DEF CommitSnapshot, mapVars, sessionVars
<1>11. CASE ResolveFailure
  BY Zenon, <1>11, <1>3 DEF ResolveFailure
<1>12. CASE EndUpdate
  <2>1. phase' = "idle" /\ seenRetired' = {} /\ UpdateGoesOn
    BY Zenon, <1>12 DEF EndUpdate, UpdateReturns
  <2> QED
    BY Zenon, <2>1, <1>4, UpdateEnds
<1>13. ASSUME NEW k \in Keys, CaptureRow(k) PROVE CollectInv'
  <2>1. /\ phase = "rows" /\ UpdateGoesOn /\ UNCHANGED <<phase, seenRetired, mustRead>>
        /\ currentRows \subseteq currentRows'
    BY Zenon, <1>13 DEF CaptureRow
  <2>2. SnapshotInv'
    BY Zenon, <2>1, <1>4 DEF CollectInv, SnapshotInv
  <2> QED
    BY Zenon, <2>1, <2>2, <1>4, <1>5, UpdateGoes
<1> QED
  BY Zenon, <1>1, <1>2, <1>6, <1>7, <1>8, <1>9, <1>10, <1>11, <1>12, <1>13, IdentityReclaimed
     DEF CollectorSteps, UpdateSteps

-----------------------------------------------------------------------------
(* The collector's invariant and the steps of the tracer.                  *)

\* New rows are of lifetimes that are not over.
LEMMA LiveRows ==
    ASSUME CollectInv, UNCHANGED <<updateVars, sessionVars, reclaimed, retired, live, used>>,
           \A k \in rows' : k \in rows \/ \E g \in Groups : k[1] = live[g]
    PROVE  CollectInv'
<1>1. UNCHANGED <<phase, seenRetired, mustRead, currentRows, session, devicesChanged>>
  BY Zenon DEF updateVars, sessionVars
<1>2. PhaseInv'
  BY Zenon, <1>1 DEF CollectInv, PhaseInv
<1>3. OverInv'
  BY Zenon, <1>1 DEF CollectInv, OverInv
<1>4. ASSUME ~devicesChanged, NEW s \in seenRetired \cup reclaimed, NEW k \in rows', k[1] = s
      PROVE  k \in rows
  BY Zenon, <1>4 DEF CollectInv, OverInv
<1>5. SnapshotInv'
  <2> SUFFICES ASSUME ~devicesChanged, NEW s \in seenRetired, NEW k \in rows', k[1] = s
               PROVE  /\ phase = "rows" => k \in mustRead
                      /\ phase \in {"status", "reclaim"} => k \in currentRows
    BY Zenon, <1>1 DEF SnapshotInv
  <2> QED
    BY Zenon, <1>4 DEF CollectInv, SnapshotInv
<1>6. ReclaimedForGood'
  <2> SUFFICES ASSUME ~devicesChanged, NEW s \in reclaimed, NEW k \in rows', k[1] = s
               PROVE  FALSE
    BY Zenon, <1>1 DEF ReclaimedForGood
  <2> QED
    BY Zenon, <1>4 DEF CollectInv, ReclaimedForGood
<1> QED
  BY Zenon, <1>2, <1>3, <1>5, <1>6 DEF CollectInv

\* A new group has a serial of its own, or the topology has changed.
LEMMA CreateCollect ==
    ASSUME CollectInv, KernelType, NEW g \in Groups, NEW s \in Serials, GroupCreate(g, s)
    PROVE  CollectInv'
<1>1. UNCHANGED <<phase, seenRetired, mustRead, currentRows, session, devicesChanged,
                  rows, retired, reclaimed>>
  BY Zenon DEF GroupCreate, collectorVars, mapVars, updateVars, sessionVars, ghostVars
<1>2. PhaseInv'
  BY Zenon, <1>1 DEF CollectInv, PhaseInv
<1>3. SnapshotInv'
  BY Zenon, <1>1 DEF CollectInv, SnapshotInv
<1>4. ReclaimedForGood'
  BY Zenon, <1>1 DEF CollectInv, ReclaimedForGood
<1>5. OverInv'
  <2>1. /\ live' = [live EXCEPT ![g] = s] /\ used' = used \cup {s} /\ live \in [Groups -> Serials \cup {None}]
        /\ \A h \in Groups : live[h] # s
        /\ s \in used => devicesChanged
    BY Zenon DEF GroupCreate, KernelType, Range
  <2>2. \A h \in Groups : live'[h] = IF h = g THEN s ELSE live[h]
    BY Zenon, <2>1
  <2>3. \A h \in Groups : live'[h] # None => live'[h] \in used'
    BY Zenon, <2>1, <2>2 DEF CollectInv, OverInv
  <2>4. \A h, j \in Groups : live'[h] # None /\ live'[h] = live'[j] => h = j
    BY Zenon, <2>1, <2>2 DEF CollectInv, OverInv
  <2>5. ASSUME ~devicesChanged, NEW t \in retired \cup seenRetired \cup reclaimed
        PROVE  t \in used' /\ t # None /\ \A h \in Groups : live'[h] # t
    BY Zenon, <2>1, <2>2, <2>5 DEF CollectInv, OverInv
  <2> QED
    BY Zenon, <1>1, <2>3, <2>4, <2>5 DEF OverInv
<1> QED
  BY Zenon, <1>2, <1>3, <1>4, <1>5 DEF CollectInv

\* The marker that a freed group leaves is that of its lifetime, which is over.
LEMMA FreeCollect ==
    ASSUME CollectInv, KernelType, OwnerInv, NEW g \in Groups, GroupFree(g)
    PROVE  CollectInv'
<1>1. UNCHANGED <<phase, seenRetired, mustRead, currentRows, session, devicesChanged,
                  rows, reclaimed, used>>
  BY Zenon DEF GroupFree, updateVars, sessionVars, ghostVars
<1>2. PhaseInv'
  BY Zenon, <1>1 DEF CollectInv, PhaseInv
<1>3. SnapshotInv'
  BY Zenon, <1>1 DEF CollectInv, SnapshotInv
<1>4. ReclaimedForGood'
  BY Zenon, <1>1 DEF CollectInv, ReclaimedForGood
<1>5. OverInv'
  <2>1. /\ live' = [live EXCEPT ![g] = None] /\ live \in [Groups -> Serials \cup {None}]
        /\ live[g] # None
    BY Zenon DEF GroupFree, KernelType
  <2>2. \A h \in Groups : live'[h] = IF h = g THEN None ELSE live[h]
    BY Zenon, <2>1
  <2>3. \A t \in retired' : t \in retired \/ t = live[g]
    BY Zenon DEF GroupFree, PdFreeProbe, OwnerInv
  <2>4. \A h \in Groups : live'[h] # None => live'[h] \in used
    BY Zenon, <2>2 DEF CollectInv, OverInv
  <2>5. \A h, j \in Groups : live'[h] # None /\ live'[h] = live'[j] => h = j
    BY Zenon, <2>2 DEF CollectInv, OverInv
  <2>6. ASSUME ~devicesChanged, NEW t \in retired' \cup seenRetired \cup reclaimed
        PROVE  t \in used /\ t # None /\ \A h \in Groups : live'[h] # t
    BY SMTT(30), <2>1, <2>2, <2>3, <2>6 DEF CollectInv, OverInv
  <2> QED
    BY Zenon, <1>1, <2>4, <2>5, <2>6 DEF OverInv
<1> QED
  BY Zenon, <1>2, <1>3, <1>4, <1>5 DEF CollectInv

\* An object that is loaded or closed has no markers, and no Update runs.
LEMMA ReplacedCollect ==
    ASSUME CollectInv, ObjectReplaced
    PROVE  CollectInv'
<1>1. /\ rows' = {} /\ retired' = {} /\ reclaimed' = {} /\ UNCHANGED <<phase, seenRetired, live, used>>
  BY Zenon DEF ObjectReplaced, OpenSession, CloseSession, EmptyObject, updateVars, kernelVars
<1>2. phase = "idle"
  BY Zenon DEF ObjectReplaced, OpenSession, CloseSession, CollectInv, PhaseInv
<1>3. seenRetired = {}
  BY Zenon, <1>2 DEF CollectInv, PhaseInv
<1>4. PhaseInv' /\ SnapshotInv' /\ ReclaimedForGood'
  BY Zenon, <1>1, <1>2, <1>3 DEF PhaseInv, SnapshotInv, ReclaimedForGood
<1>5. OverInv'
  BY Zenon, <1>1, <1>3 DEF CollectInv, OverInv
<1> QED
  BY Zenon, <1>4, <1>5 DEF CollectInv

\* publishSession opens the session.
LEMMA PublishCollect ==
    ASSUME CollectInv, Publish
    PROVE  CollectInv'
<1>1. /\ UNCHANGED <<phase, seenRetired, mustRead, currentRows, devicesChanged, rows, retired,
                     reclaimed, live, used>>
      /\ session' = "open"
  BY Zenon DEF Publish, mapVars, updateVars, ghostVars, ioVars, kernelVars
<1>2. PhaseInv'
  BY Zenon, <1>1 DEF CollectInv, PhaseInv
<1>3. OverInv'
  BY Zenon, <1>1 DEF CollectInv, OverInv
<1>4. SnapshotInv' /\ ReclaimedForGood'
  BY Zenon, <1>1 DEF CollectInv, SnapshotInv, ReclaimedForGood
<1> QED
  BY Zenon, <1>2, <1>3, <1>4 DEF CollectInv

\* A failed attachment: no Update runs in a session that is not open yet.
LEMMA AttachFailsCollect ==
    ASSUME CollectInv, AttachFails
    PROVE  CollectInv'
<1>1. /\ rows' = {} /\ retired' = {} /\ reclaimed' = {} /\ UNCHANGED <<phase, seenRetired, live, used>>
  BY Zenon DEF AttachFails, EmptyObject, updateVars, kernelVars
<1>2. phase = "idle"
  BY Zenon DEF AttachFails, CollectInv, PhaseInv
<1>3. seenRetired = {}
  BY Zenon, <1>2 DEF CollectInv, PhaseInv
<1>4. PhaseInv' /\ SnapshotInv' /\ ReclaimedForGood'
  BY Zenon, <1>1, <1>2, <1>3 DEF PhaseInv, SnapshotInv, ReclaimedForGood
<1>5. OverInv'
  BY Zenon, <1>1, <1>3 DEF CollectInv, OverInv
<1> QED
  BY Zenon, <1>4, <1>5 DEF CollectInv

\* The lifetime that AccountWait finds for a bio that is being popped.
LEMMA OwnerFound ==
    ASSUME KernelType, WaitInv, OwnerInv, NEW i \in 1..Len(waits), waits[i].at # "done"
    PROVE  /\ waits[i].group \in Groups /\ live[waits[i].group] = waits[i].serial
           /\ (IF owner[waits[i].group] # None THEN owner[waits[i].group] ELSE live[waits[i].group])
                 = waits[i].serial
<1>1. waits[i].group \in Groups /\ live[waits[i].group] = waits[i].serial
  BY Zenon, WaitFields DEF WaitInv
<1> QED
  BY Zenon, <1>1 DEF OwnerInv

\* The row that a final pop writes is that of the live group.
LEMMA PopCollect ==
    ASSUME CollectInv, KernelType, WaitInv, PopInv, OwnerInv,
           NEW t \in Tasks, NEW c \in CPUs, PopReturn(t, c)
    PROVE  CollectInv'
<1> DEFINE i == popping[t]
           g == waits[i].group
<1>1. i \in 1..Len(waits) /\ waits[i].at # "done"
  BY Zenon DEF PopReturn, PopInv
<1>2. /\ g \in Groups /\ live[g] = waits[i].serial
      /\ (IF owner[g] # None THEN owner[g] ELSE live[g]) = waits[i].serial
  BY Zenon, <1>1, OwnerFound
<1>3. rows' = rows \/ rows' = rows \cup {<<waits[i].serial, waits[i].op>>}
  <2>1. CASE UNCHANGED rows
    BY Zenon, <2>1
  <2>2. ASSUME NEW p, AccountWait(c, i, p)
        PROVE  rows' = rows \/ rows' = rows \cup {<<waits[i].serial, waits[i].op>>}
    <3>1. \/ rows' = rows
          \/ rows' = rows \cup {<<IF owner[g] # None THEN owner[g] ELSE live[g], waits[i].op>>}
      BY Zenon, <2>2 DEF AccountWait
    <3> QED
      BY Zenon, <1>2, <3>1
  <2>3. CASE PopReturnProbe(t, c)
    BY Zenon, <2>1, <2>2, <2>3 DEF PopReturnProbe
  <2> QED
    BY Zenon, <2>1, <2>3 DEF PopReturn
<1>4. \A k \in rows' : k \in rows \/ \E h \in Groups : k[1] = live[h]
  BY SMTT(30), <1>2, <1>3
<1>5. UNCHANGED <<updateVars, sessionVars, reclaimed, retired, live, used>>
  BY Zenon DEF PopReturn
<1> QED
  BY Zenon, <1>4, <1>5, LiveRows

-----------------------------------------------------------------------------
(* The tracer and the steps that are not of a bio.                         *)

\* Probes that were missed stay missed.
LEMMA FewBefore ==
    ASSUME missed \in Nat, missed' \in {missed, missed + 1}
    PROVE  /\ missed' <= 1 => missed <= 1
           /\ missed' = 0 => missed = 0
           /\ missed' = missed + 1 => missed' # 0 /\ (missed' <= 1 => missed = 0)
           /\ missed' \in Nat
BY SMTT(30)

\* The counted waits, when no wait is counted.
LEMMA CreditKept ==
    ASSUME CreditInv, CreditedOnceToItsOwner, credited' = credited, settled' = settled,
           missed' <= 1 => missed <= 1,
           \A i \in 1..Len(waits) : /\ waits'[i].serial = waits[i].serial /\ waits'[i].op = waits[i].op
                                    /\ waits[i].at = "done" => waits'[i].at = "done"
    PROVE  CreditedOnceToItsOwner'
<1>1. ASSUME NEW p \in credited
      PROVE  /\ waits'[p[1]].at = "done"
             /\ missed' <= 1 => p[2] = <<waits'[p[1]].serial, waits'[p[1]].op>>
             /\ \A q \in credited : q[1] = p[1] => q = p
  <2>1. p[1] \in 1..Len(waits)
    BY Zenon DEF CreditInv
  <2> QED
    BY Zenon, <2>1 DEF CreditedOnceToItsOwner
<1>2. \A k \in Keys : settled'[k] = Cardinality({p \in credited' : p[2] = k})
  BY Zenon DEF CreditedOnceToItsOwner
<1> QED
  BY Zenon, <1>1, <1>2 DEF CreditedOnceToItsOwner

\* A step that leaves the kernel and the recorded samples alone.
LEMMA TracerFrame ==
    ASSUME TracerInv, UNCHANGED <<kernelVars, pending, owner, popCall, credited, settled, failure>>,
           hooks' \in Attached, ObjectInv'
    PROVE  TracerInv'
<1>1. UNCHANGED <<waits, live, popping, observed, missed>>
  BY Zenon DEF kernelVars
<1>2. KernelType' /\ WaitInv'
  BY Zenon, <1>1 DEF TracerInv, KernelType, WaitInv
<1>3. PopInv'
  BY Zenon, <1>1 DEF TracerInv, PopInv, Popped
<1>4. ProbeType'
  BY Zenon DEF TracerInv, ProbeType
<1>5. OwnerInv' /\ CreditInv' /\ SampleInv'
  BY Zenon, <1>1 DEF TracerInv, OwnerInv, CreditInv, SampleInv
<1>6. PairInv'
  BY Zenon, <1>1 DEF TracerInv, PairInv
<1>7. FreshInv' /\ PairedUnlessMissed'
  BY Zenon, <1>1 DEF TracerInv, FreshInv, Unhealthy, PairedUnlessMissed
<1>8. CreditedOnceToItsOwner'
  BY Zenon, <1>1, CreditKept DEF TracerInv
<1> QED
  BY Zenon, <1>2, <1>3, <1>4, <1>5, <1>6, <1>7, <1>8 DEF TracerInv

\* The collector, and the publication of the session.
LEMMA CollectTracer ==
    ASSUME TracerInv, PhaseInv, Collect
    PROVE  TracerInv'
<1>1. settled' = settled /\ failure' = failure /\ (session' \in Active <=> session \in Active)
  BY Zenon, CollectorLeaves DEF Collect
<1>2. UNCHANGED <<kernelVars, hooks, pending, owner, popCall, credited>>
  BY Zenon DEF Collect, ioVars, probeVars
<1>3. (Full' <=> Full) /\ (Probed("popEntry")' <=> Probed("popEntry"))
  BY Zenon, <1>1, <1>2 DEF Full, Probed, Active
<1>4. ObjectInv' /\ hooks' \in Attached
  BY Zenon, <1>2, <1>3 DEF TracerInv, ObjectInv, ProbeType
<1> QED
  BY Zenon, <1>1, <1>2, <1>4, TracerFrame

\* The collector publishes a snapshot: the tracer's state stays.
LEMMA PublishTracer ==
    ASSUME TracerInv, Publish
    PROVE  TracerInv'
<1>1. settled' = settled /\ failure' = failure /\ session \in Active /\ session' \in Active
  BY Zenon DEF Publish, mapVars, ghostVars, Active
<1>2. UNCHANGED <<kernelVars, hooks, pending, owner, popCall, credited>>
  BY Zenon DEF Publish, ioVars, probeVars
<1>3. (Full' <=> Full) /\ (Probed("popEntry")' <=> Probed("popEntry"))
  BY Zenon, <1>1, <1>2 DEF Full, Probed, Active
<1>4. ObjectInv' /\ hooks' \in Attached
  BY Zenon, <1>2, <1>3 DEF TracerInv, ObjectInv, ProbeType
<1> QED
  BY Zenon, <1>1, <1>2, <1>4, TracerFrame

\* The next prefix of AttachOrder; what was attached stays attached.
LEMMA NextProgram ==
    ASSUME hooks \in Attached, AttachNext
    PROVE  /\ hooks' \in Attached /\ ~Full
           /\ Probed("popEntry") => Probed("popEntry")'
<1>1. /\ Len(hooks) < 4 /\ hooks' = Append(hooks, AttachOrder[Len(hooks) + 1])
      /\ session = "attaching" /\ session' = session
  BY Zenon DEF AttachNext, AttachOrder, collectorVars, sessionVars
<1>2. ~Full
  BY SMTT(30), <1>1 DEF Full, AttachOrder
<1>3. hooks \in {<<>>, <<"free">>, <<"free", "popReturn">>, <<"free", "popReturn", "popEntry">>}
  BY SMTT(30), <1>1 DEF Attached
<1> DEFINE P == {"free", "popReturn", "popEntry", "add"}
<1>4. /\ "free" \in P /\ "popReturn" \in P /\ "popEntry" \in P /\ "add" \in P
  BY Zenon
<1> HIDE DEF P
<1>5. hooks \in Seq(P) /\ AttachOrder \in Seq(P) /\ Len(AttachOrder) = 4 /\ Len(hooks) \in Nat
  <2>1. AttachOrder \in Seq(P) /\ Len(AttachOrder) = 4
    BY SMTT(30), <1>4 DEF AttachOrder
  <2>2. CASE hooks = <<>>
    BY SMTT(30), <2>1, <2>2
  <2>3. CASE hooks = <<"free">>
    BY SMTT(30), <1>4, <2>1, <2>3
  <2>4. CASE hooks = <<"free", "popReturn">>
    BY SMTT(30), <1>4, <2>1, <2>4
  <2>5. CASE hooks = <<"free", "popReturn", "popEntry">>
    BY SMTT(30), <1>4, <2>1, <2>5
  <2> QED
    BY Zenon, <1>3, <2>2, <2>3, <2>4, <2>5
<1>6. \A n \in 1..Len(hooks) : hooks[n] = AttachOrder[n]
  BY SMTT(30), <1>3 DEF AttachOrder
<1>7. /\ hooks' \in Seq(P) /\ Len(hooks') = Len(hooks) + 1
      /\ \A n \in 1..Len(hooks) : hooks'[n] = hooks[n]
      /\ hooks'[Len(hooks) + 1] = AttachOrder[Len(hooks) + 1]
  BY SMTT(30), <1>1, <1>5
<1>8. Probed("popEntry") => Probed("popEntry")'
  BY SMTT(30), <1>1, <1>5, <1>7 DEF Probed
<1>9. hooks' \in Attached
  <2>1. ASSUME NEW s \in Seq(P), Len(s) = Len(hooks'), \A n \in 1..Len(s) : s[n] = AttachOrder[n]
        PROVE  hooks' = s
    BY SMTT(30), <1>5, <1>6, <1>7, <2>1, SeqEqual
  <2>2. CASE hooks = <<>>
    <3>1. <<"free">> \in Seq(P) /\ Len(<<"free">>) = 1 /\ Len(hooks') = 1
      BY SMTT(30), <1>4, <1>7, <2>2
    <3>2. \A n \in 1..1 : <<"free">>[n] = AttachOrder[n]
      BY SMTT(30) DEF AttachOrder
    <3> QED
      BY Zenon, <2>1, <3>1, <3>2 DEF Attached
  <2>3. CASE hooks = <<"free">>
    <3>1. <<"free", "popReturn">> \in Seq(P) /\ Len(<<"free", "popReturn">>) = 2 /\ Len(hooks') = 2
      BY SMTT(30), <1>4, <1>7, <2>3
    <3>2. \A n \in 1..2 : <<"free", "popReturn">>[n] = AttachOrder[n]
      BY SMTT(30) DEF AttachOrder
    <3> QED
      BY Zenon, <2>1, <3>1, <3>2 DEF Attached
  <2>4. CASE hooks = <<"free", "popReturn">>
    <3>1. /\ <<"free", "popReturn", "popEntry">> \in Seq(P)
          /\ Len(<<"free", "popReturn", "popEntry">>) = 3 /\ Len(hooks') = 3
      BY SMTT(30), <1>4, <1>7, <2>4
    <3>2. \A n \in 1..3 : <<"free", "popReturn", "popEntry">>[n] = AttachOrder[n]
      BY SMTT(30) DEF AttachOrder
    <3> QED
      BY Zenon, <2>1, <3>1, <3>2 DEF Attached
  <2>5. CASE hooks = <<"free", "popReturn", "popEntry">>
    <3>1. Len(hooks') = 4 /\ AttachOrder \in Seq(P) /\ Len(AttachOrder) = 4
      BY SMTT(30), <1>5, <1>7, <2>5
    <3>2. hooks' = AttachOrder
      BY Zenon, <2>1, <3>1
    <3> QED
      BY Zenon, <3>2 DEF Attached, AttachOrder
  <2> QED
    BY Zenon, <1>3, <2>2, <2>3, <2>4, <2>5
<1> QED
  BY Zenon, <1>2, <1>8, <1>9

\* One more program: until the last is attached no wait is recorded.
LEMMA AttachTracer ==
    ASSUME TracerInv, AttachNext
    PROVE  TracerInv'
<1>1. UNCHANGED <<kernelVars, pending, owner, popCall, credited, settled, failure>>
  BY Zenon DEF AttachNext, collectorVars, mapVars, ghostVars
<1>2. hooks' \in Attached /\ ~Full /\ (Probed("popEntry") => Probed("popEntry")')
  BY Zenon, NextProgram DEF TracerInv, ProbeType
<1>3. ObjectInv'
  BY Zenon, <1>1, <1>2 DEF TracerInv, ObjectInv
<1> QED
  BY Zenon, <1>1, <1>2, <1>3, TracerFrame

\* A new object has empty maps; the pops that are running find no call row in it.
LEMMA EmptyTracer ==
    ASSUME TracerInv, UNCHANGED kernelVars, hooks' = <<>>,
           pending' = [b \in Bios |-> None], owner' = [g \in Groups |-> None],
           popCall' = {}, credited' = {}, settled' = ZeroTotals, failure' = "none"
    PROVE  TracerInv'
<1>1. UNCHANGED <<waits, live, popping, observed, missed>>
  BY Zenon DEF kernelVars
<1>2. /\ \A b \in Bios : pending'[b] = None
      /\ \A g \in Groups : owner'[g] = None
  BY Zenon
<1>3. KernelType' /\ WaitInv'
  BY Zenon, <1>1 DEF TracerInv, KernelType, WaitInv
<1>4. PopInv'
  BY Zenon, <1>1 DEF TracerInv, PopInv, Popped
<1>5. ProbeType'
  <2>1. pending' \in [Bios -> Nat] /\ owner' \in [Groups -> Serials \cup {None}]
    BY Zenon DEF None
  <2>2. settled' \in [Keys -> Nat] /\ hooks' \in Attached
    BY Zenon DEF ZeroTotals, Attached
  <2>3. credited' \subseteq Nat \X Keys /\ IsFiniteSet(credited')
    BY Zenon, FS_EmptySet
  <2> QED
    BY Zenon, <2>1, <2>2, <2>3 DEF ProbeType
<1>6. ObjectInv' /\ OwnerInv' /\ SampleInv' /\ CreditInv' /\ PairInv'
  BY Zenon, <1>2 DEF ObjectInv, OwnerInv, SampleInv, CreditInv, PairInv
<1>7. FreshInv'
  <2> SUFFICES ASSUME NEW i \in 1..Len(waits) PROVE pending'[waits[i].bio] = None
    BY Zenon, <1>1 DEF FreshInv
  <2> QED
    BY Zenon, <1>2, WaitFields DEF TracerInv
<1>8. PairedUnlessMissed'
  BY Zenon DEF PairedUnlessMissed
<1>9. CreditedOnceToItsOwner'
  <2>1. ASSUME NEW k \in Keys PROVE settled'[k] = Cardinality({p \in credited' : p[2] = k})
    <3>1. {p \in credited' : p[2] = k} = {}
      BY Zenon
    <3> QED
      BY Zenon, <3>1, FS_EmptySet DEF ZeroTotals
  <2> QED
    BY Zenon, <2>1 DEF CreditedOnceToItsOwner
<1> QED
  BY Zenon, <1>3, <1>4, <1>5, <1>6, <1>7, <1>8, <1>9 DEF TracerInv

\* A new object has empty maps.
LEMMA ReplacedTracer ==
    ASSUME TracerInv, ObjectReplaced \/ AttachFails
    PROVE  TracerInv'
<1>1. /\ UNCHANGED kernelVars /\ hooks' = <<>>
      /\ pending' = [b \in Bios |-> None] /\ owner' = [g \in Groups |-> None]
      /\ popCall' = {} /\ credited' = {} /\ EmptyObject
  BY Zenon DEF ObjectReplaced, OpenSession, CloseSession, AttachFails
<1>2. settled' = ZeroTotals /\ failure' = "none"
  BY Zenon, <1>1 DEF EmptyObject
<1> QED
  BY Zenon, <1>1, <1>2, EmptyTracer

\* A group that no bio is held back in comes or goes.
LEMMA GroupStep ==
    ASSUME TracerInv, NEW g \in Groups, NEW x \in Serials \cup {None},
           live' = [live EXCEPT ![g] = x],
           \A i \in 1..Len(waits) : waits[i].at # "done" => waits[i].group # g,
           UNCHANGED <<waits, popping, observed, missed, hooks, pending, popCall, credited, settled, session>>,
           failure' \in {failure, "retire"},
           owner' \in [Groups -> Serials \cup {None}], OwnerInv',
           \A h \in Groups : owner[h] = None => owner'[h] = None
    PROVE  TracerInv'
<1>1. live \in [Groups -> Serials \cup {None}]
  BY Zenon DEF TracerInv, KernelType
<1>2. \A h \in Groups : h # g => live'[h] = live[h]
  BY Zenon, <1>1
<1>3. KernelType'
  BY Zenon, <1>1 DEF TracerInv, KernelType
<1>4. ProbeType'
  BY Zenon DEF TracerInv, ProbeType
<1>5. WaitInv'
  <2>1. ASSUME NEW i \in 1..Len(waits), waits[i].at # "done"
        PROVE  live'[waits[i].group] = waits[i].serial
    <3>1. waits[i].group \in Groups /\ waits[i].group # g
      BY Zenon, <2>1, WaitFields DEF TracerInv
    <3> QED
      BY Zenon, <1>2, <2>1, <3>1 DEF TracerInv, WaitInv
  <2> QED
    BY Zenon, <2>1 DEF TracerInv, WaitInv
<1>6. PopInv'
  BY Zenon DEF TracerInv, PopInv, Popped
<1>7. ObjectInv'
  BY Zenon DEF TracerInv, ObjectInv, Full, Probed
<1>8. SampleInv' /\ CreditInv' /\ PairInv'
  BY Zenon DEF TracerInv, SampleInv, CreditInv, PairInv
<1>9. FreshInv' /\ PairedUnlessMissed'
  BY Zenon DEF TracerInv, FreshInv, Unhealthy, PairedUnlessMissed
<1>10. CreditedOnceToItsOwner'
  BY Zenon, CreditKept DEF TracerInv
<1> QED
  BY Zenon, <1>3, <1>4, <1>5, <1>6, <1>7, <1>8, <1>9, <1>10 DEF TracerInv

\* A group is created: no bio is queued in it yet.
LEMMA CreateTracer ==
    ASSUME TracerInv, NEW g \in Groups, NEW s \in Serials, GroupCreate(g, s)
    PROVE  TracerInv'
<1>1. /\ live' = [live EXCEPT ![g] = s] /\ live[g] = None
      /\ UNCHANGED <<waits, popping, observed, missed, hooks, pending, owner, popCall, credited,
                     settled, session, failure>>
  BY Zenon DEF GroupCreate, collectorVars, mapVars, sessionVars, ghostVars, probeVars
<1>2. \A i \in 1..Len(waits) : waits[i].at # "done" => waits[i].group # g
  BY Zenon, <1>1, WaitFields DEF TracerInv, WaitInv
<1>3. owner' \in [Groups -> Serials \cup {None}]
  BY Zenon, <1>1 DEF TracerInv, ProbeType
<1>4. OwnerInv'
  <2>1. live \in [Groups -> Serials \cup {None}]
    BY Zenon DEF TracerInv, KernelType
  <2>2. \A h \in Groups : h # g => live'[h] = live[h]
    BY Zenon, <1>1, <2>1
  <2> QED
    BY Zenon, <1>1, <2>2 DEF TracerInv, OwnerInv
<1> QED
  BY Zenon, <1>1, <1>2, <1>3, <1>4, GroupStep

\* A group that holds no bio is freed, and the probe drops its owner.
LEMMA FreeTracer ==
    ASSUME TracerInv, NEW g \in Groups, GroupFree(g)
    PROVE  TracerInv'
<1>1. /\ live' = [live EXCEPT ![g] = None] /\ PdFreeProbe(g)
      /\ UNCHANGED <<waits, popping, observed, missed, hooks, pending, popCall, credited, settled, session>>
  BY Zenon DEF GroupFree, sessionVars, ghostVars
<1>2. \A i \in 1..Len(waits) : waits[i].at # "done" => waits[i].group # g
  <2>1. \A i \in Ids : Held(i) \/ Popped(i) => waits[i].group # g
    BY Zenon DEF GroupFree
  <2> QED
    BY Zenon, <2>1, NotDone DEF TracerInv
<1>3. /\ owner \in [Groups -> Serials \cup {None}] /\ live \in [Groups -> Serials \cup {None}]
      /\ hooks \in Attached
  BY Zenon DEF TracerInv, ProbeType, KernelType
<1>4. /\ failure' \in {failure, "retire"}
      /\ owner' = owner \/ owner' = [owner EXCEPT ![g] = None]
      /\ Probed("free") /\ owner[g] # None => owner' = [owner EXCEPT ![g] = None]
  BY Zenon, <1>1 DEF PdFreeProbe
<1>5. owner' \in [Groups -> Serials \cup {None}]
  BY Zenon, <1>3, <1>4
<1>6. \A h \in Groups : h # g => owner'[h] = owner[h] /\ live'[h] = live[h]
  BY Zenon, <1>1, <1>3, <1>4
<1>7. owner'[g] = None
  <2>1. CASE owner[g] = None
    BY Zenon, <2>1, <1>3, <1>4
  <2>2. CASE owner[g] # None
    <3>1. Probed("free")
      BY Zenon, <2>2, <1>3, Programs DEF TracerInv, ObjectInv
    <3> QED
      BY Zenon, <3>1, <2>2, <1>3, <1>4
  <2> QED
    BY Zenon, <2>1, <2>2
<1>8. OwnerInv' /\ \A h \in Groups : owner[h] = None => owner'[h] = None
  BY Zenon, <1>6, <1>7 DEF TracerInv, OwnerInv
<1> QED
  BY Zenon, <1>1, <1>2, <1>4, <1>5, <1>8, GroupStep

-----------------------------------------------------------------------------
(* Admission.                                                              *)

\* What a bio that is held back finds and leaves: its wait is recorded, or there
\* is a reason why not.
LEMMA AddEffect ==
    ASSUME TracerInv, NEW b \in Bios, NEW g \in Groups, NEW op \in Ops \cup IgnoredOps,
           Add(b, g, op)
    PROVE  /\ missed' \in {missed, missed + 1}
           /\ Unhealthy => Unhealthy'
           /\ failure' \in {failure, "unknown_caller", "pending_insert"}
                \/ (failure' = "pending_collision" /\ pending[b] # None)
           /\ \/ /\ pending' = [pending EXCEPT ![b] = Len(waits) + 1]
                 /\ Full /\ CountedOp(op) /\ missed' = missed
              \/ /\ pending' = pending
                 /\ ~Full \/ Unhealthy' \/ ~CountedOp(op) \/ missed' = missed + 1
<1>1. Probed("add") <=> Full
  BY Zenon, Programs DEF TracerInv, ProbeType
<1>2. ASSUME NEW known \in BOOLEAN, AddProbe(b, op, Len(waits) + 1, known)
      PROVE  /\ Unhealthy => Unhealthy'
             /\ failure' \in {failure, "unknown_caller", "pending_insert"}
                  \/ (failure' = "pending_collision" /\ pending[b] # None)
             /\ \/ pending' = [pending EXCEPT ![b] = Len(waits) + 1] /\ Full /\ CountedOp(op)
                \/ pending' = pending /\ (~Full \/ Unhealthy' \/ ~CountedOp(op))
  BY Zenon, <1>1, <1>2 DEF AddProbe, Unhealthy
<1>3. CASE Probed("add") /\ Miss /\ UNCHANGED <<pending, failure>>
  BY Zenon, <1>3 DEF Miss, Unhealthy
<1> QED
  BY Zenon, <1>2, <1>3 DEF Add

\* A wait is appended to the record of all waits.
LEMMA OneMoreWait ==
    ASSUME KernelType, NEW w \in WaitRecord, waits' = Append(waits, w)
    PROVE  /\ waits' \in Seq(WaitRecord) /\ Len(waits) \in Nat /\ Len(waits') = Len(waits) + 1
           /\ \A i \in 1..Len(waits) : waits'[i] = waits[i] /\ i \in 1..Len(waits')
           /\ waits'[Len(waits) + 1] = w /\ Len(waits) + 1 \in 1..Len(waits')
           /\ \A i \in 1..Len(waits') : i \in 1..Len(waits) \/ i = Len(waits) + 1
           /\ Len(waits) + 1 \notin 1..Len(waits)
           /\ Len(waits) + 1 # None
<1>1. waits \in Seq(WaitRecord)
  BY Zenon DEF KernelType
<1> QED
  BY SMTT(30), <1>1 DEF None

\* A bio is queued in a group: the entry that the probe notes is its own.
LEMMA AddTracer ==
    ASSUME TracerInv, NEW b \in Bios, NEW g \in Groups, NEW op \in Ops \cup IgnoredOps,
           Add(b, g, op)
    PROVE  TracerInv'
<1> DEFINE n == Len(waits) + 1
           w == [bio |-> b, group |-> g, serial |-> live[g], op |-> op, at |-> "group"]
<1>1. /\ UNCHANGED <<live, popping, observed, hooks, owner, popCall, credited, settled, session>>
      /\ waits' = Append(waits, w) /\ live[g] # None /\ Len(waits) < MaxWaits
  BY Zenon DEF Add, sessionVars, ghostVars
<1>2. w \in WaitRecord
  <2>1. live[g] \in Serials
    BY Zenon, <1>1 DEF TracerInv, KernelType
  <2> QED
    BY Zenon, <2>1 DEF WaitRecord
<1>3. /\ waits' \in Seq(WaitRecord) /\ Len(waits) \in Nat /\ Len(waits') = n
      /\ \A i \in 1..Len(waits) : waits'[i] = waits[i] /\ i \in 1..Len(waits')
      /\ waits'[n] = w /\ n \in 1..Len(waits')
      /\ \A i \in 1..Len(waits') : i \in 1..Len(waits) \/ i = n
      /\ n \notin 1..Len(waits) /\ n # None
  BY Zenon, <1>1, <1>2, OneMoreWait DEF TracerInv
<1>4. w.bio = b /\ w.group = g /\ w.serial = live[g] /\ w.op = op /\ w.at = "group"
  BY Zenon
<1>5. /\ missed' \in {missed, missed + 1}
      /\ Unhealthy => Unhealthy'
      /\ failure' \in {failure, "unknown_caller", "pending_insert"}
           \/ (failure' = "pending_collision" /\ pending[b] # None)
      /\ \/ pending' = [pending EXCEPT ![b] = n] /\ Full /\ CountedOp(op) /\ missed' = missed
         \/ /\ pending' = pending
            /\ ~Full \/ Unhealthy' \/ ~CountedOp(op) \/ missed' = missed + 1
  BY Zenon, AddEffect
<1>6. /\ missed' <= 1 => missed <= 1
      /\ missed' = 0 => missed = 0
      /\ missed' = missed + 1 => missed' # 0 /\ (missed' <= 1 => missed = 0)
      /\ missed' \in Nat
  BY Zenon, <1>5, FewBefore DEF TracerInv, KernelType
<1>7. \A i \in 1..Len(waits) : waits[i].at # "done" => waits[i].bio # b
  <2>1. \A i \in Ids : Held(i) \/ Popped(i) => waits[i].bio # b
    BY Zenon DEF Add
  <2> QED
    BY Zenon, <2>1, NotDone DEF TracerInv
<1>8. (Full' <=> Full) /\ (Probed("popEntry")' <=> Probed("popEntry"))
  BY Zenon, <1>1 DEF Full, Probed
<1>9. pending \in [Bios -> Nat] /\ \A d \in Bios : d # b => pending'[d] = pending[d]
  BY Zenon, <1>5 DEF TracerInv, ProbeType
<1>10. \/ pending'[b] = n /\ Full /\ CountedOp(op)
       \/ /\ pending'[b] = pending[b]
          /\ ~Full \/ Unhealthy' \/ ~CountedOp(op) \/ missed' = missed + 1
  BY Zenon, <1>5, <1>9
<1> HIDE DEF n, w
<1>11. missed = 0 => pending[b] = None
  BY Zenon, <1>7 DEF TracerInv, PairInv, SampleInv
<1>12. KernelType'
  BY SMTT(30), <1>1, <1>3, <1>6, TracerConstants DEF TracerInv, KernelType, n
<1>13. ProbeType'
  <2>1. pending' \in [Bios -> Nat]
    BY SMTT(30), <1>3, <1>5, <1>9 DEF n
  <2> QED
    BY Zenon, <1>1, <2>1 DEF TracerInv, ProbeType
<1>14. WaitInv'
  <2>1. ASSUME NEW i \in 1..Len(waits'), waits'[i].at # "done"
        PROVE  live'[waits'[i].group] = waits'[i].serial
    BY SMTT(30), <1>1, <1>3, <1>4, <2>1 DEF TracerInv, WaitInv
  <2>2. ASSUME NEW i \in 1..Len(waits'), NEW j \in 1..Len(waits'), waits'[i].at # "done",
               waits'[j].at # "done", waits'[i].bio = waits'[j].bio
        PROVE  i = j
    BY SMTT(30), <1>3, <1>4, <1>7, <2>2 DEF TracerInv, WaitInv
  <2> QED
    BY Zenon, <2>1, <2>2 DEF WaitInv
<1>15. PopInv'
  <2>1. ASSUME NEW t \in Tasks, popping[t] # None
        PROVE  /\ popping[t] \in 1..Len(waits') /\ waits'[popping[t]].at = "popped"
               /\ \A u \in Tasks \ {t} : popping[u] # popping[t]
    BY Zenon, <1>3, <2>1 DEF TracerInv, PopInv
  <2>2. ASSUME NEW i \in 1..Len(waits'), waits'[i].at = "popped"
        PROVE  Popped(i)'
    <3>1. i \in 1..Len(waits) /\ waits[i].at = "popped"
      BY Zenon, <1>3, <1>4, <2>2
    <3> QED
      BY Zenon, <1>1, <3>1 DEF TracerInv, PopInv, Popped
  <2> QED
    BY Zenon, <1>1, <2>1, <2>2 DEF PopInv
<1>16. ObjectInv'
  BY Zenon, <1>1, <1>5, <1>8 DEF TracerInv, ObjectInv
<1>17. OwnerInv'
  BY Zenon, <1>1 DEF TracerInv, OwnerInv
<1>18. SampleInv'
  <2> SUFFICES ASSUME NEW d \in Bios, pending'[d] # None
               PROVE  /\ pending'[d] \in 1..Len(waits')
                      /\ waits'[pending'[d]].bio = d /\ CountedOp(waits'[pending'[d]].op)
    BY Zenon DEF SampleInv, CountedOp
  <2>1. CASE pending'[d] = pending[d]
    BY SMTT(30), <1>3, <2>1 DEF TracerInv, SampleInv
  <2>2. CASE d = b /\ pending'[d] = n /\ CountedOp(op)
    BY Zenon, <1>3, <1>4, <2>2
  <2> QED
    BY Zenon, <1>9, <1>10, <2>1, <2>2
<1>19. CreditInv'
  <2> SUFFICES ASSUME NEW p \in credited
               PROVE  p[1] \in 1..Len(waits') /\ \A d \in Bios : pending'[d] # p[1]
    BY Zenon, <1>1 DEF CreditInv
  <2>1. p[1] \in 1..Len(waits) /\ \A d \in Bios : pending[d] # p[1]
    BY Zenon DEF TracerInv, CreditInv
  <2> QED
    BY SMTT(30), <2>1, <1>3, <1>9, <1>10
<1>20. PairInv'
  <2> SUFFICES ASSUME missed' = 0
               PROVE  /\ \A t \in popCall : popping[t] # None /\ observed[t]
                      /\ \A d \in Bios : pending'[d] # None =>
                            /\ waits'[pending'[d]].at # "done"
                            /\ \A t \in Tasks : popping[t] = pending'[d] => t \in popCall /\ observed[t]
    BY Zenon, <1>1 DEF PairInv
  <2>1. missed = 0 /\ \A t \in popCall : popping[t] # None /\ observed[t]
    BY Zenon, <1>6 DEF TracerInv, PairInv
  <2>2. ASSUME NEW d \in Bios, pending'[d] # None
        PROVE  /\ waits'[pending'[d]].at # "done"
               /\ \A t \in Tasks : popping[t] = pending'[d] => t \in popCall /\ observed[t]
    <3>1. CASE pending'[d] = pending[d]
      <4>1. /\ pending[d] \in 1..Len(waits) /\ waits[pending[d]].at # "done"
            /\ \A t \in Tasks : popping[t] = pending[d] => t \in popCall /\ observed[t]
        BY Zenon, <2>1, <2>2, <3>1 DEF TracerInv, PairInv, SampleInv
      <4> QED
        BY Zenon, <1>3, <3>1, <4>1
    <3>2. CASE pending'[d] = n
      <4>1. \A t \in Tasks : popping[t] # n
        BY Zenon, <1>3 DEF TracerInv, PopInv
      <4> QED
        BY Zenon, <1>3, <1>4, <3>2, <4>1
    <3> QED
      BY Zenon, <1>9, <1>10, <3>1, <3>2
  <2> QED
    BY Zenon, <2>1, <2>2
<1>21. FreshInv'
  <2> SUFFICES ASSUME missed' <= 1, ~Unhealthy', NEW i \in 1..Len(waits'),
                      waits'[i].at # "done", CountedOp(waits'[i].op)
               PROVE  pending'[waits'[i].bio] \in {None, i}
    BY Zenon DEF FreshInv, CountedOp
  <2>1. CASE i \in 1..Len(waits)
    <3>1. waits'[i] = waits[i] /\ waits[i].bio # b
      BY Zenon, <1>3, <1>7, <2>1
    <3>2. waits[i].bio \in Bios
      BY Zenon, <2>1, WaitFields DEF TracerInv
    <3>3. pending[waits[i].bio] \in {None, i}
      BY Zenon, <1>5, <1>6, <2>1, <3>1 DEF TracerInv, FreshInv
    <3> QED
      BY Zenon, <1>9, <3>1, <3>2, <3>3
  <2>2. CASE i = n
    <3>1. waits'[i].bio = b /\ CountedOp(op)
      BY Zenon, <1>3, <1>4, <2>2
    <3>2. ~Full => pending[b] = None
      BY Zenon DEF TracerInv, ObjectInv
    <3>3. missed' = missed + 1 => pending[b] = None
      BY Zenon, <1>6, <1>11
    <3> QED
      BY Zenon, <1>10, <2>2, <3>1, <3>2, <3>3
  <2> QED
    BY Zenon, <1>3, <2>1, <2>2
<1>22. CreditedOnceToItsOwner'
  BY Zenon, <1>1, <1>3, <1>6, CreditKept DEF TracerInv
<1>23. PairedUnlessMissed'
  BY Zenon, <1>5, <1>6, <1>11 DEF TracerInv, PairedUnlessMissed
<1> QED
  BY Zenon, <1>12, <1>13, <1>14, <1>15, <1>16, <1>17, <1>18, <1>19, <1>20, <1>21, <1>22, <1>23 DEF TracerInv

-----------------------------------------------------------------------------
(* The bio moves up, and the final pop.                                    *)

\* A wait is somewhere else.
LEMMA WaitMoves ==
    ASSUME KernelType, NEW i \in 1..Len(waits), NEW x \in {"root", "popped", "done"},
           waits' = [waits EXCEPT ![i].at = x]
    PROVE  /\ waits' \in Seq(WaitRecord) /\ Len(waits') = Len(waits)
           /\ \A j \in 1..Len(waits) :
                 /\ waits'[j].bio = waits[j].bio /\ waits'[j].group = waits[j].group
                 /\ waits'[j].serial = waits[j].serial /\ waits'[j].op = waits[j].op
                 /\ waits'[j].at = IF j = i THEN x ELSE waits[j].at
<1>1. waits \in Seq(WaitRecord)
  BY Zenon DEF KernelType
<1>2. waits[i] \in WaitRecord
  BY SMTT(30), <1>1
<1>3. PICK w : w = [waits[i] EXCEPT !.at = x]
  BY Zenon
<1>4. w \in WaitRecord
  BY Zenon, <1>2, <1>3 DEF WaitRecord
<1>5. /\ w.bio = waits[i].bio /\ w.group = waits[i].group
      /\ w.serial = waits[i].serial /\ w.op = waits[i].op /\ w.at = x
  BY Zenon, <1>2, <1>3 DEF WaitRecord
<1>6. waits' = [waits EXCEPT ![i] = w]
  BY Zenon, <1>3
<1>7. waits' \in Seq(WaitRecord) /\ Len(waits') = Len(waits)
  BY SMTT(30), <1>1, <1>4, <1>6
<1>8. \A j \in 1..Len(waits) : waits'[j] = IF j = i THEN w ELSE waits[j]
  BY SMTT(30), <1>1, <1>6
<1> QED
  BY SMTT(30), <1>5, <1>7, <1>8

\* The bio is moved to the root level: for the tracer nothing has happened.
LEMMA MoveTracer ==
    ASSUME TracerInv, NEW i \in 1..Len(waits), MoveUp(i)
    PROVE  TracerInv'
<1>1. /\ waits[i].at = "group" /\ waits' = [waits EXCEPT ![i].at = "root"]
      /\ UNCHANGED <<live, popping, observed, missed, hooks, pending, owner, popCall, credited,
                     settled, session, failure>>
  BY Zenon DEF MoveUp, collectorVars, mapVars, sessionVars, ghostVars, probeVars
<1>2. /\ waits' \in Seq(WaitRecord) /\ Len(waits') = Len(waits)
      /\ \A j \in 1..Len(waits) :
            /\ waits'[j].bio = waits[j].bio /\ waits'[j].group = waits[j].group
            /\ waits'[j].serial = waits[j].serial /\ waits'[j].op = waits[j].op
            /\ waits'[j].at = IF j = i THEN "root" ELSE waits[j].at
  BY Zenon, <1>1, WaitMoves DEF TracerInv
<1>3. KernelType'
  BY Zenon, <1>1, <1>2 DEF TracerInv, KernelType
<1>4. ProbeType'
  BY Zenon, <1>1 DEF TracerInv, ProbeType
<1>5. WaitInv'
  BY SMTT(30), <1>1, <1>2 DEF TracerInv, WaitInv
<1>6. PopInv'
  BY SMTT(30), <1>1, <1>2 DEF TracerInv, PopInv, Popped
<1>7. ObjectInv'
  BY Zenon, <1>1 DEF TracerInv, ObjectInv, Full, Probed
<1>8. OwnerInv'
  BY Zenon, <1>1 DEF TracerInv, OwnerInv
<1>9. SampleInv'
  BY SMTT(30), <1>1, <1>2 DEF TracerInv, SampleInv, CountedOp
<1>10. CreditInv'
  BY Zenon, <1>1, <1>2 DEF TracerInv, CreditInv
<1>11. PairInv'
  <2>1. \A b \in Bios : pending[b] # None => pending[b] \in 1..Len(waits)
    BY Zenon DEF TracerInv, SampleInv
  <2> QED
    BY SMTT(30), <1>1, <1>2, <2>1 DEF TracerInv, PairInv
<1>12. FreshInv'
  BY SMTT(30), <1>1, <1>2 DEF TracerInv, FreshInv, Unhealthy, CountedOp
<1>13. PairedUnlessMissed'
  BY Zenon, <1>1 DEF TracerInv, PairedUnlessMissed
<1>14. CreditedOnceToItsOwner'
  BY SMTT(30), <1>1, <1>2, CreditKept DEF TracerInv
<1> QED
  BY Zenon, <1>3, <1>4, <1>5, <1>6, <1>7, <1>8, <1>9, <1>10, <1>11, <1>12, <1>13, <1>14 DEF TracerInv

\* The effects of the entry probe of a final pop.
LEMMA PopEntryEffect ==
    ASSUME TracerInv, NEW t \in Tasks, NEW i \in 1..Len(waits), PopEntry(t, i)
    PROVE  /\ missed' \in {missed, missed + 1}
           /\ \/ Probed("popEntry") /\ t \in popCall /\ failure' = "pop_state" /\ popCall' = popCall
              \/ /\ Probed("popEntry") /\ t \notin popCall /\ failure' = failure
                 /\ popCall' = popCall \cup {t}
              \/ /\ failure' = failure /\ popCall' = popCall
                 /\ ~Probed("popEntry") \/ missed' = missed + 1
BY Zenon DEF PopEntry, PopEntryProbe, Miss

\* A task begins to pop a bio: it is noted when its return is probed as well.
LEMMA PopEntryTracer ==
    ASSUME TracerInv, NEW t \in Tasks, NEW i \in 1..Len(waits), PopEntry(t, i)
    PROVE  TracerInv'
<1>1. /\ UNCHANGED <<live, hooks, pending, owner, credited, settled, session>>
      /\ popping[t] = None /\ popping' = [popping EXCEPT ![t] = i]
      /\ waits[i].at \in {"group", "root"} /\ waits' = [waits EXCEPT ![i].at = "popped"]
      /\ observed' = [observed EXCEPT ![t] = Probed("popReturn")]
  BY Zenon DEF PopEntry, Held, sessionVars, ghostVars
<1>2. /\ waits' \in Seq(WaitRecord) /\ Len(waits') = Len(waits)
      /\ \A j \in 1..Len(waits) :
            /\ waits'[j].bio = waits[j].bio /\ waits'[j].group = waits[j].group
            /\ waits'[j].serial = waits[j].serial /\ waits'[j].op = waits[j].op
            /\ waits'[j].at = IF j = i THEN "popped" ELSE waits[j].at
  BY Zenon, <1>1, WaitMoves DEF TracerInv
<1>3. popping \in [Tasks -> Nat] /\ observed \in [Tasks -> BOOLEAN] /\ i \in Nat /\ i # None
  BY SMTT(30) DEF TracerInv, KernelType, None
<1>4. /\ popping' \in [Tasks -> Nat] /\ popping'[t] = i
      /\ \A u \in Tasks \ {t} : popping'[u] = popping[u]
  BY Zenon, <1>1, <1>3
<1>5. /\ observed' \in [Tasks -> BOOLEAN] /\ (observed'[t] <=> Probed("popReturn"))
      /\ \A u \in Tasks \ {t} : observed'[u] = observed[u]
  <2>1. Probed("popReturn") \in BOOLEAN
    BY Zenon DEF Probed
  <2> QED
    BY Zenon, <1>1, <1>3, <2>1
<1>6. /\ missed' \in {missed, missed + 1}
      /\ \/ Probed("popEntry") /\ t \in popCall /\ failure' = "pop_state" /\ popCall' = popCall
         \/ /\ Probed("popEntry") /\ t \notin popCall /\ failure' = failure
            /\ popCall' = popCall \cup {t}
         \/ /\ failure' = failure /\ popCall' = popCall
            /\ ~Probed("popEntry") \/ missed' = missed + 1
  BY Zenon, PopEntryEffect
<1>7. /\ missed' <= 1 => missed <= 1
      /\ missed' = 0 => missed = 0
      /\ missed' = missed + 1 => missed' # 0
      /\ missed' \in Nat
  BY Zenon, <1>6, FewBefore DEF TracerInv, KernelType
<1>8. missed = 0 => t \notin popCall
  BY Zenon, <1>1 DEF TracerInv, PairInv
<1>9. /\ Full' <=> Full
      /\ Probed("popEntry")' <=> Probed("popEntry")
      /\ Full => Probed("popEntry")
      /\ Probed("popEntry") => Probed("popReturn")
  <2>1. (Full' <=> Full) /\ (Probed("popEntry")' <=> Probed("popEntry"))
    BY Zenon, <1>1 DEF Full, Probed
  <2> QED
    BY Zenon, <2>1, Programs DEF TracerInv, ProbeType
<1>10. KernelType'
  BY Zenon, <1>1, <1>2, <1>4, <1>5, <1>7 DEF TracerInv, KernelType
<1>11. ProbeType'
  <2>1. popCall' \subseteq Tasks
    BY Zenon, <1>6 DEF TracerInv, ProbeType
  <2> QED
    BY Zenon, <1>1, <2>1 DEF TracerInv, ProbeType
<1>12. WaitInv'
  BY SMTT(30), <1>1, <1>2 DEF TracerInv, WaitInv
<1>13. PopInv'
  <2>1. ASSUME NEW u \in Tasks, popping'[u] # None
        PROVE  /\ popping'[u] \in 1..Len(waits) /\ waits'[popping'[u]].at = "popped"
               /\ \A v \in Tasks \ {u} : popping'[v] # popping'[u]
    <3>1. \A v \in Tasks \ {t} : popping[v] # i
      BY Zenon, <1>1, <1>3 DEF TracerInv, PopInv
    <3>2. CASE u = t
      BY Zenon, <1>2, <1>4, <3>1, <3>2
    <3>3. CASE u # t
      <4>1. /\ popping[u] \in 1..Len(waits) /\ waits[popping[u]].at = "popped"
            /\ \A v \in Tasks \ {u} : popping[v] # popping[u]
        BY Zenon, <1>4, <2>1, <3>3 DEF TracerInv, PopInv
      <4> QED
        BY SMTT(30), <1>2, <1>4, <3>1, <3>3, <4>1
    <3> QED
      BY Zenon, <3>2, <3>3
  <2>2. ASSUME NEW j \in 1..Len(waits), waits'[j].at = "popped" PROVE Popped(j)'
    <3>1. CASE j = i
      BY Zenon, <1>4, <3>1 DEF Popped
    <3>2. CASE j # i
      <4>1. PICK u \in Tasks : popping[u] = j
        BY Zenon, <1>2, <2>2, <3>2 DEF TracerInv, PopInv, Popped
      <4>2. u # t
        BY SMTT(30), <1>1, <4>1 DEF None
      <4> QED
        BY Zenon, <1>4, <4>1, <4>2 DEF Popped
    <3> QED
      BY Zenon, <3>1, <3>2
  <2> QED
    BY Zenon, <1>2, <2>1, <2>2 DEF PopInv
<1>14. ObjectInv'
  BY Zenon, <1>1, <1>6, <1>9 DEF TracerInv, ObjectInv
<1>15. OwnerInv'
  BY Zenon, <1>1 DEF TracerInv, OwnerInv
<1>16. SampleInv'
  BY SMTT(30), <1>1, <1>2 DEF TracerInv, SampleInv, CountedOp
<1>17. CreditInv'
  BY Zenon, <1>1, <1>2 DEF TracerInv, CreditInv
<1>18. PairInv'
  <2> SUFFICES ASSUME missed' = 0
               PROVE  /\ \A u \in popCall' : popping'[u] # None /\ observed'[u]
                      /\ \A d \in Bios : pending[d] # None =>
                            /\ waits'[pending[d]].at # "done"
                            /\ \A u \in Tasks : popping'[u] = pending[d] => u \in popCall' /\ observed'[u]
    BY Zenon, <1>1 DEF PairInv
  <2>1. missed = 0 /\ t \notin popCall /\ popCall \subseteq Tasks
    BY Zenon, <1>7, <1>8 DEF TracerInv, ProbeType
  <2>2. \/ Probed("popEntry") /\ popCall' = popCall \cup {t}
        \/ ~Probed("popEntry") /\ popCall' = popCall
    BY Zenon, <1>6, <1>7, <2>1
  <2>3. ASSUME NEW u \in popCall' PROVE popping'[u] # None /\ observed'[u]
    <3>1. CASE u = t
      BY Zenon, <1>3, <1>4, <1>5, <1>9, <2>1, <2>2, <3>1
    <3>2. CASE u # t
      BY SMTT(30), <1>4, <1>5, <2>1, <2>2, <3>2 DEF TracerInv, PairInv
    <3> QED
      BY Zenon, <3>1, <3>2
  <2>4. ASSUME NEW d \in Bios, pending[d] # None
        PROVE  /\ waits'[pending[d]].at # "done"
               /\ \A u \in Tasks : popping'[u] = pending[d] => u \in popCall' /\ observed'[u]
    <3>1. Full /\ pending[d] \in 1..Len(waits)
      BY Zenon, <2>4 DEF TracerInv, ObjectInv, SampleInv
    <3>2. /\ waits[pending[d]].at # "done"
          /\ \A u \in Tasks : popping[u] = pending[d] => u \in popCall /\ observed[u]
      BY Zenon, <2>1, <2>4 DEF TracerInv, PairInv
    <3>3. t \in popCall' /\ observed'[t] /\ popCall \subseteq popCall'
      BY Zenon, <1>5, <1>9, <2>2, <3>1
    <3>4. ASSUME NEW u \in Tasks, popping'[u] = pending[d] PROVE u \in popCall' /\ observed'[u]
      BY Zenon, <1>4, <1>5, <3>2, <3>3, <3>4
    <3> QED
      BY Zenon, <1>2, <3>1, <3>2, <3>4
  <2> QED
    BY Zenon, <2>3, <2>4
<1>19. FreshInv'
  <2>1. ~Unhealthy' => ~Unhealthy
    BY Zenon, <1>6 DEF Unhealthy
  <2> QED
    BY SMTT(30), <1>1, <1>2, <1>7, <2>1 DEF TracerInv, FreshInv, CountedOp
<1>20. PairedUnlessMissed'
  BY Zenon, <1>6, <1>7, <1>8 DEF TracerInv, PairedUnlessMissed
<1>21. CreditedOnceToItsOwner'
  BY SMTT(30), <1>1, <1>2, <1>7, CreditKept DEF TracerInv
<1> QED
  BY Zenon, <1>10, <1>11, <1>12, <1>13, <1>14, <1>15, <1>16, <1>17, <1>18, <1>19, <1>20, <1>21 DEF TracerInv

\* The effects of the return probe: the pending wait is counted; or it is
\* forgotten in a session that has failed; or there was none to end; or the probe
\* did not run.
LEMMA PopReturnEffect ==
    ASSUME TracerInv, NEW t \in Tasks, NEW c \in CPUs, PopReturn(t, c),
           NEW i, i = popping[t], NEW b, b = waits[i].bio, NEW g, g = waits[i].group
    PROVE  \/ /\ t \in popCall /\ CountedOp(waits[i].op) /\ pending[b] # None /\ ~Unhealthy
              /\ pending' = [pending EXCEPT ![b] = None] /\ popCall' = popCall \ {t}
              /\ owner' = owner \/ owner' = [owner EXCEPT ![g] = waits[i].serial]
              /\ settled' = [settled EXCEPT ![<<waits[i].serial, waits[i].op>>]
                               = settled[<<waits[i].serial, waits[i].op>>] + 1]
              /\ credited' = credited \cup {<<pending[b], <<waits[i].serial, waits[i].op>>>>}
              /\ failure' = failure /\ missed' = missed
           \/ /\ pending[b] # None /\ Unhealthy'
              /\ pending' = [pending EXCEPT ![b] = None] /\ popCall' = popCall \ {t}
              /\ owner' = owner \/ owner' = [owner EXCEPT ![g] = waits[i].serial]
              /\ UNCHANGED <<settled, credited, missed>>
              /\ failure' \in {failure, "aggregate", "owner"}
           \/ /\ ~(t \in popCall /\ CountedOp(waits[i].op) /\ pending[b] # None)
              /\ popCall' = popCall \ {t}
              /\ UNCHANGED <<pending, owner, settled, credited, failure, missed>>
           \/ /\ UNCHANGED <<pending, owner, popCall, settled, credited, failure>>
              /\ missed' = missed + 1 \/ (missed' = missed /\ ~(observed[t] /\ Probed("popReturn")))
<1> DEFINE serial == IF owner[g] # None THEN owner[g] ELSE live[g]
           p == pending[b]
           ends == t \in popCall /\ CountedOp(waits[i].op) /\ p # None
           key == <<serial, waits[i].op>>
<1>1. serial = waits[i].serial
  <2>1. i \in 1..Len(waits) /\ waits[i].at # "done"
    BY Zenon DEF PopReturn, TracerInv, PopInv
  <2> QED
    BY Zenon, <2>1, OwnerFound DEF TracerInv
<1>2. CASE /\ IF observed[t] /\ Probed("popReturn") THEN Miss ELSE UNCHANGED missed
           /\ UNCHANGED <<rows, word, settled, failure, pending, owner, popCall, credited>>
  BY Zenon, <1>2 DEF Miss
<1>3. CASE PopReturnProbe(t, c) /\ UNCHANGED missed
  <2>1. /\ popCall' = popCall \ {t}
        /\ pending' = IF ends THEN [pending EXCEPT ![b] = None] ELSE pending
        /\ IF ends /\ ~Unhealthy THEN AccountWait(c, i, p)
           ELSE UNCHANGED <<rows, word, settled, failure, owner, credited>>
    BY Zenon, <1>3 DEF PopReturnProbe
  <2>2. CASE ~ends
    BY Zenon, <1>3, <2>1, <2>2
  <2>3. CASE ends /\ Unhealthy
    BY Zenon, <1>3, <2>1, <2>3 DEF Unhealthy
  <2>4. CASE ends /\ ~Unhealthy
    <3>1. /\ owner' = owner \/ owner' = [owner EXCEPT ![g] = serial]
          /\ \/ /\ \E d \in Durations : Settle(key, c, d)
                /\ credited' = credited \cup {<<p, key>>}
                /\ failure' = failure
             \/ failure' \in {"aggregate", "owner"} /\ UNCHANGED <<settled, credited>>
      <4>1. AccountWait(c, i, p)
        BY Zenon, <2>1, <2>4
      <4> QED
        BY Zenon, <4>1 DEF AccountWait
    <3>2. (\E d \in Durations : Settle(key, c, d)) => settled' = [settled EXCEPT ![key] = settled[key] + 1]
      BY Zenon DEF Settle
    <3> HIDE DEF serial, p
    <3>3. CASE credited' = credited \cup {<<p, key>>} /\ failure' = failure
               /\ settled' = [settled EXCEPT ![key] = settled[key] + 1]
      BY Zenon, <1>1, <1>3, <2>1, <2>4, <3>1, <3>3 DEF p
    <3>4. CASE failure' \in {"aggregate", "owner"} /\ UNCHANGED <<settled, credited>>
      BY Zenon, <1>1, <1>3, <2>1, <2>4, <3>1, <3>4 DEF p, Unhealthy
    <3> QED
      BY Zenon, <3>1, <3>2, <3>3, <3>4
  <2> QED
    BY Zenon, <2>2, <2>3, <2>4
<1> QED
  BY Zenon, <1>2, <1>3 DEF PopReturn

\* A wait is counted.
LEMMA OneMoreCredit ==
    ASSUME TracerInv, NEW f \in 1..Len(waits), NEW k \in Keys, missed' = missed,
           waits'[f].at = "done", missed <= 1 => k = <<waits'[f].serial, waits'[f].op>>,
           \A p \in credited : p[1] # f,
           settled' = [settled EXCEPT ![k] = settled[k] + 1], credited' = credited \cup {<<f, k>>},
           \A i \in 1..Len(waits) : /\ waits'[i].serial = waits[i].serial /\ waits'[i].op = waits[i].op
                                    /\ waits[i].at = "done" => waits'[i].at = "done"
    PROVE  /\ CreditedOnceToItsOwner'
           /\ credited' \subseteq Nat \X Keys /\ IsFiniteSet(credited') /\ settled' \in [Keys -> Nat]
<1>1. credited \subseteq Nat \X Keys /\ IsFiniteSet(credited) /\ settled \in [Keys -> Nat]
  BY Zenon DEF TracerInv, ProbeType
<1>2. /\ IsFiniteSet(credited') /\ settled' \in [Keys -> Nat]
      /\ \A j \in Keys : settled'[j] = IF j = k THEN settled[k] + 1 ELSE settled[j]
  <2>1. IsFiniteSet(credited \cup {<<f, k>>})
    BY Zenon, <1>1, FS_AddElement
  <2> QED
    BY SMTT(30), <1>1, <2>1
<1>3. f \in Nat
  BY SMTT(30)
<1>4. credited' \subseteq Nat \X Keys
  BY SMTT(30), <1>1, <1>3
<1>5. ASSUME NEW p \in credited'
      PROVE  /\ waits'[p[1]].at = "done"
             /\ missed' <= 1 => p[2] = <<waits'[p[1]].serial, waits'[p[1]].op>>
             /\ \A q \in credited' : q[1] = p[1] => q = p
  <2>1. CASE p \in credited
    <3>1. p[1] \in 1..Len(waits) /\ p[1] # f
      BY Zenon, <2>1 DEF TracerInv, CreditInv
    <3>2. /\ waits[p[1]].at = "done"
          /\ missed <= 1 => p[2] = <<waits[p[1]].serial, waits[p[1]].op>>
          /\ \A q \in credited : q[1] = p[1] => q = p
      BY Zenon, <2>1 DEF TracerInv, CreditedOnceToItsOwner
    <3> QED
      BY SMTT(30), <3>1, <3>2
  <2>2. CASE p = <<f, k>>
    BY Zenon, <2>2
  <2> QED
    BY Zenon, <2>1, <2>2
<1>6. ASSUME NEW j \in Keys
      PROVE  settled'[j] = Cardinality({p \in credited' : p[2] = j})
  <2> DEFINE S == {p \in credited : p[2] = j}
  <2>1. settled[j] = Cardinality(S)
    BY Zenon DEF TracerInv, CreditedOnceToItsOwner
  <2>2. IsFiniteSet(S)
    BY Zenon, <1>1, FS_Subset
  <2>3. CASE j = k
    <3>1. {p \in credited' : p[2] = j} = S \cup {<<f, k>>}
      BY SMTT(30), <2>3
    <3>2. <<f, k>> \notin S
      BY Zenon
    <3>3. Cardinality(S \cup {<<f, k>>}) = Cardinality(S) + 1
      BY Zenon, <2>2, <3>2, FS_AddElement
    <3> QED
      BY Zenon, <1>2, <2>1, <2>3, <3>1, <3>3
  <2>4. CASE j # k
    <3>1. {p \in credited' : p[2] = j} = S
      BY SMTT(30), <2>4
    <3> QED
      BY Zenon, <1>2, <2>1, <2>4, <3>1
  <2> QED
    BY Zenon, <2>3, <2>4
<1> QED
  BY Zenon, <1>2, <1>4, <1>5, <1>6 DEF CreditedOnceToItsOwner

\* The kernel's part of the return.
LEMMA PopEnds ==
    ASSUME TracerInv, NEW t \in Tasks, NEW c \in CPUs, PopReturn(t, c), NEW i, i = popping[t],
           missed' \in {missed, missed + 1}
    PROVE  /\ UNCHANGED <<live, hooks, session>>
           /\ i \in 1..Len(waits) /\ i # None /\ waits[i].at = "popped"
           /\ waits' \in Seq(WaitRecord) /\ Len(waits') = Len(waits)
           /\ \A j \in 1..Len(waits) :
                 /\ waits'[j].bio = waits[j].bio /\ waits'[j].group = waits[j].group
                 /\ waits'[j].serial = waits[j].serial /\ waits'[j].op = waits[j].op
                 /\ waits'[j].at = IF j = i THEN "done" ELSE waits[j].at
           /\ popping'[t] = None /\ \A u \in Tasks \ {t} : popping'[u] = popping[u]
           /\ \A u \in Tasks \ {t} : observed'[u] = observed[u]
           /\ KernelType' /\ WaitInv' /\ PopInv'
<1>1. /\ UNCHANGED <<live, hooks, session>>
      /\ popping[t] # None /\ popping' = [popping EXCEPT ![t] = None]
      /\ observed' = [observed EXCEPT ![t] = FALSE]
      /\ waits' = [waits EXCEPT ![i].at = "done"]
  BY Zenon DEF PopReturn, sessionVars
<1>2. i \in 1..Len(waits) /\ i # None /\ waits[i].at = "popped" /\ \A u \in Tasks \ {t} : popping[u] # i
  BY Zenon, <1>1 DEF TracerInv, PopInv
<1>3. /\ waits' \in Seq(WaitRecord) /\ Len(waits') = Len(waits)
      /\ \A j \in 1..Len(waits) :
            /\ waits'[j].bio = waits[j].bio /\ waits'[j].group = waits[j].group
            /\ waits'[j].serial = waits[j].serial /\ waits'[j].op = waits[j].op
            /\ waits'[j].at = IF j = i THEN "done" ELSE waits[j].at
  BY Zenon, <1>1, <1>2, WaitMoves DEF TracerInv
<1>4. popping \in [Tasks -> Nat] /\ observed \in [Tasks -> BOOLEAN] /\ None \in Nat
  BY Zenon DEF TracerInv, KernelType, None
<1>5. /\ popping' \in [Tasks -> Nat] /\ popping'[t] = None
      /\ \A u \in Tasks \ {t} : popping'[u] = popping[u]
  BY Zenon, <1>1, <1>4
<1>6. observed' \in [Tasks -> BOOLEAN] /\ \A u \in Tasks \ {t} : observed'[u] = observed[u]
  BY Zenon, <1>1, <1>4
<1>7. missed' \in Nat
  BY Zenon, FewBefore DEF TracerInv, KernelType
<1>8. KernelType'
  BY Zenon, <1>1, <1>3, <1>5, <1>6, <1>7 DEF TracerInv, KernelType
<1>9. WaitInv'
  BY SMTT(30), <1>1, <1>3 DEF TracerInv, WaitInv
<1>10. PopInv'
  <2>1. ASSUME NEW u \in Tasks, popping'[u] # None
        PROVE  /\ popping'[u] \in 1..Len(waits) /\ waits'[popping'[u]].at = "popped"
               /\ \A v \in Tasks \ {u} : popping'[v] # popping'[u]
    <3>1. u # t /\ popping'[u] = popping[u]
      BY Zenon, <1>5, <2>1
    <3>2. /\ popping[u] \in 1..Len(waits) /\ waits[popping[u]].at = "popped"
          /\ \A v \in Tasks \ {u} : popping[v] # popping[u]
      BY Zenon, <2>1, <3>1 DEF TracerInv, PopInv
    <3> QED
      BY SMTT(30), <1>2, <1>3, <1>5, <2>1, <3>1, <3>2
  <2>2. ASSUME NEW j \in 1..Len(waits), waits'[j].at = "popped" PROVE Popped(j)'
    <3>1. j # i /\ waits[j].at = "popped"
      BY Zenon, <1>3, <2>2
    <3>2. PICK u \in Tasks : popping[u] = j
      BY Zenon, <3>1 DEF TracerInv, PopInv, Popped
    <3> QED
      BY Zenon, <1>5, <3>1, <3>2 DEF Popped
  <2> QED
    BY Zenon, <1>3, <2>1, <2>2 DEF PopInv
<1> QED
  BY Zenon, <1>1, <1>2, <1>3, <1>5, <1>6, <1>8, <1>9, <1>10

\* A pop returns: the wait of the bio is credited to its owner and cleared, so
\* that no other return finds it.
LEMMA PopReturnTracer ==
    ASSUME TracerInv, NEW t \in Tasks, NEW c \in CPUs, PopReturn(t, c)
    PROVE  TracerInv'
<1> DEFINE i == popping[t]
           b == waits[i].bio
           g == waits[i].group
           p == pending[b]
           k == <<waits[i].serial, waits[i].op>>
<1>1. \/ /\ t \in popCall /\ CountedOp(waits[i].op) /\ p # None /\ ~Unhealthy
         /\ pending' = [pending EXCEPT ![b] = None] /\ popCall' = popCall \ {t}
         /\ owner' = owner \/ owner' = [owner EXCEPT ![g] = waits[i].serial]
         /\ settled' = [settled EXCEPT ![k] = settled[k] + 1] /\ credited' = credited \cup {<<p, k>>}
         /\ failure' = failure /\ missed' = missed
      \/ /\ p # None /\ Unhealthy'
         /\ pending' = [pending EXCEPT ![b] = None] /\ popCall' = popCall \ {t}
         /\ owner' = owner \/ owner' = [owner EXCEPT ![g] = waits[i].serial]
         /\ UNCHANGED <<settled, credited, missed>>
         /\ failure' \in {failure, "aggregate", "owner"}
      \/ /\ ~(t \in popCall /\ CountedOp(waits[i].op) /\ p # None)
         /\ popCall' = popCall \ {t}
         /\ UNCHANGED <<pending, owner, settled, credited, failure, missed>>
      \/ /\ UNCHANGED <<pending, owner, popCall, settled, credited, failure>>
         /\ missed' = missed + 1 \/ (missed' = missed /\ ~(observed[t] /\ Probed("popReturn")))
  BY Zenon, PopReturnEffect
<1> HIDE DEF i, b, g, p, k
<1>2. missed' \in {missed, missed + 1}
  BY Zenon, <1>1
<1>3. /\ UNCHANGED <<live, hooks, session>>
      /\ i \in 1..Len(waits) /\ i # None /\ waits[i].at = "popped"
      /\ waits' \in Seq(WaitRecord) /\ Len(waits') = Len(waits)
      /\ \A j \in 1..Len(waits) :
            /\ waits'[j].bio = waits[j].bio /\ waits'[j].group = waits[j].group
            /\ waits'[j].serial = waits[j].serial /\ waits'[j].op = waits[j].op
            /\ waits'[j].at = IF j = i THEN "done" ELSE waits[j].at
      /\ popping'[t] = None /\ \A u \in Tasks \ {t} : popping'[u] = popping[u]
      /\ \A u \in Tasks \ {t} : observed'[u] = observed[u]
      /\ KernelType' /\ WaitInv' /\ PopInv'
  BY Zenon, <1>2, PopEnds DEF i
<1>4. /\ b \in Bios /\ g \in Groups /\ live[g] = waits[i].serial /\ waits[i].serial \in Serials
      /\ waits[i].op \in Ops \cup IgnoredOps
  BY SMTT(30), <1>3, WaitFields DEF TracerInv, WaitInv, b, g
<1>5. /\ missed' <= 1 => missed <= 1
      /\ missed' = 0 => missed = 0
      /\ missed' = missed + 1 => missed' # 0
  BY Zenon, <1>2, FewBefore DEF TracerInv, KernelType
<1>6. (Full' <=> Full) /\ (Probed("popEntry")' <=> Probed("popEntry"))
  BY SMTT(30), <1>3 DEF Full, Probed
<1>7. p # None => /\ Full /\ p \in 1..Len(waits) /\ waits[p].bio = b
                  /\ waits[p].at # "done" => p = i
                  /\ CountedOp(waits[p].op)
  <2> SUFFICES ASSUME p # None
               PROVE  /\ Full /\ p \in 1..Len(waits) /\ waits[p].bio = b
                      /\ waits[p].at # "done" => p = i
                      /\ CountedOp(waits[p].op)
    BY Zenon
  <2>1. p \in 1..Len(waits) /\ waits[p].bio = b /\ CountedOp(waits[p].op) /\ Full
    BY Zenon, <1>4 DEF TracerInv, SampleInv, ObjectInv, p
  <2> QED
    BY SMTT(30), <1>3, <2>1 DEF TracerInv, WaitInv, b
<1>8. /\ pending \in [Bios -> Nat] /\ owner \in [Groups -> Serials \cup {None}]
      /\ popCall \subseteq Tasks /\ p = pending[b]
  BY Zenon DEF TracerInv, ProbeType, p
<1>9. /\ pending' \in [Bios -> Nat] /\ owner' \in [Groups -> Serials \cup {None}]
      /\ popCall' \subseteq Tasks
      /\ \A d \in Bios : pending'[d] = pending[d] \/ (d = b /\ pending'[d] = None)
      /\ \A h \in Groups : owner'[h] = owner[h] \/ (h = g /\ p # None /\ owner'[h] = waits[i].serial)
  BY SMTT(30), <1>1, <1>4, <1>8 DEF None
<1>10. \A d \in Bios : d # b /\ pending[d] # None => pending[d] # i /\ pending[d] # p
  <2>1. \A d \in Bios : pending[d] # None => waits[pending[d]].bio = d
    BY Zenon DEF TracerInv, SampleInv
  <2> QED
    BY Zenon, <1>7, <2>1 DEF b
<1>11. OwnerInv'
  BY SMTT(30), <1>3, <1>4, <1>9 DEF TracerInv, OwnerInv
<1>12. SampleInv'
  <2> SUFFICES ASSUME NEW d \in Bios, pending'[d] # None
               PROVE  /\ pending'[d] \in 1..Len(waits')
                      /\ waits'[pending'[d]].bio = d /\ CountedOp(waits'[pending'[d]].op)
    BY Zenon DEF SampleInv, CountedOp
  <2>1. pending'[d] = pending[d]
    BY Zenon, <1>9
  <2>2. pending[d] \in 1..Len(waits) /\ waits[pending[d]].bio = d /\ CountedOp(waits[pending[d]].op)
    BY Zenon, <2>1 DEF TracerInv, SampleInv
  <2> QED
    BY SMTT(30), <1>3, <2>1, <2>2
<1>13. PairInv'
  <2> SUFFICES ASSUME missed' = 0
               PROVE  /\ \A u \in popCall' : popping'[u] # None /\ observed'[u]
                      /\ \A d \in Bios : pending'[d] # None =>
                            /\ waits'[pending'[d]].at # "done"
                            /\ \A u \in Tasks : popping'[u] = pending'[d] => u \in popCall' /\ observed'[u]
    BY Zenon DEF PairInv
  <2>1. /\ missed = 0 /\ missed' # missed + 1
        /\ \A u \in popCall : popping[u] # None /\ observed[u]
        /\ \A d \in Bios : pending[d] # None =>
              /\ waits[pending[d]].at # "done"
              /\ \A u \in Tasks : popping[u] = pending[d] => u \in popCall /\ observed[u]
    BY Zenon, <1>5 DEF TracerInv, PairInv
  <2>2. /\ t \in popCall => observed[t] /\ Probed("popReturn")
        /\ Full => Probed("popReturn")
    BY Zenon, <2>1, Programs DEF TracerInv, ObjectInv, ProbeType
  <2>3. t \notin popCall' /\ \A u \in Tasks \ {t} : u \in popCall' <=> u \in popCall
    BY Zenon, <1>1, <2>1, <2>2
  <2>4. pending'[b] = None
    <3>1. p # None => t \in popCall /\ observed[t] /\ CountedOp(waits[i].op)
      BY Zenon, <1>4, <1>7, <1>8, <2>1 DEF i
    <3>2. p # None => pending' = [pending EXCEPT ![b] = None]
      BY Zenon, <1>1, <1>7, <2>1, <2>2, <3>1
    <3> QED
      BY Zenon, <1>4, <1>8, <1>9, <3>2
  <2>5. ASSUME NEW u \in popCall' PROVE popping'[u] # None /\ observed'[u]
    BY SMTT(30), <1>3, <1>9, <2>1, <2>3
  <2>6. ASSUME NEW d \in Bios, pending'[d] # None
        PROVE  /\ waits'[pending'[d]].at # "done"
               /\ \A u \in Tasks : popping'[u] = pending'[d] => u \in popCall' /\ observed'[u]
    <3>1. d # b /\ pending'[d] = pending[d] /\ pending[d] # i
      BY Zenon, <1>9, <1>10, <2>4, <2>6
    <3>2. pending[d] \in 1..Len(waits)
      BY Zenon, <2>6, <3>1 DEF TracerInv, SampleInv
    <3>3. waits'[pending[d]].at # "done"
      BY SMTT(30), <1>3, <2>1, <2>6, <3>1, <3>2
    <3>4. ASSUME NEW u \in Tasks, popping'[u] = pending[d] PROVE u \in popCall' /\ observed'[u]
      <4>1. u # t
        BY Zenon, <1>3, <2>6, <3>1, <3>4
      <4> QED
        BY SMTT(30), <1>3, <2>1, <2>3, <2>6, <3>1, <3>4, <4>1
    <3> QED
      BY Zenon, <3>1, <3>3, <3>4
  <2> QED
    BY Zenon, <2>5, <2>6
<1>14. FreshInv'
  <2> SUFFICES ASSUME missed' <= 1, ~Unhealthy', NEW j \in 1..Len(waits),
                      waits'[j].at # "done", CountedOp(waits'[j].op)
               PROVE  pending'[waits'[j].bio] \in {None, j}
    BY Zenon, <1>3 DEF FreshInv, CountedOp
  <2>1. ~Unhealthy
    BY Zenon, <1>1 DEF Unhealthy
  <2>2. waits[j].bio \in Bios /\ pending[waits[j].bio] \in {None, j}
    BY Zenon, <1>3, <1>5, <2>1, WaitFields DEF TracerInv, FreshInv
  <2> QED
    BY SMTT(30), <1>3, <1>9, <2>2
<1>15. PairedUnlessMissed'
  BY Zenon, <1>1, <1>5 DEF TracerInv, PairedUnlessMissed
<1>16. ObjectInv' /\ ProbeType' /\ CreditInv' /\ CreditedOnceToItsOwner'
  <2>1. ASSUME credited = {} => credited' = {} \/ Full
        PROVE  ObjectInv'
    <3>1. ~Probed("popEntry") => popCall' = {}
      BY Zenon, <1>1 DEF TracerInv, ObjectInv
    <3>2. ASSUME ~Full
          PROVE  (\A d \in Bios : pending'[d] = None) /\ (\A h \in Groups : owner'[h] = None) /\ credited' = {}
      BY Zenon, <1>7, <1>9, <2>1, <3>2 DEF TracerInv, ObjectInv
    <3> QED
      BY Zenon, <1>6, <3>1, <3>2 DEF ObjectInv
  <2>2. CASE UNCHANGED <<settled, credited>>
    <3>1. ProbeType'
      BY Zenon, <1>3, <1>9, <2>2 DEF TracerInv, ProbeType
    <3>2. CreditInv'
      <4> SUFFICES ASSUME NEW q \in credited
                   PROVE  q[1] \in 1..Len(waits') /\ \A d \in Bios : pending'[d] # q[1]
        BY Zenon, <2>2 DEF CreditInv
      <4>1. q[1] \in 1..Len(waits) /\ q[1] # None /\ \A d \in Bios : pending[d] # q[1]
        BY SMTT(30) DEF TracerInv, CreditInv, None
      <4> QED
        BY Zenon, <1>3, <1>9, <4>1
    <3>3. CreditedOnceToItsOwner'
      BY Zenon, <1>3, <1>5, <2>2, CreditKept DEF TracerInv
    <3> QED
      BY Zenon, <2>1, <2>2, <3>1, <3>2, <3>3
  <2>3. CASE /\ CountedOp(waits[i].op) /\ p # None /\ ~Unhealthy
             /\ pending' = [pending EXCEPT ![b] = None] /\ missed' = missed
             /\ settled' = [settled EXCEPT ![k] = settled[k] + 1] /\ credited' = credited \cup {<<p, k>>}
    <3>1. k \in Keys /\ p \in 1..Len(waits) /\ Full
      BY Zenon, <1>4, <1>7, <2>3 DEF CountedOp, Keys, k
    <3>2. waits'[p].at = "done"
      BY Zenon, <1>3, <1>7, <2>3
    <3>3. missed <= 1 => p = i
      BY Zenon, <1>3, <1>8, <2>3 DEF TracerInv, FreshInv, b
    <3>4. missed <= 1 => k = <<waits'[p].serial, waits'[p].op>>
      BY Zenon, <1>3, <3>3 DEF k
    <3>5. \A q \in credited : q[1] # p
      BY Zenon, <1>4, <1>8 DEF TracerInv, CreditInv
    <3>6. /\ CreditedOnceToItsOwner'
          /\ credited' \subseteq Nat \X Keys /\ IsFiniteSet(credited') /\ settled' \in [Keys -> Nat]
      BY Zenon, <1>3, <2>3, <3>1, <3>2, <3>4, <3>5, OneMoreCredit
    <3>7. ProbeType'
      BY Zenon, <1>3, <1>9, <3>6 DEF TracerInv, ProbeType
    <3>8. CreditInv'
      <4> SUFFICES ASSUME NEW q \in credited'
                   PROVE  q[1] \in 1..Len(waits') /\ \A d \in Bios : pending'[d] # q[1]
        BY Zenon DEF CreditInv
      <4>1. CASE q \in credited
        <5>1. q[1] \in 1..Len(waits) /\ q[1] # None /\ \A d \in Bios : pending[d] # q[1]
          BY SMTT(30), <4>1 DEF TracerInv, CreditInv, None
        <5> QED
          BY Zenon, <1>3, <1>9, <5>1
      <4>2. CASE q = <<p, k>>
        <5>1. pending'[b] = None
          BY Zenon, <1>4, <1>8, <2>3
        <5>2. \A d \in Bios : pending'[d] # p
          BY Zenon, <1>9, <1>10, <2>3, <5>1
        <5> QED
          BY Zenon, <1>3, <3>1, <4>2, <5>2
      <4> QED
        BY Zenon, <2>3, <4>1, <4>2
    <3> QED
      BY Zenon, <2>1, <3>1, <3>6, <3>7, <3>8
  <2> QED
    BY Zenon, <1>1, <2>2, <2>3
<1> QED
  BY Zenon, <1>3, <1>11, <1>12, <1>13, <1>14, <1>15, <1>16 DEF TracerInv

-----------------------------------------------------------------------------
(* The theorems.                                                           *)

\* An idle system has counted nothing.
LEMMA InitIInv ==
    ASSUME Init
    PROVE  IInv
<1> USE DEF Init, CollectorInit
<1>1. KernelType
  BY SMTT(30), TracerConstants DEF KernelType, None
<1>2. ProbeType
  <2>1. pending \in [Bios -> Nat] /\ owner \in [Groups -> Serials \cup {None}] /\ popCall \subseteq Tasks
    BY Zenon DEF None
  <2>2. settled \in [Keys -> Nat] /\ hooks \in Attached
    BY Zenon DEF ZeroTotals, Attached
  <2>3. credited \subseteq Nat \X Keys /\ IsFiniteSet(credited)
    BY Zenon, FS_EmptySet
  <2> QED
    BY Zenon, <2>1, <2>2, <2>3 DEF ProbeType
<1>3. Len(waits) = 0
  BY Zenon
<1>4. WaitInv /\ PopInv /\ FreshInv
  BY SMTT(30), <1>3 DEF WaitInv, PopInv, FreshInv
<1>5. ObjectInv /\ OwnerInv /\ SampleInv /\ CreditInv /\ PairInv
  BY Zenon DEF ObjectInv, OwnerInv, SampleInv, CreditInv, PairInv
<1>6. CreditedOnceToItsOwner
  <2>1. ASSUME NEW k \in Keys PROVE settled[k] = Cardinality({p \in credited : p[2] = k})
    <3>1. {p \in credited : p[2] = k} = {}
      BY Zenon
    <3> QED
      BY Zenon, <3>1, FS_EmptySet DEF ZeroTotals
  <2> QED
    BY Zenon, <2>1 DEF CreditedOnceToItsOwner
<1>7. PairedUnlessMissed
  BY Zenon DEF PairedUnlessMissed
<1>8. CollectInv
  BY Zenon DEF CollectInv, PhaseInv, OverInv, SnapshotInv, ReclaimedForGood
<1> QED
  BY Zenon, <1>1, <1>2, <1>4, <1>5, <1>6, <1>7, <1>8 DEF IInv, TracerInv

\* A step that changes no rows and no markers.
LEMMA RowsKept ==
    ASSUME CollectInv, UNCHANGED <<updateVars, sessionVars, reclaimed, retired, live, used, rows>>
    PROVE  CollectInv'
BY Zenon, LiveRows

\* Every step keeps the invariant.
LEMMA NextIInv ==
    ASSUME IInv, [Next]_vars
    PROVE  IInv'
<1>1. /\ TracerInv /\ CollectInv /\ PhaseInv /\ KernelType /\ OwnerInv /\ WaitInv /\ PopInv
  BY Zenon DEF IInv, TracerInv, CollectInv
<1>2. CASE AttachNext
  <2>1. UNCHANGED <<updateVars, sessionVars, reclaimed, retired, live, used, rows>>
    BY Zenon, <1>2 DEF AttachNext, collectorVars, mapVars, ghostVars, kernelVars
  <2> QED
    BY Zenon, <1>1, <1>2, <2>1, AttachTracer, RowsKept DEF IInv
<1>3. CASE AttachFails
  BY Zenon, <1>1, <1>3, ReplacedTracer, AttachFailsCollect DEF IInv
<1>4. CASE Publish
  BY Zenon, <1>1, <1>4, PublishTracer, PublishCollect DEF IInv
<1>5. CASE ObjectReplaced
  BY Zenon, <1>1, <1>5, ReplacedTracer, ReplacedCollect DEF IInv
<1>6. CASE Collect
  <2>1. CollectorSteps(FALSE) /\ UNCHANGED <<live, used>>
    BY Zenon, <1>6 DEF Collect, ioVars, kernelVars
  <2> QED
    BY Zenon, <1>1, <1>6, <2>1, CollectTracer, CollectorKeeps DEF IInv
<1>7. ASSUME NEW g \in Groups, GroupFree(g) PROVE IInv'
  BY Zenon, <1>1, <1>7, FreeTracer, FreeCollect DEF IInv
<1>8. ASSUME NEW g \in Groups, NEW s \in Serials, GroupCreate(g, s) PROVE IInv'
  BY Zenon, <1>1, <1>8, CreateTracer, CreateCollect DEF IInv
<1>9. ASSUME NEW b \in Bios, NEW g \in Groups, NEW op \in Ops \cup IgnoredOps, Add(b, g, op)
      PROVE  IInv'
  <2>1. UNCHANGED <<updateVars, sessionVars, reclaimed, retired, live, used, rows>>
    BY Zenon, <1>9 DEF Add, ghostVars
  <2> QED
    BY Zenon, <1>1, <1>9, <2>1, AddTracer, RowsKept DEF IInv
<1>10. ASSUME NEW i \in 1..Len(waits), MoveUp(i) PROVE IInv'
  <2>1. UNCHANGED <<updateVars, sessionVars, reclaimed, retired, live, used, rows>>
    BY Zenon, <1>10 DEF MoveUp, collectorVars, mapVars, ghostVars
  <2> QED
    BY Zenon, <1>1, <1>10, <2>1, MoveTracer, RowsKept DEF IInv
<1>11. ASSUME NEW i \in 1..Len(waits), NEW t \in Tasks, PopEntry(t, i) PROVE IInv'
  <2>1. UNCHANGED <<updateVars, sessionVars, reclaimed, retired, live, used, rows>>
    BY Zenon, <1>11 DEF PopEntry, ghostVars
  <2> QED
    BY Zenon, <1>1, <1>11, <2>1, PopEntryTracer, RowsKept DEF IInv
<1>12. ASSUME NEW t \in Tasks, NEW c \in CPUs, PopReturn(t, c) PROVE IInv'
  BY Zenon, <1>1, <1>12, PopReturnTracer, PopCollect DEF IInv
<1>13. CASE UNCHANGED vars
  <2>1. /\ UNCHANGED <<updateVars, sessionVars, reclaimed, retired, live, used, rows>>
        /\ UNCHANGED <<kernelVars, pending, owner, popCall, credited, settled, failure, hooks, session>>
    BY Zenon, <1>13 DEF vars, collectorVars, mapVars, ghostVars, sessionVars, ioVars, kernelVars, probeVars
  <2>2. hooks' \in Attached /\ ObjectInv'
    BY Zenon, <1>1, <2>1 DEF TracerInv, ObjectInv, ProbeType, Full, Probed
  <2> QED
    BY Zenon, <1>1, <2>1, <2>2, TracerFrame, RowsKept DEF IInv
<1> QED
  BY Zenon, <1>2, <1>3, <1>4, <1>5, <1>6, <1>7, <1>8, <1>9, <1>10, <1>11, <1>12, <1>13 DEF Next

\* The invariant of the tracer and of the collector holds in every state.
THEOREM Invariance == Spec => []IInv
<1>1. Init => IInv
  BY Zenon, InitIInv
<1>2. IInv /\ [Next]_vars => IInv'
  BY Zenon, NextIInv
<1> QED
  BY <1>1, <1>2, PTL DEF Spec

\* The waits that kretprobe_blk_throtl_pop_queued has counted: each once, after
\* its bio was dispatched and, unless two probes were missed, for the lifetime
\* and the operation it waited with.
THEOREM CreditTheorem == Spec => []CreditedOnceToItsOwner
<1>1. IInv => CreditedOnceToItsOwner
  BY Zenon DEF IInv, TracerInv
<1> QED
  BY <1>1, Invariance, PTL

\* The failures "pop_state" and "pending_collision" are reported only when a probe
\* was missed, whenever the programs were attached or an attachment has failed.
THEOREM PairedTheorem == Spec => []PairedUnlessMissed
<1>1. IInv => PairedUnlessMissed
  BY Zenon DEF IInv, TracerInv
<1> QED
  BY <1>1, Invariance, PTL

\* reclaimIOControlRetired leaves no row behind that a later pop, or a pop that
\* was already running, could have added.
THEOREM ReclaimTheorem == Spec => []ReclaimedForGood
<1>1. IInv => ReclaimedForGood
  BY Zenon DEF IInv, CollectInv
<1> QED
  BY <1>1, Invariance, PTL

=============================================================================
