----------------------------- MODULE IoCostProofs -----------------------------
(***************************************************************************)
(* For every number of CPUs, bios, groups and lifetimes and any number of  *)
(* missed probes: the IOCOST tracer counts a wait at most once and for its *)
(* owner, and a lifetime that the collector has reclaimed gets no row      *)
(* again.                                                                  *)
(***************************************************************************)
EXTENDS IoCost, FiniteSetTheorems, SequenceTheorems, TLAPS

-----------------------------------------------------------------------------
(* The inductive invariant.                                                *)

WaitRecord == [bio : Bios, group : Groups, serial : Serials, op : Ops \cup IgnoredOps,
               state : {"waiting", "woken"}]
Callback == [id : Nat, step : {"none", "running", "woken", "kept"}, probed : BOOLEAN]
Frame == [id : Nat, key : Keys \cup {<<None, None>>}]
Active == {"attaching", "open", "restarting", "stopping"}

\* The prefixes of AttachOrder.
Attached == {<<>>, <<"wake">>, <<"wake", "free">>, <<"wake", "free", "kick">>}

KernelType ==
    /\ waits \in Seq(WaitRecord) /\ Len(waits) <= MaxWaits
    /\ live \in [Groups -> Serials \cup {None}]
    /\ waker \in [CPUs -> Callback]
    /\ missed \in Nat

ProbeType ==
    /\ hooks \in Attached
    /\ pending \in [Bios -> Nat] /\ owner \in [Groups -> Serials \cup {None}]
    /\ frame \in [CPUs -> Frame]
    /\ credited \subseteq Nat \X Keys /\ IsFiniteSet(credited)
    /\ settled \in [Keys -> Nat]

\* A group that has waiters or a callback lives; a bio waits once at a time; and
\* no two callbacks are for the same wait.
WaitInv ==
    /\ \A i \in 1..Len(waits) : waits[i].state = "waiting" =>
          live[waits[i].group] = waits[i].serial
    /\ \A i, j \in 1..Len(waits) :
          waits[i].state = "waiting" /\ waits[j].state = "waiting" /\ waits[i].bio = waits[j].bio
             => i = j

CallbackInv(c) ==
    /\ waker[c].id = None <=> waker[c].step = "none"
    /\ waker[c].id = None => ~waker[c].probed
    /\ waker[c].id # None =>
          /\ waker[c].id \in 1..Len(waits)
          /\ live[waits[waker[c].id].group] = waits[waker[c].id].serial
          /\ waits[waker[c].id].state = IF waker[c].step = "woken" THEN "woken" ELSE "waiting"
          /\ \A d \in CPUs \ {c} : waker[d].id # waker[c].id

\* All programs of the session are attached.
Full == hooks = AttachOrder /\ session \in Active

\* Nothing is recorded before admission, the last program, is attached.
ObjectInv ==
    ~Full => /\ \A b \in Bios : pending[b] = None
             /\ \A g \in Groups : owner[g] = None
             /\ \A c \in CPUs : frame[c].id = None
             /\ credited = {}

OwnerInv == \A g \in Groups : owner[g] # None => owner[g] = live[g]

\* A sample is in one place: with its bio, in the frame of a CPU, or counted.
SampleInv ==
    /\ \A b \in Bios : pending[b] # None =>
          /\ pending[b] \in 1..Len(waits)
          /\ waits[pending[b]].bio = b /\ waits[pending[b]].op \in Ops
          /\ \A c \in CPUs : frame[c].id # pending[b]
    /\ \A c \in CPUs : frame[c].id # None =>
          /\ frame[c].id \in 1..Len(waits)
          /\ frame[c].key \in Keys /\ frame[c].key[2] = waits[frame[c].id].op
          /\ \A d \in CPUs \ {c} : frame[d].id # frame[c].id

CreditInv ==
    \A p \in credited :
       /\ p[1] \in 1..Len(waits)
       /\ \A b \in Bios : pending[b] # p[1]
       /\ \A c \in CPUs : frame[c].id # p[1]

\* The frame of a probed callback holds a sample of its own bio: its own sample,
\* or one that a missed wake has left behind.
FrameInv(c) ==
    waker[c].probed /\ frame[c].id # None =>
       /\ frame[c].key[1] = waits[waker[c].id].serial
       /\ frame[c].id # waker[c].id => waits[frame[c].id].state = "woken"
       /\ FewMissed => frame[c].id = waker[c].id

\* Samples that are left behind in a healthy session are the work of a missed
\* probe, and a waiting bio does not have one that is not its own.
FreshInv ==
    ~Unhealthy =>
       /\ missed = 0 => \A b \in Bios : pending[b] # None =>
             /\ waits[pending[b]].state = "waiting"
             /\ \A c \in CPUs : waker[c].id # pending[b]
       /\ FewMissed => \A i \in 1..Len(waits) : waits[i].state = "waiting" =>
             pending[waits[i].bio] \in {None, i}

TracerInv ==
    /\ KernelType /\ ProbeType /\ WaitInv /\ ObjectInv /\ OwnerInv /\ SampleInv /\ CreditInv
    /\ \A c \in CPUs : CallbackInv(c) /\ FrameInv(c)
    /\ FreshInv /\ CreditedOnceToItsOwner

\* Update runs in an open session only, or in one that has just been cancelled.
PhaseInv ==
    /\ phase # "idle" => session \in {"open", "restarting", "stopping"}
    /\ phase = "idle" => seenRetired = {}

\* A lifetime with a marker, or reclaimed, is over.
OverInv ==
    /\ \A g \in Groups : live[g] # None => live[g] \in used
    /\ \A g, h \in Groups : live[g] # None /\ live[g] = live[h] => g = h
    /\ ~devicesChanged => \A s \in retired \cup seenRetired \cup reclaimed :
          s \in used /\ s # None /\ \A g \in Groups : live[g] # s

\* The rows of the lifetimes whose markers were read first are in the snapshot.
SnapshotInv ==
    ~devicesChanged => \A s \in seenRetired, k \in rows : k[1] = s =>
       /\ phase = "rows" => k \in mustRead
       /\ phase \in {"status", "reclaim"} => k \in currentRows

CollectInv == PhaseInv /\ OverInv /\ SnapshotInv /\ ReclaimedForGood

IInv == TracerInv /\ CollectInv

-----------------------------------------------------------------------------
(* Types and programs.                                                     *)

\* The fields of a wait; its lifetime is a serial and so not None.
LEMMA WaitFields ==
    ASSUME KernelType, NEW i \in 1..Len(waits)
    PROVE  /\ waits[i].bio \in Bios /\ waits[i].group \in Groups
           /\ waits[i].serial \in Serials /\ waits[i].serial # None
           /\ waits[i].op \in Ops \cup IgnoredOps
           /\ waits[i].state \in {"waiting", "woken"}
<1>1. waits[i] \in WaitRecord
  BY SMTT(30) DEF KernelType
<1>2. waits[i].serial # None
  BY Zenon, <1>1, CollectorConstants DEF WaitRecord, None
<1> QED
  BY Zenon, <1>1, <1>2 DEF WaitRecord

\* Admission is probed when all programs are, and then all of them are.
LEMMA Programs ==
    ASSUME hooks \in Attached
    PROVE  /\ Probed("kick") <=> Full
           /\ Full => Probed("wake") /\ Probed("free")
<1>1. CASE hooks = <<>>
  BY SMTT(30), <1>1 DEF Probed, Full, AttachOrder, Active
<1>2. CASE hooks = <<"wake">>
  BY SMTT(30), <1>2 DEF Probed, Full, AttachOrder, Active
<1>3. CASE hooks = <<"wake", "free">>
  BY SMTT(30), <1>3 DEF Probed, Full, AttachOrder, Active
<1>4. CASE hooks = <<"wake", "free", "kick">>
  <2>1. {hooks[n] : n \in 1..Len(hooks)} = {"wake", "free", "kick"}
    BY SMTT(30), <1>4
  <2> QED
    BY Zenon, <1>4, <2>1 DEF Probed, Full, AttachOrder, Active
<1> QED
  BY Zenon, <1>1, <1>2, <1>3, <1>4 DEF Attached

\* The empty values.
LEMMA EmptyValues ==
    /\ NoCallback.id = None /\ NoCallback.step = "none" /\ NoCallback.probed = FALSE
    /\ NoCallback \in Callback
    /\ NoFrame.id = None /\ NoFrame \in Frame
    /\ None \in Nat
BY Zenon DEF NoCallback, NoFrame, Callback, Frame, None

\* The number of a wait is not None.
LEMMA IdNotNone ==
    ASSUME KernelType, NEW i \in 1..Len(waits)
    PROVE  i # None
BY SMTT(30) DEF KernelType, None

\* There is no wait in an empty history.
LEMMA NoWaits ==
    ASSUME Len(waits) = 0
    PROVE  \A i \in 1..Len(waits) : FALSE
BY SMTT(30)

\* What TracerInv says of one CPU.
LEMMA OfCPU ==
    ASSUME TracerInv, NEW c \in CPUs
    PROVE  CallbackInv(c) /\ FrameInv(c)
BY Zenon DEF TracerInv

-----------------------------------------------------------------------------
(* The collector.                                                          *)

\* The collector's steps leave the tracer's failure word and the counted waits
\* alone, and the programs stay attached.
LEMMA CollectorLeaves ==
    ASSUME PhaseInv, CollectorSteps(TRUE)
    PROVE  settled' = settled /\ failure' = failure /\ (session' \in Active <=> session \in Active)
<1>1. CASE DeviceChange
  BY Zenon, <1>1 DEF DeviceChange, mapVars, ghostVars, Active
<1>2. CASE CancelSession
  BY Zenon, <1>2 DEF CancelSession, mapVars, ghostVars, Active
<1>3. CASE CaptureFails
  BY Zenon, <1>3 DEF CaptureFails, UpdateFails, mapVars
<1>4. CASE BeginUpdate(TRUE)
  BY Zenon, <1>4 DEF BeginUpdate, UpdateFails, UpdateGoesOn, mapVars, sessionVars, ghostVars, Active
<1>5. CASE CaptureRetired
  BY Zenon, <1>5 DEF CaptureRetired, UpdateGoesOn, mapVars, sessionVars, ghostVars
<1>6. CASE EndCapture
  BY Zenon, <1>6 DEF EndCapture, UpdateFails, UpdateGoesOn, mapVars, sessionVars, ghostVars, Active, PhaseInv
<1>7. CASE CommitSnapshot
  BY Zenon, <1>7 DEF CommitSnapshot, UpdateFails, UpdateGoesOn, mapVars, sessionVars, ghostVars
<1>8. CASE ResolveFailure
  BY Zenon, <1>8 DEF ResolveFailure, UpdateFails, mapVars, Active, PhaseInv
<1>9. CASE EndUpdate
  BY Zenon, <1>9 DEF EndUpdate, UpdateGoesOn, mapVars, sessionVars, ghostVars
<1>10. ASSUME NEW k \in Keys, CaptureRow(k)
       PROVE  settled' = settled /\ failure' = failure /\ session' = session
  BY Zenon, <1>10 DEF CaptureRow, UpdateGoesOn, mapVars, sessionVars, ghostVars
<1>11. ASSUME NEW s \in Serials, ReclaimIdentity(s)
       PROVE  settled' = settled /\ failure' = failure /\ session' = session
  BY Zenon, <1>11 DEF ReclaimIdentity, sessionVars
<1> QED
  BY Zenon, <1>1, <1>2, <1>3, <1>4, <1>5, <1>6, <1>7, <1>8, <1>9, <1>10, <1>11
     DEF CollectorSteps, UpdateSteps

\* A step that reads and writes nothing that the collector's invariant speaks
\* of, except that an Update has returned.
LEMMA UpdateEnds ==
    ASSUME CollectInv, UNCHANGED <<live, used, rows, retired, reclaimed, devicesChanged>>,
           phase' = "idle", seenRetired' = {}
    PROVE  CollectInv'
<1>1. PhaseInv'
  BY Zenon DEF PhaseInv
<1>2. OverInv'
  BY Zenon DEF CollectInv, OverInv
<1>3. SnapshotInv'
  BY Zenon DEF SnapshotInv
<1>4. ReclaimedForGood'
  BY Zenon DEF CollectInv, ReclaimedForGood
<1> QED
  BY Zenon, <1>1, <1>2, <1>3, <1>4 DEF CollectInv

\* A step of an Update that goes on: the markers it has read were there, and the
\* rows of those are still on the way into the snapshot.
LEMMA UpdateGoes ==
    ASSUME CollectInv, UNCHANGED <<live, used, rows, retired, reclaimed, devicesChanged, session>>,
           session \in {"open", "restarting", "stopping"}, phase' # "idle",
           seenRetired' \subseteq seenRetired \cup retired,
           SnapshotInv'
    PROVE  CollectInv'
<1>1. PhaseInv'
  BY Zenon DEF PhaseInv
<1>2. OverInv'
  BY Zenon DEF CollectInv, OverInv
<1>3. ReclaimedForGood'
  BY Zenon DEF CollectInv, ReclaimedForGood
<1> QED
  BY Zenon, <1>1, <1>2, <1>3 DEF CollectInv

\* The deletion of the rows of one identity.
LEMMA IdentityReclaimed ==
    ASSUME CollectInv, NEW s \in Serials, ReclaimIdentity(s), UNCHANGED <<live, used>>
    PROVE  CollectInv'
<1> DEFINE own == {k \in currentRows : k[1] = s}
<1>1. PICK gone \in SUBSET own, markerGone \in BOOLEAN :
         /\ markerGone => gone = own
         /\ rows' = rows \ gone /\ currentRows' = currentRows \ gone
         /\ retired' = IF markerGone THEN retired \ {s} ELSE retired
         /\ reclaimed' = IF markerGone THEN reclaimed \cup {s} ELSE reclaimed
  BY Zenon DEF ReclaimIdentity, MarkerMayGo
<1>2. /\ phase = "reclaim" /\ phase' = phase /\ s \in seenRetired /\ seenRetired' = seenRetired \ {s}
      /\ UNCHANGED <<session, devicesChanged>>
  BY Zenon DEF ReclaimIdentity, Reclaimable, sessionVars
<1>3. PhaseInv'
  BY Zenon, <1>2 DEF PhaseInv, CollectInv
<1>4. OverInv'
  BY SMTT(30), <1>1, <1>2 DEF CollectInv, OverInv
<1>5. SnapshotInv'
  BY Zenon, <1>1, <1>2 DEF CollectInv, SnapshotInv
<1>6. ReclaimedForGood'
  <2> SUFFICES ASSUME ~devicesChanged, NEW r \in reclaimed', NEW k \in rows', k[1] = r
               PROVE  FALSE
    BY Zenon, <1>2 DEF ReclaimedForGood
  <2>1. CASE r \in reclaimed
    BY Zenon, <1>1, <2>1 DEF CollectInv, ReclaimedForGood
  <2>2. CASE r \notin reclaimed
    <3>1. markerGone /\ r = s
      BY Zenon, <1>1, <2>2
    <3>2. k \in currentRows
      BY Zenon, <1>1, <1>2, <3>1 DEF CollectInv, SnapshotInv
    <3> QED
      BY Zenon, <1>1, <3>1, <3>2
  <2> QED
    BY Zenon, <2>1, <2>2
<1> QED
  BY Zenon, <1>3, <1>4, <1>5, <1>6 DEF CollectInv

\* The steps of the collector keep its invariant.
LEMMA CollectorKeeps ==
    ASSUME CollectInv, CollectorSteps(TRUE), UNCHANGED <<live, used>>
    PROVE  CollectInv'
<1>1. CASE DeviceChange
  <2>1. devicesChanged' /\ UNCHANGED <<phase, seenRetired, session>>
    BY Zenon, <1>1 DEF DeviceChange, updateVars
  <2>2. PhaseInv' /\ SnapshotInv' /\ ReclaimedForGood'
    BY Zenon, <2>1 DEF CollectInv, PhaseInv, SnapshotInv, ReclaimedForGood
  <2>3. OverInv'
    BY Zenon, <2>1 DEF CollectInv, OverInv
  <2> QED
    BY Zenon, <2>2, <2>3 DEF CollectInv
<1>2. CASE CancelSession
  <2>1. /\ session' = "stopping"
        /\ UNCHANGED <<rows, retired, phase, seenRetired, mustRead, currentRows, devicesChanged, reclaimed>>
    BY Zenon, <1>2 DEF CancelSession, mapVars, updateVars, ghostVars
  <2>2. PhaseInv'
    BY Zenon, <2>1 DEF CollectInv, PhaseInv
  <2>3. OverInv'
    BY Zenon, <2>1 DEF CollectInv, OverInv
  <2>4. SnapshotInv' /\ ReclaimedForGood'
    BY Zenon, <2>1 DEF CollectInv, SnapshotInv, ReclaimedForGood
  <2> QED
    BY Zenon, <2>2, <2>3, <2>4 DEF CollectInv
<1>3. ASSUME NEW n, UpdateFails(n) PROVE CollectInv'
  <2>1. UNCHANGED <<rows, retired, reclaimed, devicesChanged>> /\ phase' = "idle" /\ seenRetired' = {}
    BY Zenon, <1>3 DEF UpdateFails, UpdateReturns, mapVars
  <2> QED
    BY Zenon, <2>1, UpdateEnds
<1>4. ASSUME UpdateGoesOn
      PROVE  UNCHANGED <<rows, retired, reclaimed, devicesChanged, session>>
  BY Zenon, <1>4 DEF UpdateGoesOn, mapVars, sessionVars, ghostVars
<1>5. phase # "idle" => session \in {"open", "restarting", "stopping"}
  BY Zenon DEF CollectInv, PhaseInv
<1>6. CASE CaptureFails
  BY Zenon, <1>6, <1>3 DEF CaptureFails
<1>7. CASE BeginUpdate(TRUE)
  <2>1. CASE UpdateFails("restarting")
    BY Zenon, <2>1, <1>3
  <2>2. CASE UpdateGoesOn /\ phase' \in {"resolve", "retired"} /\ seenRetired' \in {seenRetired, retired}
    <3>1. SnapshotInv'
      BY Zenon, <2>2 DEF SnapshotInv
    <3>2. session = "open" /\ phase' # "idle"
      BY Zenon, <1>7, <2>2 DEF BeginUpdate
    <3> QED
      BY Zenon, <3>1, <3>2, <2>2, <1>4, UpdateGoes
  <2> QED
    BY Zenon, <2>1, <2>2, <1>7 DEF BeginUpdate
<1>8. CASE CaptureRetired
  <2>1. /\ phase = "retired" /\ phase' = "rows" /\ mustRead' = rows /\ UpdateGoesOn
        /\ seenRetired' \subseteq seenRetired \cup retired
    BY Zenon, <1>8 DEF CaptureRetired
  <2>2. SnapshotInv'
    BY Zenon, <2>1, <1>4 DEF SnapshotInv
  <2> QED
    BY Zenon, <2>1, <2>2, <1>4, <1>5, UpdateGoes
<1>9. CASE EndCapture
  <2>1. CASE UpdateFails("restarting")
    BY Zenon, <2>1, <1>3
  <2>2. CASE phase' = "status" /\ UpdateGoesOn /\ UNCHANGED <<seenRetired, mustRead, currentRows>>
    <3>1. phase = "rows" /\ mustRead \subseteq currentRows
      BY Zenon, <1>9 DEF EndCapture
    <3>2. SnapshotInv'
      BY Zenon, <3>1, <2>2, <1>4 DEF CollectInv, SnapshotInv
    <3> QED
      BY Zenon, <3>1, <3>2, <2>2, <1>4, <1>5, UpdateGoes
  <2> QED
    BY Zenon, <2>1, <2>2, <1>9 DEF EndCapture
<1>10. CASE CommitSnapshot
  <2>1. CASE UpdateFails(session)
    BY Zenon, <2>1, <1>3
  <2>2. CASE /\ phase = "status" /\ phase' \in {"resolve", "reclaim"}
             /\ UNCHANGED <<rows, retired, reclaimed, devicesChanged, session>>
             /\ UNCHANGED <<seenRetired, mustRead, currentRows>>
    <3>1. SnapshotInv'
      BY Zenon, <2>2 DEF CollectInv, SnapshotInv
    <3> QED
      BY Zenon, <3>1, <2>2, <1>5, UpdateGoes
  <2> QED
    BY Zenon, <2>1, <2>2, <1>4, <1>10 DEF CommitSnapshot, mapVars, sessionVars
<1>11. CASE ResolveFailure
  BY Zenon, <1>11, <1>3 DEF ResolveFailure
<1>12. CASE EndUpdate
  <2>1. phase' = "idle" /\ seenRetired' = {} /\ UpdateGoesOn
    BY Zenon, <1>12 DEF EndUpdate, UpdateReturns
  <2> QED
    BY Zenon, <2>1, <1>4, UpdateEnds
<1>13. ASSUME NEW k \in Keys, CaptureRow(k) PROVE CollectInv'
  <2>1. /\ phase = "rows" /\ UpdateGoesOn /\ UNCHANGED <<phase, seenRetired, mustRead>>
        /\ currentRows \subseteq currentRows'
    BY Zenon, <1>13 DEF CaptureRow
  <2>2. SnapshotInv'
    BY Zenon, <2>1, <1>4 DEF CollectInv, SnapshotInv
  <2> QED
    BY Zenon, <2>1, <2>2, <1>4, <1>5, UpdateGoes
<1> QED
  BY Zenon, <1>1, <1>2, <1>6, <1>7, <1>8, <1>9, <1>10, <1>11, <1>12, <1>13, IdentityReclaimed
     DEF CollectorSteps, UpdateSteps

-----------------------------------------------------------------------------
(* The collector's invariant and the steps of the tracer.                  *)

\* New rows are of lifetimes that are not over.
LEMMA LiveRows ==
    ASSUME CollectInv, UNCHANGED <<updateVars, sessionVars, reclaimed, retired, live, used>>,
           \A k \in rows' : k \in rows \/ \E g \in Groups : k[1] = live[g]
    PROVE  CollectInv'
<1>1. UNCHANGED <<phase, seenRetired, mustRead, currentRows, session, devicesChanged>>
  BY Zenon DEF updateVars, sessionVars
<1>2. PhaseInv'
  BY Zenon, <1>1 DEF CollectInv, PhaseInv
<1>3. OverInv'
  BY Zenon, <1>1 DEF CollectInv, OverInv
<1>4. ASSUME ~devicesChanged, NEW s \in seenRetired \cup reclaimed, NEW k \in rows', k[1] = s
      PROVE  k \in rows
  BY Zenon, <1>4 DEF CollectInv, OverInv
<1>5. SnapshotInv'
  <2> SUFFICES ASSUME ~devicesChanged, NEW s \in seenRetired, NEW k \in rows', k[1] = s
               PROVE  /\ phase = "rows" => k \in mustRead
                      /\ phase \in {"status", "reclaim"} => k \in currentRows
    BY Zenon, <1>1 DEF SnapshotInv
  <2> QED
    BY Zenon, <1>4 DEF CollectInv, SnapshotInv
<1>6. ReclaimedForGood'
  <2> SUFFICES ASSUME ~devicesChanged, NEW s \in reclaimed, NEW k \in rows', k[1] = s
               PROVE  FALSE
    BY Zenon, <1>1 DEF ReclaimedForGood
  <2> QED
    BY Zenon, <1>4 DEF CollectInv, ReclaimedForGood
<1> QED
  BY Zenon, <1>2, <1>3, <1>5, <1>6 DEF CollectInv

\* A new group has a serial of its own, or the topology has changed.
LEMMA CreateCollect ==
    ASSUME CollectInv, KernelType, NEW g \in Groups, NEW s \in Serials, GroupCreate(g, s)
    PROVE  CollectInv'
<1>1. UNCHANGED <<phase, seenRetired, mustRead, currentRows, session, devicesChanged,
                  rows, retired, reclaimed>>
  BY Zenon DEF GroupCreate, collectorVars, mapVars, updateVars, sessionVars, ghostVars
<1>2. PhaseInv'
  BY Zenon, <1>1 DEF CollectInv, PhaseInv
<1>3. SnapshotInv'
  BY Zenon, <1>1 DEF CollectInv, SnapshotInv
<1>4. ReclaimedForGood'
  BY Zenon, <1>1 DEF CollectInv, ReclaimedForGood
<1>5. OverInv'
  <2>1. /\ live' = [live EXCEPT ![g] = s] /\ used' = used \cup {s} /\ live \in [Groups -> Serials \cup {None}]
        /\ \A h \in Groups : live[h] # s
        /\ s \in used => devicesChanged
    BY Zenon DEF GroupCreate, KernelType, Range
  <2>2. \A h \in Groups : live'[h] = IF h = g THEN s ELSE live[h]
    BY Zenon, <2>1
  <2>3. \A h \in Groups : live'[h] # None => live'[h] \in used'
    BY Zenon, <2>1, <2>2 DEF CollectInv, OverInv
  <2>4. \A h, j \in Groups : live'[h] # None /\ live'[h] = live'[j] => h = j
    BY Zenon, <2>1, <2>2 DEF CollectInv, OverInv
  <2>5. ASSUME ~devicesChanged, NEW t \in retired \cup seenRetired \cup reclaimed
        PROVE  t \in used' /\ t # None /\ \A h \in Groups : live'[h] # t
    BY Zenon, <2>1, <2>2, <2>5 DEF CollectInv, OverInv
  <2> QED
    BY Zenon, <1>1, <2>3, <2>4, <2>5 DEF OverInv
<1> QED
  BY Zenon, <1>2, <1>3, <1>4, <1>5 DEF CollectInv

\* The marker that a freed group leaves is that of its lifetime, which is over.
LEMMA FreeCollect ==
    ASSUME CollectInv, KernelType, OwnerInv, NEW g \in Groups, GroupFree(g)
    PROVE  CollectInv'
<1>1. UNCHANGED <<phase, seenRetired, mustRead, currentRows, session, devicesChanged,
                  rows, reclaimed, used>>
  BY Zenon DEF GroupFree, updateVars, sessionVars, ghostVars
<1>2. PhaseInv'
  BY Zenon, <1>1 DEF CollectInv, PhaseInv
<1>3. SnapshotInv'
  BY Zenon, <1>1 DEF CollectInv, SnapshotInv
<1>4. ReclaimedForGood'
  BY Zenon, <1>1 DEF CollectInv, ReclaimedForGood
<1>5. OverInv'
  <2>1. /\ live' = [live EXCEPT ![g] = None] /\ live \in [Groups -> Serials \cup {None}]
        /\ live[g] # None
    BY Zenon DEF GroupFree, KernelType
  <2>2. \A h \in Groups : live'[h] = IF h = g THEN None ELSE live[h]
    BY Zenon, <2>1
  <2>3. \A t \in retired' : t \in retired \/ t = live[g]
    BY Zenon DEF GroupFree, PdFreeProbe, OwnerInv
  <2>4. \A h \in Groups : live'[h] # None => live'[h] \in used
    BY Zenon, <2>2 DEF CollectInv, OverInv
  <2>5. \A h, j \in Groups : live'[h] # None /\ live'[h] = live'[j] => h = j
    BY Zenon, <2>2 DEF CollectInv, OverInv
  <2>6. ASSUME ~devicesChanged, NEW t \in retired' \cup seenRetired \cup reclaimed
        PROVE  t \in used /\ t # None /\ \A h \in Groups : live'[h] # t
    BY SMTT(30), <2>1, <2>2, <2>3, <2>6 DEF CollectInv, OverInv
  <2> QED
    BY Zenon, <1>1, <2>4, <2>5, <2>6 DEF OverInv
<1> QED
  BY Zenon, <1>2, <1>3, <1>4, <1>5 DEF CollectInv

\* An object that is loaded or closed has no markers, and no Update runs.
LEMMA ReplacedCollect ==
    ASSUME CollectInv, ObjectReplaced
    PROVE  CollectInv'
<1>1. /\ rows' = {} /\ retired' = {} /\ reclaimed' = {} /\ UNCHANGED <<phase, seenRetired, live, used>>
  BY Zenon DEF ObjectReplaced, OpenSession, CloseSession, EmptyObject, updateVars, kernelVars
<1>2. phase = "idle"
  BY Zenon DEF ObjectReplaced, OpenSession, CloseSession, CollectInv, PhaseInv
<1>3. seenRetired = {}
  BY Zenon, <1>2 DEF CollectInv, PhaseInv
<1>4. PhaseInv' /\ SnapshotInv' /\ ReclaimedForGood'
  BY Zenon, <1>1, <1>2, <1>3 DEF PhaseInv, SnapshotInv, ReclaimedForGood
<1>5. OverInv'
  BY Zenon, <1>1, <1>3 DEF CollectInv, OverInv
<1> QED
  BY Zenon, <1>4, <1>5 DEF CollectInv

\* publishSession opens the session.
LEMMA PublishCollect ==
    ASSUME CollectInv, Publish
    PROVE  CollectInv'
<1>1. /\ UNCHANGED <<phase, seenRetired, mustRead, currentRows, devicesChanged, rows, retired,
                     reclaimed, live, used>>
      /\ session' = "open"
  BY Zenon DEF Publish, mapVars, updateVars, ghostVars, ioVars, kernelVars
<1>2. PhaseInv'
  BY Zenon, <1>1 DEF CollectInv, PhaseInv
<1>3. OverInv'
  BY Zenon, <1>1 DEF CollectInv, OverInv
<1>4. SnapshotInv' /\ ReclaimedForGood'
  BY Zenon, <1>1 DEF CollectInv, SnapshotInv, ReclaimedForGood
<1> QED
  BY Zenon, <1>2, <1>3, <1>4 DEF CollectInv

\* The row that a wake prepares is that of the live group the bio waits in.
LEMMA WakeCollect ==
    ASSUME CollectInv, KernelType, WaitInv, OwnerInv,
           NEW c \in CPUs, NEW i \in 1..Len(waits), WakeEntry(c, i)
    PROVE  CollectInv'
<1>1. waits[i].group \in Groups
  BY Zenon, WaitFields
<1>2. \A k \in rows' : k \in rows \/ \E g \in Groups : k[1] = live[g]
  <2>1. CASE rows' = rows
    BY Zenon, <2>1
  <2>2. ASSUME NEW n, NEW o, n = live[waits[i].group], rows' = rows \cup {<<n, o>>}
        PROVE  \A k \in rows' : k \in rows \/ \E g \in Groups : k[1] = live[g]
    BY SMTT(30), <1>1, <2>2
  <2>3. CASE WakeEntryProbe(c, i)
    <3>1. \/ rows' = rows
          \/ rows' = rows \cup {<<IF owner[waits[i].group] # None THEN owner[waits[i].group]
                                  ELSE live[waits[i].group],
                                  waits[pending[waits[i].bio]].op>>}
      BY Zenon, <2>3 DEF WakeEntryProbe
    <3>2. (IF owner[waits[i].group] # None THEN owner[waits[i].group] ELSE live[waits[i].group])
             = live[waits[i].group]
      BY Zenon, <1>1 DEF OwnerInv
    <3> QED
      BY Zenon, <3>1, <3>2, <2>1, <2>2
  <2> QED
    BY Zenon, <2>1, <2>3 DEF WakeEntry
<1>3. UNCHANGED <<updateVars, sessionVars, reclaimed, retired, live, used>>
  BY Zenon DEF WakeEntry, ghostVars
<1> QED
  BY Zenon, <1>2, <1>3, LiveRows

-----------------------------------------------------------------------------
(* The tracer and the steps that are not of a bio.                         *)

\* Probes that were missed stay missed.
LEMMA FewBefore ==
    ASSUME missed \in Nat, missed' \in {missed, missed + 1}
    PROVE  /\ FewMissed' => FewMissed
           /\ missed' = 0 => missed = 0
           /\ missed' = missed + 1 => missed' # 0 /\ (FewMissed' => missed = 0)
BY SMTT(30) DEF FewMissed

\* The counted waits, when no wait is counted.
LEMMA CreditKept ==
    ASSUME KernelType, CreditInv, CreditedOnceToItsOwner, credited' = credited, settled' = settled,
           FewMissed' => FewMissed,
           \A i \in 1..Len(waits) : /\ waits'[i].serial = waits[i].serial /\ waits'[i].op = waits[i].op
                                    /\ waits[i].state = "woken" => waits'[i].state = "woken"
    PROVE  CreditedOnceToItsOwner'
<1>1. ASSUME NEW p \in credited
      PROVE  /\ waits'[p[1]].state = "woken" /\ waits'[p[1]].op = p[2][2]
             /\ FewMissed' => waits'[p[1]].serial = p[2][1]
             /\ \A q \in credited : q[1] = p[1] => q = p
  <2>1. p[1] \in 1..Len(waits)
    BY Zenon DEF CreditInv
  <2> QED
    BY Zenon, <2>1 DEF CreditedOnceToItsOwner
<1>2. \A k \in Keys : settled'[k] = Cardinality({p \in credited' : p[2] = k})
  BY Zenon DEF CreditedOnceToItsOwner
<1> QED
  BY Zenon, <1>1, <1>2 DEF CreditedOnceToItsOwner

\* A step that leaves the kernel and the recorded samples alone.
LEMMA TracerFrame ==
    ASSUME TracerInv, UNCHANGED <<kernelVars, pending, owner, frame, credited, settled, failure>>,
           hooks' \in Attached, ObjectInv'
    PROVE  TracerInv'
<1>1. UNCHANGED <<waits, live, waker, missed>>
  BY Zenon DEF kernelVars
<1>2. KernelType' /\ WaitInv'
  BY Zenon, <1>1 DEF TracerInv, KernelType, WaitInv
<1>3. ProbeType'
  BY Zenon DEF TracerInv, ProbeType
<1>4. OwnerInv' /\ CreditInv'
  BY Zenon, <1>1 DEF TracerInv, OwnerInv, CreditInv
<1>5. SampleInv'
  BY Zenon, <1>1 DEF TracerInv, SampleInv
<1>6. ASSUME NEW c \in CPUs PROVE CallbackInv(c)' /\ FrameInv(c)'
  BY Zenon, <1>1, OfCPU DEF CallbackInv, FrameInv, FewMissed
<1>7. FreshInv'
  BY Zenon, <1>1 DEF TracerInv, FreshInv, Unhealthy, FewMissed
<1>8. CreditedOnceToItsOwner'
  BY Zenon, <1>1, CreditKept DEF TracerInv, FewMissed
<1> QED
  BY Zenon, <1>2, <1>3, <1>4, <1>5, <1>6, <1>7, <1>8 DEF TracerInv

\* The collector, and the publication of the session.
LEMMA CollectTracer ==
    ASSUME TracerInv, PhaseInv, Collect
    PROVE  TracerInv'
<1>1. settled' = settled /\ failure' = failure /\ (session' \in Active <=> session \in Active)
  BY Zenon, CollectorLeaves DEF Collect
<1>2. UNCHANGED <<kernelVars, hooks, pending, owner, frame, credited>>
  BY Zenon DEF Collect, ioVars, probeVars
<1>3. ObjectInv' /\ hooks' \in Attached
  BY Zenon, <1>1, <1>2 DEF TracerInv, ObjectInv, Full, ProbeType
<1> QED
  BY Zenon, <1>1, <1>2, <1>3, TracerFrame

\* The collector publishes a snapshot: the tracer's state stays.
LEMMA PublishTracer ==
    ASSUME TracerInv, Publish
    PROVE  TracerInv'
<1>1. settled' = settled /\ failure' = failure /\ (session' \in Active <=> session \in Active)
  BY Zenon DEF Publish, mapVars, ghostVars, Active
<1>2. UNCHANGED <<kernelVars, hooks, pending, owner, frame, credited>>
  BY Zenon DEF Publish, ioVars, probeVars
<1>3. ObjectInv' /\ hooks' \in Attached
  BY Zenon, <1>1, <1>2 DEF TracerInv, ObjectInv, Full, ProbeType
<1> QED
  BY Zenon, <1>1, <1>2, <1>3, TracerFrame

\* Short sequences.
LEMMA AppendToOne ==
    ASSUME NEW S, NEW x \in S, NEW y \in S
    PROVE  Append(<<x>>, y) = <<x, y>>
<1>1. <<x>> \in Seq(S) /\ <<x, y>> \in Seq(S) /\ Len(<<x>>) = 1 /\ Len(<<x, y>>) = 2
  BY SMTT(30)
<1>2. Append(<<x>>, y) \in Seq(S) /\ Len(Append(<<x>>, y)) = 2
  BY SMTT(30), <1>1, AppendProperties
<1>3. \A i \in 1..2 : Append(<<x>>, y)[i] = <<x, y>>[i]
  BY SMTT(30)
<1> QED
  BY Zenon, <1>1, <1>2, <1>3, SeqEqual

\* A third element after two.
LEMMA AppendToTwo ==
    ASSUME NEW S, NEW x \in S, NEW y \in S, NEW z \in S
    PROVE  Append(<<x, y>>, z) = <<x, y, z>>
<1>1. /\ <<x, y>> \in Seq(S) /\ <<x, y, z>> \in Seq(S)
      /\ Len(<<x, y>>) = 2 /\ Len(<<x, y, z>>) = 3
  BY SMTT(30)
<1>2. Append(<<x, y>>, z) \in Seq(S) /\ Len(Append(<<x, y>>, z)) = 3
  BY SMTT(30), <1>1, AppendProperties
<1>3. \A i \in 1..3 : Append(<<x, y>>, z)[i] = <<x, y, z>>[i]
  BY SMTT(30)
<1> QED
  BY Zenon, <1>1, <1>2, <1>3, SeqEqual

\* One more program: until the last is attached nothing is recorded.
LEMMA AttachTracer ==
    ASSUME TracerInv, AttachNext
    PROVE  TracerInv'
<1>1. UNCHANGED <<kernelVars, pending, owner, frame, credited, settled, failure>>
  BY Zenon DEF AttachNext, collectorVars, mapVars, ghostVars
<1>2. hooks \in Attached /\ Len(hooks) < 3 /\ hooks' = Append(hooks, AttachOrder[Len(hooks) + 1])
  BY Zenon DEF AttachNext, TracerInv, ProbeType, AttachOrder
<1>3. hooks \in {<<>>, <<"wake">>, <<"wake", "free">>}
  BY SMTT(30), <1>2 DEF Attached
<1>4. hooks' \in Attached
  <2>1. ASSUME hooks = <<>> PROVE hooks' = <<"wake">>
    BY SMTT(30), <1>2, <2>1 DEF AttachOrder
  <2>2. ASSUME hooks = <<"wake">> PROVE hooks' = <<"wake", "free">>
    <3>1. Len(hooks) = 1 /\ AttachOrder[1 + 1] = "free"
      BY SMTT(30), <2>2 DEF AttachOrder
    <3>2. Append(<<"wake">>, "free") = <<"wake", "free">>
      <4>1. "wake" \in {"wake", "free"} /\ "free" \in {"wake", "free"}
        BY Zenon
      <4> QED
        BY Zenon, <4>1, AppendToOne
    <3> QED
      BY Zenon, <1>2, <2>2, <3>1, <3>2
  <2>3. ASSUME hooks = <<"wake", "free">> PROVE hooks' = <<"wake", "free", "kick">>
    <3>1. Len(hooks) = 2 /\ AttachOrder[2 + 1] = "kick"
      BY SMTT(30), <2>3 DEF AttachOrder
    <3>2. Append(<<"wake", "free">>, "kick") = <<"wake", "free", "kick">>
      <4>1. /\ "wake" \in {"wake", "free", "kick"} /\ "free" \in {"wake", "free", "kick"}
              /\ "kick" \in {"wake", "free", "kick"}
        BY Zenon
      <4> QED
        BY Zenon, <4>1, AppendToTwo
    <3> QED
      BY Zenon, <1>2, <2>3, <3>1, <3>2
  <2> QED
    BY Zenon, <1>3, <2>1, <2>2, <2>3 DEF Attached
<1>5. ~Full
  BY SMTT(30), <1>2 DEF Full, AttachOrder
<1>6. ObjectInv'
  BY Zenon, <1>1, <1>5 DEF TracerInv, ObjectInv
<1> QED
  BY Zenon, <1>1, <1>4, <1>6, TracerFrame

\* A new object has empty maps.
LEMMA ReplacedTracer ==
    ASSUME TracerInv, ObjectReplaced
    PROVE  TracerInv'
<1>1. /\ UNCHANGED <<waits, live, waker, missed>> /\ hooks' = <<>>
      /\ pending' = [b \in Bios |-> None] /\ owner' = [g \in Groups |-> None]
      /\ frame' = [c \in CPUs |-> NoFrame] /\ credited' = {} /\ settled' = ZeroTotals
  BY Zenon DEF ObjectReplaced, OpenSession, CloseSession, EmptyObject, kernelVars
<1>2. /\ \A b \in Bios : pending'[b] = None
      /\ \A g \in Groups : owner'[g] = None
      /\ \A c \in CPUs : frame'[c].id = None
  BY Zenon, <1>1, EmptyValues
<1>3. KernelType' /\ WaitInv'
  BY Zenon, <1>1 DEF TracerInv, KernelType, WaitInv
<1>4. ProbeType'
  <2>1. pending' \in [Bios -> Nat] /\ owner' \in [Groups -> Serials \cup {None}] /\ frame' \in [CPUs -> Frame]
    BY Zenon, <1>1, EmptyValues
  <2>2. settled' \in [Keys -> Nat] /\ hooks' \in Attached
    BY Zenon, <1>1 DEF ZeroTotals, Attached
  <2>3. credited' \subseteq Nat \X Keys /\ IsFiniteSet(credited')
    BY Zenon, <1>1, FS_EmptySet
  <2> QED
    BY Zenon, <2>1, <2>2, <2>3 DEF ProbeType
<1>5. ObjectInv' /\ OwnerInv' /\ SampleInv' /\ CreditInv'
  BY Zenon, <1>1, <1>2 DEF ObjectInv, OwnerInv, SampleInv, CreditInv
<1>6. ASSUME NEW c \in CPUs PROVE CallbackInv(c)' /\ FrameInv(c)'
  BY Zenon, <1>1, <1>2, OfCPU DEF CallbackInv, FrameInv
<1>7. FreshInv'
  <2> SUFFICES ASSUME NEW i \in 1..Len(waits) PROVE pending'[waits[i].bio] = None
    BY Zenon, <1>1, <1>2 DEF FreshInv
  <2> QED
    BY Zenon, <1>2, WaitFields DEF TracerInv
<1>8. CreditedOnceToItsOwner'
  <2>1. ASSUME NEW k \in Keys PROVE settled'[k] = Cardinality({p \in credited' : p[2] = k})
    <3>1. {p \in credited' : p[2] = k} = {}
      BY Zenon, <1>1
    <3> QED
      BY Zenon, <1>1, <3>1, FS_EmptySet DEF ZeroTotals
  <2> QED
    BY Zenon, <1>1, <2>1 DEF CreditedOnceToItsOwner
<1> QED
  BY Zenon, <1>3, <1>4, <1>5, <1>6, <1>7, <1>8 DEF TracerInv

\* A group that no bio waits in and no callback runs for comes or goes.
LEMMA GroupStep ==
    ASSUME TracerInv, NEW g \in Groups, NEW x \in Serials \cup {None},
           live' = [live EXCEPT ![g] = x],
           \A i \in 1..Len(waits) : waits[i].state = "waiting" => waits[i].group # g, Idle(g),
           UNCHANGED <<waits, waker, missed, hooks, pending, frame, credited, settled, session>>,
           failure' = "none" => failure = "none",
           owner' \in [Groups -> Serials \cup {None}], OwnerInv',
           \A h \in Groups : owner[h] = None => owner'[h] = None
    PROVE  TracerInv'
<1>1. live \in [Groups -> Serials \cup {None}]
  BY Zenon DEF TracerInv, KernelType
<1>2. \A h \in Groups : h # g => live'[h] = live[h]
  BY Zenon, <1>1
<1>3. KernelType'
  BY Zenon, <1>1 DEF TracerInv, KernelType
<1>4. ProbeType'
  BY Zenon DEF TracerInv, ProbeType
<1>5. WaitInv'
  <2>1. ASSUME NEW i \in 1..Len(waits), waits[i].state = "waiting"
        PROVE  live'[waits[i].group] = waits[i].serial
    <3>1. waits[i].group \in Groups /\ waits[i].group # g
      BY Zenon, <2>1, WaitFields DEF TracerInv
    <3> QED
      BY Zenon, <1>2, <2>1, <3>1 DEF TracerInv, WaitInv
  <2> QED
    BY Zenon, <2>1 DEF TracerInv, WaitInv
<1>6. ObjectInv'
  BY Zenon DEF TracerInv, ObjectInv, Full
<1>7. SampleInv' /\ CreditInv'
  BY Zenon DEF TracerInv, SampleInv, CreditInv
<1>8. ASSUME NEW c \in CPUs PROVE CallbackInv(c)' /\ FrameInv(c)'
  <2>1. waker[c].id # None => /\ waker[c].id \in 1..Len(waits)
                              /\ waits[waker[c].id].group \in Groups
                              /\ waits[waker[c].id].group # g
    BY Zenon, OfCPU, WaitFields DEF CallbackInv, TracerInv, Idle
  <2>2. CallbackInv(c)'
    BY Zenon, <1>2, <2>1, OfCPU DEF CallbackInv
  <2>3. FrameInv(c)'
    BY Zenon, OfCPU DEF FrameInv, FewMissed
  <2> QED
    BY Zenon, <2>2, <2>3
<1>9. FreshInv'
  BY Zenon DEF TracerInv, FreshInv, Unhealthy, FewMissed
<1>10. CreditedOnceToItsOwner'
  BY Zenon, CreditKept DEF TracerInv, FewMissed
<1> QED
  BY Zenon, <1>3, <1>4, <1>5, <1>6, <1>7, <1>8, <1>9, <1>10 DEF TracerInv

\* A group is created: no wait and no callback belongs to it yet.
LEMMA CreateTracer ==
    ASSUME TracerInv, NEW g \in Groups, NEW s \in Serials, GroupCreate(g, s)
    PROVE  TracerInv'
<1>1. /\ live' = [live EXCEPT ![g] = s] /\ live[g] = None
      /\ UNCHANGED <<waits, waker, missed, hooks, pending, owner, frame, credited, settled, session, failure>>
  BY Zenon DEF GroupCreate, collectorVars, mapVars, sessionVars, ghostVars, probeVars
<1>2. \A i \in 1..Len(waits) : waits[i].state = "waiting" => waits[i].group # g
  BY Zenon, <1>1, WaitFields DEF TracerInv, WaitInv
<1>3. Idle(g)
  <2> SUFFICES ASSUME NEW c \in CPUs, waker[c].id # None PROVE waits[waker[c].id].group # g
    BY Zenon DEF Idle
  <2>1. waker[c].id \in 1..Len(waits) /\ live[waits[waker[c].id].group] = waits[waker[c].id].serial
    BY Zenon, OfCPU DEF CallbackInv
  <2> QED
    BY Zenon, <1>1, <2>1, WaitFields DEF TracerInv
<1>4. owner' \in [Groups -> Serials \cup {None}]
  BY Zenon, <1>1 DEF TracerInv, ProbeType
<1>5. OwnerInv'
  <2>1. live \in [Groups -> Serials \cup {None}]
    BY Zenon DEF TracerInv, KernelType
  <2>2. \A h \in Groups : h # g => live'[h] = live[h]
    BY Zenon, <1>1, <2>1
  <2> QED
    BY Zenon, <1>1, <2>2 DEF TracerInv, OwnerInv
<1> QED
  BY Zenon, <1>1, <1>2, <1>3, <1>4, <1>5, GroupStep

\* A group that nothing waits in is freed, and the probe drops its owner.
LEMMA FreeTracer ==
    ASSUME TracerInv, NEW g \in Groups, GroupFree(g)
    PROVE  TracerInv'
<1>1. /\ live' = [live EXCEPT ![g] = None] /\ Idle(g) /\ PdFreeProbe(g)
      /\ UNCHANGED <<waits, waker, missed, hooks, pending, frame, credited, settled, session>>
  BY Zenon DEF GroupFree, sessionVars, ghostVars
<1>2. \A i \in 1..Len(waits) : waits[i].state = "waiting" => waits[i].group # g
  <2>1. \A i \in 1..Len(waits) : i \in Ids
    BY SMTT(30), TracerConstants DEF TracerInv, KernelType, Ids
  <2> QED
    BY Zenon, <2>1 DEF GroupFree, Waiting
<1>3. /\ owner \in [Groups -> Serials \cup {None}] /\ live \in [Groups -> Serials \cup {None}]
      /\ hooks \in Attached
  BY Zenon DEF TracerInv, ProbeType, KernelType
<1>4. /\ failure' = "none" => failure = "none"
      /\ owner' = owner \/ owner' = [owner EXCEPT ![g] = None]
      /\ Probed("free") /\ owner[g] # None => owner' = [owner EXCEPT ![g] = None]
  BY Zenon, <1>1 DEF PdFreeProbe
<1>5. owner' \in [Groups -> Serials \cup {None}]
  BY Zenon, <1>3, <1>4
<1>6. \A h \in Groups : h # g => owner'[h] = owner[h] /\ live'[h] = live[h]
  BY Zenon, <1>1, <1>3, <1>4
<1>7. owner'[g] = None
  <2>1. CASE owner[g] = None
    BY Zenon, <2>1, <1>3, <1>4
  <2>2. CASE owner[g] # None
    <3>1. Probed("free")
      BY Zenon, <2>2, <1>3, Programs DEF TracerInv, ObjectInv
    <3> QED
      BY Zenon, <3>1, <2>2, <1>3, <1>4
  <2> QED
    BY Zenon, <2>1, <2>2
<1>8. OwnerInv' /\ \A h \in Groups : owner[h] = None => owner'[h] = None
  BY Zenon, <1>6, <1>7 DEF TracerInv, OwnerInv
<1> QED
  BY Zenon, <1>1, <1>2, <1>4, <1>5, <1>8, GroupStep

-----------------------------------------------------------------------------
(* Admission.                                                              *)

\* What a bio that starts to wait finds and leaves: its sample is recorded, or
\* there is a reason why not.
LEMMA AdmitEffect ==
    ASSUME TracerInv, NEW b \in Bios, NEW g \in Groups, NEW op \in Ops \cup IgnoredOps,
           Admit(b, g, op)
    PROVE  /\ missed' \in {missed, missed + 1}
           /\ Unhealthy => Unhealthy'
           /\ \/ /\ pending' = [pending EXCEPT ![b] = Len(waits) + 1]
                 /\ Full /\ op \in Ops /\ missed' = missed
              \/ /\ pending' = pending
                 /\ ~Full \/ Unhealthy' \/ op \in IgnoredOps \/ missed' = missed + 1
<1>1. Probed("kick") <=> Full
  BY Zenon, Programs DEF TracerInv, ProbeType
<1>2. CASE KickProbe(b, op, Len(waits) + 1) /\ UNCHANGED missed
  BY Zenon, <1>1, <1>2 DEF KickProbe, Unhealthy
<1>3. CASE Probed("kick") /\ Miss /\ UNCHANGED <<pending, failure>>
  BY Zenon, <1>3 DEF Miss, Unhealthy
<1> QED
  BY Zenon, <1>2, <1>3 DEF Admit

\* A wait is appended to the record of all waits.
LEMMA OneMoreWait ==
    ASSUME KernelType, NEW w \in WaitRecord, waits' = Append(waits, w)
    PROVE  /\ waits' \in Seq(WaitRecord) /\ Len(waits) \in Nat /\ Len(waits') = Len(waits) + 1
           /\ \A i \in 1..Len(waits) : waits'[i] = waits[i] /\ i \in 1..Len(waits')
           /\ waits'[Len(waits) + 1] = w /\ Len(waits) + 1 \in 1..Len(waits')
           /\ \A i \in 1..Len(waits') : i \in 1..Len(waits) \/ i = Len(waits) + 1
           /\ Len(waits) + 1 \notin 1..Len(waits)
           /\ Len(waits) + 1 # None
<1>1. waits \in Seq(WaitRecord)
  BY Zenon DEF KernelType
<1> QED
  BY SMTT(30), <1>1 DEF None

\* A bio is admitted and waits: the entry that the probe notes is its own.
LEMMA AdmitTracer ==
    ASSUME TracerInv, NEW b \in Bios, NEW g \in Groups, NEW op \in Ops \cup IgnoredOps,
           Admit(b, g, op)
    PROVE  TracerInv'
<1> DEFINE n == Len(waits) + 1
           w == [bio |-> b, group |-> g, serial |-> live[g], op |-> op, state |-> "waiting"]
<1> USE DEF TracerInv
<1>1. /\ UNCHANGED <<live, waker, hooks, owner, frame, credited, settled, session>>
      /\ waits' = Append(waits, w) /\ live[g] # None /\ Len(waits) < MaxWaits
  BY Zenon DEF Admit, sessionVars, ghostVars
<1>2. w \in WaitRecord
  <2>1. live[g] \in Serials
    BY Zenon, <1>1 DEF KernelType
  <2> QED
    BY Zenon, <2>1 DEF WaitRecord
<1>3. /\ waits' \in Seq(WaitRecord) /\ Len(waits) \in Nat /\ Len(waits') = n
      /\ \A i \in 1..Len(waits) : waits'[i] = waits[i] /\ i \in 1..Len(waits')
      /\ waits'[n] = w /\ n \in 1..Len(waits')
      /\ \A i \in 1..Len(waits') : i \in 1..Len(waits) \/ i = n
      /\ n \notin 1..Len(waits) /\ n # None
  BY Zenon, <1>1, <1>2, OneMoreWait
<1>4. w.bio = b /\ w.group = g /\ w.serial = live[g] /\ w.op = op /\ w.state = "waiting"
  BY Zenon
<1>5. /\ missed' \in {missed, missed + 1}
      /\ Unhealthy => Unhealthy'
      /\ \/ pending' = [pending EXCEPT ![b] = n] /\ Full /\ op \in Ops /\ missed' = missed
         \/ /\ pending' = pending
            /\ ~Full \/ Unhealthy' \/ op \in IgnoredOps \/ missed' = missed + 1
  BY Zenon, AdmitEffect
<1>6. /\ FewMissed' => FewMissed /\ (missed' = 0 => missed = 0)
      /\ missed' = missed + 1 => missed' # 0 /\ (FewMissed' => missed = 0)
      /\ missed' \in Nat
  BY SMTT(30), <1>5, FewBefore DEF KernelType
<1>7. \A i \in 1..Len(waits) : waits[i].state = "waiting" => waits[i].bio # b
  <2>1. \A i \in 1..Len(waits) : i \in Ids
    BY SMTT(30), TracerConstants DEF KernelType, Ids
  <2> QED
    BY Zenon, <2>1 DEF Admit, Waiting
<1>8. Full' <=> Full
  BY Zenon, <1>1 DEF Full
<1>9. pending \in [Bios -> Nat] /\ \A d \in Bios : d # b => pending'[d] = pending[d]
  BY Zenon, <1>5 DEF ProbeType
<1>10. \/ pending'[b] = n /\ Full /\ op \in Ops
       \/ /\ pending'[b] = pending[b]
          /\ ~Full \/ Unhealthy' \/ op \in IgnoredOps \/ missed' = missed + 1
  BY Zenon, <1>5, <1>9
<1> HIDE DEF n, w, TracerInv
<1>11. KernelType'
  BY SMTT(30), <1>1, <1>3, <1>6, TracerConstants DEF TracerInv, KernelType, n
<1>12. ProbeType'
  <2>1. pending' \in [Bios -> Nat]
    BY SMTT(30), <1>3, <1>5, <1>9 DEF n
  <2> QED
    BY Zenon, <1>1, <2>1 DEF TracerInv, ProbeType
<1>13. WaitInv'
  <2>1. ASSUME NEW i \in 1..Len(waits'), waits'[i].state = "waiting"
        PROVE  live'[waits'[i].group] = waits'[i].serial
    BY SMTT(30), <1>1, <1>3, <1>4, <2>1 DEF TracerInv, WaitInv
  <2>2. ASSUME NEW i \in 1..Len(waits'), NEW j \in 1..Len(waits'), waits'[i].state = "waiting",
               waits'[j].state = "waiting", waits'[i].bio = waits'[j].bio
        PROVE  i = j
    BY SMTT(30), <1>3, <1>4, <1>7, <2>2 DEF TracerInv, WaitInv
  <2> QED
    BY Zenon, <2>1, <2>2 DEF WaitInv
<1>14. ObjectInv'
  BY Zenon, <1>1, <1>5, <1>8 DEF TracerInv, ObjectInv
<1>15. OwnerInv'
  BY Zenon, <1>1 DEF TracerInv, OwnerInv
<1>16. SampleInv'
  <2>1. ASSUME NEW c \in CPUs, frame[c].id # None PROVE frame[c].id \in 1..Len(waits)
    BY Zenon, <2>1 DEF TracerInv, SampleInv
  <2>2. ASSUME NEW d \in Bios, pending'[d] # None
        PROVE  /\ pending'[d] \in 1..Len(waits')
               /\ waits'[pending'[d]].bio = d /\ waits'[pending'[d]].op \in Ops
               /\ \A c \in CPUs : frame'[c].id # pending'[d]
    <3>1. CASE pending'[d] = pending[d]
      BY SMTT(30), <1>1, <1>3, <2>2, <3>1 DEF TracerInv, SampleInv
    <3>2. CASE d = b /\ pending'[d] = n /\ op \in Ops
      BY SMTT(30), <1>1, <1>3, <1>4, <2>1, <3>2
    <3> QED
      BY Zenon, <1>9, <1>10, <3>1, <3>2
  <2>3. ASSUME NEW c \in CPUs, frame'[c].id # None
        PROVE  /\ frame'[c].id \in 1..Len(waits')
               /\ frame'[c].key \in Keys /\ frame'[c].key[2] = waits'[frame'[c].id].op
               /\ \A d \in CPUs \ {c} : frame'[d].id # frame'[c].id
    BY SMTT(30), <1>1, <1>3, <2>3 DEF TracerInv, SampleInv
  <2> QED
    BY Zenon, <2>2, <2>3 DEF SampleInv
<1>17. CreditInv'
  <2> SUFFICES ASSUME NEW p \in credited
               PROVE  /\ p[1] \in 1..Len(waits')
                      /\ \A d \in Bios : pending'[d] # p[1]
                      /\ \A c \in CPUs : frame[c].id # p[1]
    BY Zenon, <1>1 DEF CreditInv
  <2>1. p[1] \in 1..Len(waits) /\ (\A d \in Bios : pending[d] # p[1]) /\ \A c \in CPUs : frame[c].id # p[1]
    BY Zenon DEF TracerInv, CreditInv
  <2> QED
    BY SMTT(30), <2>1, <1>3, <1>9, <1>10
<1>18. ASSUME NEW c \in CPUs PROVE CallbackInv(c)' /\ FrameInv(c)'
  <2>1. waker[c].id # None => waker[c].id \in 1..Len(waits)
    BY Zenon, OfCPU DEF CallbackInv
  <2>2. frame[c].id # None => frame[c].id \in 1..Len(waits)
    BY Zenon DEF TracerInv, SampleInv
  <2>3. CallbackInv(c)'
    BY SMTT(30), <1>1, <1>3, <2>1, OfCPU DEF CallbackInv
  <2>4. waker[c].probed => waker[c].id # None
    BY Zenon, OfCPU DEF CallbackInv
  <2>5. FrameInv(c)'
    BY SMTT(30), <1>1, <1>3, <1>6, <2>1, <2>2, <2>4, OfCPU DEF FrameInv
  <2> QED
    BY Zenon, <2>3, <2>5
<1>19. FreshInv'
  <2> SUFFICES ASSUME ~Unhealthy'
               PROVE  /\ missed' = 0 => \A d \in Bios : pending'[d] # None =>
                            /\ waits'[pending'[d]].state = "waiting"
                            /\ \A c \in CPUs : waker'[c].id # pending'[d]
                      /\ FewMissed' => \A i \in 1..Len(waits') : waits'[i].state = "waiting" =>
                            pending'[waits'[i].bio] \in {None, i}
    BY Zenon DEF FreshInv
  <2>1. ASSUME missed' = 0, NEW d \in Bios, pending'[d] # None
        PROVE  waits'[pending'[d]].state = "waiting" /\ \A c \in CPUs : waker'[c].id # pending'[d]
    <3>1. CASE pending'[d] = pending[d]
      <4>1. pending[d] \in 1..Len(waits)
        BY Zenon, <2>1, <3>1 DEF TracerInv, SampleInv
      <4>2. waits[pending[d]].state = "waiting" /\ \A c \in CPUs : waker[c].id # pending[d]
        BY Zenon, <1>5, <1>6, <2>1, <3>1 DEF TracerInv, FreshInv
      <4> QED
        BY Zenon, <1>1, <1>3, <3>1, <4>1, <4>2
    <3>2. CASE pending'[d] = n
      <4>1. \A c \in CPUs : waker[c].id # n
        BY Zenon, <1>3, OfCPU DEF CallbackInv
      <4> QED
        BY Zenon, <1>1, <1>3, <1>4, <3>2, <4>1
    <3> QED
      BY Zenon, <1>9, <1>10, <3>1, <3>2
  <2>2. ASSUME FewMissed', NEW i \in 1..Len(waits'), waits'[i].state = "waiting"
        PROVE  pending'[waits'[i].bio] \in {None, i}
    <3>1. CASE i \in 1..Len(waits)
      <4>1. waits[i].state = "waiting" /\ waits'[i].bio = waits[i].bio /\ waits[i].bio # b
        BY Zenon, <1>3, <1>7, <2>2, <3>1
      <4>2. waits[i].bio \in Bios
        BY Zenon, <3>1, WaitFields DEF TracerInv
      <4>3. pending[waits[i].bio] \in {None, i}
        BY Zenon, <1>5, <1>6, <2>2, <3>1, <4>1 DEF TracerInv, FreshInv
      <4> QED
        BY Zenon, <1>9, <4>1, <4>2, <4>3
    <3>2. CASE i = n
      <4>1. waits'[i].bio = b
        BY Zenon, <1>3, <1>4, <3>2
      <4>2. CASE pending'[b] = n
        BY Zenon, <3>2, <4>1, <4>2
      <4>3. CASE pending'[b] = pending[b] /\ ~Full
        BY Zenon, <4>1, <4>3 DEF TracerInv, ObjectInv
      <4>4. CASE pending'[b] = pending[b] /\ (op \in IgnoredOps \/ missed' = missed + 1)
        <5>1. missed = 0
          BY Zenon, <1>6, <2>2, <4>4 DEF FewMissed
        <5>2. pending[b] = None
          BY Zenon, <1>5, <1>7, <5>1 DEF TracerInv, FreshInv, SampleInv
        <5> QED
          BY Zenon, <4>1, <4>4, <5>2
      <4> QED
        BY Zenon, <1>10, <4>2, <4>3, <4>4
    <3> QED
      BY Zenon, <1>3, <3>1, <3>2
  <2> QED
    BY Zenon, <2>1, <2>2
<1>20. CreditedOnceToItsOwner'
  BY Zenon, <1>1, <1>3, <1>6, CreditKept DEF TracerInv
<1> QED
  BY Zenon, <1>11, <1>12, <1>13, <1>14, <1>15, <1>16, <1>17, <1>18, <1>19, <1>20 DEF TracerInv

-----------------------------------------------------------------------------
(* The wake callback.                                                      *)

\* A callback starts on a CPU, whatever its probe does.
LEMMA CallbackStarts ==
    ASSUME TracerInv, NEW c \in CPUs, NEW i \in 1..Len(waits), WakeEntry(c, i)
    PROVE  /\ UNCHANGED <<waits, live, hooks, credited, settled, session>>
           /\ waker' \in [CPUs -> Callback]
           /\ waker'[c].id = i /\ waker'[c].step = "running"
           /\ \A d \in CPUs \ {c} : waker'[d] = waker[d] /\ waker[d].id # i
           /\ waits[i].state = "waiting" /\ i # None
<1>1. waker \in [CPUs -> Callback]
  BY Zenon DEF TracerInv, KernelType
<1>2. PICK q \in BOOLEAN : waker' = [waker EXCEPT ![c] = [id |-> i, step |-> "running", probed |-> q]]
  BY Zenon DEF WakeEntry
<1>3. [id |-> i, step |-> "running", probed |-> q] \in Callback
  BY SMTT(30) DEF Callback
<1>4. waker' \in [CPUs -> Callback]
  BY Zenon, <1>1, <1>2, <1>3
<1>5. waker'[c].id = i /\ waker'[c].step = "running" /\ \A d \in CPUs \ {c} : waker'[d] = waker[d]
  BY Zenon, <1>1, <1>2
<1>6. waits[i].state = "waiting" /\ Idle(waits[i].group)
  BY Zenon DEF WakeEntry, Waiting
<1>7. i # None
  BY SMTT(30) DEF None
<1>8. \A d \in CPUs \ {c} : waker[d].id # i
  BY Zenon, <1>6, <1>7 DEF Idle
<1>9. UNCHANGED <<waits, live, hooks, credited, settled, session>>
  BY Zenon DEF WakeEntry, sessionVars, ghostVars
<1> QED
  BY Zenon, <1>4, <1>5, <1>6, <1>7, <1>8, <1>9

\* What the entry probe does to the maps: the sample moves into the frame, or
\* the frame is empty, or the probe did not run.
LEMMA EntryEffect ==
    ASSUME TracerInv, NEW c \in CPUs, NEW i \in 1..Len(waits), WakeEntry(c, i)
    PROVE  \/ /\ ~Unhealthy /\ pending[waits[i].bio] # None
              /\ pending' = [pending EXCEPT ![waits[i].bio] = None]
              /\ frame' = [frame EXCEPT ![c] = [id |-> pending[waits[i].bio],
                                                key |-> <<waits[i].serial, waits[pending[waits[i].bio]].op>>]]
              /\ owner' = owner \/ owner' = [owner EXCEPT ![waits[i].group] = waits[i].serial]
              /\ failure' = failure /\ missed' = missed
           \/ /\ pending' = pending /\ frame' = [frame EXCEPT ![c] = NoFrame] /\ missed' = missed
              /\ \/ owner' = owner
                 \/ /\ pending[waits[i].bio] # None
                    /\ owner' = [owner EXCEPT ![waits[i].group] = waits[i].serial]
              /\ Unhealthy' \/ (pending[waits[i].bio] = None /\ ~Unhealthy)
           \/ /\ ~waker'[c].probed
              /\ UNCHANGED <<pending, owner, frame, failure>>
              /\ missed' = missed + 1 \/ (missed' = missed /\ ~Full)
<1> DEFINE g == waits[i].group
           p == pending[waits[i].bio]
           serial == IF owner[g] # None THEN owner[g] ELSE live[g]
<1>1. g \in Groups /\ serial = waits[i].serial
  <2>1. g \in Groups /\ live[g] = waits[i].serial
    BY Zenon, WaitFields, CallbackStarts DEF TracerInv, WaitInv
  <2> QED
    BY Zenon, <2>1 DEF TracerInv, OwnerInv
<1>2. hooks \in Attached /\ waker \in [CPUs -> Callback]
  BY Zenon DEF TracerInv, ProbeType, KernelType
<1>3. CASE WakeEntryProbe(c, i) /\ UNCHANGED missed
  <2>1. CASE Unhealthy \/ p = None
    <3>1. pending' = pending /\ owner' = owner /\ failure' = failure /\ frame' = [frame EXCEPT ![c] = NoFrame]
      BY Zenon, <1>3, <2>1 DEF WakeEntryProbe
    <3> QED
      BY Zenon, <1>3, <2>1, <3>1 DEF Unhealthy
  <2>2. CASE ~Unhealthy /\ p # None
    <3>1. /\ owner' = owner \/ owner' = [owner EXCEPT ![g] = serial]
          /\ \/ /\ pending' = [pending EXCEPT ![waits[i].bio] = None]
                /\ frame' = [frame EXCEPT ![c] = [id |-> p, key |-> <<serial, waits[p].op>>]]
                /\ failure' = failure
             \/ /\ failure' \in {"aggregate_insert", "owner_insert"}
                /\ frame' = [frame EXCEPT ![c] = NoFrame] /\ pending' = pending
      BY Zenon, <1>3, <2>2 DEF WakeEntryProbe, OwnSample
    <3> QED
      BY Zenon, <1>1, <1>3, <2>2, <3>1 DEF Unhealthy
  <2> QED
    BY Zenon, <2>1, <2>2
<1>4. CASE /\ waker' = [waker EXCEPT ![c] = [id |-> i, step |-> "running", probed |-> FALSE]]
           /\ IF Probed("wake") THEN Miss ELSE UNCHANGED missed
           /\ UNCHANGED <<rows, failure, pending, owner, frame>>
  <2>1. ~waker'[c].probed
    BY Zenon, <1>2, <1>4
  <2>2. missed' = missed + 1 \/ (missed' = missed /\ ~Full)
    BY Zenon, <1>2, <1>4, Programs DEF Miss
  <2> QED
    BY Zenon, <1>4, <2>1, <2>2
<1> QED
  BY Zenon, <1>3, <1>4 DEF WakeEntry

\* A wake-up begins: the probe puts the pending wait of the bio into the frame.
LEMMA EntryTracer ==
    ASSUME TracerInv, NEW c \in CPUs, NEW i \in 1..Len(waits), WakeEntry(c, i)
    PROVE  TracerInv'
<1> DEFINE b == waits[i].bio
           g == waits[i].group
           p == pending[b]
           k == <<waits[i].serial, waits[p].op>>
<1>1. /\ UNCHANGED <<waits, live, hooks, credited, settled, session>>
      /\ waker' \in [CPUs -> Callback]
      /\ waker'[c].id = i /\ waker'[c].step = "running"
      /\ \A d \in CPUs \ {c} : waker'[d] = waker[d] /\ waker[d].id # i
      /\ waits[i].state = "waiting" /\ i # None
  BY Zenon, CallbackStarts
<1>2. b \in Bios /\ g \in Groups /\ waits[i].serial \in Serials /\ live[g] = waits[i].serial
  BY Zenon, <1>1, WaitFields DEF TracerInv, WaitInv
<1>3. /\ pending \in [Bios -> Nat] /\ owner \in [Groups -> Serials \cup {None}]
      /\ frame \in [CPUs -> Frame]
  BY Zenon DEF TracerInv, ProbeType
<1>4. \/ /\ ~Unhealthy /\ p # None /\ pending' = [pending EXCEPT ![b] = None]
         /\ frame' = [frame EXCEPT ![c] = [id |-> p, key |-> k]]
         /\ owner' = owner \/ owner' = [owner EXCEPT ![g] = waits[i].serial]
         /\ failure' = failure /\ missed' = missed
      \/ /\ pending' = pending /\ frame' = [frame EXCEPT ![c] = NoFrame] /\ missed' = missed
         /\ owner' = owner \/ (p # None /\ owner' = [owner EXCEPT ![g] = waits[i].serial])
         /\ Unhealthy' \/ (p = None /\ ~Unhealthy)
      \/ /\ ~waker'[c].probed /\ UNCHANGED <<pending, owner, frame, failure>>
         /\ missed' = missed + 1 \/ (missed' = missed /\ ~Full)
  BY Zenon, EntryEffect
<1> HIDE DEF b, g, p, k
<1>5. /\ p # None => /\ Full /\ k \in Keys /\ p \in 1..Len(waits) /\ waits[p].bio = b
                     /\ \A d \in CPUs : frame[d].id # p
                     /\ p # i => waits[p].state = "woken"
  <2> SUFFICES ASSUME p # None
               PROVE  /\ Full /\ k \in Keys /\ p \in 1..Len(waits) /\ waits[p].bio = b
                      /\ \A d \in CPUs : frame[d].id # p
                      /\ p # i => waits[p].state = "woken"
    BY Zenon
  <2>1. /\ p \in 1..Len(waits) /\ waits[p].bio = b /\ waits[p].op \in Ops
        /\ \A d \in CPUs : frame[d].id # p
    BY Zenon, <1>2 DEF TracerInv, SampleInv, p
  <2>2. Full
    BY Zenon, <1>2 DEF TracerInv, ObjectInv, p
  <2>3. k \in Keys
    BY Zenon, <1>2, <2>1 DEF Keys, k
  <2>4. waits[p].state \in {"waiting", "woken"}
    BY Zenon, <2>1, WaitFields DEF TracerInv
  <2>5. waits[p].state = "waiting" => p = i
    BY Zenon, <1>1, <2>1 DEF TracerInv, WaitInv, b
  <2> QED
    BY Zenon, <2>1, <2>2, <2>3, <2>4, <2>5
<1>6. /\ FewMissed' => FewMissed
      /\ missed' = 0 => missed = 0
      /\ missed' = missed + 1 => missed' # 0
      /\ missed' \in Nat
  BY SMTT(30), <1>4, FewBefore DEF TracerInv, KernelType
<1>7. (Full' <=> Full) /\ (~Unhealthy' => ~Unhealthy \/ p = None)
  BY Zenon, <1>1, <1>4 DEF Full, Unhealthy
<1>8. /\ \A d \in Bios : d # b => pending'[d] = pending[d]
      /\ pending'[b] \in {None, p}
      /\ \A d \in CPUs \ {c} : frame'[d] = frame[d]
      /\ \A h \in Groups : h # g => owner'[h] = owner[h]
      /\ pending'[b] = None \/ frame'[c].id # p
      /\ p = pending[b]
  BY Zenon, <1>2, <1>3, <1>4, <1>5, EmptyValues DEF p
<1>9. /\ owner'[g] = owner[g] \/ (Full /\ owner'[g] = waits[i].serial)
      /\ \/ p # None /\ frame'[c].id = p /\ frame'[c].key = k /\ pending'[b] = None /\ ~Unhealthy
         \/ frame'[c].id = None
         \/ ~waker'[c].probed /\ frame'[c] = frame[c] /\ pending'[b] = pending[b]
  BY SMTT(30), <1>2, <1>3, <1>4, <1>5, EmptyValues DEF p
<1>10. KernelType'
  BY Zenon, <1>1, <1>6 DEF TracerInv, KernelType
<1>11. ProbeType'
  <2>1. pending' \in [Bios -> Nat] /\ owner' \in [Groups -> Serials \cup {None}]
    BY Zenon, <1>2, <1>3, <1>4, EmptyValues
  <2>2. p # None => [id |-> p, key |-> k] \in Frame
    BY SMTT(30), <1>5 DEF Frame
  <2>3. frame' \in [CPUs -> Frame]
    BY Zenon, <1>3, <1>4, <2>2, EmptyValues
  <2> QED
    BY Zenon, <1>1, <2>1, <2>3 DEF TracerInv, ProbeType
<1>12. WaitInv'
  BY Zenon, <1>1 DEF TracerInv, WaitInv
<1>13. ObjectInv'
  <2> SUFFICES ASSUME ~Full
               PROVE  /\ \A d \in Bios : pending'[d] = None
                      /\ \A h \in Groups : owner'[h] = None
                      /\ \A d \in CPUs : frame'[d].id = None
                      /\ credited' = {}
    BY Zenon, <1>7 DEF ObjectInv
  <2>1. /\ \A d \in Bios : pending[d] = None
        /\ \A h \in Groups : owner[h] = None
        /\ \A d \in CPUs : frame[d].id = None
        /\ credited = {}
    BY Zenon DEF TracerInv, ObjectInv
  <2>2. p = None
    BY Zenon, <1>5
  <2> QED
    <3>1. \A d \in Bios : pending'[d] = None
      BY Zenon, <1>2, <1>8, <2>1, <2>2
    <3>2. \A h \in Groups : owner'[h] = None
      BY Zenon, <1>2, <1>8, <1>9, <2>1
    <3>3. \A d \in CPUs : frame'[d].id = None
      BY Zenon, <1>8, <1>9, <2>1, <2>2
    <3> QED
      BY Zenon, <1>1, <2>1, <3>1, <3>2, <3>3
<1>14. OwnerInv'
  <2>1. ASSUME NEW h \in Groups, owner'[h] # None
        PROVE  owner'[h] = live[h]
    <3>1. CASE owner'[h] = owner[h]
      BY Zenon, <2>1, <3>1 DEF TracerInv, OwnerInv
    <3>2. CASE h = g /\ owner'[g] = waits[i].serial
      BY Zenon, <1>2, <3>2
    <3> QED
      BY Zenon, <1>8, <1>9, <3>1, <3>2
  <2> QED
    BY Zenon, <1>1, <2>1 DEF OwnerInv
<1>15. \A d \in Bios \ {b} : pending[d] # p \/ pending[d] = None
  <2> SUFFICES ASSUME NEW d \in Bios, d # b, pending[d] = p, pending[d] # None
               PROVE  FALSE
    BY Zenon
  <2>1. waits[p].bio = d
    BY Zenon DEF TracerInv, SampleInv
  <2>2. waits[p].bio = b
    BY Zenon, <1>5
  <2> QED
    BY Zenon, <2>1, <2>2
<1>16. SampleInv'
  <2>1. ASSUME NEW d \in Bios, pending'[d] # None
        PROVE  /\ pending'[d] \in 1..Len(waits) /\ waits[pending'[d]].bio = d
               /\ waits[pending'[d]].op \in Ops
               /\ \A e \in CPUs : frame'[e].id # pending'[d]
    <3>1. pending'[d] = pending[d]
      BY Zenon, <1>8, <2>1
    <3>2. /\ pending[d] \in 1..Len(waits) /\ waits[pending[d]].bio = d /\ waits[pending[d]].op \in Ops
          /\ \A e \in CPUs : frame[e].id # pending[d]
      BY Zenon, <2>1, <3>1 DEF TracerInv, SampleInv
    <3>3. frame'[c].id # pending[d]
      BY Zenon, <1>8, <1>9, <1>15, <2>1, <3>1, <3>2
    <3> QED
      BY Zenon, <1>8, <3>1, <3>2, <3>3
  <2>2. ASSUME NEW e \in CPUs, frame'[e].id # None
        PROVE  /\ frame'[e].id \in 1..Len(waits) /\ frame'[e].key \in Keys
               /\ frame'[e].key[2] = waits[frame'[e].id].op
               /\ \A d \in CPUs \ {e} : frame'[d].id # frame'[e].id
    <3>1. CASE e = c /\ p # None /\ frame'[c].id = p /\ frame'[c].key = k
      <4>1. k[2] = waits[p].op
        BY Zenon DEF k
      <4> QED
        BY Zenon, <1>5, <1>8, <3>1, <4>1
    <3>2. CASE frame'[e] = frame[e]
      <4>1. /\ frame[e].id \in 1..Len(waits) /\ frame[e].key \in Keys
            /\ frame[e].key[2] = waits[frame[e].id].op
            /\ \A d \in CPUs \ {e} : frame[d].id # frame[e].id
        BY Zenon, <2>2, <3>2 DEF TracerInv, SampleInv
      <4>2. ASSUME NEW d \in CPUs \ {e}
            PROVE  frame'[d].id # frame'[e].id
        <5>1. CASE frame'[d] = frame[d]
          BY Zenon, <3>2, <4>1, <5>1
        <5>2. CASE frame'[d].id = None
          BY Zenon, <2>2, <5>2
        <5>3. CASE frame'[d].id = p /\ p # None
          BY Zenon, <1>5, <3>2, <5>3
        <5> QED
          BY Zenon, <1>8, <1>9, <5>1, <5>2, <5>3
      <4> QED
        BY Zenon, <3>2, <4>1, <4>2
    <3> QED
      BY Zenon, <1>8, <1>9, <2>2, <3>1, <3>2
  <2> QED
    BY Zenon, <1>1, <2>1, <2>2 DEF SampleInv
<1>17. CreditInv'
  <2> SUFFICES ASSUME NEW q \in credited
               PROVE  /\ q[1] \in 1..Len(waits)
                      /\ \A d \in Bios : pending'[d] # q[1]
                      /\ \A d \in CPUs : frame'[d].id # q[1]
    BY Zenon, <1>1 DEF CreditInv
  <2>1. /\ q[1] \in 1..Len(waits) /\ q[1] # None
        /\ \A d \in Bios : pending[d] # q[1]
        /\ \A d \in CPUs : frame[d].id # q[1]
    BY Zenon, IdNotNone DEF TracerInv, CreditInv
  <2>2. \A d \in Bios : pending'[d] # q[1]
    BY Zenon, <1>8, <2>1
  <2>3. frame'[c].id # q[1]
    BY Zenon, <1>2, <1>8, <1>9, <2>1
  <2> QED
    BY Zenon, <1>8, <2>1, <2>2, <2>3
<1>18. ASSUME NEW d \in CPUs PROVE CallbackInv(d)' /\ FrameInv(d)'
  <2>1. CASE d = c
    <3>1. CallbackInv(c)'
      BY Zenon, <1>1, <1>2 DEF CallbackInv, g
    <3>2. FrameInv(c)'
      <4> SUFFICES ASSUME p # None, frame'[c].id = p, frame'[c].key = k, ~Unhealthy
                   PROVE  /\ frame'[c].key[1] = waits[i].serial
                          /\ frame'[c].id # i => waits[frame'[c].id].state = "woken"
                          /\ FewMissed' => frame'[c].id = i
        BY Zenon, <1>1, <1>9 DEF FrameInv
      <4>1. FewMissed' => p = i
        BY Zenon, <1>1, <1>6, <1>8 DEF TracerInv, FreshInv, b
      <4>2. k[1] = waits[i].serial
        BY Zenon DEF k
      <4> QED
        BY Zenon, <1>5, <4>1, <4>2
    <3> QED
      BY Zenon, <2>1, <3>1, <3>2
  <2>2. CASE d # c
    <3>1. CallbackInv(d)'
      <4>1. waker'[d] = waker[d] /\ waker[d].id # i /\ CallbackInv(d)
        BY Zenon, <1>1, <2>2, OfCPU
      <4>2. ASSUME waker[d].id # None, NEW e \in CPUs \ {d}
            PROVE  waker'[e].id # waker[d].id
        BY Zenon, <1>1, <4>1, <4>2 DEF CallbackInv
      <4> QED
        BY Zenon, <1>1, <4>1, <4>2 DEF CallbackInv
    <3>2. FrameInv(d)'
      <4>1. waker'[d] = waker[d] /\ frame'[d] = frame[d] /\ FrameInv(d)
        BY Zenon, <1>1, <1>8, <2>2, OfCPU
      <4> QED
        BY Zenon, <1>1, <1>6, <4>1 DEF FrameInv
    <3> QED
      BY Zenon, <3>1, <3>2
  <2> QED
    BY Zenon, <2>1, <2>2
<1>19. FreshInv'
  <2> SUFFICES ASSUME ~Unhealthy'
               PROVE  /\ missed' = 0 => \A d \in Bios : pending'[d] # None =>
                            /\ waits[pending'[d]].state = "waiting"
                            /\ \A e \in CPUs : waker'[e].id # pending'[d]
                      /\ FewMissed' => \A j \in 1..Len(waits) : waits[j].state = "waiting" =>
                            pending'[waits[j].bio] \in {None, j}
    BY Zenon, <1>1 DEF FreshInv
  <2>1. ~Unhealthy
    BY Zenon, <1>4 DEF Unhealthy
  <2>2. missed' # 0 \/ pending'[b] = None
    <3>1. ~Full => pending[b] = None
      BY Zenon, <1>2 DEF TracerInv, ObjectInv
    <3>2. pending' = pending => pending'[b] = p
      BY Zenon, <1>8
    <3>3. pending' = [pending EXCEPT ![b] = None] => pending'[b] = None
      BY Zenon, <1>2, <1>3
    <3> QED
      BY Zenon, <1>4, <1>6, <1>8, <3>1, <3>2, <3>3
  <2>3. ASSUME missed' = 0, NEW d \in Bios, pending'[d] # None
        PROVE  waits[pending'[d]].state = "waiting" /\ \A e \in CPUs : waker'[e].id # pending'[d]
    <3>1. d # b /\ pending'[d] = pending[d]
      BY Zenon, <1>8, <2>2, <2>3
    <3>2. /\ waits[pending[d]].state = "waiting" /\ \A e \in CPUs : waker[e].id # pending[d]
          /\ waits[pending[d]].bio = d
      BY Zenon, <1>6, <2>1, <2>3, <3>1 DEF TracerInv, FreshInv, SampleInv
    <3>3. pending[d] # i
      BY Zenon, <3>1, <3>2 DEF b
    <3> QED
      BY Zenon, <1>1, <3>1, <3>2, <3>3
  <2>4. ASSUME FewMissed', NEW j \in 1..Len(waits), waits[j].state = "waiting"
        PROVE  pending'[waits[j].bio] \in {None, j}
    <3>1. pending[waits[j].bio] \in {None, j} /\ waits[j].bio \in Bios
      BY Zenon, <1>6, <2>1, <2>4, WaitFields DEF TracerInv, FreshInv
    <3> QED
      BY Zenon, <1>8, <3>1
  <2> QED
    BY Zenon, <2>3, <2>4
<1>20. CreditedOnceToItsOwner'
  BY Zenon, <1>1, <1>6, CreditKept DEF TracerInv
<1> QED
  BY Zenon, <1>10, <1>11, <1>12, <1>13, <1>14, <1>16, <1>17, <1>18, <1>19, <1>20 DEF TracerInv

\* The callback has decided: no sample is touched, and the wait that is released
\* is in the hands of this callback only.
LEMMA DecideTracer ==
    ASSUME TracerInv, NEW c \in CPUs, NEW step \in {"woken", "kept"}, WakeDecide(c, step)
    PROVE  TracerInv'
<1> DEFINE j == waker[c].id
<1>1. /\ UNCHANGED <<live, missed, hooks, pending, owner, frame, credited, settled, session, failure>>
      /\ waker' = [waker EXCEPT ![c].step = step] /\ waker[c].step = "running"
      /\ waits' = IF step = "woken" THEN [waits EXCEPT ![j].state = "woken"] ELSE waits
  BY Zenon DEF WakeDecide, collectorVars, mapVars, sessionVars, ghostVars, probeVars
<1>2. /\ j # None /\ j \in 1..Len(waits) /\ live[waits[j].group] = waits[j].serial
      /\ waits[j].state = "waiting"
      /\ \A d \in CPUs \ {c} : waker[d].id # j
  BY Zenon, <1>1, OfCPU DEF CallbackInv
<1>3. waits \in Seq(WaitRecord) /\ waker \in [CPUs -> Callback]
  BY Zenon DEF TracerInv, KernelType
<1>4. /\ waker' \in [CPUs -> Callback]
      /\ waker'[c].id = j /\ waker'[c].step = step /\ waker'[c].probed = waker[c].probed
      /\ \A d \in CPUs \ {c} : waker'[d] = waker[d]
      /\ \A d \in CPUs : waker'[d].id = waker[d].id /\ waker'[d].probed = waker[d].probed
  <2>1. waker[c] \in Callback
    BY Zenon, <1>3
  <2>2. [waker[c] EXCEPT !.step = step] \in Callback
    BY Zenon, <2>1 DEF Callback
  <2>3. /\ [waker[c] EXCEPT !.step = step].id = waker[c].id
        /\ [waker[c] EXCEPT !.step = step].step = step
        /\ [waker[c] EXCEPT !.step = step].probed = waker[c].probed
    BY Zenon, <2>1 DEF Callback
  <2>4. waker' = [waker EXCEPT ![c] = [waker[c] EXCEPT !.step = step]]
    BY Zenon, <1>1
  <2> QED
    BY Zenon, <1>3, <2>2, <2>3, <2>4
<1>5. /\ waits' \in Seq(WaitRecord) /\ Len(waits') = Len(waits)
      /\ \A i \in 1..Len(waits) :
            /\ waits'[i].bio = waits[i].bio /\ waits'[i].group = waits[i].group
            /\ waits'[i].serial = waits[i].serial /\ waits'[i].op = waits[i].op
            /\ waits'[i].state = IF i = j /\ step = "woken" THEN "woken" ELSE waits[i].state
  <2>1. CASE step = "kept"
    BY Zenon, <1>1, <1>3, <2>1
  <2>2. CASE step = "woken"
    <3>1. waits[j] \in WaitRecord
      BY SMTT(30), <1>2, <1>3
    <3>2. PICK w : w = [waits[j] EXCEPT !.state = "woken"]
      BY Zenon
    <3>3. w \in WaitRecord
      BY Zenon, <3>1, <3>2 DEF WaitRecord
    <3>4. /\ w.bio = waits[j].bio /\ w.group = waits[j].group
          /\ w.serial = waits[j].serial /\ w.op = waits[j].op /\ w.state = "woken"
      BY Zenon, <3>1, <3>2 DEF WaitRecord
    <3>5. waits' = [waits EXCEPT ![j] = w]
      BY Zenon, <1>1, <2>2, <3>2
    <3>6. waits' \in Seq(WaitRecord) /\ Len(waits') = Len(waits)
      BY SMTT(30), <1>2, <1>3, <3>3, <3>5
    <3>7. \A i \in 1..Len(waits) : waits'[i] = IF i = j THEN w ELSE waits[i]
      BY SMTT(30), <1>2, <1>3, <3>5
    <3> QED
      BY Zenon, <2>2, <3>4, <3>6, <3>7
  <2> QED
    BY Zenon, <2>1, <2>2
<1> HIDE DEF j
<1>6. FewMissed' <=> FewMissed
  BY Zenon, <1>1 DEF FewMissed
<1>7. KernelType'
  BY Zenon, <1>1, <1>4, <1>5 DEF TracerInv, KernelType
<1>8. ProbeType'
  BY Zenon, <1>1 DEF TracerInv, ProbeType
<1>9. WaitInv'
  BY SMTT(30), <1>1, <1>5 DEF TracerInv, WaitInv
<1>10. ObjectInv'
  BY Zenon, <1>1 DEF TracerInv, ObjectInv, Full
<1>11. OwnerInv'
  BY Zenon, <1>1 DEF TracerInv, OwnerInv
<1>12. SampleInv'
  BY SMTT(30), <1>1, <1>5 DEF TracerInv, SampleInv
<1>13. CreditInv'
  BY Zenon, <1>1, <1>5 DEF TracerInv, CreditInv
<1>14. ASSUME NEW d \in CPUs PROVE CallbackInv(d)' /\ FrameInv(d)'
  <2>1. CallbackInv(d)'
    <3>1. CASE d = c
      <4>1. /\ live[waits[j].group] = waits[j].serial /\ waits[j].state = "waiting"
            /\ \A e \in CPUs \ {c} : waker[e].id # j
        BY Zenon, <1>1, <1>2, OfCPU DEF CallbackInv, j
      <4>2. /\ waits'[j].group = waits[j].group /\ waits'[j].serial = waits[j].serial
            /\ waits'[j].state = IF step = "woken" THEN "woken" ELSE "waiting"
        BY Zenon, <1>2, <1>5, <4>1
      <4>3. /\ waker'[c].id # None /\ waker'[c].step # "none"
            /\ waker'[c].id \in 1..Len(waits')
            /\ \A e \in CPUs \ {c} : waker'[e].id # waker'[c].id
        BY Zenon, <1>2, <1>4, <1>5, <4>1
      <4>4. /\ live'[waits'[waker'[c].id].group] = waits'[waker'[c].id].serial
            /\ waits'[waker'[c].id].state = IF waker'[c].step = "woken" THEN "woken" ELSE "waiting"
        <5>1. live' = live /\ waker'[c].id = j /\ waker'[c].step = step
          BY Zenon, <1>1, <1>4
        <5>2. live'[waits'[j].group] = waits'[j].serial
          BY Zenon, <4>1, <4>2, <5>1
        <5> QED
          BY Zenon, <4>2, <5>1, <5>2
      <4> QED
        BY Zenon, <3>1, <4>3, <4>4 DEF CallbackInv
    <3>2. CASE d # c
      <4>1. CallbackInv(d) /\ waker'[d] = waker[d]
        BY Zenon, <1>4, <3>2, OfCPU
      <4>2. CASE waker[d].id = None
        BY Zenon, <4>1, <4>2 DEF CallbackInv
      <4>3. CASE waker[d].id # None
        <5>1. /\ waker[d].id \in 1..Len(waits) /\ waker[d].id # j
              /\ live[waits[waker[d].id].group] = waits[waker[d].id].serial
              /\ waits[waker[d].id].state = IF waker[d].step = "woken" THEN "woken" ELSE "waiting"
              /\ \A e \in CPUs \ {d} : waker[e].id # waker[d].id
          BY Zenon, <3>2, <4>1, <4>3 DEF CallbackInv, j
        <5>2. /\ waits'[waker[d].id].group = waits[waker[d].id].group
              /\ waits'[waker[d].id].serial = waits[waker[d].id].serial
              /\ waits'[waker[d].id].state = waits[waker[d].id].state
          BY Zenon, <1>5, <5>1
        <5>3. /\ waker'[d].id # None /\ waker'[d].step # "none"
              /\ waker'[d].id \in 1..Len(waits')
              /\ \A e \in CPUs \ {d} : waker'[e].id # waker'[d].id
          <6>1. waker[d].step # "none"
            BY Zenon, <4>1, <4>3 DEF CallbackInv
          <6> QED
            BY Zenon, <1>4, <1>5, <4>1, <4>3, <5>1, <6>1
        <5>4. /\ live'[waits'[waker'[d].id].group] = waits'[waker'[d].id].serial
              /\ waits'[waker'[d].id].state = IF waker'[d].step = "woken" THEN "woken" ELSE "waiting"
          BY Zenon, <1>1, <4>1, <5>1, <5>2
        <5> QED
          BY Zenon, <5>3, <5>4 DEF CallbackInv
      <4> QED
        BY Zenon, <4>2, <4>3
    <3> QED
      BY Zenon, <3>1, <3>2
  <2>2. waker[d].probed => waker[d].id \in 1..Len(waits)
    BY Zenon, OfCPU DEF CallbackInv
  <2>3. frame[d].id # None => frame[d].id \in 1..Len(waits)
    BY Zenon DEF TracerInv, SampleInv
  <2>4. FrameInv(d)'
    BY SMTT(30), <1>1, <1>4, <1>5, <1>6, <2>2, <2>3, OfCPU DEF FrameInv
  <2> QED
    BY Zenon, <2>1, <2>4
<1>15. FreshInv'
  <2> SUFFICES ASSUME ~Unhealthy
               PROVE  /\ missed = 0 => \A d \in Bios : pending[d] # None =>
                            /\ waits'[pending[d]].state = "waiting"
                            /\ \A e \in CPUs : waker'[e].id # pending[d]
                      /\ FewMissed => \A i \in 1..Len(waits) : waits'[i].state = "waiting" =>
                            pending[waits'[i].bio] \in {None, i}
    BY SMTT(30), <1>1, <1>5, <1>6 DEF FreshInv, Unhealthy
  <2>1. ASSUME missed = 0, NEW d \in Bios, pending[d] # None
        PROVE  waits'[pending[d]].state = "waiting" /\ \A e \in CPUs : waker'[e].id # pending[d]
    <3>1. /\ pending[d] \in 1..Len(waits) /\ waits[pending[d]].state = "waiting"
          /\ \A e \in CPUs : waker[e].id # pending[d]
      BY Zenon, <2>1 DEF TracerInv, FreshInv, SampleInv
    <3>2. pending[d] # j
      BY Zenon, <3>1 DEF j
    <3> QED
      BY Zenon, <1>4, <1>5, <3>1, <3>2
  <2>2. ASSUME FewMissed, NEW i \in 1..Len(waits), waits'[i].state = "waiting"
        PROVE  pending[waits'[i].bio] \in {None, i}
    BY Zenon, <1>5, <2>2 DEF TracerInv, FreshInv
  <2> QED
    BY Zenon, <2>1, <2>2
<1>16. CreditedOnceToItsOwner'
  BY Zenon, <1>1, <1>5, <1>6, CreditKept DEF TracerInv
<1> QED
  BY Zenon, <1>7, <1>8, <1>9, <1>10, <1>11, <1>12, <1>13, <1>14, <1>15, <1>16 DEF TracerInv

-----------------------------------------------------------------------------
(* The return of the callback.                                             *)

\* The effects of the return probe: the sample is counted, or lost with its row;
\* or it goes back to its bio; or it cannot, which is a failure; or the probe
\* did not run.
LEMMA ReturnEffect ==
    ASSUME TracerInv, NEW c \in CPUs, WakeReturn(c)
    PROVE  /\ UNCHANGED <<waits, live, hooks, owner, session>>
           /\ waker' = [waker EXCEPT ![c] = NoCallback]
           /\ waker[c].step \in {"woken", "kept"}
           /\ \/ /\ Sampled(c) /\ waker[c].step = "woken"
                 /\ UNCHANGED <<pending, failure, missed>> /\ frame' = [frame EXCEPT ![c] = NoFrame]
                 /\ settled' = [settled EXCEPT ![frame[c].key] = settled[frame[c].key] + 1]
                 /\ credited' = credited \cup {<<frame[c].id, frame[c].key>>}
              \/ /\ Sampled(c) /\ waker[c].step = "kept"
                 /\ UNCHANGED <<settled, credited, failure, missed>>
                 /\ frame' = [frame EXCEPT ![c] = NoFrame]
                 /\ pending' = [pending EXCEPT ![waits[frame[c].id].bio] = frame[c].id]
              \/ /\ UNCHANGED <<settled, credited, pending, missed>>
                 /\ frame' = [frame EXCEPT ![c] = NoFrame]
                 /\ failure' = failure \/ Unhealthy'
              \/ /\ UNCHANGED <<settled, credited, pending, failure, frame>>
                 /\ missed' \in {missed, missed + 1}
<1>1. /\ UNCHANGED <<waits, live, hooks, owner, session>>
      /\ waker' = [waker EXCEPT ![c] = NoCallback]
      /\ waker[c].step \in {"woken", "kept"}
  BY Zenon DEF WakeReturn, sessionVars
<1>2. CASE /\ Sampled(c) /\ waker[c].step = "woken" /\ AddSample(c)
           /\ UNCHANGED <<pending, failure>>
           /\ frame' = [frame EXCEPT ![c] = NoFrame] /\ UNCHANGED missed
  BY Zenon, <1>1, <1>2 DEF AddSample, Settle
<1>3. CASE /\ Sampled(c) /\ waker[c].step = "kept" /\ RestorePending(c)
           /\ UNCHANGED <<word, settled, credited>>
           /\ frame' = [frame EXCEPT ![c] = NoFrame] /\ UNCHANGED missed
  BY Zenon, <1>1, <1>3 DEF RestorePending, Unhealthy
<1>4. CASE /\ IF Sampled(c) THEN Miss ELSE UNCHANGED missed
           /\ UNCHANGED <<word, settled, credited, pending, failure, frame>>
  BY Zenon, <1>1, <1>4 DEF Miss
<1> QED
  BY Zenon, <1>1, <1>2, <1>3, <1>4 DEF WakeReturn

\* The callback of the CPU is gone; the frame may be emptied, and the sample of
\* the frame may go back to its bio.
LEMMA CallbackEnds ==
    ASSUME TracerInv, NEW c \in CPUs, UNCHANGED <<waits, live, hooks, owner, session>>,
           waker' = [waker EXCEPT ![c] = NoCallback],
           missed' \in {missed, missed + 1},
           frame' = frame \/ frame' = [frame EXCEPT ![c] = NoFrame]
    PROVE  /\ KernelType' /\ WaitInv' /\ OwnerInv'
           /\ \A d \in CPUs : CallbackInv(d)' /\ FrameInv(d)'
           /\ FewMissed' => FewMissed /\ (missed' = 0 => missed = 0)
           /\ \A d \in CPUs : waker'[d].id = IF d = c THEN None ELSE waker[d].id
           /\ \A d \in CPUs : frame'[d] = frame[d] \/ (d = c /\ frame'[d].id = None)
           /\ frame' \in [CPUs -> Frame]
           /\ Full' <=> Full
<1>1. waker \in [CPUs -> Callback] /\ missed \in Nat /\ frame \in [CPUs -> Frame]
  BY Zenon DEF TracerInv, KernelType, ProbeType
<1>2. /\ waker' \in [CPUs -> Callback] /\ waker'[c] = NoCallback
      /\ \A d \in CPUs \ {c} : waker'[d] = waker[d]
  BY Zenon, <1>1, EmptyValues
<1>3. /\ frame' \in [CPUs -> Frame]
      /\ \A d \in CPUs : frame'[d] = frame[d] \/ (d = c /\ frame'[d].id = None)
  BY Zenon, <1>1, EmptyValues
<1>4. FewMissed' => FewMissed /\ (missed' = 0 => missed = 0)
  BY Zenon, <1>1, FewBefore
<1>5. KernelType'
  BY SMTT(30), <1>1, <1>2 DEF TracerInv, KernelType
<1>6. WaitInv' /\ OwnerInv'
  BY Zenon DEF TracerInv, WaitInv, OwnerInv
<1>7. ASSUME NEW d \in CPUs PROVE CallbackInv(d)' /\ FrameInv(d)'
  <2>1. CASE d = c
    BY Zenon, <1>2, <2>1, EmptyValues DEF CallbackInv, FrameInv
  <2>2. CASE d # c
    <3>1. CallbackInv(d)'
      BY SMTT(30), <1>2, <2>2, OfCPU, EmptyValues DEF CallbackInv
    <3>2. FrameInv(d)'
      BY SMTT(30), <1>2, <1>3, <1>4, <2>2, OfCPU DEF FrameInv
    <3> QED
      BY Zenon, <3>1, <3>2
  <2> QED
    BY Zenon, <2>1, <2>2
<1>8. missed' = 0 => missed = 0
  BY Zenon, <1>1, FewBefore
<1>9. \A d \in CPUs : waker'[d].id = IF d = c THEN None ELSE waker[d].id
  BY Zenon, <1>2, EmptyValues
<1>10. Full' <=> Full
  BY Zenon DEF Full
<1> QED
  BY Zenon, <1>3, <1>4, <1>5, <1>6, <1>7, <1>8, <1>9, <1>10

\* The sample of a probed callback that returns: it is a counted operation of its
\* bio, and nowhere else.
LEMMA SampleOfFrame ==
    ASSUME TracerInv, NEW c \in CPUs, Sampled(c)
    PROVE  /\ Full /\ frame[c].id # None /\ frame[c].id \in 1..Len(waits)
           /\ frame[c].key \in Keys /\ frame[c].key[2] = waits[frame[c].id].op
           /\ waits[frame[c].id].op \in Ops /\ waits[frame[c].id].bio \in Bios
           /\ \A d \in CPUs \ {c} : frame[d].id # frame[c].id
           /\ \A b \in Bios : pending[b] # frame[c].id
           /\ \A p \in credited : p[1] # frame[c].id
           /\ frame[c].id # waker[c].id => waits[frame[c].id].state = "woken"
           /\ FewMissed => frame[c].id = waker[c].id /\ frame[c].key[1] = waits[frame[c].id].serial
<1>1. waker[c].probed /\ frame[c].id # None
  BY Zenon DEF Sampled
<1>2. Full
  BY Zenon, <1>1 DEF TracerInv, ObjectInv
<1>3. /\ frame[c].id \in 1..Len(waits)
      /\ frame[c].key \in Keys /\ frame[c].key[2] = waits[frame[c].id].op
      /\ \A d \in CPUs \ {c} : frame[d].id # frame[c].id
      /\ \A b \in Bios : pending[b] # frame[c].id
  BY Zenon, <1>1 DEF TracerInv, SampleInv
<1>4. waits[frame[c].id].op \in Ops
  BY Zenon, <1>3 DEF Keys
<1>5. waits[frame[c].id].bio \in Bios
  BY Zenon, <1>3, WaitFields DEF TracerInv
<1>6. \A p \in credited : p[1] # frame[c].id
  BY Zenon DEF TracerInv, CreditInv
<1>7. /\ frame[c].id # waker[c].id => waits[frame[c].id].state = "woken"
      /\ FewMissed => frame[c].id = waker[c].id /\ frame[c].key[1] = waits[frame[c].id].serial
  BY Zenon, <1>1, OfCPU DEF FrameInv
<1> QED
  BY Zenon, <1>1, <1>2, <1>3, <1>4, <1>5, <1>6, <1>7

\* A sample is counted.
LEMMA OneMoreCredit ==
    ASSUME TracerInv, NEW f \in 1..Len(waits), NEW k \in Keys,
           \A p \in credited : p[1] # f,
           waits[f].state = "woken", waits[f].op = k[2], FewMissed => waits[f].serial = k[1],
           settled' = [settled EXCEPT ![k] = settled[k] + 1], credited' = credited \cup {<<f, k>>},
           UNCHANGED <<waits, missed>>
    PROVE  /\ CreditedOnceToItsOwner'
           /\ credited' \subseteq Nat \X Keys /\ IsFiniteSet(credited') /\ settled' \in [Keys -> Nat]
<1>1. credited \subseteq Nat \X Keys /\ IsFiniteSet(credited) /\ settled \in [Keys -> Nat]
  BY Zenon DEF TracerInv, ProbeType
<1>2. /\ IsFiniteSet(credited') /\ settled' \in [Keys -> Nat]
      /\ \A j \in Keys : settled'[j] = IF j = k THEN settled[k] + 1 ELSE settled[j]
  <2>1. IsFiniteSet(credited \cup {<<f, k>>})
    BY Zenon, <1>1, FS_AddElement
  <2> QED
    BY SMTT(30), <1>1, <2>1
<1>3. f \in Nat
  BY SMTT(30)
<1>4. credited' \subseteq Nat \X Keys
  BY SMTT(30), <1>1, <1>3
<1>5. ASSUME NEW p \in credited'
      PROVE  /\ waits'[p[1]].state = "woken" /\ waits'[p[1]].op = p[2][2]
             /\ FewMissed' => waits'[p[1]].serial = p[2][1]
             /\ \A q \in credited' : q[1] = p[1] => q = p
  <2>1. FewMissed' <=> FewMissed
    BY Zenon DEF FewMissed
  <2>2. CASE p \in credited
    BY SMTT(30), <2>1, <2>2 DEF TracerInv, CreditedOnceToItsOwner
  <2>3. CASE p = <<f, k>>
    BY Zenon, <2>1, <2>3
  <2> QED
    BY Zenon, <2>2, <2>3
<1>6. ASSUME NEW j \in Keys
      PROVE  settled'[j] = Cardinality({p \in credited' : p[2] = j})
  <2> DEFINE S == {p \in credited : p[2] = j}
  <2>1. settled[j] = Cardinality(S)
    BY Zenon DEF TracerInv, CreditedOnceToItsOwner
  <2>2. IsFiniteSet(S)
    BY Zenon, <1>1, FS_Subset
  <2>3. CASE j = k
    <3>1. {p \in credited' : p[2] = j} = S \cup {<<f, k>>}
      BY SMTT(30), <2>3
    <3>2. <<f, k>> \notin S
      BY Zenon
    <3>3. Cardinality(S \cup {<<f, k>>}) = Cardinality(S) + 1
      BY Zenon, <2>2, <3>2, FS_AddElement
    <3> QED
      BY Zenon, <1>2, <2>1, <2>3, <3>1, <3>3
  <2>4. CASE j # k
    <3>1. {p \in credited' : p[2] = j} = S
      BY SMTT(30), <2>4
    <3> QED
      BY Zenon, <1>2, <2>1, <2>4, <3>1
  <2> QED
    BY Zenon, <2>3, <2>4
<1> QED
  BY Zenon, <1>2, <1>4, <1>5, <1>6 DEF CreditedOnceToItsOwner

\* A wake-up returns: the wait in the frame is credited to its owner and cleared,
\* so that no other return finds it.
LEMMA ReturnTracer ==
    ASSUME TracerInv, NEW c \in CPUs, WakeReturn(c)
    PROVE  TracerInv'
<1> DEFINE f == frame[c].id
           b == waits[f].bio
<1>1. /\ UNCHANGED <<waits, live, hooks, owner, session>>
      /\ waker' = [waker EXCEPT ![c] = NoCallback]
      /\ waker[c].step \in {"woken", "kept"}
      /\ missed' \in {missed, missed + 1}
      /\ frame' = frame \/ frame' = [frame EXCEPT ![c] = NoFrame]
  BY Zenon, ReturnEffect
<1>2. /\ KernelType' /\ WaitInv' /\ OwnerInv'
      /\ \A d \in CPUs : CallbackInv(d)' /\ FrameInv(d)'
      /\ FewMissed' => FewMissed /\ (missed' = 0 => missed = 0)
      /\ \A d \in CPUs : waker'[d].id = IF d = c THEN None ELSE waker[d].id
      /\ \A d \in CPUs : frame'[d] = frame[d] \/ (d = c /\ frame'[d].id = None)
      /\ frame' \in [CPUs -> Frame]
      /\ Full' <=> Full
  BY Zenon, <1>1, CallbackEnds
<1>3. \/ /\ Sampled(c) /\ waker[c].step = "woken"
         /\ UNCHANGED <<pending, failure, missed>> /\ frame' = [frame EXCEPT ![c] = NoFrame]
         /\ settled' = [settled EXCEPT ![frame[c].key] = settled[frame[c].key] + 1]
         /\ credited' = credited \cup {<<f, frame[c].key>>}
      \/ /\ Sampled(c) /\ waker[c].step = "kept"
         /\ UNCHANGED <<settled, credited, failure, missed>>
         /\ frame' = [frame EXCEPT ![c] = NoFrame]
         /\ pending' = [pending EXCEPT ![b] = f]
      \/ /\ UNCHANGED <<settled, credited, pending>>
         /\ failure' = failure \/ Unhealthy'
  BY Zenon, ReturnEffect
<1>4. /\ pending \in [Bios -> Nat] /\ owner' \in [Groups -> Serials \cup {None}] /\ hooks' \in Attached
      /\ frame \in [CPUs -> Frame]
      /\ credited \subseteq Nat \X Keys /\ IsFiniteSet(credited) /\ settled \in [Keys -> Nat]
  BY Zenon, <1>1 DEF TracerInv, ProbeType
<1>4a. ASSUME NEW d \in CPUs, frame'[d].id # None
       PROVE  /\ frame'[d].id \in 1..Len(waits)
              /\ frame'[d].key \in Keys /\ frame'[d].key[2] = waits[frame'[d].id].op
              /\ \A e \in CPUs \ {d} : frame'[e].id # frame'[d].id
  <2>1. frame'[d] = frame[d]
    BY Zenon, <1>2, <1>4a
  <2>2. /\ frame[d].id \in 1..Len(waits)
        /\ frame[d].key \in Keys /\ frame[d].key[2] = waits[frame[d].id].op
        /\ \A e \in CPUs \ {d} : frame[e].id # frame[d].id
    BY Zenon, <1>4a, <2>1 DEF TracerInv, SampleInv
  <2>3. ASSUME NEW e \in CPUs \ {d}
        PROVE  frame'[e].id # frame'[d].id
    BY Zenon, <1>2, <1>4a, <2>1, <2>2
  <2> QED
    BY Zenon, <2>1, <2>2, <2>3
<1>5. ASSUME pending' = pending
      PROVE  SampleInv'
  <2>1. ASSUME NEW d \in Bios, pending[d] # None
        PROVE  /\ pending[d] \in 1..Len(waits)
               /\ waits[pending[d]].bio = d /\ waits[pending[d]].op \in Ops
               /\ \A e \in CPUs : frame'[e].id # pending[d]
    <3>1. /\ pending[d] \in 1..Len(waits)
          /\ waits[pending[d]].bio = d /\ waits[pending[d]].op \in Ops
          /\ \A e \in CPUs : frame[e].id # pending[d]
      BY Zenon, <2>1 DEF TracerInv, SampleInv
    <3> QED
      BY Zenon, <1>2, <2>1, <3>1
  <2> QED
    BY Zenon, <1>1, <1>5, <1>4a, <2>1 DEF SampleInv
<1>6. ASSUME pending' = pending, failure' = failure \/ Unhealthy'
      PROVE  FreshInv'
  <2>1. \A d \in Bios : pending[d] # None => pending[d] \in 1..Len(waits)
    BY Zenon DEF TracerInv, SampleInv
  <2>2. ~Unhealthy' => ~Unhealthy
    BY Zenon, <1>6 DEF Unhealthy
  <2>3. missed' = 0 => missed = 0
    BY Zenon, <1>1, FewBefore DEF TracerInv, KernelType
  <2>4. ASSUME ~Unhealthy', missed' = 0, NEW d \in Bios, pending[d] # None
        PROVE  waits[pending[d]].state = "waiting" /\ \A e \in CPUs : waker'[e].id # pending[d]
    <3>1. waits[pending[d]].state = "waiting" /\ \A e \in CPUs : waker[e].id # pending[d]
      BY Zenon, <2>2, <2>3, <2>4 DEF TracerInv, FreshInv
    <3> QED
      BY Zenon, <1>2, <2>4, <3>1
  <2>5. ASSUME ~Unhealthy', FewMissed', NEW i \in 1..Len(waits), waits[i].state = "waiting"
        PROVE  pending[waits[i].bio] \in {None, i}
    BY Zenon, <1>2, <2>2, <2>5 DEF TracerInv, FreshInv
  <2> QED
    BY Zenon, <1>1, <1>6, <2>4, <2>5 DEF FreshInv
<1>7. CASE /\ UNCHANGED <<settled, credited, pending>>
           /\ failure' = failure \/ Unhealthy'
  <2>1. ProbeType'
    BY Zenon, <1>2, <1>4, <1>7 DEF ProbeType
  <2>2. ObjectInv'
    BY Zenon, <1>1, <1>2, <1>7 DEF TracerInv, ObjectInv
  <2>3. CreditInv'
    <3> SUFFICES ASSUME NEW p \in credited
                 PROVE  /\ p[1] \in 1..Len(waits)
                        /\ \A d \in Bios : pending[d] # p[1]
                        /\ \A d \in CPUs : frame'[d].id # p[1]
      BY Zenon, <1>1, <1>7 DEF CreditInv
    <3>1. p[1] \in 1..Len(waits) /\ p[1] # None
      BY Zenon, IdNotNone DEF TracerInv, CreditInv
    <3> QED
      BY Zenon, <1>2, <3>1 DEF TracerInv, CreditInv
  <2>4. CreditedOnceToItsOwner'
    BY Zenon, <1>1, <1>2, <1>7, CreditKept DEF TracerInv
  <2> QED
    BY Zenon, <1>2, <1>5, <1>6, <1>7, <2>1, <2>2, <2>3, <2>4 DEF TracerInv
<1>8. CASE /\ Sampled(c) /\ waker[c].step = "woken"
           /\ UNCHANGED <<pending, failure, missed>> /\ frame' = [frame EXCEPT ![c] = NoFrame]
           /\ settled' = [settled EXCEPT ![frame[c].key] = settled[frame[c].key] + 1]
           /\ credited' = credited \cup {<<f, frame[c].key>>}
  <2>1. /\ Full /\ f # None /\ f \in 1..Len(waits)
        /\ frame[c].key \in Keys /\ frame[c].key[2] = waits[f].op
        /\ \A d \in CPUs \ {c} : frame[d].id # f
        /\ \A d \in Bios : pending[d] # f
        /\ \A p \in credited : p[1] # f
        /\ f # waker[c].id => waits[f].state = "woken"
        /\ FewMissed => f = waker[c].id /\ frame[c].key[1] = waits[f].serial
    BY Zenon, <1>8, SampleOfFrame
  <2>2. waits[f].state = "woken"
    BY Zenon, <1>8, <2>1, OfCPU DEF CallbackInv
  <2>3. /\ CreditedOnceToItsOwner'
        /\ credited' \subseteq Nat \X Keys /\ IsFiniteSet(credited') /\ settled' \in [Keys -> Nat]
    BY Zenon, <1>1, <1>8, <2>1, <2>2, OneMoreCredit
  <2>4. ProbeType'
    BY Zenon, <1>2, <1>4, <1>8, <2>3 DEF ProbeType
  <2>5. ObjectInv'
    BY Zenon, <1>2, <2>1 DEF ObjectInv
  <2>6. frame'[c].id = None
    BY Zenon, <1>4, <1>8, EmptyValues
  <2>7. CreditInv'
    <3> SUFFICES ASSUME NEW p \in credited'
                 PROVE  /\ p[1] \in 1..Len(waits)
                        /\ \A d \in Bios : pending[d] # p[1]
                        /\ \A d \in CPUs : frame'[d].id # p[1]
      BY Zenon, <1>1, <1>8 DEF CreditInv
    <3>1. CASE p \in credited
      <4>1. p[1] \in 1..Len(waits) /\ p[1] # None
        BY Zenon, <3>1, IdNotNone DEF TracerInv, CreditInv
      <4> QED
        BY Zenon, <1>2, <3>1, <4>1 DEF TracerInv, CreditInv
    <3>2. CASE p = <<f, frame[c].key>>
      <4>1. p[1] = f
        BY Zenon, <3>2
      <4>2. ASSUME NEW d \in CPUs PROVE frame'[d].id # f
        BY Zenon, <1>2, <2>1, <2>6
      <4> QED
        BY Zenon, <2>1, <4>1, <4>2
    <3> QED
      BY Zenon, <1>8, <3>1, <3>2
  <2> QED
    BY Zenon, <1>2, <1>5, <1>6, <1>8, <2>3, <2>4, <2>5, <2>7 DEF TracerInv
<1>9. CASE /\ Sampled(c) /\ waker[c].step = "kept"
           /\ UNCHANGED <<settled, credited, failure, missed>>
           /\ frame' = [frame EXCEPT ![c] = NoFrame]
           /\ pending' = [pending EXCEPT ![b] = f]
  <2>1. /\ Full /\ f # None /\ f \in 1..Len(waits) /\ waits[f].op \in Ops /\ b \in Bios
        /\ \A d \in CPUs \ {c} : frame[d].id # f
        /\ \A p \in credited : p[1] # f
        /\ FewMissed => f = waker[c].id
    BY Zenon, <1>9, SampleOfFrame
  <2>2. /\ pending'[b] = f /\ \A d \in Bios : d # b => pending'[d] = pending[d]
        /\ pending' \in [Bios -> Nat] /\ frame'[c].id = None
    <3>1. f \in Nat
      BY Zenon, <1>4 DEF Frame
    <3> HIDE DEF f, b
    <3> QED
      BY Zenon, <1>4, <1>9, <2>1, <3>1, EmptyValues
  <2> HIDE DEF f, b
  <2>3. ProbeType'
    BY Zenon, <1>2, <1>4, <1>9, <2>2 DEF ProbeType
  <2>4. ObjectInv'
    BY Zenon, <1>2, <2>1 DEF ObjectInv
  <2>5. SampleInv'
    <3>1. ASSUME NEW d \in Bios, pending'[d] # None
          PROVE  /\ pending'[d] \in 1..Len(waits)
                 /\ waits[pending'[d]].bio = d /\ waits[pending'[d]].op \in Ops
                 /\ \A e \in CPUs : frame'[e].id # pending'[d]
      <4>1. CASE d = b
        BY Zenon, <1>2, <2>1, <2>2, <4>1 DEF b
      <4>2. CASE d # b
        <5>1. pending'[d] = pending[d] /\ pending[d] # None
          BY Zenon, <2>2, <3>1, <4>2
        <5>2. /\ pending[d] \in 1..Len(waits)
              /\ waits[pending[d]].bio = d /\ waits[pending[d]].op \in Ops
              /\ \A e \in CPUs : frame[e].id # pending[d]
          BY Zenon, <5>1 DEF TracerInv, SampleInv
        <5> QED
          BY Zenon, <1>2, <5>1, <5>2
      <4> QED
        BY Zenon, <4>1, <4>2
    <3> QED
      BY Zenon, <1>1, <1>4a, <3>1 DEF SampleInv
  <2>6. CreditInv'
    <3> SUFFICES ASSUME NEW p \in credited
                 PROVE  /\ p[1] \in 1..Len(waits)
                        /\ \A d \in Bios : pending'[d] # p[1]
                        /\ \A d \in CPUs : frame'[d].id # p[1]
      BY Zenon, <1>1, <1>9 DEF CreditInv
    <3>1. /\ p[1] \in 1..Len(waits) /\ p[1] # None
          /\ \A d \in Bios : pending[d] # p[1]
          /\ \A d \in CPUs : frame[d].id # p[1]
      BY Zenon, IdNotNone DEF TracerInv, CreditInv
    <3> QED
      BY Zenon, <1>2, <2>1, <2>2, <3>1
  <2>7. FreshInv'
    <3>1. FewMissed => /\ f = waker[c].id /\ waits[f].state = "waiting"
                       /\ \A d \in CPUs : waker'[d].id # f
      <4>1. CallbackInv(c)
        BY Zenon, OfCPU
      <4>2. ASSUME FewMissed
            PROVE  f = waker[c].id /\ waker[c].id # None /\ waits[f].state = "waiting"
                   /\ \A d \in CPUs \ {c} : waker[d].id # f
        BY Zenon, <1>9, <2>1, <4>1, <4>2 DEF CallbackInv
      <4>3. ASSUME FewMissed, NEW d \in CPUs PROVE waker'[d].id # f
        BY Zenon, <1>2, <2>1, <4>2, <4>3
      <4> QED
        BY Zenon, <4>2, <4>3
    <3>2. (Unhealthy' <=> Unhealthy) /\ missed' = missed /\ (FewMissed' <=> FewMissed)
          /\ (missed = 0 => FewMissed)
      BY Zenon, <1>9 DEF Unhealthy, FewMissed
    <3>3. ASSUME ~Unhealthy, missed = 0, NEW d \in Bios, pending'[d] # None
          PROVE  waits[pending'[d]].state = "waiting" /\ \A e \in CPUs : waker'[e].id # pending'[d]
      <4>1. CASE d = b
        BY Zenon, <2>2, <3>1, <3>2, <3>3, <4>1
      <4>2. CASE d # b
        <5>1. /\ waits[pending[d]].state = "waiting" /\ \A e \in CPUs : waker[e].id # pending[d]
              /\ pending[d] # None
          BY Zenon, <2>2, <3>3, <4>2 DEF TracerInv, FreshInv
        <5> QED
          BY Zenon, <1>2, <2>2, <4>2, <5>1
      <4> QED
        BY Zenon, <4>1, <4>2
    <3>4. ASSUME ~Unhealthy, FewMissed, NEW i \in 1..Len(waits), waits[i].state = "waiting"
          PROVE  pending'[waits[i].bio] \in {None, i}
      <4>1. CASE waits[i].bio = b
        <5>1. i = f
          BY Zenon, <2>1, <3>1, <3>4, <4>1 DEF TracerInv, WaitInv, b
        <5> QED
          BY Zenon, <2>2, <4>1, <5>1
      <4>2. CASE waits[i].bio # b
        <5>1. waits[i].bio \in Bios /\ pending[waits[i].bio] \in {None, i}
          BY Zenon, <3>4, WaitFields DEF TracerInv, FreshInv
        <5> QED
          BY Zenon, <2>2, <4>2, <5>1
      <4> QED
        BY Zenon, <4>1, <4>2
    <3> QED
      BY Zenon, <1>1, <3>2, <3>3, <3>4 DEF FreshInv
  <2>8. CreditedOnceToItsOwner'
    BY Zenon, <1>1, <1>2, <1>9, CreditKept DEF TracerInv
  <2> QED
    BY Zenon, <1>2, <2>3, <2>4, <2>5, <2>6, <2>7, <2>8 DEF TracerInv
<1> QED
  BY Zenon, <1>3, <1>7, <1>8, <1>9

-----------------------------------------------------------------------------
(* The theorems.                                                           *)

\* An idle system has counted nothing.
LEMMA InitIInv ==
    ASSUME Init
    PROVE  IInv
<1> USE DEF Init, CollectorInit
<1>1. /\ \A d \in CPUs : waker[d] = NoCallback /\ frame[d] = NoFrame
      /\ Len(waits) = 0
  BY Zenon
<1>2. KernelType
  BY SMTT(30), TracerConstants, EmptyValues DEF KernelType
<1>3. ProbeType
  <2>1. pending \in [Bios -> Nat] /\ owner \in [Groups -> Serials \cup {None}] /\ frame \in [CPUs -> Frame]
    BY Zenon, EmptyValues
  <2>2. settled \in [Keys -> Nat] /\ hooks \in Attached
    BY Zenon DEF ZeroTotals, Attached
  <2>3. credited \subseteq Nat \X Keys /\ IsFiniteSet(credited)
    BY Zenon, FS_EmptySet
  <2> QED
    BY Zenon, <2>1, <2>2, <2>3 DEF ProbeType
<1>4. WaitInv /\ FreshInv
  <2>1. \A i \in 1..Len(waits) : FALSE
    BY Zenon, <1>1, NoWaits
  <2>2. \A d \in Bios : pending[d] = None
    BY Zenon
  <2> HIDE DEF Init, CollectorInit
  <2> QED
    BY Zenon, <2>1, <2>2 DEF WaitInv, FreshInv
<1>5. ObjectInv /\ OwnerInv /\ SampleInv /\ CreditInv
  BY Zenon, <1>1, EmptyValues DEF ObjectInv, OwnerInv, SampleInv, CreditInv
<1>6. \A c \in CPUs : CallbackInv(c) /\ FrameInv(c)
  BY Zenon, <1>1, EmptyValues DEF CallbackInv, FrameInv
<1>7. CreditedOnceToItsOwner
  <2>1. ASSUME NEW k \in Keys PROVE settled[k] = Cardinality({p \in credited : p[2] = k})
    <3>1. {p \in credited : p[2] = k} = {}
      BY Zenon
    <3> QED
      BY Zenon, <3>1, FS_EmptySet DEF ZeroTotals
  <2> QED
    BY Zenon, <2>1 DEF CreditedOnceToItsOwner
<1>8. CollectInv
  BY Zenon DEF CollectInv, PhaseInv, OverInv, SnapshotInv, ReclaimedForGood
<1> QED
  BY Zenon, <1>2, <1>3, <1>4, <1>5, <1>6, <1>7, <1>8 DEF IInv, TracerInv

\* A step that changes no rows and no markers.
LEMMA RowsKept ==
    ASSUME CollectInv, UNCHANGED <<updateVars, sessionVars, reclaimed, retired, live, used, rows>>
    PROVE  CollectInv'
BY Zenon, LiveRows

\* Every step keeps the invariant.
LEMMA NextIInv ==
    ASSUME IInv, [Next]_vars
    PROVE  IInv'
<1>1. /\ TracerInv /\ CollectInv /\ PhaseInv /\ KernelType /\ OwnerInv /\ WaitInv
  BY Zenon DEF IInv, TracerInv, CollectInv
<1>2. CASE AttachNext
  <2>1. UNCHANGED <<updateVars, sessionVars, reclaimed, retired, live, used, rows>>
    BY Zenon, <1>2 DEF AttachNext, collectorVars, mapVars, ghostVars, kernelVars
  <2> QED
    BY Zenon, <1>1, <1>2, <2>1, AttachTracer, RowsKept DEF IInv
<1>3. CASE Publish
  BY Zenon, <1>1, <1>3, PublishTracer, PublishCollect DEF IInv
<1>4. CASE ObjectReplaced
  BY Zenon, <1>1, <1>4, ReplacedTracer, ReplacedCollect DEF IInv
<1>5. CASE Collect
  <2>1. CollectorSteps(TRUE) /\ UNCHANGED <<live, used>>
    BY Zenon, <1>5 DEF Collect, ioVars, kernelVars
  <2> QED
    BY Zenon, <1>1, <1>5, <2>1, CollectTracer, CollectorKeeps DEF IInv
<1>6. ASSUME NEW g \in Groups, GroupFree(g) PROVE IInv'
  BY Zenon, <1>1, <1>6, FreeTracer, FreeCollect DEF IInv
<1>7. ASSUME NEW g \in Groups, NEW s \in Serials, GroupCreate(g, s) PROVE IInv'
  BY Zenon, <1>1, <1>7, CreateTracer, CreateCollect DEF IInv
<1>8. ASSUME NEW b \in Bios, NEW g \in Groups, NEW op \in Ops \cup IgnoredOps, Admit(b, g, op)
      PROVE  IInv'
  <2>1. UNCHANGED <<updateVars, sessionVars, reclaimed, retired, live, used, rows>>
    BY Zenon, <1>8 DEF Admit, ghostVars
  <2> QED
    BY Zenon, <1>1, <1>8, <2>1, AdmitTracer, RowsKept DEF IInv
<1>9. ASSUME NEW c \in CPUs, NEW i \in 1..Len(waits), WakeEntry(c, i) PROVE IInv'
  BY Zenon, <1>1, <1>9, EntryTracer, WakeCollect DEF IInv
<1>10. ASSUME NEW c \in CPUs, NEW step \in {"woken", "kept"}, WakeDecide(c, step) PROVE IInv'
  <2>1. UNCHANGED <<updateVars, sessionVars, reclaimed, retired, live, used, rows>>
    BY Zenon, <1>10 DEF WakeDecide, collectorVars, mapVars, ghostVars
  <2> QED
    BY Zenon, <1>1, <1>10, <2>1, DecideTracer, RowsKept DEF IInv
<1>11. ASSUME NEW c \in CPUs, WakeReturn(c) PROVE IInv'
  <2>1. UNCHANGED <<updateVars, sessionVars, reclaimed, retired, live, used, rows>>
    BY Zenon, <1>11 DEF WakeReturn
  <2> QED
    BY Zenon, <1>1, <1>11, <2>1, ReturnTracer, RowsKept DEF IInv
<1>12. CASE UNCHANGED vars
  <2>1. /\ UNCHANGED <<updateVars, sessionVars, reclaimed, retired, live, used, rows>>
        /\ UNCHANGED <<kernelVars, pending, owner, frame, credited, settled, failure, hooks, session>>
    BY Zenon, <1>12 DEF vars, collectorVars, mapVars, ghostVars, sessionVars, ioVars, kernelVars, probeVars
  <2>2. hooks' \in Attached /\ ObjectInv'
    BY Zenon, <1>1, <2>1 DEF TracerInv, ObjectInv, ProbeType, Full
  <2> QED
    BY Zenon, <1>1, <2>1, <2>2, TracerFrame, RowsKept DEF IInv
<1> QED
  BY Zenon, <1>2, <1>3, <1>4, <1>5, <1>6, <1>7, <1>8, <1>9, <1>10, <1>11, <1>12 DEF Next

\* The invariant of the tracer and of the collector holds in every state.
THEOREM Invariance == Spec => []IInv
<1>1. Init => IInv
  BY Zenon, InitIInv
<1>2. IInv /\ [Next]_vars => IInv'
  BY Zenon, NextIInv
<1> QED
  BY <1>1, <1>2, PTL DEF Spec

\* The waits that kretprobe_iocg_wake_fn has added to the rows: each once, after
\* the release of its bio, for its operation and, unless two probes were missed,
\* for its lifetime.
THEOREM CreditTheorem == Spec => []CreditedOnceToItsOwner
<1>1. IInv => CreditedOnceToItsOwner
  BY Zenon DEF IInv, TracerInv
<1> QED
  BY <1>1, Invariance, PTL

\* reclaimIOControlRetired leaves no row behind that a later wake, or a wake that
\* was already running, could have added.
THEOREM ReclaimTheorem == Spec => []ReclaimedForGood
<1>1. IInv => ReclaimedForGood
  BY Zenon DEF IInv, CollectInv
<1> QED
  BY <1>1, Invariance, PTL

=============================================================================
