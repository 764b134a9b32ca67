-------------------------------- MODULE IoCost --------------------------------
(***************************************************************************)
(* The IOCOST wait tracer, bpf/iocost_tracing.c: five probes that measure  *)
(* how long a bio waits in the wait queue of its IOCOST group, running on  *)
(* all CPUs against the kernel and against the collector of WaitCollector. *)
(*                                                                         *)
(* The kernel is the environment.  Its wait queues are modelled from how   *)
(* the probes use them: a bio waits at most once at a time; a callback     *)
(* (iocg_wake_fn) runs with interrupts off under the lock of the group's   *)
(* queue and either releases the bio (0) or leaves it waiting (-1); a      *)
(* released bio may be admitted elsewhere before the return probe runs; a  *)
(* group is freed only when no bio waits in it and no callback runs, and   *)
(* its address may then be used by a new group, which has a fresh serial   *)
(* unless the device was recreated.  A probe can be missed.                *)
(***************************************************************************)
EXTENDS WaitCollector, Sequences

CONSTANTS
    Bios,           \* addresses of struct bio
    Groups,         \* addresses of struct ioc_gq
    IgnoredOps,     \* operations the tracer does not count
    Durations,      \* lengths a wait may have, in units of 10us
    PendingCapacity, OwnerCapacity, RetiredCapacity,
    MaxWaits,       \* bound on the number of waits
    MaxMissed       \* bound on the number of missed probes

ASSUME TracerConstants == MaxWaits \in Nat

None == 0

VARIABLES
    waits,      \* every wait so far: [bio, group, serial, op, state]
    live,       \* the serial of the group at every address, or None
    used,       \* serials given to some group
    waker,      \* the callback that runs on every CPU: [id, step, probed]
    missed,     \* missed probes so far
    hooks,      \* programs attached, a prefix of AttachOrder
    pending,    \* iocost_pending_map: the wait a bio started, or None
    owner,      \* iocost_owner_state_map: the serial recorded, or None
    frame,      \* iocost_wake_frame_map: [id, key] of the sample, id None when idle
    credited    \* pairs <<wait, key>> that have been counted

kernelVars == <<waits, live, used, waker, missed>>
probeVars == <<hooks, pending, owner, frame, credited>>
ioVars == <<kernelVars, probeVars>>
vars == <<collectorVars, ioVars>>

Ids == 1..MaxWaits
NoCallback == [id |-> None, step |-> "none", probed |-> FALSE]
NoFrame == [id |-> None, key |-> <<None, None>>]

\* attachIOCostPrograms: admission last.
AttachOrder == <<"wake", "free", "kick">>

Waiting(i) == i \in 1..Len(waits) /\ waits[i].state = "waiting"
Idle(g) == \A c \in CPUs : waker[c].id # None => waits[waker[c].id].group # g
Recorded(f) == {x \in DOMAIN f : f[x] # None}

\* A map entry can be written when it exists or the map has room.
HasRoom(f, x, capacity) == f[x] # None \/ Cardinality(Recorded(f)) < capacity

\* The probes attached by the session can fire.
Probed(hook) ==
    /\ session \in {"attaching", "open", "restarting", "stopping"}
    /\ hook \in {hooks[n] : n \in 1..Len(hooks)}

Miss == missed < MaxMissed /\ missed' = missed + 1

-----------------------------------------------------------------------------
Init ==
    /\ CollectorInit
    /\ waits = <<>> /\ live = [g \in Groups |-> None] /\ used = {}
    /\ waker = [c \in CPUs |-> NoCallback] /\ missed = 0
    /\ hooks = <<>>
    /\ pending = [b \in Bios |-> None] /\ owner = [g \in Groups |-> None]
    /\ frame = [c \in CPUs |-> NoFrame] /\ credited = {}

-----------------------------------------------------------------------------
(* Groups come and go.                                                     *)

GroupCreate(g, s) ==
    /\ live[g] = None /\ s \notin Range(live)
    /\ s \in used => devicesChanged
    /\ s \notin used => \A t \in Serials \ used : s <= t
    /\ live' = [live EXCEPT ![g] = s] /\ used' = used \cup {s}
    /\ UNCHANGED <<collectorVars, waits, waker, missed, probeVars>>

\* Mutant of PdFreeProbe: the owner stays recorded for the address.
PdFreeKeepsOwner(g) ==
    /\ retired' = IF Probed("free") /\ owner[g] # None THEN retired \cup {owner[g]} ELSE retired
    /\ UNCHANGED <<failure, owner>>

\* kprobe_ioc_pd_free: a recorded owner leaves a marker and is forgotten.
PdFreeProbe(g) ==
    IF ~Probed("free") \/ owner[g] = None
    THEN UNCHANGED <<retired, failure, owner>>
    ELSE LET room == owner[g] \in retired \/ Cardinality(retired) < RetiredCapacity
         IN /\ retired' = IF room THEN retired \cup {owner[g]} ELSE retired
            /\ failure' = IF room THEN failure ELSE "retire"
            /\ owner' = [owner EXCEPT ![g] = None]

\* The last reference to a group is dropped.
GroupFree(g) ==
    /\ live[g] # None /\ Idle(g)
    /\ \A i \in Ids : Waiting(i) => waits[i].group # g
    /\ live' = [live EXCEPT ![g] = None]
    /\ PdFreeProbe(g)
    /\ UNCHANGED <<rows, word, updateVars, sessionVars, ghostVars, baselined, previous,
                   faults, waits, used, waker, missed, hooks, pending, frame, credited>>

-----------------------------------------------------------------------------
(* Admission.                                                              *)

\* kprobe_iocg_kick_waitq for the wait i of bio b that was just appended.
KickProbe(b, op, i) ==
    IF ~Probed("kick") \/ Unhealthy \/ op \in IgnoredOps
    THEN UNCHANGED <<pending, failure>>
    ELSE IF HasRoom(pending, b, PendingCapacity)
         THEN pending' = [pending EXCEPT ![b] = i] /\ UNCHANGED failure
         ELSE failure' = "pending_insert" /\ UNCHANGED pending

\* A bio of group g starts to wait.
Admit(b, g, op) ==
    /\ Len(waits) < MaxWaits /\ live[g] # None /\ Idle(g)
    /\ \A i \in Ids : Waiting(i) => waits[i].bio # b
    /\ waits' = Append(waits, [bio |-> b, group |-> g, serial |-> live[g],
                               op |-> op, state |-> "waiting"])
    /\ \/ KickProbe(b, op, Len(waits) + 1) /\ UNCHANGED missed
       \/ Probed("kick") /\ Miss /\ UNCHANGED <<pending, failure>>
    /\ UNCHANGED <<rows, word, retired, updateVars, sessionVars, ghostVars, baselined,
                   previous, faults, live, used, waker, hooks, owner, frame, credited>>

-----------------------------------------------------------------------------
(* The wake callback.                                                      *)

\* The frame owns the sample: iocost_delete_pending before the bio is released.
OwnSample(b) == [pending EXCEPT ![b] = None]

\* kprobe_iocg_wake_fn on CPU c for the wait i: the leftover frame is cleared
\* first; then a pending sample is moved into the frame, its owner and its
\* row being created on the way.
WakeEntryProbe(c, i) ==
    LET b == waits[i].bio
        g == waits[i].group
        p == pending[b]
        serial == IF owner[g] # None THEN owner[g] ELSE live[g]
        key == <<serial, waits[p].op>>
        ownerRoom == HasRoom(owner, g, OwnerCapacity)
    IN IF Unhealthy \/ p = None
       THEN /\ frame' = [frame EXCEPT ![c] = NoFrame]
            /\ UNCHANGED <<rows, failure, pending, owner>>
       ELSE /\ owner' = IF ownerRoom THEN [owner EXCEPT ![g] = serial] ELSE owner
            /\ IF ownerRoom /\ CanHoldRow(key)
               THEN /\ rows' = rows \cup {key}
                    /\ pending' = OwnSample(b)
                    /\ frame' = [frame EXCEPT ![c] = [id |-> p, key |-> key]]
                    /\ UNCHANGED failure
               ELSE /\ failure' = IF ownerRoom THEN "aggregate_insert" ELSE "owner_insert"
                    /\ frame' = [frame EXCEPT ![c] = NoFrame]
                    /\ UNCHANGED <<rows, pending>>

\* A callback starts on CPU c for the waiting wait i.
WakeEntry(c, i) ==
    /\ waker[c].id = None /\ Waiting(i) /\ Idle(waits[i].group)
    /\ \/ /\ Probed("wake")
          /\ waker' = [waker EXCEPT ![c] = [id |-> i, step |-> "running", probed |-> TRUE]]
          /\ WakeEntryProbe(c, i)
          /\ UNCHANGED missed
       \/ /\ waker' = [waker EXCEPT ![c] = [id |-> i, step |-> "running", probed |-> FALSE]]
          /\ IF Probed("wake") THEN Miss ELSE UNCHANGED missed
          /\ UNCHANGED <<rows, failure, pending, owner, frame>>
    /\ UNCHANGED <<word, retired, updateVars, sessionVars, ghostVars, baselined, previous,
                   faults, waits, live, used, hooks, credited>>

\* The callback decides: the bio is released, or it keeps waiting.
WakeDecide(c, step) ==
    /\ waker[c].step = "running"
    /\ waker' = [waker EXCEPT ![c].step = step]
    /\ waits' = IF step = "woken" THEN [waits EXCEPT ![waker[c].id].state = "woken"] ELSE waits
    /\ UNCHANGED <<collectorVars, live, used, missed, probeVars>>

\* kretprobe_iocg_wake_fn for -1: the sample goes back to the pending map.
RestorePending(c) ==
    LET b == waits[frame[c].id].bio
    IN IF pending[b] # None
       THEN failure' = "pending_collision" /\ UNCHANGED pending
       ELSE IF HasRoom(pending, b, PendingCapacity)
            THEN pending' = [pending EXCEPT ![b] = frame[c].id] /\ UNCHANGED failure
            ELSE failure' = "pending_insert" /\ UNCHANGED pending

\* kretprobe_iocg_wake_fn for 0: the sample is added to its row, if the row is
\* still there.
AddSample(c) ==
    IF frame[c].key \in rows
    THEN /\ \E d \in Durations : Settle(frame[c].key, c, d)
         /\ credited' = credited \cup {<<frame[c].id, frame[c].key>>}
    ELSE UNCHANGED <<word, settled, credited>>

\* The return probe will run and finds a sample in the frame.
Sampled(c) == waker[c].probed /\ Probed("wake") /\ frame[c].id # None

\* The callback of CPU c returns; its return probe may be missed.
WakeReturn(c) ==
    /\ waker[c].step \in {"woken", "kept"}
    /\ waker' = [waker EXCEPT ![c] = NoCallback]
    /\ \/ /\ Sampled(c)
          /\ IF waker[c].step = "woken"
             THEN AddSample(c) /\ UNCHANGED <<pending, failure>>
             ELSE RestorePending(c) /\ UNCHANGED <<word, settled, credited>>
          /\ frame' = [frame EXCEPT ![c] = NoFrame]
          /\ UNCHANGED missed
       \/ /\ IF Sampled(c) THEN Miss ELSE UNCHANGED missed
          /\ UNCHANGED <<word, settled, credited, pending, failure, frame>>
    /\ UNCHANGED <<rows, retired, updateVars, sessionVars, reported, gap, reclaimed,
                   baselined, previous, faults, waits, live, used, hooks, owner>>

-----------------------------------------------------------------------------
(* The session.                                                            *)

\* AttachWithOptions attaches one program after the other.
AttachNext ==
    /\ session = "attaching" /\ Len(hooks) < Len(AttachOrder)
    /\ hooks' = Append(hooks, AttachOrder[Len(hooks) + 1])
    /\ UNCHANGED <<collectorVars, kernelVars, pending, owner, frame, credited>>

\* publishSession.
Publish ==
    /\ session = "attaching" /\ Len(hooks) = Len(AttachOrder)
    /\ session' = "open"
    /\ UNCHANGED <<mapVars, updateVars, sessions, devicesChanged, ghostVars, baselined,
                   previous, faults, ioVars>>

\* A loaded or closed object has empty maps and no attached program.
ObjectReplaced ==
    /\ OpenSession \/ CloseSession
    /\ hooks' = <<>>
    /\ pending' = [b \in Bios |-> None] /\ owner' = [g \in Groups |-> None]
    /\ frame' = [c \in CPUs |-> NoFrame] /\ credited' = {}
    /\ UNCHANGED kernelVars

\* The steps of the collector that leave the object in place.
Collect == CollectorSteps(TRUE) /\ UNCHANGED ioVars

Next ==
    \/ AttachNext \/ Publish \/ ObjectReplaced \/ Collect
    \/ \E g \in Groups : GroupFree(g) \/ \E s \in Serials : GroupCreate(g, s)
    \/ \E b \in Bios, g \in Groups, op \in Ops \cup IgnoredOps : Admit(b, g, op)
    \/ \E c \in CPUs : \/ \E i \in 1..Len(waits) : WakeEntry(c, i)
                       \/ \E step \in {"woken", "kept"} : WakeDecide(c, step)
                       \/ WakeReturn(c)

Spec == Init /\ [][Next]_vars

-----------------------------------------------------------------------------
(* Properties.                                                             *)

\* A wait that misses its wake leaves a sample behind, which the next admission
\* of the bio replaces; it does not when that one is missed, too, or is of an
\* operation that is not counted.
FewMissed == missed = 0 \/ (missed = 1 /\ IgnoredOps = {})

\* A wait is counted at most once, only after its own bio was released and for
\* the operation it waited with, however many probes were missed; and for the
\* lifetime it waited in, even when the bio or the group's address has been used
\* again in between, unless a second probe was missed.
CreditedOnceToItsOwner ==
    /\ \A p \in credited :
          /\ waits[p[1]].state = "woken" /\ waits[p[1]].op = p[2][2]
          /\ FewMissed => waits[p[1]].serial = p[2][1]
          /\ \A q \in credited : q[1] = p[1] => q = p
    /\ \A k \in Keys : settled[k] = Cardinality({p \in credited : p[2] = k})
=============================================================================
