------------------------------- MODULE BlkThrotl -------------------------------
(***************************************************************************)
(* The blk-throttle wait tracer, bpf/blk_throtl_tracing.c: it measures how *)
(* long a bio is held back by blk-throttle, from throtl_add_bio_tg to the  *)
(* pop that finally dispatches it.                                         *)
(*                                                                         *)
(* The kernel is the environment, modelled from how the probes use it: a   *)
(* bio is queued once in its group (the tracked caller), may be moved up   *)
(* to the root level (a pop with a second argument, then an add by the     *)
(* ignored caller), and is dispatched by a pop without that argument.  A   *)
(* task pops under the queue lock, so its calls do not nest.  A group is   *)
(* freed after the last pop of its bios has returned; its address can then *)
(* be used by a group with a fresh serial.  A probe can be missed.         *)
(***************************************************************************)
EXTENDS WaitCollector, Sequences

CONSTANTS
    Bios,           \* addresses of struct bio
    Groups,         \* addresses of struct blkcg_gq
    Tasks,          \* the tasks that dispatch
    IgnoredOps,     \* operations (or empty bios) the tracer does not count
    Durations,      \* lengths a wait may have, in units of 10us
    PendingCapacity, OwnerCapacity, RetiredCapacity,
    MaxWaits,       \* bound on the number of waits
    MaxMissed       \* bound on the number of missed probes

ASSUME TracerConstants == MaxWaits \in Nat

None == 0

VARIABLES
    waits,      \* every wait so far: [bio, group, serial, op, at]
    live,       \* the serial of the group at every address, or None
    used,       \* serials given to some group
    popping,    \* the wait every task is popping for dispatch, or None
    observed,   \* the return of the task's pop will be probed
    missed,     \* missed probes so far
    hooks,      \* programs attached, a prefix of AttachOrder
    pending,    \* blk_throtl_pending_map: the wait a bio started, or None
    owner,      \* blk_throtl_blkg_owner_map: the serial recorded, or None
    popCall,    \* blk_throtl_pop_call_map
    credited    \* pairs <<wait, key>> that have been counted

kernelVars == <<waits, live, used, popping, observed, missed>>
probeVars == <<hooks, pending, owner, popCall, credited>>
ioVars == <<kernelVars, probeVars>>
vars == <<collectorVars, ioVars>>

Ids == 1..MaxWaits
\* Mutant of AttachOrder: admission before the lifecycle probe.
AttachOrderFreeLast == <<"popReturn", "popEntry", "add", "free">>

\* attachBlkThrotlHooks: admission last.
AttachOrder == <<"free", "popReturn", "popEntry", "add">>

\* blk_throtl_wait_bio_operation.
CountedOp(op) == op \notin IgnoredOps

Held(i) == i \in 1..Len(waits) /\ waits[i].at \in {"group", "root"}
Popped(i) == \E t \in Tasks : popping[t] = i
Recorded(f) == {x \in DOMAIN f : f[x] # None}
HasRoom(f, x, capacity) == f[x] # None \/ Cardinality(Recorded(f)) < capacity

Probed(hook) ==
    /\ session \in {"attaching", "open", "restarting", "stopping"}
    /\ hook \in {hooks[n] : n \in 1..Len(hooks)}

Miss == missed < MaxMissed /\ missed' = missed + 1

-----------------------------------------------------------------------------
Init ==
    /\ CollectorInit
    /\ waits = <<>> /\ live = [g \in Groups |-> None] /\ used = {}
    /\ popping = [t \in Tasks |-> None] /\ observed = [t \in Tasks |-> FALSE]
    /\ missed = 0
    /\ hooks = <<>>
    /\ pending = [b \in Bios |-> None] /\ owner = [g \in Groups |-> None]
    /\ popCall = {} /\ credited = {}

-----------------------------------------------------------------------------
(* Groups come and go.                                                     *)

GroupCreate(g, s) ==
    /\ live[g] = None /\ s \notin Range(live)
    /\ s \in used => devicesChanged
    /\ s \notin used => \A t \in Serials \ used : s <= t
    /\ live' = [live EXCEPT ![g] = s] /\ used' = used \cup {s}
    /\ UNCHANGED <<collectorVars, waits, popping, observed, missed, probeVars>>

\* kprobe_blk_throtl_pd_free.
PdFreeProbe(g) ==
    IF ~Probed("free") \/ owner[g] = None
    THEN UNCHANGED <<retired, failure, owner>>
    ELSE LET room == owner[g] \in retired \/ Cardinality(retired) < RetiredCapacity
         IN /\ retired' = IF room THEN retired \cup {owner[g]} ELSE retired
            /\ failure' = IF room THEN failure ELSE "retire"
            /\ owner' = [owner EXCEPT ![g] = None]

GroupFree(g) ==
    /\ live[g] # None
    /\ \A i \in Ids : Held(i) \/ Popped(i) => waits[i].group # g
    /\ live' = [live EXCEPT ![g] = None]
    /\ PdFreeProbe(g)
    /\ UNCHANGED <<rows, word, updateVars, sessionVars, ghostVars, baselined, previous, faults,
                   waits, used, popping, observed, missed, hooks, pending, popCall, credited>>

-----------------------------------------------------------------------------
(* Admission.                                                              *)

\* kprobe_blk_throtl_add_bio_tg for the wait i of bio b.
AddProbe(b, op, i, knownCaller) ==
    IF ~Probed("add")
    THEN UNCHANGED <<pending, failure>>
    ELSE IF ~knownCaller
    THEN failure' = "unknown_caller" /\ UNCHANGED pending
    ELSE IF Unhealthy \/ ~CountedOp(op)
    THEN UNCHANGED <<pending, failure>>
    ELSE IF pending[b] # None
    THEN failure' = "pending_collision" /\ UNCHANGED pending
    ELSE IF HasRoom(pending, b, PendingCapacity)
    THEN pending' = [pending EXCEPT ![b] = i] /\ UNCHANGED failure
    ELSE failure' = "pending_insert" /\ UNCHANGED pending

\* A bio of group g is held back.
Add(b, g, op) ==
    /\ Len(waits) < MaxWaits /\ live[g] # None
    /\ \A i \in Ids : Held(i) \/ Popped(i) => waits[i].bio # b
    /\ waits' = Append(waits, [bio |-> b, group |-> g, serial |-> live[g],
                               op |-> op, at |-> "group"])
    /\ \/ \E known \in BOOLEAN : AddProbe(b, op, Len(waits) + 1, known) /\ UNCHANGED missed
       \/ Probed("add") /\ Miss /\ UNCHANGED <<pending, failure>>
    /\ UNCHANGED <<rows, word, retired, updateVars, sessionVars, ghostVars, baselined, previous,
                   faults, live, used, popping, observed, hooks, owner, popCall, credited>>

\* The bio moves up: a pop with a second argument leaves no call row, so its
\* return does nothing, and the add that follows is the ignored caller's.
MoveUp(i) ==
    /\ Held(i) /\ waits[i].at = "group"
    /\ waits' = [waits EXCEPT ![i].at = "root"]
    /\ UNCHANGED <<collectorVars, live, used, popping, observed, missed, probeVars>>

-----------------------------------------------------------------------------
(* The final pop.                                                          *)

\* kprobe_blk_throtl_pop_queued, for a task t that pops for dispatch.
PopEntryProbe(t) ==
    IF t \in popCall
    THEN failure' = "pop_state" /\ UNCHANGED popCall
    ELSE popCall' = popCall \cup {t} /\ UNCHANGED failure

PopEntry(t, i) ==
    /\ popping[t] = None /\ Held(i)
    /\ popping' = [popping EXCEPT ![t] = i]
    /\ waits' = [waits EXCEPT ![i].at = "popped"]
    /\ observed' = [observed EXCEPT ![t] = Probed("popReturn")]
    /\ \/ /\ IF Probed("popEntry") THEN PopEntryProbe(t) ELSE UNCHANGED <<popCall, failure>>
          /\ UNCHANGED missed
       \/ Probed("popEntry") /\ Miss /\ UNCHANGED <<popCall, failure>>
    /\ UNCHANGED <<rows, word, retired, updateVars, sessionVars, ghostVars, baselined, previous,
                   faults, live, used, hooks, pending, owner, credited>>

\* blk_throtl_lookup_or_create_owner and blk_throtl_account_wait for the
\* pending wait p of the bio that wait i popped, on CPU c.
AccountWait(c, i, p) ==
    LET g == waits[i].group
        serial == IF owner[g] # None THEN owner[g] ELSE live[g]
        key == <<serial, waits[i].op>>
        ownerRoom == HasRoom(owner, g, OwnerCapacity)
    IN /\ owner' = IF ownerRoom THEN [owner EXCEPT ![g] = serial] ELSE owner
       /\ IF ownerRoom /\ CanHoldRow(key)
          THEN /\ rows' = rows \cup {key}
               /\ \E d \in Durations : Settle(key, c, d)
               /\ credited' = credited \cup {<<p, key>>}
               /\ UNCHANGED failure
          ELSE /\ failure' = IF ownerRoom THEN "aggregate" ELSE "owner"
               /\ UNCHANGED <<rows, word, settled, credited>>

\* kretprobe_blk_throtl_pop_queued: the call row says that the pop was final;
\* a pending wait of the bio is counted in a healthy session and forgotten in
\* any case.
PopReturnProbe(t, c) ==
    LET i == popping[t]
        b == waits[i].bio
        p == pending[b]
        ends == t \in popCall /\ CountedOp(waits[i].op) /\ p # None
    IN /\ popCall' = popCall \ {t}
       /\ pending' = IF ends THEN [pending EXCEPT ![b] = None] ELSE pending
       /\ IF ends /\ ~Unhealthy
          THEN AccountWait(c, i, p)
          ELSE UNCHANGED <<rows, word, settled, failure, owner, credited>>

\* The pop of task t returns on CPU c.
PopReturn(t, c) ==
    /\ popping[t] # None
    /\ popping' = [popping EXCEPT ![t] = None]
    /\ observed' = [observed EXCEPT ![t] = FALSE]
    /\ waits' = [waits EXCEPT ![popping[t]].at = "done"]
    /\ \/ observed[t] /\ Probed("popReturn") /\ PopReturnProbe(t, c) /\ UNCHANGED missed
       \/ /\ IF observed[t] /\ Probed("popReturn") THEN Miss ELSE UNCHANGED missed
          /\ UNCHANGED <<rows, word, settled, failure, pending, owner, popCall, credited>>
    /\ UNCHANGED <<retired, updateVars, sessionVars, reported, gap, reclaimed, baselined,
                   previous, faults, live, used, hooks>>

-----------------------------------------------------------------------------
(* The session.                                                            *)

AttachNext ==
    /\ session = "attaching" /\ Len(hooks) < Len(AttachOrder)
    /\ hooks' = Append(hooks, AttachOrder[Len(hooks) + 1])
    /\ UNCHANGED <<collectorVars, kernelVars, pending, owner, popCall, credited>>

\* Mutant of AttachFails: the next attempt inherits the maps.
AttachFailsKeepsMaps ==
    /\ session = "attaching" /\ Len(hooks) < Len(AttachOrder) /\ faults < MaxFaults
    /\ faults' = faults + 1
    /\ hooks' = <<>>
    /\ UNCHANGED <<mapVars, updateVars, sessionVars, ghostVars, baselined, previous,
                   kernelVars, pending, owner, popCall, credited>>

\* A program cannot be attached: the object is closed and loaded again before
\* the next attempt, because calls in flight may have left rows behind.
AttachFails ==
    /\ session = "attaching" /\ Len(hooks) < Len(AttachOrder) /\ faults < MaxFaults
    /\ faults' = faults + 1
    /\ EmptyObject /\ baselined' = TRUE
    /\ hooks' = <<>>
    /\ pending' = [b \in Bios |-> None] /\ owner' = [g \in Groups |-> None]
    /\ popCall' = {} /\ credited' = {}
    /\ UNCHANGED <<updateVars, session, sessions, kernelVars>>

Publish ==
    /\ session = "attaching" /\ Len(hooks) = Len(AttachOrder)
    /\ session' = "open"
    /\ UNCHANGED <<mapVars, updateVars, sessions, devicesChanged, ghostVars, baselined,
                   previous, faults, ioVars>>

ObjectReplaced ==
    /\ OpenSession \/ CloseSession
    /\ hooks' = <<>>
    /\ pending' = [b \in Bios |-> None] /\ owner' = [g \in Groups |-> None]
    /\ popCall' = {} /\ credited' = {}
    /\ UNCHANGED kernelVars

Collect == CollectorSteps(FALSE) /\ UNCHANGED ioVars

Next ==
    \/ AttachNext \/ AttachFails \/ Publish \/ ObjectReplaced \/ Collect
    \/ \E g \in Groups : GroupFree(g) \/ \E s \in Serials : GroupCreate(g, s)
    \/ \E b \in Bios, g \in Groups, op \in Ops \cup IgnoredOps : Add(b, g, op)
    \/ \E i \in 1..Len(waits) : MoveUp(i) \/ \E t \in Tasks : PopEntry(t, i)
    \/ \E t \in Tasks, c \in CPUs : PopReturn(t, c)

Spec == Init /\ [][Next]_vars

\* Update runs at every scrape and its steps do not block: they are not
\* postponed for ever.  Nothing is assumed about the kernel or the session.
FairSpec == Spec /\ WF_vars(UpdateSteps(FALSE) /\ UNCHANGED ioVars)

-----------------------------------------------------------------------------
(* Properties.                                                             *)

\* A wait is counted at most once, when its own bio has been dispatched, however
\* many probes were missed: a moved bio is not counted on the way.  It is counted
\* for the lifetime and the operation it waited with: what a missed probe leaves
\* behind is not taken for another wait, unless a second probe is missed.
CreditedOnceToItsOwner ==
    /\ \A p \in credited :
          /\ waits[p[1]].at = "done"
          /\ missed <= 1 => p[2] = <<waits[p[1]].serial, waits[p[1]].op>>
          /\ \A q \in credited : q[1] = p[1] => q = p
    /\ \A k \in Keys : settled[k] = Cardinality({p \in credited : p[2] = k})

\* As long as no probe is missed the entry and return probes stay paired and a
\* bio has no pending wait when it is admitted, also while the programs are
\* being attached and after a failed attachment.
PairedUnlessMissed ==
    missed = 0 => failure \notin {"pop_state", "pending_collision"}

\* A retired lifetime is reclaimed, whatever the probes do meanwhile, unless the
\* session ends: failing deletions and lost baselines only delay it.
RetiredIsReclaimed ==
    \A s \in Serials : (s \in retired /\ session = "open") ~> (s \notin retired \/ session # "open")
=============================================================================
