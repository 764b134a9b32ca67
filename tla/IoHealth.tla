-------------------------------- MODULE IoHealth --------------------------------
(***************************************************************************)
(* I/O health events from the kernel to the stored record: the probes of   *)
(* bpf/io_health.c that raise an event and those that follow disks coming  *)
(* and going, the perf buffer, the sessions and the reader of              *)
(* core/metrics/io_health_runtime.go and io_health_events.go, the MD       *)
(* watcher's handler, and the worker of EvidenceWorker.                    *)
(*                                                                         *)
(* The danger is a disk that is replaced while an event about it is on its *)
(* way: the record would get the name or the evidence of the replacement.  *)
(* The kernel side numbers the topology; an event carries the number that  *)
(* was current before its device was looked at.                            *)
(*                                                                         *)
(* The kernel is the environment: the disk behind a device number is       *)
(* announced (device_add), visible in sysfs, removed (del_gendisk, which   *)
(* drains its requests, so that no event is raised afterwards) and gone.   *)
(***************************************************************************)
EXTENDS EvidenceWorker

CONSTANTS
    Devs,           \* device numbers; the disk names are the targets
    Probes,         \* event probes that can run at the same time
    BufferSize,     \* records the perf buffer holds
    MaxSessions     \* bound on the number of BPF sessions

Unknown == "unknown"
ASSUME DeviceNames == Devs \cup {Unknown} = Targets

VARIABLES
    stage,      \* per device number: "absent", "adding", "live", "removing"
    instance,   \* per device number: the disk's instance
    generation, \* the word of io_health_topology
    hooks,      \* how many of AttachOrder are attached
    session,    \* "closed", "attaching", "open", "disabled"
    sessions,   \* number of sessions begun
    raising,    \* per probe: the event it is raising, [ev, gen, dev]
    raised,     \* number of events
    subject,    \* per event: the instance it is about
    buffer,     \* the perf buffer: [ev, gen, dev]
    lost,       \* events dropped by a full buffer or with their session
    reader,     \* "read", "name", "identity", "check", "submit"
    event,      \* the record the reader handles
    found,      \* the target it resolved: a request without ev
    stale,      \* the generation has changed: no name, no evidence
    md          \* the MD handler: [at, ev, dev, member, found]

diskVars == <<stage, instance>>
sessionVars == <<hooks, session, sessions>>
eventVars == <<raising, raised, subject, buffer, lost>>
readerVars == <<reader, event, found, stale>>
vars == <<workerVars, diskVars, generation, sessionVars, eventVars, readerVars, md, present,
          persisted>>

NoEvent == [ev |-> 0, gen |-> 0, dev |-> Unknown]
Unresolved(label, t) == [label |-> label, target |-> t, identity |-> NoInstance, reason |-> TRUE]
NoTarget == Unresolved(NoInstance, Unknown)
MDIdle == [at |-> "idle", ev |-> 0, dev |-> Unknown, member |-> NoInstance, found |-> NoTarget]

Init ==
    /\ WorkerInit
    /\ present = [t \in Targets |-> NoInstance]
    /\ persisted = [e \in Events |-> <<>>]
    /\ stage = [d \in Devs |-> "absent"] /\ instance = [d \in Devs |-> NoInstance]
    /\ generation = 0 /\ hooks = 0 /\ session = "closed" /\ sessions = 0
    /\ raising = [p \in Probes |-> NoEvent] /\ raised = 0
    /\ subject = [e \in Events |-> NoInstance] /\ buffer = <<>> /\ lost = {}
    /\ reader = "read" /\ event = NoEvent /\ found = NoTarget /\ stale = FALSE
    /\ md = MDIdle

-----------------------------------------------------------------------------
(* Hooks and sessions.                                                     *)

\* selectIOHealthHooks: identity observers precede every event source.
AttachOrder == <<"removed", "publishing", "events">>

Attached(hook) == \E n \in 1..hooks : AttachOrder[n] = hook

\* runBPFSession loads a fresh object and opens its event pipe.
BeginSession ==
    /\ session = "closed" /\ ~cancelled /\ sessions < MaxSessions
    /\ session' = "attaching" /\ sessions' = sessions + 1 /\ hooks' = 0
    /\ generation' = 0
    /\ UNCHANGED <<workerVars, diskVars, eventVars, readerVars, md, present, persisted>>

\* AttachWithOptions attaches one hook after the other; events can be queued
\* before the last one is attached, and are read only after it.
AttachNext ==
    /\ session = "attaching"
    /\ hooks' = hooks + 1
    /\ session' = IF hooks + 1 = Len(AttachOrder) THEN "open" ELSE "attaching"
    /\ UNCHANGED <<workerVars, diskVars, generation, sessions, eventVars, readerVars, md,
                   present, persisted>>

\* A failed attach, a failed read or a cancellation ends the session; its
\* object and what its buffer still holds are gone.  The session may be the
\* last one (cancellation, an error that is not retried, or the third setup
\* failure in a row: the count is left out).
EndSession ==
    /\ session \in {"attaching", "open"} /\ reader = "read"
    /\ session' \in {"closed", "disabled"}
    /\ hooks' = 0 /\ buffer' = <<>>
    /\ lost' = lost \cup {buffer[n].ev : n \in 1..Len(buffer)}
                    \cup {raising[p].ev : p \in {q \in Probes : raising[q] # NoEvent}}
    /\ raising' = [p \in Probes |-> NoEvent]
    /\ UNCHANGED <<workerVars, diskVars, generation, sessions, raised, subject, readerVars, md,
                   present, persisted>>

-----------------------------------------------------------------------------
(* Disks.                                                                  *)

\* io_health_topology_generation(true), in an attached hook.
Bumped(hook) == IF Attached(hook) THEN generation + 1 ELSE generation

\* Mutant of PublishingBump: the publication of a disk is not observed.
PublishingBumpMissing == generation

\* io_health_disk_publishing, before sysfs shows the disk.
PublishingBump == Bumped("publishing")

DiskAnnounced(d, i) ==
    /\ stage[d] = "absent"
    /\ \A e \in Devs : instance[e] < i
    /\ stage' = [stage EXCEPT ![d] = "adding"]
    /\ instance' = [instance EXCEPT ![d] = i]
    /\ generation' = PublishingBump
    /\ UNCHANGED <<workerVars, sessionVars, eventVars, readerVars, md, present, persisted>>

DiskVisible(d) ==
    /\ stage[d] = "adding"
    /\ stage' = [stage EXCEPT ![d] = "live"]
    /\ present' = [present EXCEPT ![d] = instance[d]]
    /\ UNCHANGED <<workerVars, instance, generation, sessionVars, eventVars, readerVars, md,
                   persisted>>

\* io_health_freeze_disk_removed at the entry of del_gendisk.
DiskRemoving(d) ==
    /\ stage[d] = "live"
    /\ stage' = [stage EXCEPT ![d] = "removing"]
    /\ generation' = Bumped("removed")
    /\ UNCHANGED <<workerVars, instance, sessionVars, eventVars, readerVars, md, present,
                   persisted>>

\* The requests are drained and the sysfs entries are gone.
DiskGone(d) ==
    /\ stage[d] = "removing"
    /\ \A p \in Probes : raising[p].dev # d
    /\ stage' = [stage EXCEPT ![d] = "absent"]
    /\ present' = [present EXCEPT ![d] = NoInstance]
    /\ UNCHANGED <<workerVars, instance, generation, sessionVars, eventVars, readerVars, md,
                   persisted>>

-----------------------------------------------------------------------------
(* Kernel events.                                                          *)

NewEvent(d) ==
    /\ raised < MaxEvents /\ raised' = raised + 1
    /\ subject' = [subject EXCEPT ![raised + 1] = instance[d]]

\* The probe reads the generation first ...
EventBegins(p, d) ==
    /\ Attached("events")
    /\ raising[p] = NoEvent /\ stage[d] \in {"live", "removing"}
    /\ NewEvent(d)
    /\ raising' = [raising EXCEPT ![p] = [ev |-> raised + 1, gen |-> generation, dev |-> d]]
    /\ UNCHANGED <<workerVars, diskVars, generation, sessionVars, buffer, lost, readerVars, md,
                   present, persisted>>

\* ... then the device, and submits the record; a full buffer loses it.
EventSubmitted(p) ==
    /\ raising[p] # NoEvent
    /\ IF Len(buffer) < BufferSize
       THEN buffer' = Append(buffer, raising[p]) /\ UNCHANGED lost
       ELSE lost' = lost \cup {raising[p].ev} /\ UNCHANGED buffer
    /\ raising' = [raising EXCEPT ![p] = NoEvent]
    /\ UNCHANGED <<workerVars, diskVars, generation, sessionVars, raised, subject, readerVars,
                   md, present, persisted>>

-----------------------------------------------------------------------------
(* The reader: runBPFSession and handleKernelEvent.                        *)

ReadEvent ==
    /\ session = "open" /\ reader = "read" /\ buffer # <<>>
    /\ event' = Head(buffer) /\ buffer' = Tail(buffer)
    /\ reader' = "name"
    /\ UNCHANGED <<workerVars, diskVars, generation, sessionVars, raising, raised, subject,
                   lost, found, stale, md, present, persisted>>

\* resolveBlockDevice: the device number leads to a disk's name, or nowhere.
ResolveName ==
    /\ reader = "name"
    /\ IF present[event.dev] = NoInstance
       THEN found' = NoTarget /\ reader' = "check"
       ELSE /\ found' = Unresolved(present[event.dev], event.dev)
            /\ reader' = "identity"
    /\ UNCHANGED <<workerVars, diskVars, generation, sessionVars, eventVars, event, stale, md,
                   present, persisted>>

\* resolveBlockName: the name leads to a command target with its identity, or
\* to none (several leaves, an unsupported driver, a path that vanished).
Identified(f) == {f} \cup {[f EXCEPT !.identity = i, !.reason = FALSE] :
                             i \in {present[f.target]} \ {NoInstance}}

ResolveIdentity ==
    /\ reader = "identity"
    /\ found' \in Identified(found)
    /\ reader' = "check"
    /\ UNCHANGED <<workerVars, diskVars, generation, sessionVars, eventVars, event, stale, md,
                   present, persisted>>

\* ioHealthKernelEventCurrent, after the resolution.  A failed read of the map
\* counts as stale.
CheckGeneration ==
    /\ reader = "check"
    /\ stale' \in {event.gen # generation, TRUE}
    /\ reader' = "submit"
    /\ UNCHANGED <<workerVars, diskVars, generation, sessionVars, eventVars, event, found, md,
                   present, persisted>>

\* collectEvidenceOrPersist, with a worker: what it refuses is stored at once.
SubmitOrPersist(ev, f) ==
    LET request == [ev |-> ev, label |-> f.label, target |-> f.target,
                    identity |-> f.identity, reason |-> f.reason]
    IN \/ /\ Accepts(request)
          /\ Enqueue(request)
          /\ UNCHANGED persisted
       \/ /\ ~Accepts(request)
          /\ Refuse
          /\ Persist(ev, f.label, NoInstance)

\* The end of handleKernelEvent: a stale event is stored as unknown.
HandleEvent ==
    /\ reader = "submit"
    /\ IF stale THEN Persist(event.ev, NoInstance, NoInstance) /\ UNCHANGED requestVars
       ELSE SubmitOrPersist(event.ev, found)
    /\ reader' = "read" /\ event' = NoEvent /\ found' = NoTarget /\ stale' = FALSE
    /\ UNCHANGED <<loopVars, now, cancelled, lastCollected, diskVars, generation, sessionVars,
                   eventVars, md, present>>

-----------------------------------------------------------------------------
(* handleMDChange, for a member that became faulty.                        *)

\* The watcher observed the member's disk when the array was scanned, or could
\* not bind its identity.
MDFault(d) ==
    /\ md = MDIdle /\ instance[d] # NoInstance
    /\ NewEvent(d)
    /\ \E m \in {instance[d], NoInstance} :
          md' = [at |-> "resolve", ev |-> raised + 1, dev |-> d, member |-> m,
                 found |-> Unresolved(instance[d], d)]
    /\ UNCHANGED <<workerVars, diskVars, generation, sessionVars, raising, buffer, lost,
                   readerVars, present, persisted>>

MDResolve ==
    /\ md.at = "resolve"
    /\ \E f \in Identified(md.found) : md' = [md EXCEPT !.at = "check", !.found = f]
    /\ UNCHANGED <<workerVars, diskVars, generation, sessionVars, eventVars, readerVars,
                   present, persisted>>

\* The member's name still leads to the disk that the watcher saw.
MemberCurrent == md.member # NoInstance /\ present[md.dev] = md.member

MDSubmit ==
    /\ md.at = "check"
    /\ IF MemberCurrent THEN SubmitOrPersist(md.ev, md.found)
       ELSE Persist(md.ev, md.found.label, NoInstance) /\ UNCHANGED requestVars
    /\ md' = MDIdle
    /\ UNCHANGED <<loopVars, now, cancelled, lastCollected, diskVars, generation, sessionVars,
                   eventVars, readerVars, present>>

-----------------------------------------------------------------------------

ReaderStep == ReadEvent \/ ResolveName \/ ResolveIdentity \/ CheckGeneration \/ HandleEvent
MDStep == MDResolve \/ MDSubmit
rest == <<diskVars, generation, sessionVars, eventVars, readerVars, md>>

Next ==
    \/ BeginSession \/ AttachNext \/ EndSession
    \/ \E d \in Devs : \/ DiskVisible(d) \/ DiskRemoving(d) \/ DiskGone(d) \/ MDFault(d)
                       \/ \E i \in Instances : DiskAnnounced(d, i)
                       \/ \E p \in Probes : EventBegins(p, d)
    \/ \E p \in Probes : EventSubmitted(p)
    \/ ReaderStep \/ MDStep
    \/ WorkerSteps /\ UNCHANGED rest

Spec == Init /\ [][Next]_vars

-----------------------------------------------------------------------------
(* Properties.                                                             *)

\* A stored record names, and carries evidence of, no other disk than the one
\* the event was raised for, however often the device number was reused while
\* the event was buffered, resolved, queued or its command was running.
RecordIsAboutItsDisk ==
    \A e \in Events : \A n \in 1..Len(persisted[e]) :
       /\ persisted[e][n].label \in {NoInstance, subject[e]}
       /\ persisted[e][n].evidence \in {NoInstance, subject[e]}

\* Where an event can be: with its probe, in the buffer, with the reader or the
\* MD handler, queued, with the worker until it is delivered, lost, or stored.
Holding(e) ==
    Cardinality({p \in Probes : raising[p].ev = e})
    + Cardinality({n \in 1..Len(buffer) : buffer[n].ev = e})
    + Cardinality({n \in 1..Len(queue) : queue[n].ev = e})
    + Cardinality({x \in {event, md} : x.ev = e})
    + (IF job.ev = e /\ loop # "delivered" THEN 1 ELSE 0)
    + (IF e \in lost THEN 1 ELSE 0) + Len(persisted[e])

\* Every event that was raised is in exactly one place: none is dropped without
\* being counted as lost, and none is stored twice, by its handler and by the
\* worker or by a worker that drains its queue after a cancellation.  A worker
\* that has left holds nothing, and one that waits with work queued has been
\* woken.
EachEventInOnePlace ==
    /\ \A e \in 1..raised : Holding(e) = 1
    /\ loop = "exited" => queue = <<>>
    /\ loop = "wait" /\ queue # <<>> => wake

\* The cooldown table cannot outgrow its capacity: every accepted request has
\* room for its cooldown when it finishes, also when another target's cooldown
\* expires or a new generation of a cooling target is admitted meanwhile.
CooldownTableBounded ==
    Cardinality(Cooling(cooldown) \cup {k[1] : k \in inflight}) <= TableCapacity

\* A verified device generation is not queried again before its cooldown is
\* over, whatever unresolved or outdated requests for the same name finish in
\* between.
QuietPeriodKept ==
    loop = "command" /\ lastCollected[RequestKey(job)] # -1
       => now >= lastCollected[RequestKey(job)] + Cooldown
=============================================================================
