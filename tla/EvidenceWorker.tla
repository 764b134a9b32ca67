---------------------------- MODULE EvidenceWorker ----------------------------
(***************************************************************************)
(* The serial queue that runs the external health commands                 *)
(* (internal/iohealth/evidence_worker.go and collectEvidence of            *)
(* command_providers.go).  Submit is called by the reader of kernel events *)
(* and by the MD watcher; one goroutine takes requests, validates the      *)
(* device identity, runs the command, validates again, and delivers the    *)
(* result.                                                                 *)
(*                                                                         *)
(* The module IoHealth extends this one with the sources of the requests.  *)
(***************************************************************************)
EXTENDS Integers, Sequences, FiniteSets

CONSTANTS
    Targets,        \* command device names, and "unknown"
    Instances,      \* generations of devices; each is attached once
    QueueCapacity,  \* the worker's queueCapacity
    TableCapacity,  \* evidenceQueueCapacity as the bound of the cooldown table
    Cooldown,       \* evidenceCooldown, in ticks
    MaxTime,        \* bound on the clock
    MaxEvents       \* bound on the number of events

NoInstance == 0     \* an empty Identity, or a device path that leads nowhere
Events == 1..MaxEvents

ASSUME WorkerConstants ==
    /\ Instances \subseteq Nat \ {0}
    /\ QueueCapacity \in Nat \ {0} /\ TableCapacity \in Nat \ {0}
    /\ Cooldown \in Nat \ {0} /\ MaxTime \in Nat /\ MaxEvents \in Nat

VARIABLES
    present,    \* the instance every device path leads to, or NoInstance
    now,        \* the clock
    cancelled,  \* the context of the collector is done
    queue,      \* accepted requests: [ev, label, target, identity, reason]
    inflight,   \* keys <<target, identity>> of accepted, unfinished requests
    cooldown,   \* per target: [on, identity, until]
    wake,       \* the wake channel holds a token
    loop,       \* where the goroutine is
    job,        \* the request it has taken
    result,     \* the result it is building: [evidence, apply]
    persisted,  \* per event: the sequence of stored records [label, evidence]
    lastCollected  \* per key: when its last collection finished, or -1

requestVars == <<queue, inflight, cooldown, wake>>
loopVars == <<loop, job, result>>
workerVars == <<requestVars, loopVars, now, cancelled, lastCollected>>

RequestKey(r) == <<r.target, r.identity>>
RequestKeys == Targets \X (Instances \cup {NoInstance})
NoJob == [ev |-> 0, label |-> NoInstance, target |-> "unknown", identity |-> NoInstance, reason |-> FALSE]
NoCooldown == [on |-> FALSE, identity |-> NoInstance, until |-> 0]
NoResult == [evidence |-> NoInstance, apply |-> FALSE]

Cooling(table) == {t \in Targets : table[t].on}

WorkerInit ==
    /\ now = 0 /\ cancelled = FALSE
    /\ queue = <<>> /\ inflight = {} /\ wake = FALSE
    /\ cooldown = [t \in Targets |-> NoCooldown]
    /\ loop = "scan" /\ job = NoJob /\ result = NoResult
    /\ lastCollected = [k \in RequestKeys |-> -1]

-----------------------------------------------------------------------------
(* Submit.                                                                 *)

\* Expired cooldowns are reclaimed by every Submit that is not refused at once.
Unexpired == [t \in Targets |-> IF cooldown[t].on /\ now >= cooldown[t].until
                                THEN NoCooldown ELSE cooldown[t]]

\* Mutant of Reserves: the table is only checked for what it holds already.
ReservesNothing(table, t) == table[t].on \/ Cardinality(Cooling(table)) < TableCapacity

\* Accepted work reserves room for its eventual cooldown.
Reserves(table, t) ==
    table[t].on \/ Cardinality(Cooling(table)) + Cardinality(inflight) < TableCapacity

QueueHasRoom == Len(queue) < QueueCapacity

\* The conditions of Submit, in the order of the code.
Accepts(r) ==
    /\ ~cancelled /\ loop # "exited"
    /\ RequestKey(r) \notin inflight
    /\ ~(Unexpired[r.target].on /\ Unexpired[r.target].identity = r.identity)
    /\ QueueHasRoom
    /\ Reserves(Unexpired, r.target)

Enqueue(r) ==
    /\ inflight' = inflight \cup {RequestKey(r)}
    /\ queue' = Append(queue, r)
    /\ wake' = TRUE
    /\ cooldown' = Unexpired

Refuse == /\ cooldown' = IF cancelled \/ loop = "exited" THEN cooldown ELSE Unexpired
          /\ UNCHANGED <<queue, inflight, wake>>

-----------------------------------------------------------------------------
(* The goroutine.                                                          *)

\* persistEvent: the record names the disk whose name was resolved.
Persist(ev, label, evidence) ==
    persisted' = [persisted EXCEPT ![ev] = Append(@, [label |-> label, evidence |-> evidence])]

\* take.
Take ==
    /\ loop = "scan"
    /\ IF queue = <<>>
       THEN loop' = "wait" /\ UNCHANGED <<queue, job>>
       ELSE loop' = "taken" /\ job' = Head(queue) /\ queue' = Tail(queue)
    /\ UNCHANGED <<present, now, cancelled, inflight, cooldown, wake, result, persisted,
                   lastCollected>>

\* Mutant of Wakes: a cancelled worker leaves at once.
WakesOrLeaves ==
    \/ wake /\ ~cancelled /\ wake' = FALSE /\ loop' = "scan"
    \/ cancelled /\ loop' = "exited" /\ UNCHANGED wake

\* The select of the loop.  After a cancellation it leaves when nothing is
\* queued; what was accepted is still served.
Wakes ==
    \/ wake /\ wake' = FALSE /\ loop' = "scan"
    \/ cancelled /\ loop' = (IF queue = <<>> THEN "exited" ELSE "scan") /\ UNCHANGED wake

AwaitWork ==
    /\ loop = "wait"
    /\ Wakes
    /\ UNCHANGED <<present, now, cancelled, queue, inflight, cooldown, job, result, persisted,
                   lastCollected>>

\* ValidateIdentity: the target still resolves to the identity of the request.
Validates(r) == r.identity # NoInstance => present[r.target] = r.identity

\* collectEvidence up to the command.
BeginCollection ==
    /\ loop = "taken"
    /\ IF job.reason
       THEN loop' = "collected" /\ result' = [evidence |-> NoInstance, apply |-> TRUE]
       ELSE IF ~Validates(job)
       THEN loop' = "collected" /\ result' = [evidence |-> NoInstance, apply |-> FALSE]
       ELSE loop' = "command" /\ UNCHANGED result
    /\ UNCHANGED <<present, now, cancelled, requestVars, job, persisted, lastCollected>>

\* The command reads whatever device the path leads to; it can fail, and does
\* when the context is done.
RunCommand ==
    /\ loop = "command"
    /\ \E seen \in {present[job.target], NoInstance} :
          /\ cancelled => seen = NoInstance
          /\ result' = [evidence |-> seen, apply |-> TRUE]
    /\ loop' = "validate"
    /\ UNCHANGED <<present, now, cancelled, requestVars, job, persisted, lastCollected>>

\* The evidence of a target that changed meanwhile is dropped.
Revalidated == IF Validates(job) THEN result ELSE NoResult

Revalidate ==
    /\ loop = "validate"
    /\ result' = Revalidated
    /\ loop' = "collected"
    /\ UNCHANGED <<present, now, cancelled, requestVars, job, persisted, lastCollected>>

\* onResult stores the event with its evidence.
Deliver ==
    /\ loop = "collected"
    /\ Persist(job.ev, job.label, result.evidence)
    /\ loop' = "delivered"
    /\ UNCHANGED <<present, now, cancelled, requestVars, job, result, lastCollected>>

\* Mutant of Displaces: an unresolved request replaces a live cooldown.
DisplacesAlways(r) == TRUE

\* An unresolved request does not displace an active, verified generation.
Displaces(r) ==
    r.identity # NoInstance \/ ~cooldown[r.target].on \/ now >= cooldown[r.target].until

\* finish.
Finish ==
    /\ loop = "delivered"
    /\ inflight' = inflight \ {RequestKey(job)}
    /\ cooldown' = IF result.apply /\ Displaces(job)
                   THEN [cooldown EXCEPT ![job.target] =
                           [on |-> TRUE, identity |-> job.identity, until |-> now + Cooldown]]
                   ELSE cooldown
    /\ lastCollected' = IF result.apply THEN [lastCollected EXCEPT ![RequestKey(job)] = now]
                        ELSE lastCollected
    /\ loop' = "scan" /\ job' = NoJob /\ result' = NoResult
    /\ UNCHANGED <<present, now, cancelled, queue, wake, persisted>>

Tick ==
    /\ now < MaxTime /\ now' = now + 1
    /\ UNCHANGED <<present, cancelled, requestVars, loopVars, persisted, lastCollected>>

Cancel ==
    /\ ~cancelled /\ cancelled' = TRUE
    /\ UNCHANGED <<present, now, requestVars, loopVars, persisted, lastCollected>>

LoopStep == Take \/ AwaitWork \/ BeginCollection \/ RunCommand \/ Revalidate \/ Deliver \/ Finish
WorkerSteps == LoopStep \/ Tick \/ Cancel
=============================================================================
