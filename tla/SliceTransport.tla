--------------------------- MODULE SliceTransport ---------------------------
(***************************************************************************)
(* The way of sampled slices from the hooks of the sched-blame tracer      *)
(* (bpf/sched_blame.c) to its attribution in user space                    *)
(* (core/autotracing/sched_blame.go), and the teardown.                    *)
(*                                                                         *)
(* Every CPU collects slices in a batch that is written to its perf ring   *)
(* when it is full or aged.  A pump goroutine reads the rings, in no order *)
(* among CPUs, and passes the records on over a bounded channel; the       *)
(* runner drains it, attributes the slices and evaluates.  A record of its *)
(* own announces which task group a CSS id stands for.                     *)
(*                                                                         *)
(* Slices are told apart by tokens, which are used again once the slice is *)
(* accounted for, so that behaviours are infinite.  A hook is one step: it *)
(* runs without preemption, and a CSS id is not reused while it runs.      *)
(***************************************************************************)
EXTENDS Integers, Sequences, FiniteSets, SequencesExt, FiniteSetsExt

CONSTANTS
    CPUs,
    CssIds,
    MaxGen,      \* bound on the task groups that use a CSS id one after the other
    Tokens,      \* bound on the slices under way
    BatchSize,   \* __SLICE_BATCH_SIZE__
    RingCap,     \* records in a perf ring
    QueueCap     \* capacity of the records channel

ASSUME Sizes ==
    /\ MaxGen \in Nat \ {0} /\ BatchSize \in Nat \ {0}
    /\ RingCap \in Nat \ {0} /\ QueueCap \in Nat \ {0}

VARIABLES
    gen,        \* the task group that a CSS id stands for
    running,    \* CSS id of the task that runs on a CPU; Idle if none
    attached,   \* the programs are attached
    batch,      \* slice_batches_percpu
    observed,   \* observed_identity: 0 is none
    ring,       \* perf rings
    pump,       \* "read", "send" or "done"
    hand,       \* the record that the pump has read and not yet sent
    queue,      \* reader.records
    ended,      \* what makes the reader end: "no", "flushed", "closed", "failed"
    known,      \* state.cssCgids: 0 is not known
    runner,     \* phase of the runner, and the rest of a periodic drain
    stop,       \* the context is cancelled
    invalid,    \* attributionInvalid
    clean,      \* detached, flushed and attribution valid so far
    inFlight,   \* tokens sampled and not accounted for
    crossed     \* CSS ids with identity records under way on two rings at once

kernelVars == <<gen, running, attached>>
bpfVars == <<batch, observed, ring>>
readerVars == <<pump, hand, queue, ended>>
runnerVars == <<runner, stop, invalid, clean, known>>
vars == <<kernelVars, bpfVars, readerVars, runnerVars, inFlight, crossed>>

Idle == 0
NoRecord == [kind |-> "none", slices |-> <<>>, css |-> 0, gen |-> 0]
BatchRecord(slices) == [NoRecord EXCEPT !.kind = "batch", !.slices = slices]
IdentityRecord(css, g) == [NoRecord EXCEPT !.kind = "id", !.css = css, !.gen = g]

Init ==
    /\ gen = [i \in CssIds |-> 1] /\ running = [c \in CPUs |-> Idle] /\ attached = TRUE
    /\ batch = [c \in CPUs |-> <<>>] /\ observed = [i \in CssIds |-> 0]
    /\ ring = [c \in CPUs |-> <<>>]
    /\ pump = "read" /\ hand = NoRecord /\ queue = <<>> /\ ended = "no"
    /\ known = [i \in CssIds |-> 0]
    /\ runner = [phase |-> "idle", quota |-> 0, then |-> "eval"]
    /\ stop = FALSE /\ invalid = FALSE /\ clean = TRUE
    /\ inFlight = {} /\ crossed = {}

TokensOf(slices) == {slices[k].token : k \in DOMAIN slices}

-----------------------------------------------------------------------------
(* The switch hook.  A handler's view of its CPU: the batch, the ring, and *)
(* the tokens whose submission failed.                                     *)

\* bpf_perf_event_output: a full ring, or none, refuses the record.
HasRoom(r) == Len(r) < RingCap /\ ended # "closed"

\* Mutant of Emitted: a batch that could not be written is kept.
EmittedKept(v) ==
    IF v.batch = <<>> THEN v
    ELSE IF HasRoom(v.ring)
         THEN [v EXCEPT !.batch = <<>>, !.ring = Append(@, BatchRecord(v.batch))]
         ELSE [v EXCEPT !.failed = @ \cup TokensOf(v.batch)]

\* emit_slice_batch: the batch is empty afterwards, written or not.
Emitted(v) ==
    IF v.batch = <<>> THEN v
    ELSE IF HasRoom(v.ring)
         THEN [v EXCEPT !.batch = <<>>, !.ring = Append(@, BatchRecord(v.batch))]
         ELSE [v EXCEPT !.batch = <<>>, !.failed = @ \cup TokensOf(v.batch)]

\* The identity is remembered as announced only once it is written.
Announces(v, i) == HasRoom(v.ring)

\* maybe_emit_identity
Announced(v, i) ==
    IF i = Idle \/ v.observed[i] = gen[i] THEN v
    ELSE [v EXCEPT !.ring = IF HasRoom(v.ring) THEN Append(@, IdentityRecord(i, gen[i])) ELSE @,
                   !.observed[i] = IF Announces(v, i) THEN gen[i] ELSE @]

Full(b) == Len(b) >= BatchSize

\* append_sampled_slice
Appended(v, slice) ==
    LET w == [v EXCEPT !.batch = Append(@, slice)]
    IN IF Full(w.batch) THEN Emitted(w) ELSE w

UnderWay(i) == {c \in CPUs : \E k \in DOMAIN ring[c] : ring[c][k].kind = "id" /\ ring[c][k].css = i}

\* on_sched_switch: write out an aged batch, announce both groups, sample the
\* slice of the task that has run.
Switch(c) ==
    /\ attached
    /\ \E next \in CssIds \cup {Idle}, aged, keep \in BOOLEAN :
         LET prev == running[c]
             v0 == [batch |-> batch[c], ring |-> ring[c], observed |-> observed, failed |-> {}]
             v1 == IF aged THEN Emitted(v0) ELSE v0
             v2 == Announced(Announced(v1, prev), next)
         IN /\ <<prev, next>> # <<Idle, Idle>>
            /\ aged => batch[c] # <<>>
            /\ keep => prev # Idle
            /\ running' = [running EXCEPT ![c] = next]
            /\ \E t \in IF keep THEN Tokens \ inFlight ELSE {0} :
                 LET v3 == IF keep THEN Appended(v2, [token |-> t, css |-> prev]) ELSE v2
                 IN /\ batch' = [batch EXCEPT ![c] = v3.batch]
                    /\ ring' = [ring EXCEPT ![c] = v3.ring]
                    /\ observed' = v3.observed
                    /\ inFlight' = (inFlight \cup (IF keep THEN {t} ELSE {})) \ v3.failed
                    /\ crossed' = crossed \cup {i \in CssIds :
                          v3.observed[i] # observed[i] /\ UnderWay(i) \ {c} # {}}
    /\ UNCHANGED <<gen, attached, readerVars, runnerVars>>

\* A task group that has no running task is released; another takes its CSS id.
CssReused(i) ==
    /\ gen[i] < MaxGen /\ \A c \in CPUs : running[c] # i
    /\ gen' = [gen EXCEPT ![i] = @ + 1]
    /\ UNCHANGED <<running, attached, bpfVars, readerVars, runnerVars, inFlight, crossed>>

-----------------------------------------------------------------------------
(* The pump.                                                               *)

\* ReadRawInto returns a record of any ring.
PumpRead ==
    /\ pump = "read" /\ ended \in {"no", "flushed"}
    /\ \E c \in CPUs :
         /\ ring[c] # <<>>
         /\ hand' = Head(ring[c])
         /\ ring' = [ring EXCEPT ![c] = Tail(@)]
    /\ pump' = "send"
    /\ UNCHANGED <<kernelVars, batch, observed, queue, ended, runnerVars, inFlight, crossed>>

\* ErrPerfEventReaderFlushed comes when no record is pending; a closed or
\* failed reader returns at once.
PumpEnds ==
    /\ pump = "read"
    /\ ended \in {"closed", "failed"} \/ (ended = "flushed" /\ \A c \in CPUs : ring[c] = <<>>)
    /\ pump' = "done"
    /\ UNCHANGED <<kernelVars, bpfVars, hand, queue, ended, runnerVars, inFlight, crossed>>

PumpSend ==
    /\ pump = "send" /\ Len(queue) < QueueCap
    /\ queue' = Append(queue, hand)
    /\ hand' = NoRecord /\ pump' = "read"
    /\ UNCHANGED <<kernelVars, bpfVars, ended, runnerVars, inFlight, crossed>>

\* The context of the pump is cancelled while it waits for the channel.
PumpGivesUp ==
    /\ pump = "send" /\ ended = "closed"
    /\ hand' = NoRecord /\ pump' = "done"
    /\ inFlight' = inFlight \ TokensOf(hand.slices)
    /\ UNCHANGED <<kernelVars, bpfVars, queue, ended, runnerVars, crossed>>

\* Reading or decoding fails.
ReaderFails ==
    /\ pump = "read" /\ ended = "no"
    /\ ended' = "failed" /\ clean' = FALSE
    /\ UNCHANGED <<kernelVars, bpfVars, pump, hand, queue, runner, stop, invalid, known,
                   inFlight, crossed>>

-----------------------------------------------------------------------------
(* The runner.                                                             *)

\* handleRecord; records are discarded once the attribution is invalid.
Handle(record) ==
    /\ known' = IF record.kind = "id" /\ ~invalid
                THEN [known EXCEPT ![record.css] = record.gen] ELSE known
    /\ inFlight' = inFlight \ TokensOf(record.slices)

TakeRecord ==
    /\ queue # <<>> /\ Handle(Head(queue)) /\ queue' = Tail(queue)

Goes(phase) == runner' = [runner EXCEPT !.phase = phase]

\* Mutant of Remaining: a drain goes on while there are records.
RemainingSame(quota) == quota

\* Drain takes as many records as are queued when it begins.
Remaining(quota) == quota - 1

\* run: the ticker or a container event.  Publishing targets may fail.
Tick ==
    /\ runner.phase = "idle"
    /\ \/ /\ runner' = [phase |-> "drain", quota |-> Len(queue), then |-> "eval"]
          /\ UNCHANGED <<invalid, clean>>
       \/ /\ Goes("detach") /\ invalid' = TRUE /\ clean' = FALSE
    /\ UNCHANGED <<kernelVars, bpfVars, readerVars, stop, known, inFlight, crossed>>

\* run: the pump has ended by itself.
ReaderDone ==
    /\ runner.phase = "idle" /\ pump = "done"
    /\ runner' = [phase |-> "drain", quota |-> Len(queue), then |-> "detach"]
    /\ UNCHANGED <<kernelVars, bpfVars, readerVars, stop, invalid, clean, known, inFlight, crossed>>

DrainRecord ==
    /\ runner.phase = "drain" /\ runner.quota # 0
    /\ TakeRecord
    /\ runner' = [runner EXCEPT !.quota = Remaining(@)]
    /\ UNCHANGED <<kernelVars, bpfVars, pump, hand, ended, stop, invalid, clean, crossed>>

\* A failed reader ends the run.
DrainEnds ==
    /\ runner.phase = "drain" /\ (runner.quota = 0 \/ queue = <<>>)
    /\ Goes(IF ended = "failed" THEN "detach" ELSE runner.then)
    /\ UNCHANGED <<kernelVars, bpfVars, readerVars, stop, invalid, clean, known, inFlight, crossed>>

\* maybeEvaluate; the debug file may fail.
Evaluate ==
    /\ runner.phase = "eval"
    /\ Goes("idle") \/ Goes("detach")
    /\ UNCHANGED <<kernelVars, bpfVars, readerVars, stop, invalid, clean, known, inFlight, crossed>>

Cancel ==
    /\ ~stop /\ stop' = TRUE
    /\ UNCHANGED <<kernelVars, bpfVars, readerVars, runner, invalid, clean, known, inFlight, crossed>>

StopSeen ==
    /\ runner.phase = "idle" /\ stop /\ Goes("detach")
    /\ UNCHANGED <<kernelVars, bpfVars, readerVars, stop, invalid, clean, known, inFlight, crossed>>

\* finalDrain: without detachment the reader is closed at once.
Detach ==
    /\ runner.phase = "detach"
    /\ \/ /\ attached' = FALSE /\ Goes("flush") /\ UNCHANGED clean
       \/ /\ UNCHANGED attached /\ Goes("cancel") /\ clean' = FALSE
    /\ UNCHANGED <<gen, running, bpfVars, readerVars, stop, invalid, known, inFlight, crossed>>

\* A reader that cannot be flushed is closed.
AfterFlushFailure == "cancel"

Flush ==
    /\ runner.phase = "flush"
    /\ \/ /\ ended' = IF ended = "no" THEN "flushed" ELSE ended
          /\ Goes("final") /\ UNCHANGED clean
       \/ /\ Goes(AfterFlushFailure) /\ clean' = FALSE /\ UNCHANGED ended
    /\ UNCHANGED <<kernelVars, bpfVars, pump, hand, queue, stop, invalid, known, inFlight, crossed>>

\* closeReader before FinalDrain: the rings are gone.
CloseEarly ==
    /\ runner.phase = "cancel"
    /\ ended' = "closed" /\ Goes("final")
    /\ ring' = [c \in CPUs |-> <<>>]
    /\ inFlight' = inFlight \ UNION {TokensOf(ring[c][k].slices) : <<c, k>> \in
                      {p \in CPUs \X (1..RingCap) : p[2] \in DOMAIN ring[p[1]]}}
    /\ UNCHANGED <<kernelVars, batch, observed, pump, hand, queue, stop, invalid, clean, known, crossed>>

\* FinalDrain: records are taken until the pump has ended and none is queued.
PumpOver == pump = "done" /\ queue = <<>>

FinalRecord ==
    /\ runner.phase = "final" /\ TakeRecord
    /\ UNCHANGED <<kernelVars, bpfVars, pump, hand, ended, runner, stop, invalid, clean, crossed>>

FinalEnds ==
    /\ runner.phase = "final" /\ PumpOver
    /\ Goes("tail")
    /\ UNCHANGED <<kernelVars, bpfVars, readerVars, stop, invalid, clean, known, inFlight, crossed>>

\* drainSchedBlameTailBatches, if the programs are detached and the attribution
\* is valid, and the last evaluation.
TailBatches ==
    /\ runner.phase = "tail"
    /\ Goes("over") /\ ended' = "closed"
    /\ IF ~attached /\ ~invalid
       THEN /\ batch' = [c \in CPUs |-> <<>>]
            /\ inFlight' = inFlight \ UNION {TokensOf(batch[c]) : c \in CPUs}
       ELSE UNCHANGED <<batch, inFlight>>
    /\ UNCHANGED <<kernelVars, observed, ring, pump, hand, queue, stop, invalid, clean, known, crossed>>

PumpStep == PumpRead \/ PumpEnds \/ PumpSend \/ PumpGivesUp
RunnerStep == \/ Tick \/ ReaderDone \/ DrainRecord \/ DrainEnds \/ Evaluate \/ StopSeen
              \/ Detach \/ Flush \/ CloseEarly \/ FinalRecord \/ FinalEnds \/ TailBatches

Next ==
    \/ \E c \in CPUs : Switch(c)
    \/ \E i \in CssIds : CssReused(i)
    \/ PumpStep \/ ReaderFails \/ RunnerStep \/ Cancel

\* Goroutines run, and Go's select chooses at random among the ready cases.
Fairness == WF_vars(PumpStep) /\ WF_vars(RunnerStep) /\ SF_vars(StopSeen)

Spec == Init /\ [][Next]_vars /\ Fairness

-----------------------------------------------------------------------------
\* How often a token occurs in batches, rings, the pump and the channel.
Places ==
    FoldSet(LAMBDA c, acc : acc \o batch[c] \o FlattenSeq([k \in DOMAIN ring[c] |-> ring[c][k].slices]),
            <<>>, CPUs)
    \o hand.slices \o FlattenSeq([k \in DOMAIN queue |-> queue[k].slices])

Occurrences(t) == Cardinality({k \in DOMAIN Places : Places[k].token = t})

\* Every slice that was sampled and is not accounted for (attributed, counted
\* as failed, discarded with an invalid attribution or a closed reader) is in
\* exactly one place: none is attributed twice and none vanishes, although
\* batches change hands between hook, ring, pump, channel and the last read of
\* the batches themselves.
EverySliceOnce ==
    \A t \in Tokens : Occurrences(t) = IF t \in inFlight THEN 1 ELSE 0

\* After an orderly teardown (detached, flushed, attribution valid) every
\* sampled slice has been accounted for.
NothingLeft == runner.phase = "over" /\ clean => inFlight = {}

\* A CSS id stands in user space for the group that the hooks announced last,
\* once no announcement is under way; only announcements that were under way on
\* two rings at once may arrive in the wrong order.
IdentityFollows ==
    \A i \in CssIds :
       /\ ended = "no" /\ ~invalid /\ i \notin crossed
       /\ \A c \in CPUs, k \in 1..RingCap : k \in DOMAIN ring[c] => ring[c][k].css # i
       /\ hand.css # i /\ \A k \in DOMAIN queue : queue[k].css # i
       => known[i] = observed[i]

\* Slices and identities reach user space exactly: once, completely, in order.
\* A batch stays within its slots.
TransportExact ==
    /\ EverySliceOnce /\ NothingLeft /\ IdentityFollows
    /\ \A c \in CPUs : Len(batch[c]) < BatchSize

\* The tracer goes on evaluating however many records the hooks produce, and
\* once cancelled it ends, also when it could not be detached or flushed.
RunnerProgress ==
    /\ []<>(runner.phase \in {"eval", "over"})
    /\ stop ~> runner.phase = "over"
=============================================================================
