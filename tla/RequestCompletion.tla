--------------------------- MODULE RequestCompletion ---------------------------
(***************************************************************************)
(* The walks of bpf/iolatency_tracing.c over the bios of a request.        *)
(*                                                                         *)
(* A driver may finish a request in parts.  Every block_rq_complete names  *)
(* a number of bytes, and comes before the kernel takes them off the       *)
(* request; the walk counts the bios that these bytes finish and leaves a  *)
(* bio that is finished in part to a later event.  The size of the request *)
(* is counted at its last completion, from the length at its last issue.   *)
(* Walks are cut into chunks and end after a budget of bios.               *)
(***************************************************************************)
EXTENDS Integers, Sequences

CONSTANTS
    Budget,       \* IO_LATENCY_REQUEST_SCAN_BUDGET
    ChunkBios,    \* IO_LATENCY_REQUEST_CHUNK_BIOS
    SectorMod,    \* stats_sectors wraps at this number of sectors
    MaxBios,      \* bound on the bios of a request
    MaxBytes,     \* bound on the bytes of a bio (a sector is a byte here)
    MaxIssues     \* bound on the number of times a request is issued

ASSUME WalkConstants ==
    /\ Budget \in Nat \ {0} /\ ChunkBios \in Nat \ {0} /\ SectorMod \in Nat \ {0}
    /\ Budget % ChunkBios = 0

VARIABLES
    bios,       \* bytes left of each bio, in the order of the list
    head,       \* index of req->bio: the bios before it are finished
    scsi,       \* the driver is SCSI: parts, and stats_sectors
    stamped,    \* io_start_time_ns was taken at the last issue
    stats,      \* stats_sectors of the last issue
    issued,     \* bytes at the last issue
    issues,     \* number of issues
    remapped,   \* the request was cloned from an upper device
    queueSampled, \* per bio: number of queue samples
    sampled,    \* per bio: number of completion samples
    sizes,      \* the issued sizes that were counted
    overflow    \* IO_LATENCY_CHAIN_OVERFLOW was reported

requestVars == <<bios, head, scsi, stamped, stats, issued, issues, remapped, queueSampled,
                 sampled, sizes, overflow>>

RECURSIVE Total(_, _)
Total(s, i) == IF i > Len(s) THEN 0 ELSE s[i] + Total(s, i + 1)

DataLen == Total(bios, head)
Finished == head > Len(bios)

RequestInit ==
    /\ bios \in UNION {[1..n -> 1..MaxBytes] : n \in 1..MaxBios}
    /\ head = 1 /\ scsi \in BOOLEAN /\ remapped \in BOOLEAN
    /\ stamped = FALSE /\ stats = 0 /\ issued = 0 /\ issues = 0
    /\ queueSampled = [i \in 1..Len(bios) |-> 0] /\ sampled = queueSampled
    /\ sizes = <<>> /\ overflow = FALSE

-----------------------------------------------------------------------------
(* block_rq_remap: queue samples for the bios of a cloned request.         *)

\* queue_remapped_bios: the bios of one chunk, from i on.
RemapChunk(i) == IF i + ChunkBios > Len(bios) + 1 THEN Len(bios) + 1 ELSE i + ChunkBios

RECURSIVE RemapWalk(_, _)
RemapWalk(i, chunks) ==
    IF chunks = 0 \/ i > Len(bios) THEN i ELSE RemapWalk(RemapChunk(i), chunks - 1)

Remap ==
    LET end == RemapWalk(1, Budget \div ChunkBios)
    IN /\ remapped /\ issues = 0 /\ queueSampled[1] = 0
       /\ queueSampled' = [i \in DOMAIN queueSampled |->
                             IF i < end THEN queueSampled[i] + 1 ELSE queueSampled[i]]
       /\ overflow' = (overflow \/ end <= Len(bios))
       /\ UNCHANGED <<bios, head, scsi, stamped, stats, issued, issues, remapped, sampled, sizes>>

\* The request is issued, for the first time or again after a part of it.
\* The kernel takes the time stamp only while the queue keeps statistics.
Issue ==
    /\ ~Finished /\ issues < MaxIssues
    /\ remapped => queueSampled[1] > 0
    /\ stamped' \in BOOLEAN
    /\ stats' = DataLen % SectorMod /\ issued' = DataLen /\ issues' = issues + 1
    /\ UNCHANGED <<bios, head, scsi, remapped, queueSampled, sampled, sizes, overflow>>

-----------------------------------------------------------------------------
(* block_rq_complete.                                                      *)

ChunkCount == (Budget - 1 + ChunkBios - 1) \div ChunkBios

\* The last chunk leaves out what the first bio took of the budget.
Limit(n) ==
    IF n = ChunkCount - 1 THEN Budget - 1 - (ChunkCount - 1) * ChunkBios ELSE ChunkBios

\* Mutant of Unfinished: a bio that is finished in part is counted.
UnfinishedNever(bytes, remaining) == remaining = 0

\* A bio that the completed bytes do not finish ends the walk.
Unfinished(bytes, remaining) == bytes > remaining

\* complete_bio_chunk: the walk ends, or goes on behind the chunk.
RECURSIVE CompleteBioChunk(_, _, _)
CompleteBioChunk(i, remaining, limit) ==
    IF limit = 0 \/ i > Len(bios) THEN [bio |-> i, remaining |-> remaining, more |-> TRUE]
    ELSE IF Unfinished(bios[i], remaining) THEN [bio |-> i, remaining |-> 0, more |-> FALSE]
    ELSE IF bios[i] >= remaining THEN [bio |-> i + 1, remaining |-> 0, more |-> FALSE]
    ELSE CompleteBioChunk(i + 1, remaining - bios[i], limit - 1)

RECURSIVE CompleteWalk(_, _)
CompleteWalk(cursor, n) ==
    IF n = ChunkCount \/ cursor.bio > Len(bios) \/ ~cursor.more THEN cursor
    ELSE CompleteWalk(CompleteBioChunk(cursor.bio, cursor.remaining, Limit(n)), n + 1)

\* The bios from head on that are counted, as the index behind them, and
\* whether the walk ran out of budget.
Walk(bytes) ==
    IF (bytes = DataLen /\ head = Len(bios)) \/ bios[head] = bytes
    THEN [bio |-> head + 1, more |-> FALSE]
    ELSE IF Unfinished(bios[head], bytes) THEN [bio |-> head, more |-> FALSE]
    ELSE CompleteWalk([bio |-> head + 1, remaining |-> bytes - bios[head], more |-> TRUE], 0)

CountsSize(bytes) == bytes >= DataLen /\ stamped

\* No size is counted where stats_sectors wrapped to zero.
IssuedBytes(bytes) == IF ~CountsSize(bytes) THEN 0 ELSE IF scsi THEN stats ELSE bytes

\* blk_update_request: whole bios leave the list, the next one is advanced.
RECURSIVE Advanced(_, _, _)
Advanced(b, i, bytes) ==
    IF bytes = 0 \/ i > Len(b) THEN [bios |-> b, head |-> i]
    ELSE IF b[i] > bytes THEN [bios |-> [b EXCEPT ![i] = @ - bytes], head |-> i]
    ELSE Advanced(b, i + 1, bytes - b[i])

\* NVMe and virtio finish whole requests.
Complete(bytes) ==
    LET walk == Walk(bytes)
        next == Advanced(bios, head, bytes)
    IN /\ ~Finished /\ issues > 0
       /\ bytes \in 1..DataLen /\ (~scsi => bytes = DataLen)
       /\ sampled' = [i \in DOMAIN sampled |->
                        IF i \in head..(walk.bio - 1) THEN sampled[i] + 1 ELSE sampled[i]]
       /\ sizes' = IF IssuedBytes(bytes) # 0 /\ walk.bio > head
                   THEN Append(sizes, IssuedBytes(bytes)) ELSE sizes
       /\ overflow' = (overflow \/ (walk.more /\ walk.bio <= Len(bios)))
       /\ bios' = next.bios /\ head' = next.head
       /\ UNCHANGED <<scsi, stamped, stats, issued, issues, remapped, queueSampled>>

\* Flush sequencing restores the bios for a last completion of no bytes, which
\* trace_request_complete leaves at once.
CompleteFlush ==
    /\ Finished
    /\ UNCHANGED requestVars

RequestNext ==
    \/ Remap \/ Issue \/ CompleteFlush
    \/ \E bytes \in 1..(MaxBios * MaxBytes) : Complete(bytes)

RequestSpec == RequestInit /\ [][RequestNext]_requestVars

-----------------------------------------------------------------------------
(* Properties.                                                             *)

\* A bio gets its completion sample when its last byte completes: never
\* before, never twice over the parts of a request, and always unless the
\* walk overflowed.
SampledWhenFinished ==
    \A i \in DOMAIN bios :
       /\ i >= head => sampled[i] = 0
       /\ i < head => sampled[i] = 1 \/ (overflow /\ sampled[i] = 0)

\* The size of a request is counted once, at its last completion, and is the
\* length of its last issue: parts that completed before do not shrink it.
\* SCSI sizes keep the 16-bit limit of stats_sectors.
SizeCountedOnce ==
    IF Finished /\ stamped /\ (scsi => issued % SectorMod # 0)
    THEN sizes = <<IF scsi THEN issued % SectorMod ELSE issued>>
    ELSE sizes = <<>>

\* The overflow error is reported for a list that is longer than the budget,
\* and a longer list is always reported by the walk that needs all of it.
OverflowIsOverBudget ==
    /\ overflow => Len(bios) > Budget
    /\ Len(bios) > Budget /\ remapped /\ queueSampled[1] > 0 => overflow

\* The completion events of a request, whole or in parts, count each bio and
\* the size of the request exactly, and report what they could not reach.
CompletionExact == SampledWhenFinished /\ SizeCountedOnce /\ OverflowIsOverBudget
=============================================================================
