------------------------------- MODULE DiskFreeze -------------------------------
(***************************************************************************)
(* The freeze counters of bpf/io_health.c (io_health_freeze_counts): one   *)
(* row per device number, zeroed when a disk is registered, deleted when   *)
(* it is removed, added to by every queue freeze, and read by freezeMetrics*)
(* of core/metrics/io_health.go, which also reclaims rows whose disk is    *)
(* gone.                                                                   *)
(*                                                                         *)
(* A hash update or delete replaces the element that a running probe may   *)
(* hold; its addition then goes to the dead element.  Every row therefore  *)
(* has an element number.                                                  *)
(***************************************************************************)
EXTENDS Integers, FiniteSets

CONSTANTS Devs, CPUs, MaxInstance, MaxFreezes

VARIABLES
    stage,      \* per device: "absent", "published", "registered", "removing"
    inst,       \* per device: the number of the current or last disk
    rows,       \* per device: [elem, count], elem 0 when there is no row
    elems,      \* number of elements ever inserted
    probe,      \* per CPU: [at, dev, elem] of the running freeze probe
    freezes,    \* per device: freezes of the current disk
    since,      \* per device: those that began after its registration
    clobbered,  \* per device: a scrape deleted the row of the current disk
    scrape      \* Update: [at, dev, row]; it handles one dumped row at a time
ghosts == <<freezes, since, clobbered>>
freezeVars == <<stage, inst, rows, elems, probe, ghosts, scrape>>

NoRow == [elem |-> 0, count |-> 0]
NoProbe(d) == [at |-> "idle", dev |-> d, elem |-> 0]
AnyDev == CHOOSE d \in Devs : TRUE

FreezeInit ==
    /\ stage = [d \in Devs |-> "absent"] /\ inst = [d \in Devs |-> 0]
    /\ rows = [d \in Devs |-> NoRow] /\ elems = 0
    /\ probe = [c \in CPUs |-> NoProbe(AnyDev)]
    /\ freezes = [d \in Devs |-> 0] /\ since = freezes
    /\ clobbered = [d \in Devs |-> FALSE]
    /\ scrape = [at |-> "idle", dev |-> AnyDev]

-----------------------------------------------------------------------------
(* The life of a disk.                                                     *)

\* device_add: sysfs shows the disk before its queue is registered.
Publish(d) ==
    /\ stage[d] = "absent" /\ inst[d] < MaxInstance
    /\ stage' = [stage EXCEPT ![d] = "published"]
    /\ inst' = [inst EXCEPT ![d] = @ + 1]
    /\ freezes' = [freezes EXCEPT ![d] = 0] /\ since' = [since EXCEPT ![d] = 0]
    /\ clobbered' = [clobbered EXCEPT ![d] = FALSE]
    /\ UNCHANGED <<rows, elems, probe, scrape>>

\* Mutant of ZeroedRow: a row that is there already is kept.
KeptRow(d) == IF rows[d].elem # 0 THEN rows[d] ELSE [elem |-> elems + 1, count |-> 0]

\* bpf_map_update_elem with BPF_ANY.
ZeroedRow(d) == [elem |-> elems + 1, count |-> 0]

\* io_health_freeze_disk_added.
Register(d) ==
    /\ stage[d] = "published"
    /\ stage' = [stage EXCEPT ![d] = "registered"]
    /\ rows' = [rows EXCEPT ![d] = ZeroedRow(d)]
    /\ elems' = elems + 1
    /\ since' = [since EXCEPT ![d] = 0]
    /\ UNCHANGED <<inst, probe, freezes, clobbered, scrape>>

\* io_health_freeze_disk_removed; queue callbacks may still freeze the disk.
Remove(d) ==
    /\ stage[d] = "registered"
    /\ stage' = [stage EXCEPT ![d] = "removing"]
    /\ rows' = [rows EXCEPT ![d] = NoRow]
    /\ UNCHANGED <<inst, elems, probe, ghosts, scrape>>

Gone(d) ==
    /\ stage[d] = "removing"
    /\ \A c \in CPUs : probe[c].at # "idle" => probe[c].dev # d
    /\ stage' = [stage EXCEPT ![d] = "absent"]
    /\ UNCHANGED <<inst, rows, elems, probe, ghosts, scrape>>

-----------------------------------------------------------------------------
(* io_health_freeze_queue.                                                 *)

FreezeBegins(c, d) ==
    /\ probe[c].at = "idle" /\ stage[d] # "absent" /\ freezes[d] < MaxFreezes
    /\ freezes' = [freezes EXCEPT ![d] = @ + 1] /\ since' = [since EXCEPT ![d] = @ + 1]
    /\ probe' = [probe EXCEPT ![c] = [at |-> IF rows[d].elem = 0 THEN "insert" ELSE "add",
                                      dev |-> d, elem |-> rows[d].elem]]
    /\ UNCHANGED <<stage, inst, rows, elems, clobbered, scrape>>

\* BPF_NOEXIST.
MayInsert(d) == rows[d].elem = 0

FreezeInserts(c) ==
    LET d == probe[c].dev
    IN /\ probe[c].at = "insert"
       /\ IF MayInsert(d)
          THEN /\ rows' = [rows EXCEPT ![d] = [elem |-> elems + 1, count |-> 1]]
               /\ elems' = elems + 1
               /\ probe' = [probe EXCEPT ![c] = NoProbe(AnyDev)]
          ELSE /\ probe' = [probe EXCEPT ![c].at = "relookup"]
               /\ UNCHANGED <<rows, elems>>
       /\ UNCHANGED <<stage, inst, ghosts, scrape>>

FreezeLooksAgain(c) ==
    LET row == rows[probe[c].dev]
    IN /\ probe[c].at = "relookup"
       /\ probe' = [probe EXCEPT ![c] = IF row.elem = 0 THEN NoProbe(AnyDev)
                                        ELSE [@ EXCEPT !.at = "add", !.elem = row.elem]]
       /\ UNCHANGED <<stage, inst, rows, elems, ghosts, scrape>>

\* The addition is atomic, and lost with an element that was replaced.
FreezeAdds(c) ==
    LET d == probe[c].dev
    IN /\ probe[c].at = "add"
       /\ rows' = [rows EXCEPT ![d].count = IF rows[d].elem = probe[c].elem THEN @ + 1 ELSE @]
       /\ probe' = [probe EXCEPT ![c] = NoProbe(AnyDev)]
       /\ UNCHANGED <<stage, inst, elems, ghosts, scrape>>

-----------------------------------------------------------------------------
(* freezeMetrics: for a dumped row, look for the disk, then delete the row *)
(* when there is none.                                                     *)

ScrapeRow(d) ==
    /\ scrape.at = "idle" /\ rows[d].elem # 0
    /\ scrape' = [at |-> "resolve", dev |-> d]
    /\ UNCHANGED <<stage, inst, rows, elems, probe, ghosts>>

\* EvalSymlinks fails with ErrNotExist.
Vanished(d) == stage[d] = "absent"

ScrapeResolves ==
    /\ scrape.at = "resolve"
    /\ scrape' = [scrape EXCEPT !.at = IF Vanished(scrape.dev) THEN "delete" ELSE "idle"]
    /\ UNCHANGED <<stage, inst, rows, elems, probe, ghosts>>

ScrapeDeletes ==
    /\ scrape.at = "delete"
    /\ rows' = [rows EXCEPT ![scrape.dev] = NoRow]
    /\ scrape' = [scrape EXCEPT !.at = "idle"]
    /\ clobbered' = [clobbered EXCEPT ![scrape.dev] = stage[scrape.dev] # "absent"]
    /\ UNCHANGED <<stage, inst, elems, probe, freezes, since>>

-----------------------------------------------------------------------------

FreezeNext ==
    \/ \E d \in Devs : \/ Publish(d) \/ Register(d) \/ Remove(d) \/ Gone(d) \/ ScrapeRow(d)
                       \/ \E c \in CPUs : FreezeBegins(c, d)
    \/ \E c \in CPUs : FreezeInserts(c) \/ FreezeLooksAgain(c) \/ FreezeAdds(c)
    \/ ScrapeResolves \/ ScrapeDeletes

FreezeSpec == FreezeInit /\ [][FreezeNext]_freezeVars

\* The counter of a registered disk is exact up to what the code gives away.  It
\* is never charged for a freeze of the disk that had its device number before,
\* nor twice for one of its own, whatever late freezes of the old disk recreated
\* its row.  It loses none of the freezes that began after it was registered,
\* except to a scrape that found the old disk gone and deletes the row of its
\* replacement ("transition samples may be discarded").
FreezesExact ==
    \A d \in Devs : stage[d] = "registered" =>
       /\ rows[d].count <= freezes[d]
       /\ ~clobbered[d] =>
             rows[d].count + Cardinality({c \in CPUs : probe[c].at # "idle" /\ probe[c].dev = d})
                >= since[d]
=============================================================================
