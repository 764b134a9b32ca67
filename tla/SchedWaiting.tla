---------------------------- MODULE SchedWaiting ----------------------------
(***************************************************************************)
(* The waiting bitmap of the sched-blame tracer (bpf/sched_blame.c) and    *)
(* the publication of its targets (core/autotracing/sched_blame.go).       *)
(*                                                                         *)
(* For every CPU the BPF side keeps a bitmap of the targets (containers)   *)
(* that wait for that CPU while another task runs; the slices it samples   *)
(* carry the bitmap, and user space charges the slice to the targets in    *)
(* it.  Hooks on switches, wakeups, migrations and the end of throttling   *)
(* keep the bitmap up to date.  A task group is classified by a cache that *)
(* is indexed by its CSS id and tagged with the epoch of the publication.  *)
(*                                                                         *)
(* A hook runs with the run queue of the CPU it updates locked, so hooks   *)
(* of one CPU never overlap, but hooks of different CPUs and the           *)
(* publication do: a hook is cut at its accesses to the shared maps.       *)
(*                                                                         *)
(* The scheduler is external: task groups are flat, and only the number of *)
(* runnable tasks of a group on a CPU matters.                             *)
(***************************************************************************)
EXTENDS Integers, Sequences, FiniteSets, FiniteSetsExt

CONSTANTS
    CPUs,
    Groups,         \* lifetimes of task groups
    Css, Addr,      \* CSS id and address (cgid) of each; later lifetimes reuse them
    DenseIds,       \* slots for targets, 0 .. MAX_TARGETS-1
    MaxTasks,       \* bound on the runnable tasks
    MaxEpoch,       \* bound on the publications
    MaxMoves        \* bound on moves of tasks between groups

None == "none"
NonTarget == 255

ASSUME Lifetimes ==
    /\ Css \in [Groups -> Nat]
    /\ DOMAIN Addr = Groups
    /\ None \notin Groups /\ 0 \in DenseIds /\ NonTarget \notin DenseIds
    /\ MaxTasks \in Nat /\ MaxEpoch \in Nat /\ MaxMoves \in Nat

CssIds == {Css[g] : g \in Groups}
Addrs == {Addr[g] : g \in Groups}
Hooks == {"switch", "wakeup", "migrate", "unthrottle"}

VARIABLES
    life,       \* "unborn", "alive" or "dead"
    nr,         \* h_nr_running: runnable tasks of a group on a CPU, the running one included
    curr,       \* the group of the task that runs on a CPU; None when idle
    throttled,  \* cfs_rq.throttled
    transit,    \* the task taken off a run queue and not yet put on another, if any
    attached,   \* the programs that are attached
    hook,       \* the hook that runs under the run queue lock of a CPU
    recorded,   \* running_css_id_by_cpu: one more than the CSS id; zero is idle or unknown
    bits,       \* waiting_target_bitmap_by_cpu
    bitsEpoch,  \* waiting_epoch_by_cpu
    cache,      \* css_id_to_dense_id: an epoch and a dense id
    map,        \* target_cgid_to_dense; NonTarget is an absent key
    epoch,      \* target_css_id_epoch
    targets,    \* state.targets of user space
    publishing, \* the publication in progress
    moves,      \* moves between groups so far
    exact,      \* groups whose bit on a CPU was derived from all it depends on
    doubt,      \* groups whose tasks have left a CPU unseen since
    wrapped     \* a hook has subtracted one from zero

kernelVars == <<life, nr, curr, throttled, transit, moves>>
goVars == <<map, epoch, targets, publishing>>
vars == <<kernelVars, goVars, attached, hook, recorded, bits, bitsEpoch, cache,
          exact, doubt, wrapped>>

NoHook == [todo |-> <<>>, epoch |-> 0, miss |-> FALSE, found |-> NonTarget]
NoTargets == [d \in DenseIds |-> None]
NoPublication == [phase |-> "idle", next |-> NoTargets]
NoTask == [group |-> None, to |-> None]

Init ==
    /\ life = [g \in Groups |-> "unborn"]
    /\ nr = [c \in CPUs |-> [g \in Groups |-> 0]]
    /\ curr = [c \in CPUs |-> None]
    /\ throttled = [c \in CPUs |-> {}]
    /\ transit = NoTask /\ moves = 0
    /\ attached = {} /\ hook = [c \in CPUs |-> NoHook]
    /\ recorded = [c \in CPUs |-> 0]
    /\ bits = [c \in CPUs |-> {}] /\ bitsEpoch = [c \in CPUs |-> 0]
    /\ cache = [i \in CssIds |-> [epoch |-> 0, dense |-> 0]]
    /\ map = [a \in Addrs |-> NonTarget] /\ epoch = 0
    /\ targets = NoTargets /\ publishing = NoPublication
    /\ exact = [c \in CPUs |-> {}] /\ doubt = [c \in CPUs |-> {}]
    /\ wrapped = FALSE

-----------------------------------------------------------------------------
(* Hooks.  A hook is entered in the step of the scheduler that it observes *)
(* and releases the run queue when nothing is left to do.                  *)

Unlocked(c) == hook[c].todo = <<>>

\* Mutant of Outdated: the bitmap of the former targets is kept.
OutdatedNever(c) == FALSE

\* ensure_waiting_bitmap_epoch
Outdated(c) == bitsEpoch[c] # epoch

\* Hook h is entered for CPU c to derive the bits of the groups in todo again.
\* When it is not attached the change goes unseen: tasks of the groups in less
\* may have left, those of the groups in more may have come.
Enter(h, c, todo, less, more) ==
    IF h \in attached
    THEN /\ hook' = [hook EXCEPT ![c] = [NoHook EXCEPT !.todo = todo, !.epoch = epoch]]
         /\ bitsEpoch' = [bitsEpoch EXCEPT ![c] = epoch]
         /\ bits' = [bits EXCEPT ![c] = IF Outdated(c) THEN {} ELSE @]
         /\ exact' = [exact EXCEPT ![c] = IF bitsEpoch[c] # epoch THEN {} ELSE @]
         /\ doubt' = [doubt EXCEPT ![c] = IF bitsEpoch[c] # epoch THEN {} ELSE @]
    ELSE /\ exact' = [exact EXCEPT ![c] = @ \ (less \cup more)]
         /\ doubt' = [doubt EXCEPT ![c] = @ \cup less]
         /\ UNCHANGED <<hook, bits, bitsEpoch>>

\* The group whose task runs on CPU c is the one that the tracer has recorded.
Truthful(c) == recorded[c] = IF curr[c] = None THEN 0 ELSE Css[curr[c]] + 1

\* update_wakeup_waiting and on_sched_migrate_task: the runnable tasks of g
\* without the one that runs, if the recorded CSS id is that of g.
Counted(c, g) == nr[c][g] - (IF recorded[c] = Css[g] + 1 THEN 1 ELSE 0)

\* on_sched_switch, for the group of the next task.
NextWaits(c, g) == nr[c][g] >= 2

\* Mutant of PrevWaits: the tasks of a group that yields the CPU do not wait.
PrevNeverWaits(c, g) == FALSE

\* on_sched_switch, for the group of the previous task.
PrevWaits(c, g) == nr[c][g] >= 1 /\ g \notin throttled[c]

\* The waiting flag each hook passes to set_waiting.  The difference is taken
\* in u32: minus one is a large count.
Wanted(c, g, kind) ==
    CASE kind = "prev"       -> PrevWaits(c, g)
      [] kind = "next"       -> NextWaits(c, g)
      [] kind = "unthrottle" -> nr[c][g] >= 1
      [] OTHER               -> Counted(c, g) # 0 /\ g \notin throttled[c]

\* A wakeup that finds no runnable task is counted as invalid and changes nothing.
Applies(c, g, kind, dense) == dense # NonTarget /\ ~(kind = "wakeup" /\ nr[c][g] = 0)

\* set_waiting for the first group in todo, whose dense id is known; then the
\* hook goes on to the next one.
SetWaiting(c, dense) ==
    LET g == hook[c].todo[1].group
        kind == hook[c].todo[1].kind
        sure == kind \in {"prev", "next", "unthrottle"} \/ Truthful(c)
    IN /\ bits' = [bits EXCEPT ![c] =
                     IF ~Applies(c, g, kind, dense) THEN @
                     ELSE IF Wanted(c, g, kind) THEN @ \cup {dense} ELSE @ \ {dense}]
       /\ exact' = [exact EXCEPT ![c] = IF sure THEN @ \cup {g} ELSE @ \ {g}]
       /\ doubt' = [doubt EXCEPT ![c] = IF sure THEN @ \ {g} ELSE @ \cup {g}]
       /\ wrapped' = (wrapped \/ (kind = "migrate" /\ Applies(c, g, kind, dense) /\ Counted(c, g) < 0))
       /\ hook' = [hook EXCEPT ![c] = [NoHook EXCEPT !.todo = Tail(hook[c].todo), !.epoch = hook[c].epoch]]

\* resolve_target_dense_id: the entry is of the epoch that the hook has read.
Cached(c, g) == cache[Css[g]].epoch = hook[c].epoch

\* resolve_target_dense_id up to the lookup in the map.
Resolve(c) ==
    /\ ~Unlocked(c) /\ ~hook[c].miss
    /\ LET g == hook[c].todo[1].group
       IN IF Cached(c, g)
          THEN SetWaiting(c, cache[Css[g]].dense)
          ELSE /\ hook' = [hook EXCEPT ![c].miss = TRUE,
                                       ![c].found = map[Addr[g]]]
               /\ UNCHANGED <<bits, exact, doubt, wrapped>>
    /\ UNCHANGED <<kernelVars, goVars, attached, recorded, bitsEpoch, cache>>

\* The store into the cache, and what the hook does with the result.
Remember(c) ==
    /\ ~Unlocked(c) /\ hook[c].miss
    /\ LET g == hook[c].todo[1].group
       IN cache' = [cache EXCEPT ![Css[g]] = [epoch |-> hook[c].epoch, dense |-> hook[c].found]]
    /\ SetWaiting(c, hook[c].found)
    /\ UNCHANGED <<kernelVars, goVars, attached, recorded, bitsEpoch>>

-----------------------------------------------------------------------------
(* The scheduler, with the hooks it enters.                                *)

Runnable == MapThenSumSet(LAMBDA p : nr[p[1]][p[2]], CPUs \X Groups)
            + (IF transit = NoTask THEN 0 ELSE 1)

\* Tasks of g that wait for CPU c: all but the running one, none if throttled.
Waiters(c, g) == IF g \in throttled[c] THEN 0
                 ELSE nr[c][g] - (IF curr[c] = g THEN 1 ELSE 0)

GroupCreated(g) ==
    /\ life[g] = "unborn"
    /\ \A h \in Groups : life[h] = "alive" => Css[h] # Css[g] /\ Addr[h] # Addr[g]
    /\ life' = [life EXCEPT ![g] = "alive"]
    /\ UNCHANGED <<nr, curr, throttled, transit, moves, goVars, attached, hook, recorded,
                   bits, bitsEpoch, cache, exact, doubt, wrapped>>

GroupDies(g) ==
    /\ life[g] = "alive" /\ transit.group # g
    /\ \A c \in CPUs : nr[c][g] = 0 /\ Unlocked(c)
    /\ life' = [life EXCEPT ![g] = "dead"]
    /\ throttled' = [c \in CPUs |-> throttled[c] \ {g}]
    /\ UNCHANGED <<nr, curr, transit, moves, goVars, attached, hook, recorded,
                   bits, bitsEpoch, cache, exact, doubt, wrapped>>

\* The groups that on_sched_switch derives again, the next one second.
SwitchTodo(prev, next) ==
    (IF prev = None THEN <<>> ELSE <<[group |-> prev, kind |-> "prev"]>>)
    \o (IF next = None THEN <<>> ELSE <<[group |-> next, kind |-> "next"]>>)

\* The running task blocks or is preempted, and its group may have used up its
\* quota; a task that waits takes over, if there is one.
Switch(c) ==
    /\ Unlocked(c)
    /\ \E blocks, runsOut \in BOOLEAN, next \in Groups \cup {None} :
         LET prev == curr[c]
             left == [g \in Groups |-> nr[c][g] - (IF g = prev /\ blocks THEN 1 ELSE 0)]
             held == throttled[c] \cup (IF runsOut THEN {prev} ELSE {})
             able == {g \in Groups \ held : left[g] >= 1}
         IN /\ (blocks \/ runsOut) => prev # None
            /\ runsOut => left[prev] >= 1
            /\ <<prev, next>> # <<None, None>>
            /\ IF able = {} THEN next = None ELSE next \in able
            /\ next # None /\ next = prev /\ ~blocks => left[next] >= 2
            /\ nr' = [nr EXCEPT ![c] = left]
            /\ throttled' = [throttled EXCEPT ![c] = held]
            /\ curr' = [curr EXCEPT ![c] = next]
            /\ Enter("switch", c, SwitchTodo(prev, next), {prev, next} \ {None}, {})
            /\ recorded' = IF "switch" \in attached
                           THEN [recorded EXCEPT ![c] = IF next = None THEN 0 ELSE Css[next] + 1]
                           ELSE recorded
    /\ UNCHANGED <<life, transit, moves, goVars, attached, cache, wrapped>>

\* A task of g becomes runnable on CPU c; the first one of its group may find
\* the quota used up.
Enqueued(c, g, runsOut) ==
    /\ runsOut => nr[c][g] = 0 /\ g \notin throttled[c]
    /\ nr' = [nr EXCEPT ![c][g] = @ + 1]
    /\ throttled' = [throttled EXCEPT ![c] = IF runsOut THEN @ \cup {g} ELSE @]

Wakeup(c, g) ==
    /\ Unlocked(c) /\ life[g] = "alive" /\ Runnable < MaxTasks
    /\ \E runsOut \in BOOLEAN : Enqueued(c, g, runsOut)
    /\ Enter("wakeup", c, <<[group |-> g, kind |-> "wakeup"]>>, {}, {g})
    /\ UNCHANGED <<life, curr, transit, moves, goVars, attached, recorded, cache, wrapped>>

\* A task that does not run leaves CPU c for CPU d; both run queues are locked
\* one after the other.
Migrate(c, d, g) ==
    /\ Unlocked(c) /\ c # d /\ transit = NoTask
    /\ nr[c][g] > (IF curr[c] = g THEN 1 ELSE 0)
    /\ nr' = [nr EXCEPT ![c][g] = @ - 1]
    /\ transit' = [group |-> g, to |-> d]
    /\ Enter("migrate", c, <<[group |-> g, kind |-> "migrate"]>>, {g}, {})
    /\ UNCHANGED <<life, curr, throttled, moves, goVars, attached, recorded, cache, wrapped>>

\* No hook observes the arrival.
Arrive ==
    /\ transit # NoTask /\ Unlocked(transit.to)
    /\ \E runsOut \in BOOLEAN : Enqueued(transit.to, transit.group, runsOut)
    /\ exact' = [exact EXCEPT ![transit.to] = @ \ {transit.group}]
    /\ transit' = NoTask
    /\ UNCHANGED <<life, curr, moves, goVars, attached, hook, recorded, bits, bitsEpoch,
                   cache, doubt, wrapped>>

Unthrottle(c, g) ==
    /\ Unlocked(c) /\ g \in throttled[c]
    /\ throttled' = [throttled EXCEPT ![c] = @ \ {g}]
    /\ Enter("unthrottle", c, <<[group |-> g, kind |-> "unthrottle"]>>, {}, {g})
    /\ UNCHANGED <<life, nr, curr, transit, moves, goVars, attached, recorded, cache, wrapped>>

\* A task is moved from group g to group h; no hook observes that either.
MoveTask(c, g, h) ==
    /\ Unlocked(c) /\ g # h /\ moves < MaxMoves
    /\ life[h] = "alive" /\ h \notin throttled[c]
    /\ \/ /\ curr[c] = g
          /\ curr' = [curr EXCEPT ![c] = h]
       \/ /\ nr[c][g] > (IF curr[c] = g THEN 1 ELSE 0)
          /\ UNCHANGED curr
    /\ nr' = [nr EXCEPT ![c][g] = @ - 1, ![c][h] = @ + 1]
    /\ moves' = moves + 1
    /\ exact' = [exact EXCEPT ![c] = @ \ {g, h}]
    /\ doubt' = [doubt EXCEPT ![c] = @ \cup {g}]
    /\ UNCHANGED <<life, throttled, transit, goVars, attached, hook, recorded, bits, bitsEpoch,
                   cache, wrapped>>

-----------------------------------------------------------------------------
(* User space.                                                             *)

\* Attach follows the first publication and walks a Go map: the programs are
\* attached in any order.
AttachProgram(h) ==
    /\ epoch >= 1 /\ publishing.phase = "idle" /\ h \notin attached
    /\ attached' = attached \cup {h}
    /\ UNCHANGED <<kernelVars, goVars, hook, recorded, bits, bitsEpoch, cache, exact, doubt, wrapped>>

Chosen(next) == {d \in DenseIds : next[d] # None}

\* schedBlameSelectTargets: containers as the runtime has last seen them, each
\* in one slot, and in its former slot if it had one.
Selectable(next) ==
    /\ \A d \in Chosen(next) : life[next[d]] # "unborn"
    /\ \A d, e \in Chosen(next) : d # e => Addr[next[d]] # Addr[next[e]]
    /\ \A d \in Chosen(next), e \in DenseIds : targets[e] = next[d] => d = e

\* publishSchedBlameTargets, when the selection differs from the last one.
BeginPublication ==
    /\ publishing.phase = "idle" /\ epoch < MaxEpoch
    /\ epoch = 0 \/ attached = Hooks
    /\ \E next \in [DenseIds -> Groups \cup {None}] :
          /\ next # targets /\ Selectable(next)
          /\ publishing' = [phase |-> "clear", next |-> next]
    /\ UNCHANGED <<kernelVars, map, epoch, targets, attached, hook, recorded, bits, bitsEpoch,
                   cache, exact, doubt, wrapped>>

ClearKey ==
    /\ publishing.phase = "clear"
    /\ IF \A a \in Addrs : map[a] = NonTarget
       THEN publishing' = [publishing EXCEPT !.phase = "write"] /\ UNCHANGED map
       ELSE /\ \E a \in Addrs : map[a] # NonTarget /\ map' = [map EXCEPT ![a] = NonTarget]
            /\ UNCHANGED publishing
    /\ UNCHANGED <<kernelVars, epoch, targets, attached, hook, recorded, bits, bitsEpoch,
                   cache, exact, doubt, wrapped>>

Unwritten == {d \in Chosen(publishing.next) : map[Addr[publishing.next[d]]] # d}

WriteKey ==
    /\ publishing.phase = "write"
    /\ \E d \in Unwritten : map' = [map EXCEPT ![Addr[publishing.next[d]]] = d]
    /\ UNCHANGED <<kernelVars, epoch, targets, publishing, attached, hook, recorded, bits, bitsEpoch,
                   cache, exact, doubt, wrapped>>

MayBump == publishing.phase = "write" /\ Unwritten = {}

\* setTargets and writeSchedBlameTargetEpoch.
PublishEpoch ==
    /\ MayBump
    /\ epoch' = epoch + 1 /\ targets' = publishing.next
    /\ publishing' = NoPublication
    /\ UNCHANGED <<kernelVars, map, attached, hook, recorded, bits, bitsEpoch,
                   cache, exact, doubt, wrapped>>

\* A map operation fails: the run ends and the programs are detached.
PublicationFails ==
    /\ publishing.phase \in {"clear", "write"}
    /\ publishing' = [NoPublication EXCEPT !.phase = "stopped"]
    /\ attached' = {}
    /\ UNCHANGED <<kernelVars, map, epoch, targets, hook, recorded, bits, bitsEpoch,
                   cache, exact, doubt, wrapped>>

Next ==
    \/ \E g \in Groups : GroupCreated(g) \/ GroupDies(g)
    \/ \E c \in CPUs : Switch(c) \/ Resolve(c) \/ Remember(c)
    \/ \E c \in CPUs, g \in Groups : Wakeup(c, g) \/ Unthrottle(c, g)
    \/ \E c, d \in CPUs, g \in Groups : Migrate(c, d, g)
    \/ \E c \in CPUs, g, h \in Groups : MoveTask(c, g, h)
    \/ \E h \in Hooks : AttachProgram(h)
    \/ Arrive \/ BeginPublication \/ ClearKey \/ WriteKey \/ PublishEpoch \/ PublicationFails

Spec == Init /\ [][Next]_vars

-----------------------------------------------------------------------------
\* The target in slot d exists, and the bitmap of CPU c, which no hook is about
\* to change, is of its publication.
Speaks(c, d) ==
    /\ targets[d] # None /\ life[targets[d]] = "alive"
    /\ publishing.phase = "idle" /\ bitsEpoch[c] = epoch /\ Unlocked(c)

\* No target is charged with waiting that has no waiting task: a bit that is
\* set means that a task of the target waits for that CPU, although slots, CSS
\* ids and addresses are reused and hooks of other CPUs and the publication
\* interleave.  Only tasks that left unseen (before all programs were attached,
\* or moved to another cgroup) may leave a bit behind.
NoFalseBlame ==
    \A c \in CPUs, d \in DenseIds :
       d \in bits[c] /\ Speaks(c, d) => Waiters(c, targets[d]) >= 1 \/ targets[d] \in doubt[c]

\* No waiting is missed once a hook has derived the bit of a target, until a
\* task arrives by migration: under-reporting is confined to that case.
NoMissedWait ==
    \A c \in CPUs, d \in DenseIds :
       Speaks(c, d) /\ targets[d] \in exact[c] /\ Waiters(c, targets[d]) >= 1 => d \in bits[c]

\* As the comment in on_sched_migrate_task says, the running task of the same
\* cgroup remains counted and one can be subtracted.
SubtractionIsSafe == ~wrapped

=============================================================================
