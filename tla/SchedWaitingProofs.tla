-------------------------- MODULE SchedWaitingProofs --------------------------
(***************************************************************************)
(* Proofs about the waiting bitmap, for any number of CPUs, task groups,   *)
(* slots, tasks, publications and moves and any reuse of CSS ids and       *)
(* addresses: the bitmap blames no target that does not wait, and misses   *)
(* no target whose bit was derived from what it depends on.                *)
(***************************************************************************)
EXTENDS SchedWaiting, SequenceTheorems, TLAPS

Dense == DenseIds \cup {NonTarget}
Kinds == {"prev", "next", "wakeup", "migrate", "unthrottle"}
Phases == {"idle", "clear", "write", "stopped"}
Selections == [DenseIds -> Groups \cup {None}]
Item == [group: Groups, kind: Kinds]
HookSet == [todo: Seq(Item), epoch: Nat, miss: BOOLEAN, found: Dense]
Entry == [epoch: Nat, dense: Dense]

Alive(g) == life[g] = "alive"
Settled == publishing.phase = "idle"

KernelType ==
    /\ life \in [Groups -> {"unborn", "alive", "dead"}]
    /\ nr \in [CPUs -> [Groups -> Nat]]
    /\ curr \in [CPUs -> Groups \cup {None}]
    /\ throttled \in [CPUs -> SUBSET Groups]
    /\ transit # NoTask => transit.group \in Groups /\ transit.to \in CPUs

HookType ==
    /\ hook \in [CPUs -> HookSet]
    /\ recorded \in [CPUs -> Nat]
    /\ bits \in [CPUs -> SUBSET DenseIds] /\ bitsEpoch \in [CPUs -> Nat]
    /\ cache \in [CssIds -> Entry]
    /\ exact \in [CPUs -> SUBSET Groups] /\ doubt \in [CPUs -> SUBSET Groups]

GoType ==
    /\ map \in [Addrs -> Dense] /\ epoch \in Nat /\ targets \in Selections
    /\ publishing \in [phase: Phases, next: Selections]

\* Groups that live at the same time share neither a CSS id nor an address, and
\* a task in transit keeps its group.
LifeInv ==
    /\ \A g, h \in Groups : Alive(g) /\ Alive(h) /\ (Css[g] = Css[h] \/ Addr[g] = Addr[h]) => g = h
    /\ transit # NoTask => Alive(transit.group)

\* Every key of the map is that of the target in its slot.
KeysOf(next) ==
    \A a \in Addrs : map[a] # NonTarget => next[map[a]] # None /\ Addr[next[map[a]]] = a

\* Targets were there when they were selected, and a finished publication has
\* written exactly their keys.
PublishInv ==
    /\ \A d \in DenseIds : targets[d] # None => life[targets[d]] # "unborn"
    /\ \A d \in DenseIds : publishing.next[d] # None => life[publishing.next[d]] # "unborn"
    /\ publishing.phase = "write" => KeysOf(publishing.next)
    /\ Settled => KeysOf(targets)
    /\ Settled => \A d \in DenseIds : targets[d] # None => map[Addr[targets[d]]] = d

\* The slot of a target that lives.
Serves(d) == targets[d] # None /\ Alive(targets[d])

\* A dense id stands for the group g, as far as targets that live can tell.
StandsFor(dense, g) == \A d \in DenseIds : Serves(d) => (dense = d <=> targets[d] = g)

\* An entry of the current epoch names the slot of the target with its CSS id.
CacheInv ==
    /\ \A i \in CssIds : cache[i].epoch <= epoch
    /\ Settled => \A i \in CssIds : cache[i].epoch = epoch =>
          \A d \in DenseIds : Serves(d) => (cache[i].dense = d <=> Css[targets[d]] = i)

\* The running task is counted, and only groups that live have tasks.
RunInv(c) ==
    /\ curr[c] # None => nr[c][curr[c]] >= 1 /\ curr[c] \notin throttled[c]
    /\ \A g \in Groups : nr[c][g] >= 1 \/ g \in throttled[c] => Alive(g)

\* What a hook has still to do fits the state of its run queue.
Fits(c, x) ==
    /\ Alive(x.group)
    /\ x.kind = "prev" => curr[c] # x.group
    /\ x.kind = "next" => curr[c] = x.group
    /\ x.kind = "unthrottle" => curr[c] # x.group /\ x.group \notin throttled[c]
    /\ x.kind = "wakeup" => nr[c][x.group] >= 1

Both(c, x, y) == /\ Alive(x.group) /\ Alive(y.group) /\ curr[c] = y.group
                 /\ x.kind = "prev" /\ y.kind = "next"

Ready(c, todo) ==
    \/ todo = <<>>
    \/ \E x \in Item : todo = <<x>> /\ Fits(c, x)
    \/ \E x, y \in Item : todo = <<x, y>> /\ Both(c, x, y)

TodoInv(c) == Ready(c, hook[c].todo)

\* A hook works for the epoch it has read; in that epoch the map is stable.
EpochInv(c) ==
    /\ hook[c].epoch <= epoch /\ bitsEpoch[c] <= epoch
    /\ ~Unlocked(c) => bitsEpoch[c] = hook[c].epoch
    /\ ~Unlocked(c) /\ hook[c].miss /\ Settled /\ hook[c].epoch = epoch =>
          hook[c].found = map[Addr[hook[c].todo[1].group]]

\* The bit of group g is still to be derived.
InTodo(todo, g) == \E n \in 1..Len(todo) : todo[n].group = g

\* What the bit of slot d says about the target g.
BitRight(c, d, g) ==
    /\ d \in bits[c] => Waiters(c, g) >= 1 \/ g \in doubt[c]
    /\ g \in exact[c] /\ Waiters(c, g) >= 1 => d \in bits[c]

BitInv(c) ==
    Settled /\ bitsEpoch[c] = epoch =>
       \A d \in DenseIds : Serves(d) /\ ~InTodo(hook[c].todo, targets[d]) => BitRight(c, d, targets[d])

CpuInv(c) == RunInv(c) /\ TodoInv(c) /\ EpochInv(c) /\ BitInv(c)

TypeInv == KernelType /\ HookType /\ GoType
SharedInv == LifeInv /\ PublishInv /\ CacheInv

\* The inductive invariant.
IInv == TypeInv /\ SharedInv /\ \A c \in CPUs : CpuInv(c)

-----------------------------------------------------------------------------
(* Frames.                                                                 *)

\* The queues of work that hooks have.
LEMMA Todos ==
    /\ \A x : Tail(<<x>>) = <<>> /\ <<x>> # <<>> /\ <<x>>[1] = x
    /\ \A x, y : Tail(<<x, y>>) = <<y>> /\ <<x, y>> # <<>> /\ <<x, y>>[1] = x
    /\ \A g : ~InTodo(<<>>, g)
    /\ \A x, g : InTodo(<<x>>, g) <=> x.group = g
    /\ \A x, y, g : InTodo(<<x, y>>, g) <=> x.group = g \/ y.group = g
    /\ \A x \in Item : <<x>> \in Seq(Item)
    /\ \A x, y \in Item : <<x, y>> \in Seq(Item)
<1>1. /\ \A x : Tail(<<x>>) = <<>> /\ <<x>> # <<>> /\ <<x>>[1] = x
      /\ \A x, y : Tail(<<x, y>>) = <<y>> /\ <<x, y>> # <<>> /\ <<x, y>>[1] = x
  OBVIOUS
<1>2. \A g : ~InTodo(<<>>, g)
  BY DEF InTodo
<1>3. \A x, g : InTodo(<<x>>, g) <=> x.group = g
  BY DEF InTodo
<1>4. \A x, y, g : InTodo(<<x, y>>, g) <=> x.group = g \/ y.group = g
  BY DEF InTodo
<1>5. /\ \A x \in Item : <<x>> \in Seq(Item)
      /\ \A x, y \in Item : <<x, y>> \in Seq(Item)
  OBVIOUS
<1> QED
  BY <1>1, <1>2, <1>3, <1>4, <1>5

\* A queue of one item, and one of two.
LEMMA QueueOfOne ==
    ASSUME NEW s, NEW x, s = <<x>>
    PROVE  Tail(s) = <<>> /\ s # <<>> /\ s[1] = x
OBVIOUS

\* Taking the first of two items leaves the second.
LEMMA QueueOfTwo ==
    ASSUME NEW s, NEW x, NEW y, s = <<x, y>>
    PROVE  Tail(s) = <<y>> /\ s # <<>> /\ s[1] = x
OBVIOUS

\* A queue of one item holds the group of that item and no other.
LEMMA InQueueOfOne ==
    ASSUME NEW s, NEW x, s = <<x>>, NEW g
    PROVE  InTodo(s, g) <=> x.group = g
BY Todos

\* A queue of two items holds the groups of those two and no other.
LEMMA InQueueOfTwo ==
    ASSUME NEW s, NEW x, NEW y, s = <<x, y>>, NEW g
    PROVE  InTodo(s, g) <=> x.group = g \/ y.group = g
BY Todos

\* Moving one task of a run queue from the group g to the group h.
LEMMA OneTaskMoves ==
    ASSUME nr \in [CPUs -> [Groups -> Nat]], NEW c \in CPUs, NEW g \in Groups, NEW h \in Groups,
           g # h, nr[c][g] >= 1, nr' = [nr EXCEPT ![c][g] = @ - 1, ![c][h] = @ + 1]
    PROVE  /\ nr' \in [CPUs -> [Groups -> Nat]] /\ nr'[c][g] = nr[c][g] - 1
           /\ nr'[c][h] = nr[c][h] + 1
           /\ \A k \in Groups \ {g, h} : nr'[c][k] = nr[c][k]
           /\ \A d \in CPUs \ {c} : nr'[d] = nr[d]
OBVIOUS

\* Nothing of CPU c changes.
Same(c) ==
    /\ nr'[c] = nr[c] /\ curr'[c] = curr[c] /\ throttled'[c] = throttled[c]
    /\ hook'[c] = hook[c] /\ bits'[c] = bits[c] /\ bitsEpoch'[c] = bitsEpoch[c]
    /\ exact'[c] = exact[c] /\ doubt'[c] = doubt[c]

\* The other CPUs do not notice.
LEMMA SameKeeps ==
    ASSUME NEW c \in CPUs, CpuInv(c), Same(c), UNCHANGED <<life, goVars>>
    PROVE  CpuInv(c)'
<1>0. /\ life' = life /\ map' = map /\ epoch' = epoch /\ targets' = targets
      /\ publishing' = publishing
  BY DEF goVars
<1>1. RunInv(c)'
  BY <1>0 DEF CpuInv, RunInv, Same, Alive
<1>2. TodoInv(c)'
  BY Zenon, <1>0 DEF CpuInv, TodoInv, Ready, Fits, Both, Same, Alive
<1>3. EpochInv(c)'
  BY Zenon, <1>0 DEF CpuInv, EpochInv, Unlocked, Settled, Same
<1>4. BitInv(c)'
  BY Zenon, <1>0 DEF CpuInv, BitInv, Serves, Alive, BitRight, Waiters, Settled, Same
<1> QED
  BY <1>1, <1>2, <1>3, <1>4 DEF CpuInv

\* A step on CPU c that leaves user space alone.
LEMMA CpuWise ==
    ASSUME IInv, NEW c \in CPUs, UNCHANGED <<life, goVars>>, TypeInv', CacheInv',
           \A d \in CPUs \ {c} : Same(d), CpuInv(c)',
           (transit # NoTask => Alive(transit.group))'
    PROVE  IInv'
<1>0. /\ life' = life /\ map' = map /\ targets' = targets /\ publishing' = publishing
  BY DEF goVars
<1>1. LifeInv'
  BY Zenon, <1>0 DEF IInv, SharedInv, LifeInv, Alive
<1>2. PublishInv'
  BY Zenon, <1>0 DEF IInv, SharedInv, PublishInv, KeysOf, Settled
<1>3. \A d \in CPUs : CpuInv(d)'
  BY Zenon, SameKeeps DEF IInv
<1> QED
  BY <1>1, <1>2, <1>3 DEF IInv, SharedInv

\* A hook was entered, with the bitmap of CPU c brought to its epoch.
Entered(c, todo) ==
    /\ hook'[c].todo = todo /\ hook'[c].epoch = epoch /\ ~hook'[c].miss
    /\ bitsEpoch'[c] = epoch
    /\ bitsEpoch[c] # epoch => bits'[c] = {} /\ exact'[c] = {}
    /\ bitsEpoch[c] = epoch =>
          bits'[c] = bits[c] /\ exact'[c] = exact[c] /\ doubt'[c] = doubt[c]

\* The change went unseen.
Unseen(c, less, more) ==
    /\ hook'[c] = hook[c] /\ bits'[c] = bits[c] /\ bitsEpoch'[c] = bitsEpoch[c]
    /\ exact'[c] = exact[c] \ (less \cup more) /\ doubt'[c] = doubt[c] \cup less

\* What Enter leaves of the variables of the hooks.
LEMMA EnterIs ==
    ASSUME IInv, NEW c \in CPUs, NEW h, NEW todo \in Seq(Item), NEW less \in SUBSET Groups,
           NEW more \in SUBSET Groups, Unlocked(c), Enter(h, c, todo, less, more)
    PROVE  /\ hook' \in [CPUs -> HookSet] /\ bits' \in [CPUs -> SUBSET DenseIds]
           /\ bitsEpoch' \in [CPUs -> Nat]
           /\ exact' \in [CPUs -> SUBSET Groups] /\ doubt' \in [CPUs -> SUBSET Groups]
           /\ \A d \in CPUs \ {c} :
                /\ hook'[d] = hook[d] /\ bits'[d] = bits[d] /\ bitsEpoch'[d] = bitsEpoch[d]
                /\ exact'[d] = exact[d] /\ doubt'[d] = doubt[d]
           /\ Entered(c, todo) \/ Unseen(c, less, more)
<1> DEFINE new == [NoHook EXCEPT !.todo = todo, !.epoch = epoch]
<1>0. /\ hook \in [CPUs -> HookSet] /\ bits \in [CPUs -> SUBSET DenseIds]
      /\ bitsEpoch \in [CPUs -> Nat] /\ epoch \in Nat
      /\ exact \in [CPUs -> SUBSET Groups] /\ doubt \in [CPUs -> SUBSET Groups]
  BY DEF IInv, TypeInv, HookType, GoType
<1>1. CASE h \in attached
  <2>1. new \in HookSet
    BY Zenon, <1>0 DEF NoHook, HookSet, Dense
  <2>2. new.todo = todo /\ new.epoch = epoch /\ ~new.miss
    BY DEF NoHook
  <2>3. /\ hook' = [hook EXCEPT ![c] = new]
        /\ bitsEpoch' = [bitsEpoch EXCEPT ![c] = epoch]
        /\ bits' = [bits EXCEPT ![c] = IF bitsEpoch[c] # epoch THEN {} ELSE @]
        /\ exact' = [exact EXCEPT ![c] = IF bitsEpoch[c] # epoch THEN {} ELSE @]
        /\ doubt' = [doubt EXCEPT ![c] = IF bitsEpoch[c] # epoch THEN {} ELSE @]
    BY Zenon, <1>1 DEF Enter, Outdated
  <2> HIDE DEF new
  <2>4. hook' \in [CPUs -> HookSet] /\ hook'[c] = new /\ \A d \in CPUs \ {c} : hook'[d] = hook[d]
    BY <1>0, <2>1, <2>3
  <2>5. /\ bitsEpoch' \in [CPUs -> Nat] /\ bitsEpoch'[c] = epoch
        /\ bits' \in [CPUs -> SUBSET DenseIds]
        /\ exact' \in [CPUs -> SUBSET Groups] /\ doubt' \in [CPUs -> SUBSET Groups]
        /\ bitsEpoch[c] # epoch => bits'[c] = {} /\ exact'[c] = {}
        /\ bitsEpoch[c] = epoch =>
              bits'[c] = bits[c] /\ exact'[c] = exact[c] /\ doubt'[c] = doubt[c]
    BY <1>0, <2>3
  <2>6. \A d \in CPUs \ {c} : /\ bits'[d] = bits[d] /\ bitsEpoch'[d] = bitsEpoch[d]
                              /\ exact'[d] = exact[d] /\ doubt'[d] = doubt[d]
    BY <1>0, <2>3
  <2> QED
    BY Zenon, <2>2, <2>4, <2>5, <2>6 DEF Entered
<1>2. CASE h \notin attached
  <2>1. /\ exact' = [exact EXCEPT ![c] = @ \ (less \cup more)]
        /\ doubt' = [doubt EXCEPT ![c] = @ \cup less]
        /\ hook' = hook /\ bits' = bits /\ bitsEpoch' = bitsEpoch
    BY Zenon, <1>2 DEF Enter
  <2> QED
    BY <1>0, <2>1 DEF Unseen
<1> QED
  BY <1>1, <1>2

\* A change of the run queue of CPU c goes unseen: the groups that may have lost
\* waiting tasks are in doubt, and those that may have gained some not exact.
LEMMA UnseenKeeps ==
    ASSUME IInv, NEW c \in CPUs, NEW less \in SUBSET Groups, NEW more \in SUBSET Groups,
           Unlocked(c), Unseen(c, less, more), UNCHANGED <<life, goVars>>, RunInv(c)',
           \A g \in Groups : Waiters(c, g) \in Int /\ Waiters(c, g)' \in Int,
           \A g \in Groups \ less : Waiters(c, g)' >= Waiters(c, g),
           \A g \in Groups \ (less \cup more) : Waiters(c, g)' <= Waiters(c, g)
    PROVE  CpuInv(c)'
<1>A. /\ life' = life /\ map' = map /\ epoch' = epoch /\ targets' = targets
      /\ publishing' = publishing /\ epoch \in Nat /\ targets \in Selections
  BY DEF goVars, IInv, TypeInv, GoType
<1>B. /\ CpuInv(c) /\ hook[c].todo = <<>>
  BY DEF IInv, Unlocked
<1>1. TodoInv(c)'
  BY Zenon, <1>B DEF TodoInv, Ready, Unseen
<1>2. EpochInv(c)'
  BY Zenon, <1>A, <1>B DEF EpochInv, CpuInv, Unlocked, Unseen
<1>3. ASSUME Settled, bitsEpoch[c] = epoch, NEW d \in DenseIds, Serves(d)
      PROVE  BitRight(c, d, targets[d])'
  <2>1. PICK g \in Groups : g = targets[d]
    BY <1>A, <1>3 DEF Serves, Selections
  <2>2. BitRight(c, d, g)
    BY Zenon, <1>B, <1>3, <2>1, Todos DEF CpuInv, BitInv
  <2>3. /\ g \notin less => Waiters(c, g)' >= Waiters(c, g)
        /\ g \notin less \cup more => Waiters(c, g)' <= Waiters(c, g)
        /\ Waiters(c, g) \in Int /\ Waiters(c, g)' \in Int
    BY <2>1
  <2>4. BitRight(c, d, g)'
    <3>1. d \in bits'[c] => Waiters(c, g)' >= 1 \/ g \in doubt'[c]
      BY <2>2, <2>3 DEF BitRight, Unseen
    <3>2. g \in exact'[c] /\ Waiters(c, g)' >= 1 => d \in bits'[c]
      BY <2>2, <2>3 DEF BitRight, Unseen
    <3> QED
      BY Zenon, <3>1, <3>2 DEF BitRight
  <2> QED
    BY Zenon, <1>A, <2>1, <2>4 DEF BitRight
<1>4. BitInv(c)'
  BY Zenon, <1>A, <1>3 DEF BitInv, Settled, Serves, Alive, Unseen
<1> QED
  BY <1>1, <1>2, <1>4 DEF CpuInv

\* A hook is entered, or missed, for a change of the run queue of CPU c that
\* only concerns the groups it will look at.
LEMMA EnterKeeps ==
    ASSUME IInv, NEW c \in CPUs, NEW h, NEW todo \in Seq(Item), NEW less \in SUBSET Groups,
           NEW more \in SUBSET Groups, Unlocked(c), Enter(h, c, todo, less, more),
           UNCHANGED <<life, goVars>>, RunInv(c)', Ready(c, todo)',
           \A g \in Groups : Waiters(c, g) \in Int /\ Waiters(c, g)' \in Int,
           \A g \in Groups : ~InTodo(todo, g) => Waiters(c, g)' = Waiters(c, g),
           \A g \in Groups \ less : Waiters(c, g)' >= Waiters(c, g),
           \A g \in Groups \ (less \cup more) : Waiters(c, g)' <= Waiters(c, g)
    PROVE  CpuInv(c)'
<1>0. /\ life' = life /\ map' = map /\ epoch' = epoch /\ targets' = targets
      /\ publishing' = publishing /\ epoch \in Nat /\ targets \in Selections
  BY DEF goVars, IInv, TypeInv, GoType
<1>1. /\ CpuInv(c) /\ hook[c].todo = <<>>
  BY DEF IInv, Unlocked
<1>2. CASE Entered(c, todo)
  <2>1. TodoInv(c)'
    BY Zenon, <1>2 DEF TodoInv, Ready, Fits, Both, Alive, Entered
  <2>2. EpochInv(c)'
    BY <1>0, <1>2 DEF EpochInv, Entered
  <2>3. ASSUME Settled, NEW d \in DenseIds, Serves(d), ~InTodo(todo, targets[d])
        PROVE  BitRight(c, d, targets[d])'
    <3>0. PICK g \in Groups : g = targets[d]
      BY <1>0, <2>3 DEF Serves, Selections
    <3>1. Waiters(c, g)' = Waiters(c, g)
      BY <2>3, <3>0
    <3>2. CASE bitsEpoch[c] # epoch
      BY Zenon, <1>0, <1>2, <3>2 DEF BitRight, Entered
    <3>3. CASE bitsEpoch[c] = epoch
      <4>1. BitRight(c, d, g)
        BY Zenon, <1>1, <2>3, <3>0, <3>3, Todos DEF CpuInv, BitInv
      <4> QED
        BY Zenon, <1>0, <1>2, <3>0, <3>1, <3>3, <4>1 DEF BitRight, Entered
    <3> QED
      BY <3>2, <3>3
  <2>4. BitInv(c)'
    BY Zenon, <1>0, <1>2, <2>3 DEF BitInv, Settled, Serves, Alive, Entered
  <2> QED
    BY <2>1, <2>2, <2>4 DEF CpuInv
<1>3. CASE Unseen(c, less, more)
  BY <1>3, UnseenKeeps
<1>4. Entered(c, todo) \/ Unseen(c, less, more)
  BY Zenon, EnterIs
<1> QED
  BY <1>2, <1>3, <1>4

\* The cache says the same while the publication rests.
LEMMA CacheSame ==
    ASSUME CacheInv, UNCHANGED <<life, cache, epoch, targets, publishing>>
    PROVE  CacheInv'
<1>1. /\ life' = life /\ cache' = cache /\ epoch' = epoch /\ targets' = targets
      /\ publishing' = publishing
  OBVIOUS
<1> QED
  BY SMT, <1>1 DEF CacheInv, Settled, Serves, Alive

\* The run queue of CPU c is as it was.
QueueSame(c) == nr'[c] = nr[c] /\ curr'[c] = curr[c] /\ throttled'[c] = throttled[c]

\* A step of the scheduler on CPU c with the hook it enters.
LEMMA SchedulerStep ==
    ASSUME IInv, NEW c \in CPUs, NEW h, NEW todo \in Seq(Item), NEW less \in SUBSET Groups,
           NEW more \in SUBSET Groups, Unlocked(c), Enter(h, c, todo, less, more),
           UNCHANGED <<life, goVars, cache>>, KernelType', recorded' \in [CPUs -> Nat],
           (transit # NoTask => Alive(transit.group))', RunInv(c)', Ready(c, todo)',
           \A d \in CPUs \ {c} : QueueSame(d),
           \A g \in Groups : ~InTodo(todo, g) => Waiters(c, g)' = Waiters(c, g),
           \A g \in Groups \ less : Waiters(c, g)' >= Waiters(c, g),
           \A g \in Groups \ (less \cup more) : Waiters(c, g)' <= Waiters(c, g)
    PROVE  IInv'
<1>0. /\ life' = life /\ map' = map /\ epoch' = epoch /\ targets' = targets
      /\ publishing' = publishing /\ cache' = cache /\ KernelType
  BY DEF goVars, IInv, TypeInv
<1>1. \A g \in Groups : Waiters(c, g) \in Int /\ Waiters(c, g)' \in Int
  BY <1>0 DEF KernelType, Waiters
<1>2. CpuInv(c)'
  BY <1>1, EnterKeeps
<1>3. /\ hook' \in [CPUs -> HookSet] /\ bits' \in [CPUs -> SUBSET DenseIds]
      /\ bitsEpoch' \in [CPUs -> Nat]
      /\ exact' \in [CPUs -> SUBSET Groups] /\ doubt' \in [CPUs -> SUBSET Groups]
      /\ \A d \in CPUs \ {c} :
           /\ hook'[d] = hook[d] /\ bits'[d] = bits[d] /\ bitsEpoch'[d] = bitsEpoch[d]
           /\ exact'[d] = exact[d] /\ doubt'[d] = doubt[d]
  BY Zenon, EnterIs
<1>4. TypeInv'
  BY Zenon, <1>0, <1>3 DEF IInv, TypeInv, HookType, GoType
<1>5. CacheInv'
  BY Zenon, <1>0, CacheSame DEF IInv, SharedInv
<1>6. \A d \in CPUs \ {c} : Same(d)
  BY Zenon, <1>3 DEF Same, QueueSame
<1> QED
  BY Zenon, <1>2, <1>4, <1>5, <1>6, CpuWise

\* What on_sched_switch looks at.
LEMMA SwitchTodoIs ==
    ASSUME NEW prev, NEW next, <<prev, next>> # <<None, None>>
    PROVE  LET x == [group |-> prev, kind |-> "prev"]
               y == [group |-> next, kind |-> "next"]
           IN /\ prev = None => next # None /\ SwitchTodo(prev, next) = <<y>>
              /\ prev # None /\ next = None => SwitchTodo(prev, next) = <<x>>
              /\ prev # None /\ next # None => SwitchTodo(prev, next) = <<x, y>>
<1>1. \A x : <<>> \o <<x>> = <<x>> /\ <<x>> \o <<>> = <<x>>
  OBVIOUS
<1>2. ASSUME NEW x, NEW y PROVE <<x>> \o <<y>> = <<x, y>>
  <2> DEFINE s == <<x>> \o <<y>>
  <2>1. /\ <<x>> \in Seq({x, y}) /\ <<y>> \in Seq({x, y}) /\ <<x, y>> \in Seq({x, y})
        /\ Len(<<x>>) = 1 /\ Len(<<y>>) = 1 /\ Len(<<x, y>>) = 2
        /\ <<x>>[1] = x /\ <<y>>[1] = y /\ <<x, y>>[1] = x /\ <<x, y>>[2] = y
    OBVIOUS
  <2>2. s \in Seq({x, y}) /\ Len(s) = 2 /\ s[1] = x /\ s[2] = y
    BY <2>1, ConcatProperties
  <2> HIDE DEF s
  <2>3. \A i \in 1 .. Len(s) : s[i] = <<x, y>>[i]
    BY <2>1, <2>2
  <2>4. s = <<x, y>>
    BY <2>1, <2>2, <2>3, SeqEqual
  <2> QED
    BY <2>4 DEF s
<1>3. prev = None => next # None
  OBVIOUS
<1> QED
  BY Zenon, <1>1, <1>2, <1>3 DEF SwitchTodo

\* The running task gives way to another one.
LEMMA SwitchKeeps ==
    ASSUME IInv, NEW c \in CPUs, Switch(c)
    PROVE  IInv'
<1>0. /\ KernelType /\ RunInv(c) /\ LifeInv /\ recorded \in [CPUs -> Nat] /\ Css \in [Groups -> Nat]
      /\ None \notin Groups
  BY Lifetimes DEF IInv, TypeInv, HookType, SharedInv, CpuInv
<1>1. PICK blocks \in BOOLEAN, runsOut \in BOOLEAN, next \in Groups \cup {None} :
         LET prev == curr[c]
             left == [g \in Groups |-> nr[c][g] - (IF g = prev /\ blocks THEN 1 ELSE 0)]
             held == throttled[c] \cup (IF runsOut THEN {prev} ELSE {})
             able == {g \in Groups \ held : left[g] >= 1}
         IN /\ (blocks \/ runsOut) => prev # None
            /\ runsOut => left[prev] >= 1
            /\ <<prev, next>> # <<None, None>>
            /\ IF able = {} THEN next = None ELSE next \in able
            /\ next # None /\ next = prev /\ ~blocks => left[next] >= 2
            /\ nr' = [nr EXCEPT ![c] = left]
            /\ throttled' = [throttled EXCEPT ![c] = held]
            /\ curr' = [curr EXCEPT ![c] = next]
            /\ Enter("switch", c, SwitchTodo(prev, next), {prev, next} \ {None}, {})
            /\ recorded' = IF "switch" \in attached
                           THEN [recorded EXCEPT ![c] = IF next = None THEN 0 ELSE Css[next] + 1]
                           ELSE recorded
  BY Zenon DEF Switch
<1>p. PICK prev \in Groups \cup {None} : prev = curr[c]
  BY <1>0 DEF KernelType
<1> DEFINE left == [g \in Groups |-> nr[c][g] - (IF g = prev /\ blocks THEN 1 ELSE 0)]
           held == throttled[c] \cup (IF runsOut THEN {prev} ELSE {})
           less == {prev, next} \ {None}
<1>u. Unlocked(c) /\ UNCHANGED <<life, goVars, cache>> /\ transit' = transit
  BY Zenon DEF Switch
<1>2. /\ prev \in Groups \cup {None} /\ blocks => prev \in Groups
      /\ runsOut => prev \in Groups
  BY Zenon, <1>0, <1>1, <1>p DEF KernelType
<1>3. left \in [Groups -> Nat] /\ held \in SUBSET Groups
  BY <1>0, <1>2, <1>p DEF KernelType, RunInv
<1>4. /\ nr' = [nr EXCEPT ![c] = left] /\ throttled' = [throttled EXCEPT ![c] = held]
      /\ curr' = [curr EXCEPT ![c] = next]
      /\ next # None => next \in Groups /\ next \notin held /\ left[next] >= 1
      /\ Enter("switch", c, SwitchTodo(prev, next), less, {})
  BY Zenon, <1>1, <1>p
<1>5. recorded' \in [CPUs -> Nat]
  BY SMTT(30), <1>0, <1>1
<1>6. \A g \in Groups : left[g] <= nr[c][g] /\ (g # prev => left[g] = nr[c][g])
                        /\ (g # prev => (g \in held <=> g \in throttled[c]))
  BY <1>0 DEF KernelType
<1> HIDE DEF left, held
<1>7. /\ KernelType' /\ nr'[c] = left /\ throttled'[c] = held /\ curr'[c] = next
      /\ \A d \in CPUs \ {c} : QueueSame(d)
  BY Zenon, <1>0, <1>3, <1>4, <1>u DEF KernelType, QueueSame
<1>8. RunInv(c)'
  <2>1. ASSUME NEW g \in Groups, left[g] >= 1 \/ g \in held PROVE Alive(g)
    <3>1. nr[c][g] >= 1 \/ g \in throttled[c]
      BY <1>0, <1>3, <1>6, <1>p, <2>1 DEF RunInv, KernelType
    <3> QED
      BY Zenon, <1>0, <3>1 DEF RunInv
  <2> QED
    BY Zenon, <1>4, <1>7, <1>u, <2>1 DEF RunInv, Alive
<1>9. \A g \in Groups : (g # prev /\ g # next) => Waiters(c, g)' = Waiters(c, g)
  BY Zenon, <1>6, <1>7, <1>p DEF Waiters
<1>10. (prev # None => Alive(prev)') /\ (next # None => Alive(next)')
  BY <1>0, <1>3, <1>4, <1>6, <1>p, <1>u DEF RunInv, Alive, KernelType
<1> DEFINE x == [group |-> prev, kind |-> "prev"]
           y == [group |-> next, kind |-> "next"]
           todo == SwitchTodo(prev, next)
<1>11. /\ prev # None => x \in Item /\ x.group = prev /\ x.kind = "prev"
       /\ next # None => y \in Item /\ y.group = next /\ y.kind = "next"
  BY <1>2 DEF Item, Kinds
<1>12. /\ prev = None => next # None /\ todo = <<y>>
       /\ prev # None /\ next = None => todo = <<x>>
       /\ prev # None /\ next # None => todo = <<x, y>>
  BY Zenon, <1>1, <1>2, <1>p, SwitchTodoIs
<1> HIDE DEF x, y, todo
<1>13. /\ todo \in Seq(Item) /\ Ready(c, todo)'
       /\ \A g \in Groups : ~InTodo(todo, g) => g # prev /\ g # next
  <2>1. CASE prev = None
    <3>1. Fits(c, y)'
      BY Zenon, <1>7, <1>10, <1>11, <1>12, <2>1 DEF Fits
    <3> QED
      <4>1. todo = <<y>> /\ y \in Item
        BY <1>11, <1>12, <2>1
      <4>2. Ready(c, todo)'
        BY Zenon, <3>1, <4>1 DEF Ready
      <4> QED
        BY Zenon, <1>0, <1>11, <1>12, <2>1, <4>1, <4>2, Todos
  <2>2. CASE prev # None /\ next = None
    <3>1. Fits(c, x)'
      BY <1>7, <1>10, <1>11, <1>12, <2>2 DEF Fits
    <3> QED
      <4>1. todo = <<x>> /\ x \in Item
        BY <1>11, <1>12, <2>2
      <4>2. Ready(c, todo)'
        BY Zenon, <3>1, <4>1 DEF Ready
      <4> QED
        BY <1>0, <1>11, <1>12, <2>2, <4>1, <4>2, Todos
  <2>3. CASE prev # None /\ next # None
    <3>1. Both(c, x, y)'
      BY <1>7, <1>10, <1>11, <1>12, <2>3 DEF Both
    <3> QED
      <4>1. todo = <<x, y>> /\ x \in Item /\ y \in Item
        BY <1>11, <1>12, <2>3
      <4>2. Ready(c, todo)'
        BY Zenon, <3>1, <4>1 DEF Ready
      <4> QED
        BY <1>0, <1>11, <1>12, <2>3, <4>1, <4>2, Todos
  <2> QED
    BY <2>1, <2>2, <2>3
<1>14. /\ less \in SUBSET Groups /\ \A g \in Groups \ less : g # prev /\ g # next
  BY <1>0, <1>2
<1>15. Enter("switch", c, todo, less, {})
  BY <1>4 DEF todo
<1>16. \A g \in Groups : Waiters(c, g)' \in Int /\ Waiters(c, g) \in Int
  BY SMTT(30), <1>0, <1>7 DEF Waiters, KernelType
<1>17. (transit # NoTask => Alive(transit.group))'
  BY <1>0, <1>u DEF LifeInv, Alive
<1> HIDE DEF less
<1>18. /\ \A g \in Groups : ~InTodo(todo, g) => Waiters(c, g)' = Waiters(c, g)
       /\ \A g \in Groups \ less : Waiters(c, g)' >= Waiters(c, g)
       /\ \A g \in Groups \ (less \cup {}) : Waiters(c, g)' <= Waiters(c, g)
  BY <1>9, <1>13, <1>14, <1>16
<1> QED
  BY SMTT(30), <1>5, <1>7, <1>8, <1>13, <1>14, <1>15, <1>17, <1>18, <1>u, SchedulerStep

\* A task becomes runnable: no group has fewer waiting tasks than before.
LEMMA EnqueuedIs ==
    ASSUME IInv, NEW c \in CPUs, NEW g \in Groups, NEW runsOut \in BOOLEAN,
           Enqueued(c, g, runsOut), Alive(g), UNCHANGED <<life, curr>>
    PROVE  /\ nr' \in [CPUs -> [Groups -> Nat]] /\ throttled' \in [CPUs -> SUBSET Groups]
           /\ \A d \in CPUs \ {c} : QueueSame(d)
           /\ RunInv(c)' /\ nr'[c][g] >= 1
           /\ \A k \in Groups \ {g} : Waiters(c, k)' = Waiters(c, k)
           /\ Waiters(c, g)' >= Waiters(c, g)
<1>0. /\ nr \in [CPUs -> [Groups -> Nat]] /\ throttled \in [CPUs -> SUBSET Groups]
      /\ curr \in [CPUs -> Groups \cup {None}] /\ RunInv(c) /\ None \notin Groups
  BY Lifetimes DEF IInv, TypeInv, KernelType, CpuInv
<1>1. /\ runsOut => nr[c][g] = 0 /\ g \notin throttled[c]
      /\ nr' = [nr EXCEPT ![c][g] = @ + 1]
      /\ throttled' = [throttled EXCEPT ![c] = IF runsOut THEN @ \cup {g} ELSE @]
  BY Zenon DEF Enqueued
<1>2. /\ nr' \in [CPUs -> [Groups -> Nat]] /\ nr'[c][g] = nr[c][g] + 1
      /\ \A k \in Groups \ {g} : nr'[c][k] = nr[c][k]
      /\ \A d \in CPUs \ {c} : nr'[d] = nr[d]
  BY <1>0, <1>1
<1>3. /\ throttled' \in [CPUs -> SUBSET Groups]
      /\ throttled'[c] = IF runsOut THEN throttled[c] \cup {g} ELSE throttled[c]
      /\ \A d \in CPUs \ {c} : throttled'[d] = throttled[d]
  BY <1>0, <1>1
<1>4. \A d \in CPUs \ {c} : QueueSame(d)
  BY <1>2, <1>3 DEF QueueSame
<1>5. runsOut => curr[c] # g
  BY <1>0, <1>1 DEF RunInv
<1>6. RunInv(c)'
  BY <1>0, <1>2, <1>3, <1>5 DEF RunInv, Alive
<1>7. \A k \in Groups \ {g} : Waiters(c, k)' = Waiters(c, k)
  BY Zenon, <1>2, <1>3 DEF Waiters
<1>8. Waiters(c, g)' >= Waiters(c, g)
  BY <1>0, <1>1, <1>2, <1>3, <1>5 DEF Waiters
<1> QED
  BY <1>0, <1>2, <1>3, <1>4, <1>6, <1>7, <1>8

\* A hook with one group to look at.
LEMMA OneItem ==
    ASSUME NEW g \in Groups, NEW kind \in Kinds
    PROVE  LET x == [group |-> g, kind |-> kind] IN
           /\ x \in Item /\ x.group = g /\ x.kind = kind
           /\ <<x>> \in Seq(Item)
           /\ \A k : InTodo(<<x>>, k) <=> k = g
<1> DEFINE x == [group |-> g, kind |-> kind]
<1>1. x \in Item /\ x.group = g /\ x.kind = kind
  BY DEF Item
<1> QED
  BY Zenon, <1>1, Todos

\* A queue of one item is ready when its item fits the run queue.
LEMMA OneReady ==
    ASSUME NEW c, NEW x \in Item, Fits(c, x)'
    PROVE  Ready(c, <<x>>)'
BY Zenon DEF Ready

\* A step of the scheduler that concerns one group.
LEMMA GroupStep ==
    ASSUME IInv, NEW c \in CPUs, NEW h, NEW g \in Groups, NEW kind \in Kinds,
           NEW less \in SUBSET {g}, NEW more \in SUBSET {g}, Unlocked(c),
           Enter(h, c, <<[group |-> g, kind |-> kind]>>, less, more),
           UNCHANGED <<life, goVars, cache, recorded>>, KernelType', RunInv(c)',
           (transit # NoTask => Alive(transit.group))', Fits(c, [group |-> g, kind |-> kind])',
           \A d \in CPUs \ {c} : QueueSame(d),
           \A k \in Groups \ {g} : Waiters(c, k)' = Waiters(c, k),
           g \notin less => Waiters(c, g)' >= Waiters(c, g),
           g \notin less \cup more => Waiters(c, g)' <= Waiters(c, g)
    PROVE  IInv'
<1> DEFINE x == [group |-> g, kind |-> kind]
           todo == <<x>>
<1>1. x \in Item /\ todo \in Seq(Item) /\ \A k : InTodo(todo, k) <=> k = g
  BY OneItem
<1>2. Ready(c, todo)'
  <2>1. Fits(c, x)'
    OBVIOUS
  <2> HIDE DEF x
  <2> QED
    BY <1>1, <2>1, OneReady
<1>3. Enter(h, c, todo, less, more)
  OBVIOUS
<1> HIDE DEF todo, x
<1>4. \A k \in Groups : Waiters(c, k) \in Int /\ Waiters(c, k)' \in Int
  BY SMTT(30) DEF IInv, TypeInv, KernelType, Waiters
<1>5. /\ \A k \in Groups : ~InTodo(todo, k) => Waiters(c, k)' = Waiters(c, k)
      /\ \A k \in Groups \ less : Waiters(c, k)' >= Waiters(c, k)
      /\ \A k \in Groups \ (less \cup more) : Waiters(c, k)' <= Waiters(c, k)
  BY SMTT(30), <1>1, <1>4
<1>6. /\ less \in SUBSET Groups /\ more \in SUBSET Groups /\ recorded' \in [CPUs -> Nat]
      /\ UNCHANGED <<life, goVars, cache>>
  BY Zenon DEF IInv, TypeInv, HookType
<1> QED
  BY Zenon, <1>1, <1>2, <1>3, <1>5, <1>6, SchedulerStep

\* A task wakes up.
LEMMA WakeupKeeps ==
    ASSUME IInv, NEW c \in CPUs, NEW g \in Groups, Wakeup(c, g)
    PROVE  IInv'
<1> DEFINE less == {}
           more == {g}
<1>0. KernelType /\ LifeInv
  BY DEF IInv, TypeInv, SharedInv
<1>u. /\ Unlocked(c) /\ UNCHANGED <<life, goVars, cache, recorded>> /\ transit' = transit
      /\ curr' = curr /\ life' = life /\ Alive(g)
      /\ Enter("wakeup", c, <<[group |-> g, kind |-> "wakeup"]>>, less, more)
  BY DEF Wakeup, Alive
<1>1. PICK runsOut \in BOOLEAN : Enqueued(c, g, runsOut)
  BY DEF Wakeup
<1>2. /\ nr' \in [CPUs -> [Groups -> Nat]] /\ throttled' \in [CPUs -> SUBSET Groups]
      /\ \A d \in CPUs \ {c} : QueueSame(d)
      /\ RunInv(c)' /\ nr'[c][g] >= 1
      /\ \A k \in Groups \ {g} : Waiters(c, k)' = Waiters(c, k)
      /\ Waiters(c, g)' >= Waiters(c, g)
  BY <1>1, <1>u, EnqueuedIs
<1>3. KernelType'
  BY <1>0, <1>2, <1>u DEF KernelType
<1>4. Fits(c, [group |-> g, kind |-> "wakeup"])'
  BY Zenon, <1>2, <1>u DEF Fits, Alive
<1>5. (transit # NoTask => Alive(transit.group))'
  BY Zenon, <1>0, <1>u DEF LifeInv, Alive
<1>6. "wakeup" \in Kinds /\ less \in SUBSET {g} /\ more \in SUBSET {g} /\ g \in less \cup more
  BY DEF Kinds
<1> HIDE DEF less, more
<1> QED
  BY Zenon, <1>2, <1>3, <1>4, <1>5, <1>6, <1>u, GroupStep

\* The quota of a group is refilled.
LEMMA UnthrottleKeeps ==
    ASSUME IInv, NEW c \in CPUs, NEW g \in Groups, Unthrottle(c, g)
    PROVE  IInv'
<1> DEFINE less == {}
           more == {g}
<1>0. KernelType /\ LifeInv /\ RunInv(c) /\ None \notin Groups
  BY Lifetimes DEF IInv, TypeInv, SharedInv, CpuInv
<1>u. /\ Unlocked(c) /\ UNCHANGED <<life, goVars, cache, recorded>> /\ transit' = transit
      /\ curr' = curr /\ life' = life /\ nr' = nr
      /\ g \in throttled[c] /\ throttled' = [throttled EXCEPT ![c] = @ \ {g}]
      /\ Enter("unthrottle", c, <<[group |-> g, kind |-> "unthrottle"]>>, less, more)
  BY DEF Unthrottle
<1>1. /\ throttled' \in [CPUs -> SUBSET Groups] /\ throttled'[c] = throttled[c] \ {g}
      /\ \A d \in CPUs \ {c} : throttled'[d] = throttled[d]
  BY <1>0, <1>u DEF KernelType
<1>2. curr[c] # g /\ Alive(g)
  BY Zenon, <1>0, <1>u DEF RunInv
<1>3. KernelType' /\ \A d \in CPUs \ {c} : QueueSame(d)
  BY Zenon, <1>0, <1>1, <1>u DEF KernelType, QueueSame
<1>4. RunInv(c)'
  BY Zenon, <1>0, <1>1, <1>u DEF RunInv, Alive
<1>5. Fits(c, [group |-> g, kind |-> "unthrottle"])'
  BY Zenon, <1>1, <1>2, <1>u DEF Fits, Alive
<1>6. /\ \A k \in Groups \ {g} : Waiters(c, k)' = Waiters(c, k)
      /\ Waiters(c, g)' >= Waiters(c, g)
  BY SMTT(30), <1>0, <1>1, <1>2, <1>u DEF Waiters, KernelType
<1>7. (transit # NoTask => Alive(transit.group))'
  BY Zenon, <1>0, <1>u DEF LifeInv, Alive
<1>8. "unthrottle" \in Kinds /\ less \in SUBSET {g} /\ more \in SUBSET {g} /\ g \in less \cup more
  BY DEF Kinds
<1> HIDE DEF less, more
<1> QED
  BY Zenon, <1>3, <1>4, <1>5, <1>6, <1>7, <1>8, <1>u, GroupStep

\* A waiting task leaves for another CPU.
LEMMA MigrateKeeps ==
    ASSUME IInv, NEW c \in CPUs, NEW e \in CPUs, NEW g \in Groups, Migrate(c, e, g)
    PROVE  IInv'
<1> DEFINE less == {g}
           more == {}
<1>0. KernelType /\ RunInv(c) /\ None \notin Groups
  BY Lifetimes DEF IInv, TypeInv, CpuInv
<1>u. /\ Unlocked(c) /\ UNCHANGED <<life, goVars, cache, recorded>>
      /\ transit' = [group |-> g, to |-> e]
      /\ curr' = curr /\ life' = life /\ throttled' = throttled
      /\ nr[c][g] > (IF curr[c] = g THEN 1 ELSE 0)
      /\ nr' = [nr EXCEPT ![c][g] = @ - 1]
      /\ Enter("migrate", c, <<[group |-> g, kind |-> "migrate"]>>, less, more)
  BY Zenon DEF Migrate
<1>1. /\ nr' \in [CPUs -> [Groups -> Nat]] /\ nr'[c][g] = nr[c][g] - 1
      /\ \A k \in Groups \ {g} : nr'[c][k] = nr[c][k]
      /\ \A d \in CPUs \ {c} : nr'[d] = nr[d]
  BY SMTT(30), <1>0, <1>u DEF KernelType
<1>2. Alive(g) /\ transit'.group = g /\ transit'.to = e
  BY SMTT(30), <1>0, <1>u DEF RunInv, KernelType
<1>3. KernelType' /\ \A d \in CPUs \ {c} : QueueSame(d)
  BY Zenon, <1>0, <1>1, <1>2, <1>u DEF KernelType, QueueSame
<1>4. RunInv(c)'
  BY SMTT(30), <1>0, <1>1, <1>u DEF RunInv, Alive, KernelType
<1>5. Fits(c, [group |-> g, kind |-> "migrate"])'
  BY Zenon, <1>2, <1>u DEF Fits, Alive
<1>6. \A k \in Groups \ {g} : Waiters(c, k)' = Waiters(c, k)
  BY Zenon, <1>1, <1>u DEF Waiters
<1>7. (transit # NoTask => Alive(transit.group))'
  BY <1>2, <1>u DEF Alive
<1>8. "migrate" \in Kinds /\ less \in SUBSET {g} /\ more \in SUBSET {g} /\ g \in less
  BY DEF Kinds
<1> HIDE DEF less, more
<1> QED
  BY Zenon, <1>3, <1>4, <1>5, <1>6, <1>7, <1>8, <1>u, GroupStep

\* A change of the run queue of CPU c that no hook sees.
LEMMA UnseenStep ==
    ASSUME IInv, NEW c \in CPUs, NEW less \in SUBSET Groups, NEW more \in SUBSET Groups,
           Unlocked(c), UNCHANGED <<life, goVars, cache, recorded, hook, bits, bitsEpoch>>,
           exact' = [exact EXCEPT ![c] = @ \ (less \cup more)],
           doubt' = [doubt EXCEPT ![c] = @ \cup less], KernelType', RunInv(c)',
           (transit # NoTask => Alive(transit.group))',
           \A d \in CPUs \ {c} : QueueSame(d),
           \A g \in Groups \ less : Waiters(c, g)' >= Waiters(c, g),
           \A g \in Groups \ (less \cup more) : Waiters(c, g)' <= Waiters(c, g)
    PROVE  IInv'
<1>0. /\ life' = life /\ map' = map /\ epoch' = epoch /\ targets' = targets
      /\ publishing' = publishing /\ cache' = cache /\ hook' = hook /\ bits' = bits
      /\ bitsEpoch' = bitsEpoch /\ recorded' = recorded
      /\ KernelType /\ exact \in [CPUs -> SUBSET Groups] /\ doubt \in [CPUs -> SUBSET Groups]
  BY DEF goVars, IInv, TypeInv, HookType
<1>1. \A g \in Groups : Waiters(c, g) \in Int /\ Waiters(c, g)' \in Int
  BY SMTT(30), <1>0 DEF KernelType, Waiters
<1>2. /\ exact' \in [CPUs -> SUBSET Groups] /\ doubt' \in [CPUs -> SUBSET Groups]
      /\ exact'[c] = exact[c] \ (less \cup more) /\ doubt'[c] = doubt[c] \cup less
      /\ \A d \in CPUs \ {c} : exact'[d] = exact[d] /\ doubt'[d] = doubt[d]
  BY Zenon, <1>0
<1>3. Unseen(c, less, more)
  BY Zenon, <1>0, <1>2 DEF Unseen
<1>4. CpuInv(c)'
  BY Zenon, <1>1, <1>3, UnseenKeeps
<1>5. TypeInv'
  BY Zenon, <1>0, <1>2 DEF IInv, TypeInv, HookType, GoType
<1>6. CacheInv'
  BY Zenon, <1>0, CacheSame DEF IInv, SharedInv
<1>7. \A d \in CPUs \ {c} : Same(d)
  BY Zenon, <1>0, <1>2 DEF Same, QueueSame
<1> QED
  BY Zenon, <1>4, <1>5, <1>6, <1>7, CpuWise

\* A task arrives from another CPU.
LEMMA ArriveKeeps ==
    ASSUME IInv, Arrive
    PROVE  IInv'
<1>0. KernelType /\ LifeInv /\ doubt \in [CPUs -> SUBSET Groups]
  BY DEF IInv, TypeInv, HookType, SharedInv
<1>1. PICK c \in CPUs, g \in Groups : c = transit.to /\ g = transit.group
  BY <1>0 DEF Arrive, KernelType
<1> DEFINE less == {}
           more == {g}
<1>u. /\ Unlocked(c) /\ transit' = NoTask /\ curr' = curr /\ life' = life
      /\ UNCHANGED <<life, goVars, cache, recorded, hook, bits, bitsEpoch>>
      /\ exact' = [exact EXCEPT ![c] = @ \ {g}] /\ doubt' = doubt
  BY <1>1 DEF Arrive
<1>2. PICK runsOut \in BOOLEAN : Enqueued(c, g, runsOut)
  BY <1>1 DEF Arrive
<1>3. Alive(g)
  BY <1>0, <1>1 DEF LifeInv, Arrive
<1>4. /\ nr' \in [CPUs -> [Groups -> Nat]] /\ throttled' \in [CPUs -> SUBSET Groups]
      /\ \A d \in CPUs \ {c} : QueueSame(d)
      /\ RunInv(c)'
      /\ \A k \in Groups \ {g} : Waiters(c, k)' = Waiters(c, k)
      /\ Waiters(c, g)' >= Waiters(c, g)
  BY <1>2, <1>3, <1>u, EnqueuedIs
<1>5. KernelType'
  BY <1>0, <1>4, <1>u DEF KernelType
<1>6. /\ less \in SUBSET Groups /\ more \in SUBSET Groups
      /\ exact' = [exact EXCEPT ![c] = @ \ (less \cup more)]
  BY <1>u
<1>7. doubt' = [doubt EXCEPT ![c] = @ \cup less]
  BY <1>0, <1>u
<1>8. \A k \in Groups : Waiters(c, k) \in Int /\ Waiters(c, k)' \in Int
  BY <1>0, <1>5 DEF KernelType, Waiters
<1>9. /\ \A k \in Groups \ less : Waiters(c, k)' >= Waiters(c, k)
      /\ \A k \in Groups \ (less \cup more) : Waiters(c, k)' <= Waiters(c, k)
  BY <1>4, <1>8
<1> HIDE DEF less, more
<1> QED
  BY Zenon, <1>4, <1>5, <1>6, <1>7, <1>9, <1>u, UnseenStep

\* A task is moved to another group.
LEMMA MoveTaskKeeps ==
    ASSUME IInv, NEW c \in CPUs, NEW g \in Groups, NEW h \in Groups, MoveTask(c, g, h)
    PROVE  IInv'
<1> DEFINE less == {g}
           more == {h}
<1>0. KernelType /\ LifeInv /\ RunInv(c) /\ None \notin Groups
  BY Lifetimes DEF IInv, TypeInv, SharedInv, CpuInv
<1>u. /\ Unlocked(c) /\ transit' = transit /\ life' = life /\ throttled' = throttled
      /\ UNCHANGED <<life, goVars, cache, recorded, hook, bits, bitsEpoch>>
      /\ exact' = [exact EXCEPT ![c] = @ \ (less \cup more)]
      /\ doubt' = [doubt EXCEPT ![c] = @ \cup less]
      /\ g # h /\ Alive(h) /\ h \notin throttled[c]
      /\ nr' = [nr EXCEPT ![c][g] = @ - 1, ![c][h] = @ + 1]
  <2>1. {g, h} = less \cup more
    OBVIOUS
  <2> QED
    BY Zenon, <2>1 DEF MoveTask, Alive
<1>1. \/ curr[c] = g /\ curr' = [curr EXCEPT ![c] = h]
      \/ nr[c][g] > (IF curr[c] = g THEN 1 ELSE 0) /\ curr' = curr
  BY Zenon DEF MoveTask
<1>2. nr[c][g] >= 1 /\ (curr'[c] = g => nr[c][g] >= 2)
  BY SMTT(30), <1>0, <1>1, <1>u DEF KernelType, RunInv
<1>3. /\ curr' \in [CPUs -> Groups \cup {None}] /\ \A d \in CPUs \ {c} : curr'[d] = curr[d]
      /\ curr'[c] = curr[c] \/ (curr[c] = g /\ curr'[c] = h)
  BY <1>0, <1>1 DEF KernelType
<1>4. /\ nr' \in [CPUs -> [Groups -> Nat]] /\ nr'[c][g] = nr[c][g] - 1
      /\ nr'[c][h] = nr[c][h] + 1
      /\ \A k \in Groups \ {g, h} : nr'[c][k] = nr[c][k]
      /\ \A d \in CPUs \ {c} : nr'[d] = nr[d]
  <2>1. nr \in [CPUs -> [Groups -> Nat]]
    BY Zenon, <1>0 DEF KernelType
  <2>2. nr[c][g] >= 1
    BY Zenon, <1>2
  <2>3. g # h /\ nr' = [nr EXCEPT ![c][g] = @ - 1, ![c][h] = @ + 1]
    BY Zenon, <1>u
  <2> QED
    BY Zenon, <2>1, <2>2, <2>3, OneTaskMoves
<1>5. KernelType' /\ \A d \in CPUs \ {c} : QueueSame(d)
  BY Zenon, <1>0, <1>3, <1>4, <1>u DEF KernelType, QueueSame
<1>6. RunInv(c)'
  BY SMTT(30), <1>0, <1>2, <1>3, <1>4, <1>u DEF RunInv, Alive, KernelType
<1>7. (transit # NoTask => Alive(transit.group))'
  BY Zenon, <1>0, <1>u DEF LifeInv, Alive
<1>8. \A k \in Groups : Waiters(c, k) \in Int /\ Waiters(c, k)' \in Int
  BY <1>0, <1>5 DEF KernelType, Waiters
<1>9. \A k \in Groups \ {g, h} : Waiters(c, k)' = Waiters(c, k)
  BY Zenon, <1>3, <1>4, <1>u DEF Waiters
<1>10. Waiters(c, h)' >= Waiters(c, h)
  BY SMTT(30), <1>0, <1>3, <1>4, <1>u DEF Waiters, KernelType
<1>11. /\ \A k \in Groups \ less : Waiters(c, k)' >= Waiters(c, k)
       /\ \A k \in Groups \ (less \cup more) : Waiters(c, k)' <= Waiters(c, k)
       /\ less \in SUBSET Groups /\ more \in SUBSET Groups
  BY <1>8, <1>9, <1>10
<1> HIDE DEF less, more
<1> QED
  BY Zenon, <1>5, <1>6, <1>7, <1>11, <1>u, UnseenStep


-----------------------------------------------------------------------------
(* The hooks.                                                              *)

\* What a hook derives for a group is whether its tasks wait, if the kind of
\* the hook or a truthful record of the running group makes it sure.
LEMMA WantedIsRight ==
    ASSUME IInv, NEW c \in CPUs, NEW x \in Item, Fits(c, x),
           x.kind \in {"prev", "next", "unthrottle"} \/ Truthful(c)
    PROVE  Wanted(c, x.group, x.kind) <=> Waiters(c, x.group) >= 1
<1>0. /\ KernelType /\ LifeInv /\ RunInv(c) /\ None \notin Groups
      /\ Css \in [Groups -> Nat]
  BY Lifetimes DEF IInv, TypeInv, SharedInv, CpuInv
<1>1. PICK g \in Groups : g = x.group
  BY DEF Item
<1>2. nr[c][g] \in Nat /\ throttled[c] \in SUBSET Groups /\ curr[c] \in Groups \cup {None}
  BY SMTT(30), <1>0 DEF KernelType
<1>3. CASE x.kind = "prev"
  BY <1>1, <1>2, <1>3 DEF Wanted, PrevWaits, Waiters, Fits
<1>4. CASE x.kind = "next"
  BY <1>0, <1>1, <1>2, <1>4 DEF Wanted, NextWaits, Waiters, Fits, RunInv
<1>5. CASE x.kind = "unthrottle"
  BY <1>1, <1>2, <1>5 DEF Wanted, Waiters, Fits
<1>6. CASE x.kind \in {"wakeup", "migrate"} /\ Truthful(c)
  <2>1. curr[c] # None => Alive(curr[c]) /\ nr[c][curr[c]] >= 1 /\ curr[c] \notin throttled[c]
    BY Zenon, <1>0, <1>2 DEF RunInv
  <2>2. Alive(g)
    BY <1>1 DEF Fits
  <2>3. curr[c] # None /\ Css[curr[c]] = Css[g] => curr[c] = g
    BY Zenon, <1>0, <1>2, <2>1, <2>2 DEF LifeInv
  <2>4. recorded[c] = Css[g] + 1 <=> curr[c] = g
    <3>1. CASE curr[c] = None
      BY SMTT(30), <1>0, <1>1, <1>6, <3>1 DEF Truthful
    <3>2. CASE curr[c] # None
      BY SMTT(30), <1>0, <1>1, <1>2, <1>6, <2>3, <3>2 DEF Truthful
    <3> QED
      BY Zenon, <3>1, <3>2
  <2>5. Wanted(c, g, x.kind) <=> Counted(c, g) # 0 /\ g \notin throttled[c]
    BY <1>6 DEF Wanted
  <2>6. curr[c] = g => nr[c][g] >= 1
    BY Zenon, <1>0, <2>1
  <2>7. Counted(c, g) # 0 /\ g \notin throttled[c] <=> Waiters(c, g) >= 1
    BY SMTT(30), <1>2, <2>4, <2>6 DEF Counted, Waiters
  <2> QED
    BY Zenon, <1>1, <2>5, <2>7
<1> QED
  BY <1>3, <1>4, <1>5, <1>6 DEF Item, Kinds

\* What set_waiting does with the bit of the group it was called for.
SetFor(c, dense, x) ==
    /\ hook'[c].todo = Tail(hook[c].todo) /\ hook'[c].epoch = hook[c].epoch /\ ~hook'[c].miss
    /\ \A d \in DenseIds \ {dense} : d \in bits'[c] <=> d \in bits[c]
    /\ \A g \in Groups \ {x.group} : /\ g \in exact'[c] <=> g \in exact[c]
                                     /\ g \in doubt'[c] <=> g \in doubt[c]
    /\ IF x.kind \in {"prev", "next", "unthrottle"} \/ Truthful(c)
       THEN dense \in DenseIds => (dense \in bits'[c] <=> Wanted(c, x.group, x.kind))
       ELSE x.group \in doubt'[c] /\ x.group \notin exact'[c]

\* set_waiting takes one item off the hook's queue and changes at most the bit of
\* its group, on its own CPU.
LEMMA SetWaitingIs ==
    ASSUME IInv, NEW c \in CPUs, NEW dense \in Dense, NEW x \in Item, hook[c].todo[1] = x,
           ~Unlocked(c), x.kind = "wakeup" => nr[c][x.group] >= 1, SetWaiting(c, dense)
    PROVE  /\ hook' \in [CPUs -> HookSet] /\ bits' \in [CPUs -> SUBSET DenseIds]
           /\ exact' \in [CPUs -> SUBSET Groups] /\ doubt' \in [CPUs -> SUBSET Groups]
           /\ \A d \in CPUs \ {c} :
                /\ hook'[d] = hook[d] /\ bits'[d] = bits[d]
                /\ exact'[d] = exact[d] /\ doubt'[d] = doubt[d]
           /\ SetFor(c, dense, x)
<1> DEFINE sure == x.kind \in {"prev", "next", "unthrottle"} \/ Truthful(c)
           applies == Applies(c, x.group, x.kind, dense)
           wanted == Wanted(c, x.group, x.kind)
           new == [NoHook EXCEPT !.todo = Tail(hook[c].todo), !.epoch = hook[c].epoch]
<1>0. /\ hook \in [CPUs -> HookSet] /\ bits \in [CPUs -> SUBSET DenseIds]
      /\ exact \in [CPUs -> SUBSET Groups] /\ doubt \in [CPUs -> SUBSET Groups]
      /\ KernelType /\ NonTarget \notin DenseIds
  BY Zenon, Lifetimes DEF IInv, TypeInv, HookType
<1>1. x.group \in Groups /\ nr[c][x.group] \in Nat
  BY SMTT(30), <1>0 DEF Item, KernelType
<1>2. /\ bits' = [bits EXCEPT ![c] = IF ~applies THEN @
                                    ELSE IF wanted THEN @ \cup {dense} ELSE @ \ {dense}]
      /\ exact' = [exact EXCEPT ![c] = IF sure THEN @ \cup {x.group} ELSE @ \ {x.group}]
      /\ doubt' = [doubt EXCEPT ![c] = IF sure THEN @ \ {x.group} ELSE @ \cup {x.group}]
      /\ hook' = [hook EXCEPT ![c] = new]
  <2>1. bits' = [bits EXCEPT ![c] = IF ~applies THEN @
                                   ELSE IF wanted THEN @ \cup {dense} ELSE @ \ {dense}]
    BY DEF SetWaiting
  <2>2. exact' = [exact EXCEPT ![c] = IF sure THEN @ \cup {x.group} ELSE @ \ {x.group}]
    BY DEF SetWaiting
  <2>3. doubt' = [doubt EXCEPT ![c] = IF sure THEN @ \ {x.group} ELSE @ \cup {x.group}]
    BY DEF SetWaiting
  <2>4. hook' = [hook EXCEPT ![c] = new]
    BY DEF SetWaiting
  <2> QED
    BY <2>1, <2>2, <2>3, <2>4
<1>3. dense \in DenseIds => applies
  BY SMTT(30), <1>0, <1>1 DEF Applies
<1>4. dense \notin DenseIds => ~applies
  BY Zenon DEF Applies, Dense
<1>5. hook[c].todo \in Seq(Item) /\ hook[c].todo # <<>> /\ hook[c] \in HookSet
  BY Zenon, <1>0 DEF HookSet, Unlocked
<1>6. Tail(hook[c].todo) \in Seq(Item)
  BY SMTT(30), <1>5
<1>7. new \in HookSet
  <2>1. hook[c].epoch \in Nat
    BY Zenon, <1>5 DEF HookSet
  <2> QED
    BY Zenon, <1>6, <2>1 DEF HookSet, Dense, NoHook
<1>8. new.todo = Tail(hook[c].todo) /\ new.epoch = hook[c].epoch /\ ~new.miss
  BY DEF NoHook
<1> HIDE DEF new, sure, applies, wanted
<1>9. hook' \in [CPUs -> HookSet] /\ hook'[c] = new /\ \A d \in CPUs \ {c} : hook'[d] = hook[d]
  BY Zenon, <1>0, <1>2, <1>7
<1>10. /\ bits' \in [CPUs -> SUBSET DenseIds] /\ \A d \in CPUs \ {c} : bits'[d] = bits[d]
       /\ bits'[c] = IF ~applies THEN bits[c]
                     ELSE IF wanted THEN bits[c] \cup {dense} ELSE bits[c] \ {dense}
  BY Zenon, <1>0, <1>2, <1>4
<1>11. /\ exact' \in [CPUs -> SUBSET Groups] /\ doubt' \in [CPUs -> SUBSET Groups]
       /\ \A d \in CPUs \ {c} : exact'[d] = exact[d] /\ doubt'[d] = doubt[d]
       /\ exact'[c] = IF sure THEN exact[c] \cup {x.group} ELSE exact[c] \ {x.group}
       /\ doubt'[c] = IF sure THEN doubt[c] \ {x.group} ELSE doubt[c] \cup {x.group}
  BY Zenon, <1>0, <1>1, <1>2
<1>12. \A d \in DenseIds \ {dense} : d \in bits'[c] <=> d \in bits[c]
  BY Zenon, <1>10
<1>13. dense \in DenseIds => (dense \in bits'[c] <=> wanted)
  BY Zenon, <1>3, <1>10
<1>14. /\ \A g \in Groups \ {x.group} : /\ g \in exact'[c] <=> g \in exact[c]
                                        /\ g \in doubt'[c] <=> g \in doubt[c]
       /\ ~sure => x.group \in doubt'[c] /\ x.group \notin exact'[c]
  BY Zenon, <1>11
<1>15. SetFor(c, dense, x)
  BY Zenon, <1>8, <1>9, <1>12, <1>13, <1>14 DEF SetFor, sure, wanted
<1> QED
  BY Zenon, <1>9, <1>10, <1>11, <1>15


\* set_waiting, with a dense id that stands for the group of the hook, leaves a
\* bitmap that is right for the groups that are not to be derived again.
LEMMA SetWaitingKeeps ==
    ASSUME IInv, NEW c \in CPUs, NEW dense \in Dense, ~Unlocked(c), SetWaiting(c, dense),
           Settled /\ hook[c].epoch = epoch => StandsFor(dense, hook[c].todo[1].group),
           cache' \in [CssIds -> Entry], CacheInv',
           UNCHANGED <<kernelVars, goVars, recorded, bitsEpoch>>
    PROVE  IInv'
<1>0. /\ life' = life /\ nr' = nr /\ curr' = curr /\ throttled' = throttled /\ transit' = transit
      /\ map' = map /\ epoch' = epoch /\ targets' = targets /\ publishing' = publishing
      /\ recorded' = recorded /\ bitsEpoch' = bitsEpoch
  BY Zenon DEF kernelVars, goVars
<1>1. RunInv(c) /\ TodoInv(c) /\ EpochInv(c) /\ BitInv(c) /\ targets \in Selections
  BY Zenon DEF IInv, CpuInv, TypeInv, GoType
<1>2. PICK x \in Item : /\ hook[c].todo[1] = x /\ Alive(x.group)
                        /\ \/ hook[c].todo = <<x>> /\ Fits(c, x)
                           \/ \E y \in Item : hook[c].todo = <<x, y>> /\ Both(c, x, y)
  <2>1. CASE \E x \in Item : hook[c].todo = <<x>> /\ Fits(c, x)
    <3>1. PICK x \in Item : hook[c].todo = <<x>> /\ Fits(c, x)
      BY Zenon, <2>1
    <3> QED
      BY Zenon, <3>1, QueueOfOne DEF Fits
  <2>2. CASE \E x, y \in Item : hook[c].todo = <<x, y>> /\ Both(c, x, y)
    <3>1. PICK x \in Item, y \in Item : hook[c].todo = <<x, y>> /\ Both(c, x, y)
      BY Zenon, <2>2
    <3> QED
      BY ZenonT(30), <3>1, QueueOfTwo DEF Both
  <2> QED
    BY Zenon, <1>1, <2>1, <2>2 DEF TodoInv, Ready, Unlocked
<1>3. x.kind = "wakeup" => nr[c][x.group] >= 1
  BY Zenon, <1>2 DEF Fits, Both
<1>4. /\ hook' \in [CPUs -> HookSet] /\ bits' \in [CPUs -> SUBSET DenseIds]
      /\ exact' \in [CPUs -> SUBSET Groups] /\ doubt' \in [CPUs -> SUBSET Groups]
      /\ \A d \in CPUs \ {c} : /\ hook'[d] = hook[d] /\ bits'[d] = bits[d]
                               /\ exact'[d] = exact[d] /\ doubt'[d] = doubt[d]
      /\ SetFor(c, dense, x)
  BY Zenon, <1>2, <1>3, SetWaitingIs
<1>5. hook'[c].todo = Tail(hook[c].todo) /\ hook'[c].epoch = hook[c].epoch /\ ~hook'[c].miss
  BY Zenon, <1>4 DEF SetFor
<1>s. ASSUME NEW y \in Item, hook[c].todo = <<x, y>>
      PROVE  hook'[c].todo = <<y>>
  BY SMTT(30), <1>5, <1>s, QueueOfTwo
<1>t. ASSUME NEW y \in Item, hook[c].todo = <<x, y>>, NEW k
      PROVE  InTodo(hook[c].todo, k) <=> x.group = k \/ y.group = k
  BY SMTT(30), <1>t, InQueueOfTwo
<1>6. TypeInv'
  BY Zenon, <1>0, <1>4 DEF IInv, TypeInv, KernelType, HookType, GoType
<1>7. \A d \in CPUs \ {c} : Same(d)
  BY Zenon, <1>0, <1>4 DEF Same
<1>8. RunInv(c)'
  BY Zenon, <1>0, <1>1 DEF RunInv, Alive
<1>9. TodoInv(c)'
  <2>1. CASE hook[c].todo = <<x>>
    BY Zenon, <1>5, <2>1, QueueOfOne DEF TodoInv, Ready
  <2>2. CASE \E y \in Item : hook[c].todo = <<x, y>> /\ Both(c, x, y)
    <3>1. PICK y \in Item : hook[c].todo = <<x, y>> /\ Both(c, x, y)
      BY Zenon, <2>2
    <3>2. hook'[c].todo = <<y>>
      BY Zenon, <1>s, <3>1
    <3>3. Fits(c, y)'
      BY Zenon, <1>0, <3>1 DEF Fits, Both, Alive
    <3> QED
      BY Zenon, <3>2, <3>3 DEF TodoInv, Ready
  <2> QED
    BY Zenon, <1>2, <2>1, <2>2
<1>10. EpochInv(c)'
  BY Zenon, <1>0, <1>1, <1>5 DEF EpochInv, Unlocked
<1>11. ASSUME Settled, bitsEpoch[c] = epoch, NEW d \in DenseIds, Serves(d),
              ~InTodo(hook'[c].todo, targets[d])
       PROVE  BitRight(c, d, targets[d])'
  <2>1. PICK g \in Groups : g = targets[d] /\ ~InTodo(hook'[c].todo, g)
    BY Zenon, <1>1, <1>11 DEF Serves, Selections
  <2>2. StandsFor(dense, x.group)
    BY Zenon, <1>1, <1>2, <1>11 DEF EpochInv
  <2>3. dense = d <=> g = x.group
    BY Zenon, <1>11, <2>1, <2>2 DEF StandsFor
  <2>w. Waiters(c, g)' = Waiters(c, g)
    BY Zenon, <1>0 DEF Waiters
  <2>4. CASE g = x.group
    <3>1. Fits(c, x)
      <4>1. CASE \E y \in Item : hook[c].todo = <<x, y>> /\ Both(c, x, y)
        <5>1. PICK y \in Item : hook[c].todo = <<x, y>> /\ Both(c, x, y)
          BY Zenon, <4>1
        <5>2. hook'[c].todo = <<y>>
          BY Zenon, <1>s, <5>1
        <5>3. y.group # x.group
          BY Zenon, <2>1, <2>4, <5>2, InQueueOfOne
        <5> QED
          BY Zenon, <5>1, <5>3 DEF Fits, Both
      <4> QED
        BY Zenon, <1>2, <4>1
    <3>2. CASE x.kind \in {"prev", "next", "unthrottle"} \/ Truthful(c)
      <4>1. Wanted(c, x.group, x.kind) <=> Waiters(c, x.group) >= 1
        BY Zenon, <3>1, <3>2, WantedIsRight
      <4>2. d \in bits'[c] <=> Waiters(c, g) >= 1
        BY Zenon, <1>4, <2>3, <2>4, <3>2, <4>1 DEF SetFor
      <4> QED
        BY Zenon, <2>1, <2>w, <1>0, <4>2 DEF BitRight
    <3>3. CASE ~(x.kind \in {"prev", "next", "unthrottle"} \/ Truthful(c))
      <4>1. g \in doubt'[c] /\ g \notin exact'[c]
        BY Zenon, <1>4, <2>4, <3>3 DEF SetFor
      <4> QED
        BY Zenon, <1>0, <2>1, <4>1 DEF BitRight
    <3> QED
      BY Zenon, <3>2, <3>3
  <2>5. CASE g # x.group
    <3>1. ~InTodo(hook[c].todo, g)
      <4>1. CASE hook[c].todo = <<x>>
        BY Zenon, <2>5, <4>1, InQueueOfOne
      <4>2. CASE \E y \in Item : hook[c].todo = <<x, y>>
        <5>1. PICK y \in Item : hook[c].todo = <<x, y>>
          BY Zenon, <4>2
        <5>2. hook'[c].todo = <<y>>
          BY Zenon, <1>s, <5>1
        <5>3. y.group # g
          BY Zenon, <2>1, <5>2, InQueueOfOne
        <5> QED
          BY Zenon, <1>t, <2>5, <5>1, <5>3
      <4> QED
        BY Zenon, <1>2, <4>1, <4>2
    <3>2. BitRight(c, d, g)
      BY Zenon, <1>1, <1>11, <2>1, <3>1 DEF BitInv
    <3>3. /\ d \in bits'[c] <=> d \in bits[c]
          /\ g \in exact'[c] <=> g \in exact[c]
          /\ g \in doubt'[c] <=> g \in doubt[c]
      BY Zenon, <1>4, <2>3, <2>5 DEF SetFor
    <3>4. BitRight(c, d, g)'
      BY Zenon, <2>w, <3>2, <3>3 DEF BitRight
    <3> QED
      BY Zenon, <1>0, <2>1, <3>4 DEF BitRight
  <2> QED
    BY Zenon, <2>4, <2>5
<1>12. BitInv(c)'
  BY Zenon, <1>0, <1>11 DEF BitInv, Settled, Serves, Alive
<1>13. CpuInv(c)'
  BY Zenon, <1>8, <1>9, <1>10, <1>12 DEF CpuInv
<1>14. (transit # NoTask => Alive(transit.group))'
  BY Zenon, <1>0 DEF IInv, SharedInv, LifeInv, Alive
<1> QED
  BY Zenon, <1>0, <1>6, <1>7, <1>13, <1>14, CpuWise DEF goVars


\* In a settled epoch the map gives the dense id that stands for a group.
LEMMA MapStandsFor ==
    ASSUME IInv, Settled, NEW g \in Groups, Alive(g)
    PROVE  /\ StandsFor(map[Addr[g]], g)
           /\ \A d \in DenseIds : Serves(d) => (map[Addr[g]] = d <=> Css[targets[d]] = Css[g])
<1>0. /\ LifeInv /\ KeysOf(targets) /\ targets \in Selections
      /\ \A d \in DenseIds : targets[d] # None => map[Addr[targets[d]]] = d
      /\ NonTarget \notin DenseIds
  BY Zenon, Lifetimes DEF IInv, SharedInv, PublishInv, TypeInv, GoType
<1>1. Addr[g] \in Addrs
  BY Zenon DEF Addrs
<1>2. ASSUME NEW d \in DenseIds, Serves(d)
      PROVE  /\ map[Addr[g]] = d <=> targets[d] = g
             /\ Css[targets[d]] = Css[g] <=> targets[d] = g
  <2>1. PICK t \in Groups : t = targets[d] /\ Alive(t)
    BY Zenon, <1>0, <1>2 DEF Serves, Selections
  <2>2. Css[t] = Css[g] \/ Addr[t] = Addr[g] => t = g
    BY Zenon, <1>0, <2>1 DEF LifeInv
  <2>3. map[Addr[g]] = d => t = g
    BY Zenon, <1>0, <1>1, <2>1, <2>2 DEF KeysOf
  <2>4. t = g => map[Addr[g]] = d
    BY Zenon, <1>0, <1>2, <2>1 DEF Serves
  <2> QED
    BY Zenon, <2>1, <2>2, <2>3, <2>4
<1> QED
  BY Zenon, <1>2 DEF StandsFor

\* The group that a hook looks at.
LEMMA HookGroup ==
    ASSUME IInv, NEW c \in CPUs, ~Unlocked(c)
    PROVE  \E g \in Groups : /\ g = hook[c].todo[1].group /\ Alive(g) /\ Css[g] \in CssIds
                             /\ Addr[g] \in Addrs
<1>1. TodoInv(c)
  BY DEF IInv, CpuInv
<1>2. CASE \E x \in Item : hook[c].todo = <<x>> /\ Fits(c, x)
  <2>1. PICK x \in Item : hook[c].todo = <<x>> /\ Fits(c, x)
    BY Zenon, <1>2
  <2>2. x.group \in Groups /\ Css[x.group] \in CssIds /\ Addr[x.group] \in Addrs
    BY SMTT(30) DEF Item, CssIds, Addrs
  <2> QED
    BY Zenon, <2>1, <2>2, QueueOfOne DEF Fits
<1>3. CASE \E x, y \in Item : hook[c].todo = <<x, y>> /\ Both(c, x, y)
  <2>1. PICK x \in Item, y \in Item : hook[c].todo = <<x, y>> /\ Both(c, x, y)
    BY Zenon, <1>3
  <2>2. x.group \in Groups /\ Css[x.group] \in CssIds /\ Addr[x.group] \in Addrs
    BY SMTT(30) DEF Item, CssIds, Addrs
  <2> QED
    BY ZenonT(30), <2>1, <2>2, QueueOfTwo DEF Both
<1> QED
  BY Zenon, <1>1, <1>2, <1>3 DEF TodoInv, Ready, Unlocked

\* A hook classifies the group of its task.
LEMMA ResolveKeeps ==
    ASSUME IInv, NEW c \in CPUs, Resolve(c)
    PROVE  IInv'
<1>0. /\ life' = life /\ nr' = nr /\ curr' = curr /\ throttled' = throttled /\ transit' = transit
      /\ map' = map /\ epoch' = epoch /\ targets' = targets /\ publishing' = publishing
      /\ recorded' = recorded /\ bitsEpoch' = bitsEpoch /\ cache' = cache
      /\ ~Unlocked(c) /\ ~hook[c].miss
      /\ UNCHANGED <<kernelVars, goVars, recorded, bitsEpoch>>
  BY Zenon DEF Resolve, kernelVars, goVars
<1>1. /\ hook \in [CPUs -> HookSet] /\ cache \in [CssIds -> Entry] /\ CacheInv
      /\ map \in [Addrs -> Dense] /\ targets \in Selections
  BY DEF IInv, TypeInv, HookType, GoType, SharedInv
<1>2. PICK g \in Groups : /\ g = hook[c].todo[1].group /\ Alive(g) /\ Css[g] \in CssIds
                          /\ Addr[g] \in Addrs
  BY Zenon, <1>0, HookGroup
<1>3. CacheInv'
  BY Zenon, <1>0, CacheSame DEF IInv, SharedInv, goVars
<1>4. CASE Cached(c, g)
  <2>1. SetWaiting(c, cache[Css[g]].dense)
    BY Zenon, <1>2, <1>4 DEF Resolve
  <2>2. cache[Css[g]].dense \in Dense
    BY Zenon, <1>1, <1>2 DEF Entry
  <2>3. ASSUME Settled, hook[c].epoch = epoch
        PROVE  StandsFor(cache[Css[g]].dense, g)
    <3>1. \A d \in DenseIds : Serves(d) => (cache[Css[g]].dense = d <=> Css[targets[d]] = Css[g])
      BY Zenon, <1>1, <1>2, <1>4, <2>3 DEF CacheInv, Cached
    <3>2. \A d \in DenseIds : Serves(d) => (Css[targets[d]] = Css[g] <=> targets[d] = g)
      BY SMTT(30), <1>2, <2>3, MapStandsFor DEF StandsFor
    <3> QED
      BY Zenon, <3>1, <3>2 DEF StandsFor
  <2> QED
    BY Zenon, <1>0, <1>1, <1>2, <1>3, <2>1, <2>2, <2>3, SetWaitingKeeps
<1>5. CASE ~Cached(c, g)
  <2>1. /\ hook' = [hook EXCEPT ![c].miss = TRUE, ![c].found = map[Addr[g]]]
        /\ bits' = bits /\ exact' = exact /\ doubt' = doubt
    BY Zenon, <1>2, <1>5 DEF Resolve
  <2>2. map[Addr[g]] \in Dense
    BY Zenon, <1>1, <1>2
  <2>3. /\ hook'[c].todo = hook[c].todo /\ hook'[c].epoch = hook[c].epoch
        /\ hook'[c].found = map[Addr[g]]
        /\ \A d \in CPUs \ {c} : hook'[d] = hook[d]
    BY <1>1, <2>1 DEF HookSet
  <2>4. hook' \in [CPUs -> HookSet]
    <3> DEFINE new == [[hook[c] EXCEPT !.miss = TRUE] EXCEPT !.found = map[Addr[g]]]
    <3>1. hook[c] \in HookSet
      BY <1>1
    <3>2. new \in HookSet
      BY Zenon, <2>2, <3>1 DEF HookSet
    <3>3. hook' = [hook EXCEPT ![c] = new]
      BY Zenon, <1>1, <2>1
    <3> HIDE DEF new
    <3> QED
      BY <1>1, <3>2, <3>3
  <2>5. TypeInv'
    BY Zenon, <1>0, <2>1, <2>4 DEF IInv, TypeInv, KernelType, HookType, GoType
  <2>6. \A d \in CPUs \ {c} : Same(d)
    BY Zenon, <1>0, <2>1, <2>3 DEF Same
  <2>7. RunInv(c) /\ TodoInv(c) /\ EpochInv(c) /\ BitInv(c)
    BY DEF IInv, CpuInv
  <2>8. RunInv(c)'
    BY Zenon, <1>0, <2>7 DEF RunInv, Alive
  <2>9. TodoInv(c)'
    BY Zenon, <1>0, <2>3, <2>7 DEF TodoInv, Ready, Fits, Both, Alive
  <2>10. EpochInv(c)'
    BY Zenon, <1>0, <1>2, <2>3, <2>7 DEF EpochInv, Unlocked
  <2>11. BitInv(c)'
    BY Zenon, <1>0, <2>1, <2>3, <2>7 DEF BitInv, BitRight, Waiters, Settled, Serves, Alive
  <2>12. CpuInv(c)'
    BY <2>8, <2>9, <2>10, <2>11 DEF CpuInv
  <2>13. (transit # NoTask => Alive(transit.group))'
    BY Zenon, <1>0 DEF IInv, SharedInv, LifeInv, Alive
  <2> QED
    BY Zenon, <1>0, <1>3, <2>5, <2>6, <2>12, <2>13, CpuWise DEF goVars
<1> QED
  BY <1>4, <1>5

\* A hook stores what it has found and goes on.
LEMMA RememberKeeps ==
    ASSUME IInv, NEW c \in CPUs, Remember(c)
    PROVE  IInv'
<1>0. /\ life' = life /\ map' = map /\ epoch' = epoch /\ targets' = targets
      /\ publishing' = publishing /\ ~Unlocked(c) /\ hook[c].miss
      /\ UNCHANGED <<kernelVars, goVars, recorded, bitsEpoch>>
      /\ SetWaiting(c, hook[c].found)
  BY Zenon DEF Remember, kernelVars, goVars
<1>1. /\ hook[c] \in HookSet /\ cache \in [CssIds -> Entry] /\ CacheInv /\ EpochInv(c)
      /\ epoch \in Nat
  BY Zenon DEF IInv, TypeInv, HookType, GoType, SharedInv, CpuInv
<1>2. hook[c].found \in Dense /\ hook[c].epoch \in Nat /\ hook[c].epoch <= epoch
  BY Zenon, <1>1 DEF HookSet, EpochInv
<1>3. PICK g \in Groups : /\ g = hook[c].todo[1].group /\ Alive(g) /\ Css[g] \in CssIds
                          /\ Addr[g] \in Addrs
  BY Zenon, <1>0, HookGroup
<1> DEFINE new == [epoch |-> hook[c].epoch, dense |-> hook[c].found]
<1>4. cache' = [cache EXCEPT ![Css[g]] = new]
  BY Zenon, <1>3 DEF Remember
<1>5. new \in Entry /\ new.epoch = hook[c].epoch /\ new.dense = hook[c].found
  BY Zenon, <1>2 DEF Entry
<1> HIDE DEF new
<1>6. /\ cache' \in [CssIds -> Entry] /\ cache'[Css[g]] = new
      /\ \A i \in CssIds \ {Css[g]} : cache'[i] = cache[i]
  BY Zenon, <1>1, <1>3, <1>4, <1>5
<1>7. ASSUME Settled, hook[c].epoch = epoch
      PROVE  /\ StandsFor(hook[c].found, g)
             /\ \A d \in DenseIds : Serves(d) => (hook[c].found = d <=> Css[targets[d]] = Css[g])
  <2>1. hook[c].found = map[Addr[g]]
    BY Zenon, <1>0, <1>1, <1>3, <1>7 DEF EpochInv
  <2>2. /\ StandsFor(map[Addr[g]], g)
        /\ \A d \in DenseIds : Serves(d) => (map[Addr[g]] = d <=> Css[targets[d]] = Css[g])
    BY Zenon, <1>3, <1>7, MapStandsFor
  <2> QED
    BY Zenon, <2>1, <2>2
<1>8. CacheInv'
  <2>1. \A i \in CssIds : cache'[i].epoch <= epoch
    BY Zenon, <1>1, <1>2, <1>5, <1>6 DEF CacheInv
  <2>2. ASSUME Settled, NEW i \in CssIds, cache'[i].epoch = epoch, NEW d \in DenseIds, Serves(d)
        PROVE  cache'[i].dense = d <=> Css[targets[d]] = i
    <3>1. CASE i = Css[g]
      BY Zenon, <1>5, <1>6, <1>7, <2>2, <3>1
    <3>2. CASE i # Css[g]
      <4>1. cache'[i] = cache[i]
        BY Zenon, <1>6, <2>2, <3>2
      <4> QED
        BY SMTT(30), <1>1, <2>2, <4>1 DEF CacheInv
    <3> QED
      BY Zenon, <3>1, <3>2
  <2> QED
    BY Zenon, <1>0, <2>1, <2>2 DEF CacheInv, Settled, Serves, Alive
<1> QED
  BY Zenon, <1>0, <1>2, <1>3, <1>6, <1>7, <1>8, SetWaitingKeeps


-----------------------------------------------------------------------------
(* User space, and the lifetimes of groups.                                *)

\* A publication takes a step: until it is finished nothing is said of the
\* bitmaps and the cache, and then they are all of an earlier epoch.
LEMMA GoStep ==
    ASSUME IInv, UNCHANGED <<kernelVars, hook, recorded, bits, bitsEpoch, cache, exact, doubt>>,
           GoType', PublishInv', epoch' >= epoch, Settled' => epoch' > epoch
    PROVE  IInv'
<1>0. /\ life' = life /\ nr' = nr /\ curr' = curr /\ throttled' = throttled /\ transit' = transit
      /\ hook' = hook /\ recorded' = recorded /\ bits' = bits /\ bitsEpoch' = bitsEpoch
      /\ cache' = cache /\ exact' = exact /\ doubt' = doubt
  BY DEF kernelVars
<1>1. /\ hook \in [CPUs -> HookSet] /\ bitsEpoch \in [CPUs -> Nat] /\ cache \in [CssIds -> Entry]
      /\ epoch \in Nat /\ epoch' \in Nat /\ CacheInv
  BY Zenon DEF IInv, TypeInv, HookType, GoType, SharedInv
<1>2. TypeInv' /\ LifeInv'
  BY Zenon, <1>0 DEF IInv, TypeInv, KernelType, HookType, SharedInv, LifeInv, Alive
<1>3. CacheInv'
  <2>1. \A i \in CssIds : cache[i].epoch \in Nat /\ cache[i].epoch <= epoch
    BY Zenon, <1>1 DEF Entry, CacheInv
  <2>2. \A i \in CssIds : cache'[i].epoch <= epoch' /\ (Settled' => cache'[i].epoch # epoch')
    BY SMTT(30), <1>0, <1>1, <2>1
  <2> QED
    BY Zenon, <2>2 DEF CacheInv
<1>4. ASSUME NEW c \in CPUs
      PROVE  CpuInv(c)'
  <2>1. RunInv(c) /\ TodoInv(c) /\ EpochInv(c)
    BY DEF IInv, CpuInv
  <2>2. RunInv(c)'
    BY Zenon, <1>0, <2>1 DEF RunInv, Alive
  <2>3. TodoInv(c)'
    BY Zenon, <1>0, <2>1 DEF TodoInv, Ready, Fits, Both, Alive
  <2>4. /\ hook[c].epoch \in Nat /\ hook[c].epoch <= epoch
        /\ bitsEpoch[c] \in Nat /\ bitsEpoch[c] <= epoch
    BY Zenon, <1>1, <2>1 DEF EpochInv, HookSet
  <2>5. /\ hook[c].epoch <= epoch' /\ (Settled' => hook[c].epoch # epoch')
        /\ bitsEpoch[c] <= epoch' /\ (Settled' => bitsEpoch[c] # epoch')
    BY SMTT(30), <1>1, <2>4
  <2>6. EpochInv(c)'
    BY Zenon, <1>0, <2>1, <2>5 DEF EpochInv, Unlocked
  <2>7. BitInv(c)'
    BY Zenon, <1>0, <2>5 DEF BitInv
  <2> QED
    BY <2>2, <2>3, <2>6, <2>7 DEF CpuInv
<1> QED
  BY <1>2, <1>3, <1>4 DEF IInv, SharedInv

\* A new selection is going to be published.
LEMMA BeginKeeps ==
    ASSUME IInv, BeginPublication
    PROVE  IInv'
<1>1. GoType /\ PublishInv
  BY DEF IInv, TypeInv, SharedInv
<1>2. PICK next \in Selections : Selectable(next) /\ publishing' = [phase |-> "clear", next |-> next]
  BY Zenon DEF BeginPublication, Selections
<1>3. /\ UNCHANGED <<kernelVars, hook, recorded, bits, bitsEpoch, cache, exact, doubt>>
      /\ map' = map /\ epoch' = epoch /\ targets' = targets /\ life' = life
  BY Zenon DEF BeginPublication, kernelVars
<1>4. publishing'.phase = "clear" /\ publishing'.next = next
  BY <1>2
<1>5. publishing' \in [phase: Phases, next: Selections]
  BY <1>2 DEF Phases
<1>6. GoType'
  BY Zenon, <1>1, <1>3, <1>5 DEF GoType
<1>7. \A d \in DenseIds : publishing'.next[d] # None => life'[publishing'.next[d]] # "unborn"
  BY Zenon, <1>2, <1>3, <1>4 DEF Selectable, Chosen
<1>8. ~Settled' /\ publishing'.phase # "write"
  BY <1>4 DEF Settled
<1>9. PublishInv'
  BY Zenon, <1>1, <1>3, <1>7, <1>8 DEF PublishInv
<1>10. epoch' >= epoch
  BY <1>1, <1>3 DEF GoType
<1> QED
  BY Zenon, <1>3, <1>6, <1>8, <1>9, <1>10, GoStep

\* The keys of the former targets are deleted.
LEMMA ClearKeeps ==
    ASSUME IInv, ClearKey
    PROVE  IInv'
<1>1. GoType /\ PublishInv
  BY DEF IInv, TypeInv, SharedInv
<1>2. /\ UNCHANGED <<kernelVars, hook, recorded, bits, bitsEpoch, cache, exact, doubt>>
      /\ epoch' = epoch /\ targets' = targets /\ life' = life /\ publishing.phase = "clear"
  BY DEF ClearKey, kernelVars
<1>3. /\ map' \in [Addrs -> Dense] /\ publishing' \in [phase: Phases, next: Selections]
      /\ publishing'.next = publishing.next /\ publishing'.phase \in {"clear", "write"}
      /\ publishing'.phase = "write" => \A a \in Addrs : map'[a] = NonTarget
  <2>1. CASE \A a \in Addrs : map[a] = NonTarget
    BY <1>1, <2>1 DEF ClearKey, GoType, Phases
  <2>2. CASE ~\A a \in Addrs : map[a] = NonTarget
    BY <1>1, <1>2, <2>2 DEF ClearKey, GoType, Dense
  <2> QED
    BY Zenon, <2>1, <2>2
<1>4. GoType'
  BY Zenon, <1>1, <1>2, <1>3 DEF GoType
<1>5. ~Settled'
  BY <1>3 DEF Settled
<1>6. (publishing.phase = "write" => KeysOf(publishing.next))'
  BY Zenon, <1>3 DEF KeysOf
<1>7. PublishInv'
  BY Zenon, <1>1, <1>2, <1>3, <1>5, <1>6 DEF PublishInv
<1>8. epoch' >= epoch
  BY <1>1, <1>2 DEF GoType
<1> QED
  BY Zenon, <1>2, <1>4, <1>5, <1>7, <1>8, GoStep

\* A key of the new targets is written.
LEMMA WriteKeeps ==
    ASSUME IInv, WriteKey
    PROVE  IInv'
<1>1. GoType /\ PublishInv
  BY DEF IInv, TypeInv, SharedInv
<1>2. /\ UNCHANGED <<kernelVars, hook, recorded, bits, bitsEpoch, cache, exact, doubt>>
      /\ epoch' = epoch /\ targets' = targets /\ life' = life /\ publishing' = publishing
      /\ publishing.phase = "write"
  BY Zenon DEF WriteKey, kernelVars
<1>3. PICK d \in Unwritten : map' = [map EXCEPT ![Addr[publishing.next[d]]] = d]
  BY Zenon DEF WriteKey
<1>4. d \in DenseIds /\ publishing.next[d] # None
  BY Zenon, <1>3 DEF Unwritten, Chosen
<1>5. map' \in [Addrs -> Dense] /\ epoch \in Nat
  BY Zenon, <1>1, <1>3, <1>4 DEF GoType, Dense
<1>6. GoType'
  BY Zenon, <1>1, <1>2, <1>5 DEF GoType
<1>7. ~Settled'
  BY <1>2 DEF Settled
<1>8. KeysOf(publishing.next)'
  <2>1. KeysOf(publishing.next)
    BY Zenon, <1>1, <1>2 DEF PublishInv
  <2>2. \A a \in Addrs : map'[a] = IF a = Addr[publishing.next[d]] THEN d ELSE map[a]
    BY Zenon, <1>1, <1>3 DEF GoType
  <2> QED
    BY Zenon, <1>2, <1>4, <2>1, <2>2 DEF KeysOf
<1>9. PublishInv'
  BY Zenon, <1>1, <1>2, <1>7, <1>8 DEF PublishInv
<1>10. epoch' >= epoch
  BY <1>2, <1>5
<1> QED
  BY <1>2, <1>6, <1>7, <1>9, <1>10, GoStep

\* The new epoch is published: the map holds exactly the keys of the targets.
LEMMA PublishKeeps ==
    ASSUME IInv, PublishEpoch
    PROVE  IInv'
<1>1. GoType /\ PublishInv
  BY DEF IInv, TypeInv, SharedInv
<1>2. /\ UNCHANGED <<kernelVars, hook, recorded, bits, bitsEpoch, cache, exact, doubt>>
      /\ epoch' = epoch + 1 /\ targets' = publishing.next /\ map' = map /\ life' = life
      /\ publishing' = NoPublication /\ publishing.phase = "write" /\ Unwritten = {}
  BY Zenon DEF PublishEpoch, MayBump, kernelVars
<1>3. publishing.next \in Selections /\ epoch \in Nat
  BY <1>1 DEF GoType
<1>4. /\ publishing' \in [phase: Phases, next: Selections]
      /\ \A d \in DenseIds : publishing'.next[d] = None
  BY Zenon, <1>2 DEF NoPublication, NoTargets, Phases, Selections
<1>5. GoType'
  BY SMTT(30), <1>1, <1>2, <1>3, <1>4 DEF GoType
<1>6. /\ KeysOf(publishing.next)
      /\ \A d \in DenseIds : publishing.next[d] # None => life[publishing.next[d]] # "unborn"
  BY Zenon, <1>1, <1>2 DEF PublishInv
<1>7. \A d \in DenseIds : publishing.next[d] # None => map[Addr[publishing.next[d]]] = d
  BY Zenon, <1>2 DEF Unwritten, Chosen
<1>8. KeysOf(targets)'
  BY Zenon, <1>2, <1>6 DEF KeysOf
<1>9. publishing'.phase # "write"
  BY Zenon, <1>2 DEF NoPublication
<1>10. PublishInv'
  BY Zenon, <1>2, <1>4, <1>6, <1>7, <1>8, <1>9 DEF PublishInv
<1>11. epoch' >= epoch /\ epoch' > epoch
  BY <1>2, <1>3
<1> QED
  BY Zenon, <1>2, <1>5, <1>10, <1>11, GoStep

\* The publication fails.
LEMMA FailsKeeps ==
    ASSUME IInv, PublicationFails
    PROVE  IInv'
<1>1. GoType /\ PublishInv
  BY DEF IInv, TypeInv, SharedInv
<1>2. /\ UNCHANGED <<kernelVars, hook, recorded, bits, bitsEpoch, cache, exact, doubt>>
      /\ epoch' = epoch /\ targets' = targets /\ map' = map /\ life' = life
      /\ publishing' = [NoPublication EXCEPT !.phase = "stopped"]
  BY DEF PublicationFails, kernelVars
<1>3. /\ publishing' \in [phase: Phases, next: Selections] /\ publishing'.phase = "stopped"
      /\ \A d \in DenseIds : publishing'.next[d] = None
  BY <1>2 DEF NoPublication, NoTargets, Phases, Selections
<1>4. GoType'
  BY Zenon, <1>1, <1>2, <1>3 DEF GoType
<1>5. ~Settled' /\ publishing'.phase # "write"
  BY <1>3 DEF Settled
<1>6. PublishInv'
  BY Zenon, <1>1, <1>2, <1>3, <1>5 DEF PublishInv
<1>7. epoch' >= epoch
  BY <1>1, <1>2 DEF GoType
<1> QED
  BY <1>2, <1>4, <1>5, <1>6, <1>7, GoStep


\* A program is attached: the bitmaps do not depend on it.
LEMMA AttachKeeps ==
    ASSUME IInv, UNCHANGED <<life, nr, curr, throttled, transit, goVars, hook, recorded, bits,
                             bitsEpoch, cache, exact, doubt>>
    PROVE  IInv'
<1>0. /\ life' = life /\ nr' = nr /\ curr' = curr /\ throttled' = throttled /\ transit' = transit
      /\ map' = map /\ epoch' = epoch /\ targets' = targets /\ publishing' = publishing
      /\ hook' = hook /\ recorded' = recorded /\ bits' = bits /\ bitsEpoch' = bitsEpoch
      /\ cache' = cache /\ exact' = exact /\ doubt' = doubt
  BY Zenon DEF goVars
<1>1. TypeInv'
  BY Zenon, <1>0 DEF IInv, TypeInv, KernelType, HookType, GoType
<1>2. LifeInv' /\ PublishInv'
  <2>1. LifeInv'
    BY Zenon, <1>0 DEF IInv, SharedInv, LifeInv, Alive
  <2>2. PublishInv'
    BY Zenon, <1>0 DEF IInv, SharedInv, PublishInv, KeysOf, Settled
  <2> QED
    BY <2>1, <2>2
<1>3. CacheInv'
  BY Zenon, <1>0, CacheSame DEF IInv, SharedInv, goVars
<1>4. \A c \in CPUs : Same(c) /\ CpuInv(c)
  BY Zenon, <1>0 DEF Same, IInv
<1>5. \A c \in CPUs : CpuInv(c)'
  BY Zenon, <1>4, SameKeeps
<1> QED
  BY Zenon, <1>1, <1>2, <1>3, <1>5 DEF IInv, SharedInv

\* A group is created: no target has waited for it.
LEMMA GroupCreatedKeeps ==
    ASSUME IInv, NEW g \in Groups, GroupCreated(g)
    PROVE  IInv'
<1>0. /\ nr' = nr /\ curr' = curr /\ throttled' = throttled /\ transit' = transit
      /\ map' = map /\ epoch' = epoch /\ targets' = targets /\ publishing' = publishing
      /\ hook' = hook /\ recorded' = recorded /\ bits' = bits /\ bitsEpoch' = bitsEpoch
      /\ cache' = cache /\ exact' = exact /\ doubt' = doubt
      /\ life' = [life EXCEPT ![g] = "alive"] /\ life[g] = "unborn"
  BY Zenon DEF GroupCreated, goVars
<1>1. KernelType /\ LifeInv /\ PublishInv /\ CacheInv /\ GoType
  BY DEF IInv, TypeInv, SharedInv
<1>2. /\ life' \in [Groups -> {"unborn", "alive", "dead"}] /\ Alive(g)'
      /\ \A h \in Groups \ {g} : life'[h] = life[h]
  BY Zenon, <1>0, <1>1 DEF KernelType, Alive
<1>3. \A h \in Groups : Alive(h) => Alive(h)'
  BY <1>2 DEF Alive
<1>4. TypeInv'
  BY Zenon, <1>0, <1>2 DEF IInv, TypeInv, KernelType, HookType, GoType
<1>5. LifeInv'
  <2>1. \A h \in Groups : Alive(h) => Css[h] # Css[g] /\ Addr[h] # Addr[g]
    BY Zenon DEF GroupCreated, Alive
  <2>2. \A h \in Groups \ {g} : Alive(h)' <=> Alive(h)
    BY <1>2 DEF Alive
  <2>3. \A h, k \in Groups : Alive(h)' /\ Alive(k)' /\ (Css[h] = Css[k] \/ Addr[h] = Addr[k]) => h = k
    BY Zenon, <1>1, <2>1, <2>2 DEF LifeInv
  <2>4. (transit # NoTask => Alive(transit.group))'
    BY Zenon, <1>0, <1>1, <1>3 DEF LifeInv, KernelType, Alive
  <2> QED
    BY Zenon, <2>3, <2>4 DEF LifeInv
<1>6. \A d \in DenseIds : /\ targets[d] # None => targets[d] \in Groups \ {g}
                          /\ publishing.next[d] # None => publishing.next[d] \in Groups \ {g}
  BY Zenon, <1>0, <1>1 DEF PublishInv, GoType, Selections
<1>7. \A d \in DenseIds : Serves(d)' <=> Serves(d)
  BY Zenon, <1>0, <1>2, <1>6 DEF Serves, Alive
<1>8. PublishInv'
  <2>1. \A d \in DenseIds : targets'[d] # None => life'[targets'[d]] # "unborn"
    BY Zenon, <1>0, <1>1, <1>2, <1>6 DEF PublishInv
  <2>2. \A d \in DenseIds : publishing'.next[d] # None => life'[publishing'.next[d]] # "unborn"
    BY Zenon, <1>0, <1>1, <1>2, <1>6 DEF PublishInv
  <2> QED
    BY Zenon, <1>0, <1>1, <2>1, <2>2 DEF PublishInv, KeysOf, Settled
<1>9. CacheInv'
  BY Zenon, <1>0, <1>1, <1>7 DEF CacheInv, Settled
<1>10. ASSUME NEW c \in CPUs
       PROVE  CpuInv(c)'
  <2>1. RunInv(c) /\ TodoInv(c) /\ EpochInv(c) /\ BitInv(c)
    BY DEF IInv, CpuInv
  <2>2. RunInv(c)'
    BY Zenon, <1>0, <1>3, <2>1 DEF RunInv
  <2>3. TodoInv(c)'
    <3>1. \A x \in Item : Fits(c, x) => Fits(c, x)'
      BY Zenon, <1>0, <1>3 DEF Fits, Item
    <3>2. \A x, y \in Item : Both(c, x, y) => Both(c, x, y)'
      BY Zenon, <1>0, <1>3 DEF Both, Item
    <3> QED
      BY Zenon, <1>0, <2>1, <3>1, <3>2 DEF TodoInv, Ready
  <2>4. EpochInv(c)'
    BY Zenon, <1>0, <2>1 DEF EpochInv, Unlocked, Settled
  <2>5. BitInv(c)'
    BY Zenon, <1>0, <1>7, <2>1 DEF BitInv, BitRight, Waiters, Settled
  <2> QED
    BY <2>2, <2>3, <2>4, <2>5 DEF CpuInv
<1> QED
  BY <1>4, <1>5, <1>8, <1>9, <1>10 DEF IInv, SharedInv

\* A group dies, without tasks: its slot no longer serves.
LEMMA GroupDiesKeeps ==
    ASSUME IInv, NEW g \in Groups, GroupDies(g)
    PROVE  IInv'
<1>0. /\ nr' = nr /\ curr' = curr /\ transit' = transit
      /\ map' = map /\ epoch' = epoch /\ targets' = targets /\ publishing' = publishing
      /\ hook' = hook /\ recorded' = recorded /\ bits' = bits /\ bitsEpoch' = bitsEpoch
      /\ cache' = cache /\ exact' = exact /\ doubt' = doubt
      /\ life' = [life EXCEPT ![g] = "dead"] /\ transit.group # g
      /\ throttled' = [c \in CPUs |-> throttled[c] \ {g}]
      /\ \A c \in CPUs : nr[c][g] = 0 /\ hook[c].todo = <<>>
  BY Zenon DEF GroupDies, goVars, Unlocked
<1>1. KernelType /\ LifeInv /\ PublishInv /\ CacheInv /\ GoType
  BY DEF IInv, TypeInv, SharedInv
<1>2. /\ life' \in [Groups -> {"unborn", "alive", "dead"}] /\ ~Alive(g)' /\ life'[g] # "unborn"
      /\ \A h \in Groups \ {g} : life'[h] = life[h]
  BY Zenon, <1>0, <1>1 DEF KernelType, Alive
<1>3. \A h \in Groups : Alive(h)' <=> Alive(h) /\ h # g
  BY <1>2 DEF Alive
<1>4. /\ throttled' \in [CPUs -> SUBSET Groups]
      /\ \A c \in CPUs : throttled'[c] = throttled[c] \ {g}
  BY Zenon, <1>0, <1>1 DEF KernelType
<1>5. TypeInv'
  BY Zenon, <1>0, <1>2, <1>4 DEF IInv, TypeInv, KernelType, HookType, GoType
<1>6. LifeInv'
  <2>1. \A h, k \in Groups : Alive(h)' /\ Alive(k)' /\ (Css[h] = Css[k] \/ Addr[h] = Addr[k]) => h = k
    BY Zenon, <1>1, <1>3 DEF LifeInv
  <2>2. (transit # NoTask => Alive(transit.group))'
    BY Zenon, <1>0, <1>1, <1>2 DEF LifeInv, KernelType, Alive
  <2> QED
    BY Zenon, <2>1, <2>2 DEF LifeInv
<1>7. \A d \in DenseIds : /\ targets[d] # None => targets[d] \in Groups
                          /\ publishing.next[d] # None => publishing.next[d] \in Groups
  BY <1>1 DEF GoType, Selections
<1>8. \A d \in DenseIds : Serves(d)' => Serves(d) /\ targets[d] \in Groups \ {g}
  BY Zenon, <1>0, <1>2, <1>7 DEF Serves, Alive
<1>9. PublishInv'
  <2>1. \A d \in DenseIds : targets'[d] # None => life'[targets'[d]] # "unborn"
    BY Zenon, <1>0, <1>1, <1>2, <1>7 DEF PublishInv
  <2>2. \A d \in DenseIds : publishing'.next[d] # None => life'[publishing'.next[d]] # "unborn"
    BY Zenon, <1>0, <1>1, <1>2, <1>7 DEF PublishInv
  <2> QED
    BY Zenon, <1>0, <1>1, <2>1, <2>2 DEF PublishInv, KeysOf, Settled
<1>10. CacheInv'
  BY Zenon, <1>0, <1>1, <1>8 DEF CacheInv, Settled
<1>11. ASSUME NEW c \in CPUs
       PROVE  CpuInv(c)'
  <2>1. RunInv(c) /\ EpochInv(c) /\ BitInv(c)
    BY DEF IInv, CpuInv
  <2>2. RunInv(c)'
    <3>1. curr[c] # None => nr[c][curr[c]] >= 1 /\ curr[c] \notin throttled'[c]
      BY Zenon, <1>4, <2>1 DEF RunInv
    <3>2. \A h \in Groups : nr[c][h] >= 1 \/ h \in throttled'[c] => Alive(h) /\ h # g
      <4>1. ~(nr[c][g] >= 1)
        BY SMTT(30), <1>0
      <4> QED
        BY SMTT(30), <1>4, <2>1, <4>1 DEF RunInv
    <3> QED
      BY Zenon, <1>0, <1>3, <3>1, <3>2 DEF RunInv
  <2>3. TodoInv(c)'
    BY Zenon, <1>0 DEF TodoInv, Ready
  <2>4. EpochInv(c)'
    BY Zenon, <1>0, <2>1 DEF EpochInv, Unlocked, Settled
  <2>5. ASSUME Settled, bitsEpoch[c] = epoch, NEW d \in DenseIds, Serves(d)'
        PROVE  BitRight(c, d, targets[d])'
    <3>1. PICK h \in Groups \ {g} : h = targets[d]
      BY <1>8, <2>5
    <3>2. ~InTodo(hook[c].todo, h)
      BY SMTT(30), <1>0, Todos
    <3>3. BitRight(c, d, h)
      BY Zenon, <1>8, <2>1, <2>5, <3>1, <3>2 DEF BitInv
    <3>4. Waiters(c, h)' = Waiters(c, h)
      BY Zenon, <1>0, <1>4 DEF Waiters
    <3>5. BitRight(c, d, h)'
      BY Zenon, <1>0, <3>3, <3>4 DEF BitRight
    <3> QED
      BY Zenon, <1>0, <3>1, <3>5 DEF BitRight
  <2>6. BitInv(c)'
    BY Zenon, <1>0, <2>5 DEF BitInv, Settled
  <2> QED
    BY <2>2, <2>3, <2>4, <2>6 DEF CpuInv
<1> QED
  BY <1>5, <1>6, <1>9, <1>10, <1>11 DEF IInv, SharedInv

-----------------------------------------------------------------------------
(* The theorems.                                                           *)

\* The invariant holds at the start.
LEMMA InitKeeps == Init => IInv
<1> SUFFICES ASSUME Init PROVE IInv
  OBVIOUS
<1>1. KernelType
  BY Zenon DEF Init, KernelType
<1>2. HookType
  <2>1. NoHook \in HookSet
    BY SMTT(30) DEF NoHook, HookSet, Dense
  <2>2. [c \in CPUs |-> NoHook] \in [CPUs -> HookSet]
    BY <2>1
  <2>3. Init => /\ hook \in [CPUs -> HookSet] /\ recorded \in [CPUs -> Nat]
                /\ bits \in [CPUs -> SUBSET DenseIds] /\ bitsEpoch \in [CPUs -> Nat]
                /\ exact \in [CPUs -> SUBSET Groups] /\ doubt \in [CPUs -> SUBSET Groups]
    BY Zenon, <2>2 DEF Init
  <2>4. cache \in [CssIds -> Entry]
    BY Zenon, Lifetimes DEF Init, Entry, Dense
  <2> QED
    BY <2>3, <2>4 DEF HookType
<1>3. /\ \A d \in DenseIds : targets[d] = None /\ publishing.next[d] = None
      /\ publishing.phase = "idle" /\ \A a \in Addrs : map[a] = NonTarget
      /\ NoTargets \in Selections
  BY Zenon DEF Init, NoTargets, NoPublication, Selections
<1>4. GoType
  BY Zenon, <1>3 DEF Init, GoType, NoPublication, Phases, Dense
<1>5. LifeInv
  BY Zenon DEF Init, LifeInv, Alive
<1>6. PublishInv
  BY Zenon, <1>3 DEF PublishInv, KeysOf
<1>7. CacheInv
  <2>1. \A d \in DenseIds : ~Serves(d)
    BY Zenon, <1>3 DEF Serves
  <2>2. \A i \in CssIds : cache[i].epoch <= epoch
    BY SMTT(30) DEF Init
  <2> QED
    BY Zenon, <2>1, <2>2 DEF CacheInv
<1>8. ASSUME NEW c \in CPUs
      PROVE  CpuInv(c)
  <2>1. hook[c].todo = <<>> /\ hook[c].epoch = 0 /\ bitsEpoch[c] = 0 /\ epoch = 0
    BY Zenon DEF Init, NoHook
  <2>2. RunInv(c)
    BY SMTT(30) DEF Init, RunInv
  <2>3. TodoInv(c)
    BY Zenon, <2>1 DEF TodoInv, Ready
  <2>4. EpochInv(c)
    <3>1. Unlocked(c)
      BY Zenon, <2>1 DEF Unlocked
    <3>2. hook[c].epoch <= epoch /\ bitsEpoch[c] <= epoch
      BY SMTT(30), <2>1
    <3> QED
      BY Zenon, <3>1, <3>2 DEF EpochInv
  <2>5. BitInv(c)
    BY Zenon, <1>3 DEF BitInv, Serves
  <2> QED
    BY <2>2, <2>3, <2>4, <2>5 DEF CpuInv
<1> QED
  BY <1>1, <1>2, <1>4, <1>5, <1>6, <1>7, <1>8 DEF IInv, TypeInv, SharedInv

\* Every step keeps the invariant.
LEMMA NextKeeps == IInv /\ [Next]_vars => IInv'
<1> SUFFICES ASSUME IInv, [Next]_vars PROVE IInv'
  OBVIOUS
<1>1. ASSUME NEW g \in Groups, GroupCreated(g) \/ GroupDies(g)
      PROVE  IInv'
  BY Zenon, <1>1, GroupCreatedKeeps, GroupDiesKeeps
<1>2. ASSUME NEW c \in CPUs, Switch(c) \/ Resolve(c) \/ Remember(c)
      PROVE  IInv'
  BY Zenon, <1>2, SwitchKeeps, ResolveKeeps, RememberKeeps
<1>3. ASSUME NEW c \in CPUs, NEW g \in Groups, Wakeup(c, g) \/ Unthrottle(c, g)
      PROVE  IInv'
  BY Zenon, <1>3, WakeupKeeps, UnthrottleKeeps
<1>4. ASSUME NEW c \in CPUs, NEW d \in CPUs, NEW g \in Groups, Migrate(c, d, g)
      PROVE  IInv'
  BY Zenon, <1>4, MigrateKeeps
<1>5. ASSUME NEW c \in CPUs, NEW g \in Groups, NEW h \in Groups, MoveTask(c, g, h)
      PROVE  IInv'
  BY Zenon, <1>5, MoveTaskKeeps
<1>6. ASSUME NEW h \in Hooks, AttachProgram(h)
      PROVE  IInv'
  <2>1. UNCHANGED <<life, nr, curr, throttled, transit, goVars, hook, recorded, bits,
                    bitsEpoch, cache, exact, doubt>>
    BY Zenon, <1>6 DEF AttachProgram, kernelVars
  <2> QED
    BY Zenon, <2>1, AttachKeeps
<1>7. CASE Arrive \/ BeginPublication \/ ClearKey \/ WriteKey \/ PublishEpoch \/ PublicationFails
  BY Zenon, <1>7, ArriveKeeps, BeginKeeps, ClearKeeps, WriteKeeps, PublishKeeps, FailsKeeps
<1>8. CASE UNCHANGED vars
  <2>1. UNCHANGED <<life, nr, curr, throttled, transit, goVars, hook, recorded, bits,
                    bitsEpoch, cache, exact, doubt>>
    BY Zenon, <1>8 DEF vars, kernelVars
  <2> QED
    BY Zenon, <2>1, AttachKeeps
<1> QED
  BY Zenon, <1>1, <1>2, <1>3, <1>4, <1>5, <1>6, <1>7, <1>8 DEF Next

\* The invariant holds always.
THEOREM Invariance == Spec => []IInv
<1> QED
  BY InitKeeps, NextKeeps, PTL DEF Spec

\* In a settled epoch, with no hook on its CPU, a bit is right.
LEMMA BitsAreRight ==
    ASSUME IInv, NEW c \in CPUs, NEW d \in DenseIds, Speaks(c, d)
    PROVE  BitRight(c, d, targets[d])
<1>1. BitInv(c)
  BY DEF IInv, CpuInv
<1>2. Settled /\ bitsEpoch[c] = epoch /\ Serves(d) /\ hook[c].todo = <<>>
  BY Zenon DEF Speaks, Settled, Serves, Alive, Unlocked
<1>3. ~InTodo(hook[c].todo, targets[d])
  BY Zenon, <1>2, Todos
<1> QED
  BY Zenon, <1>1, <1>2, <1>3 DEF BitInv

\* A bit that on_sched_switch, update_wakeup_waiting, on_sched_migrate_task or
\* on_unthrottle_cfs_rq_return has left set blames only a target that waits, or one
\* whose tasks have left unseen, whatever is reused and however hooks of other
\* CPUs and publications interleave.
THEOREM BlameIsJust == Spec => []NoFalseBlame
<1>1. IInv => NoFalseBlame
  BY Zenon, BitsAreRight DEF NoFalseBlame, BitRight
<1> QED
  BY Invariance, <1>1, PTL

\* Once a hook has derived the bit of a target, waiting is missed only after a
\* task of it has come to the CPU unseen.
THEOREM WaitsAreSeen == Spec => []NoMissedWait
<1>1. IInv => NoMissedWait
  BY Zenon, BitsAreRight DEF NoMissedWait, BitRight
<1> QED
  BY Invariance, <1>1, PTL

=============================================================================
