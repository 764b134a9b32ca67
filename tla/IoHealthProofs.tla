---------------------------- MODULE IoHealthProofs ----------------------------
(***************************************************************************)
(* Proofs about the I/O health pipeline, for every set of disks, device    *)
(* generations and probes and all capacities: a record is about the disk   *)
(* its event was raised for, the cooldown table keeps its bound, and a     *)
(* verified generation is left alone for the cooldown.                     *)
(***************************************************************************)
EXTENDS IoHealth, FiniteSetTheorems, SequenceTheorems, TLAPS

Inst == Instances \cup {NoInstance}
RequestSet == [ev: Events, label: Inst, target: Targets, identity: Inst, reason: BOOLEAN]
EventSet == [ev: Events, gen: Nat, dev: Devs]
FoundSet == [label: Inst, target: Targets, identity: Inst, reason: BOOLEAN]

\* The types of the variables the argument is about.
DiskType ==
    /\ present \in [Targets -> Inst] /\ instance \in [Devs -> Inst]
    /\ stage \in [Devs -> {"absent", "adding", "live", "removing"}]
    /\ raised \in Nat /\ raised <= MaxEvents /\ subject \in [Events -> Inst]

RequestType ==
    /\ queue \in Seq(RequestSet) /\ inflight \subseteq RequestKeys
    /\ cooldown \in [Targets -> [on: BOOLEAN, identity: Inst, until: Nat]]

LoopType ==
    /\ now \in Nat
    /\ job \in RequestSet \cup {NoJob}
    /\ result \in [evidence: Inst, apply: BOOLEAN]
    /\ lastCollected \in [RequestKeys -> Nat \cup {-1}]

EventType ==
    /\ generation \in Nat /\ hooks \in 0..3
    /\ raising \in [Probes -> EventSet \cup {NoEvent}]
    /\ buffer \in Seq(EventSet)
    /\ event \in EventSet \cup {NoEvent} /\ found \in FoundSet

MDType == md \in [at: {"idle", "resolve", "check"}, ev: Events \cup {0}, dev: Targets,
                  member: Inst, found: FoundSet]

StoreType == persisted \in [Events -> Seq([label: Inst, evidence: Inst])]

TypeOK == DiskType /\ RequestType /\ LoopType /\ EventType /\ MDType /\ StoreType

\* sysfs leads to the last disk announced, or nowhere.
DiskInv ==
    \A d \in Devs :
       present[d] = IF stage[d] \in {"live", "removing"} THEN instance[d] ELSE NoInstance

\* The disk x could name or examine is no later one than its own.
Current(f) ==
    /\ f.reason <=> f.identity = NoInstance
    /\ f.identity # NoInstance => f.target \in Devs /\ f.identity <= instance[f.target]

About(f, e) == f.label \in {NoInstance, subject[e]} /\ f.identity \in {NoInstance, subject[e]}

\* The last collection for a key is over for the cooldown.
Rested(k) == lastCollected[k] = -1 \/ now >= lastCollected[k] + Cooldown

\* An accepted request is about the disk of its event.  Unless that disk was
\* replaced meanwhile, its last collection is long ago.
RequestOK(r) ==
    /\ r \in RequestSet /\ r.ev \in 1..raised
    /\ About(r, r.ev) /\ Current(r)
    /\ r.identity # NoInstance /\ r.identity = instance[r.target] => Rested(RequestKey(r))

Busy == loop \in {"taken", "command", "validate", "collected", "delivered"}

\* The queue and the request of the goroutine: one per key in flight.
QueueInv ==
    /\ \A n \in 1..Len(queue) : RequestOK(queue[n]) /\ RequestKey(queue[n]) \in inflight
    /\ \A m, n \in 1..Len(queue) : RequestKey(queue[m]) = RequestKey(queue[n]) => m = n
    /\ Busy => /\ RequestOK(job) /\ RequestKey(job) \in inflight
               /\ \A n \in 1..Len(queue) : RequestKey(queue[n]) # RequestKey(job)

\* What the goroutine has found out.  The command may have read a replacement,
\* but then the second validation fails: generations only grow.
LoopInv ==
    /\ loop \in {"command", "validate"} => job.identity # NoInstance
    /\ loop = "command" => Rested(RequestKey(job))
    /\ loop = "validate" /\ result.evidence # NoInstance =>
          job.identity <= result.evidence /\ result.evidence <= instance[job.target]
    /\ loop \in {"collected", "delivered"} =>
          /\ result.evidence \in {NoInstance, subject[job.ev]}
          /\ result.apply /\ job.identity # NoInstance =>
                \A i \in Instances : i > job.identity => lastCollected[<<job.target, i>>] = -1

\* Collections were about disks announced so far, and the disk that is there is
\* protected by its cooldown while the last one is recent.
CooldownInv ==
    /\ \A t \in Targets, i \in Instances :
          lastCollected[<<t, i>>] # -1 => t \in Devs /\ i <= instance[t]
    /\ \A d \in Devs :
          instance[d] # NoInstance /\ ~Rested(<<d, instance[d]>>) =>
             /\ cooldown[d].on /\ cooldown[d].identity = instance[d]
             /\ cooldown[d].until >= lastCollected[<<d, instance[d]>>] + Cooldown

TableInv ==
    /\ IsFiniteSet(inflight) /\ IsFiniteSet(Cooling(cooldown))
    /\ CooldownTableBounded

\* An event whose generation is still current is about the disk of its number.
EventOK(x) ==
    /\ x \in EventSet /\ x.ev \in 1..raised /\ x.gen <= generation
    /\ x.gen = generation => subject[x.ev] = instance[x.dev]
    /\ hooks = 3

EventInv ==
    /\ session = "open" <=> hooks = 3
    /\ session = "attaching" => hooks < 3
    /\ \A p \in Probes : raising[p] # NoEvent => EventOK(raising[p])
    /\ \A n \in 1..Len(buffer) : EventOK(buffer[n])
    /\ reader # "read" => EventOK(event)

ReaderInv ==
    /\ Current(found)
    /\ reader = "identity" => found.target = event.dev /\ found.identity = NoInstance
    /\ reader \in {"identity", "check"} /\ event.gen = generation => About(found, event.ev)
    /\ reader = "submit" /\ ~stale => About(found, event.ev)

\* The MD handler binds the disk of its event, or a later one under its name.
MDInv ==
    md.at # "idle" =>
       LET s == subject[md.ev]
           f == md.found
       IN /\ md.ev \in 1..raised /\ md.dev \in Devs
          /\ s \in Instances /\ s <= instance[md.dev]
          /\ Current(f) /\ f.target = md.dev /\ f.label = s
          /\ md.member \in {NoInstance, s}
          /\ md.at = "resolve" => f.identity = NoInstance
          /\ f.identity # NoInstance => s <= f.identity

StoreInv ==
    /\ \A e \in Events : persisted[e] # <<>> => e <= raised
    /\ RecordIsAboutItsDisk

\* The inductive invariant.
IInv ==
    /\ TypeOK /\ DiskInv
    /\ QueueInv /\ LoopInv /\ CooldownInv /\ TableInv
    /\ EventInv /\ ReaderInv /\ MDInv /\ StoreInv

-----------------------------------------------------------------------------
(* Facts about numbers and empty sequences.                                *)

\* An empty queue, ring or list of records has no entry.
LEMMA NoEntry == Len(<<>>) = 0 /\ \A n \in 1..Len(<<>>) : FALSE
BY SMT

\* A key of a request names its target and its identity.
LEMMA SamePair ==
    ASSUME NEW a, NEW b, NEW x, NEW y, <<a, b>> = <<x, y>>
    PROVE  a = x /\ b = y
BY SMT

\* An empty table fits.
LEMMA ZeroLeast == \A n \in Nat : 0 <= n
BY SMT

\* A table that gains a name at most.
LEMMA OneMoreAtMost ==
    ASSUME NEW n \in Nat, NEW m, m = n \/ m = n + 1
    PROVE  m <= n + 1
BY SMT

\* A table no larger than one that fits, fits too.
LEMMA LeqTransitive ==
    ASSUME NEW k \in Nat, NEW m \in Nat, NEW n \in Nat, k <= m, m <= n
    PROVE  k <= n
BY SMT

\* A later instance of a device has a greater number.
LEMMA LaterIsGreater ==
    ASSUME NEW i \in Nat, NEW j \in Nat, i <= j, i # j
    PROVE  j > i
BY SMT

\* A cooldown that covers an unfinished rest has not expired.
LEMMA RestNotOver ==
    ASSUME NEW t \in Nat, NEW u \in Nat, NEW l \in Nat \cup {-1}, NEW c \in Nat,
           u >= l + c, ~(t >= l + c)
    PROVE  ~(t >= u)
BY SMT

\* A new cooldown covers the rest that begins with it.
LEMMA RestBegins == \A t, c \in Nat : t + c >= t + c
BY SMT

-----------------------------------------------------------------------------
(* Steps that leave the worker alone.                                      *)

\* Instances are natural numbers, and 0 is none of them.
LEMMA InstNat == Inst \subseteq Nat /\ NoInstance \notin Instances /\ NoInstance = 0
  BY WorkerConstants DEF Inst, NoInstance

\* How the disks and the events may develop behind the worker's back.
Grows ==
    /\ raised <= raised'
    /\ \A e \in 1..raised : subject'[e] = subject[e]
    /\ \A d \in Devs : instance[d] <= instance'[d]
    /\ now' = now /\ lastCollected' = lastCollected

\* Nothing happens to them.
LEMMA GrowsNot ==
    ASSUME TypeOK, UNCHANGED <<raised, subject, instance, now, lastCollected>>
    PROVE  Grows
  <1>1. raised \in Nat /\ \A d \in Devs : instance[d] \in Nat
    BY Zenon, InstNat DEF TypeOK, DiskType
  <1> QED
    BY <1>1 DEF Grows

\* What is known of a request stays true.
LEMMA RequestKept ==
    ASSUME TypeOK, TypeOK', Grows, NEW r, RequestOK(r)
    PROVE  RequestOK(r)'
  <1>1. r \in RequestSet /\ r.ev \in 1..raised /\ r.identity \in Nat
    BY Zenon, InstNat DEF RequestOK, RequestSet
  <1>2. r.ev \in 1..raised'
    BY <1>1 DEF TypeOK, DiskType, Grows
  <1>3. About(r, r.ev)'
    BY Zenon, <1>1 DEF RequestOK, About, Grows
  <1>4. Current(r)'
    <2>1. r.identity # NoInstance => /\ r.target \in Devs
                                     /\ r.identity <= instance[r.target]
                                     /\ instance[r.target] <= instance'[r.target]
      BY Zenon DEF RequestOK, Current, Grows
    <2>2. r.target \in Devs => instance[r.target] \in Nat /\ instance'[r.target] \in Nat
      BY Zenon, InstNat DEF TypeOK, DiskType
    <2>3. r.identity # NoInstance => r.identity <= instance'[r.target]
      BY <1>1, <2>1, <2>2
    <2> QED
      BY Zenon, <2>1, <2>3 DEF RequestOK, Current
  <1>5. ASSUME r.identity # NoInstance, r.identity = instance'[r.target]
        PROVE  Rested(RequestKey(r))'
    <2>1. r.target \in Devs /\ r.identity <= instance[r.target]
          /\ instance[r.target] <= instance'[r.target]
      BY Zenon, <1>5 DEF RequestOK, Current, Grows
    <2>2. instance[r.target] \in Nat /\ instance'[r.target] \in Nat
      BY Zenon, <2>1, InstNat DEF TypeOK, DiskType
    <2>3. r.identity = instance[r.target]
      BY <1>1, <1>5, <2>1, <2>2
    <2> QED
      BY Zenon, <1>5, <2>3 DEF RequestOK, Rested, Grows
  <1> QED
    BY Zenon, <1>1, <1>2, <1>3, <1>4, <1>5 DEF RequestOK

\* So does all that the worker relies on.
LEMMA WorkerKept ==
    ASSUME IInv, TypeOK', Grows, UNCHANGED workerVars
    PROVE  QueueInv' /\ LoopInv' /\ CooldownInv' /\ TableInv'
  <1> USE DEF workerVars, requestVars, loopVars
  <1>1. QueueInv'
    <2>1. \A r : RequestOK(r) => RequestOK(r)'
      BY Zenon, RequestKept DEF IInv
    <2> QED
      BY Zenon, <2>1 DEF IInv, QueueInv, Busy
  <1>2. LoopInv'
    <2>1. Busy => subject'[job.ev] = subject[job.ev] /\ job.identity \in Nat
      BY Zenon, InstNat DEF IInv, QueueInv, RequestOK, RequestSet, Grows
    <2>2. ASSUME loop = "validate", result.evidence # NoInstance
          PROVE  result.evidence <= instance'[job.target]
      <3>1. job.target \in Devs
        BY Zenon, <2>2 DEF IInv, LoopInv, QueueInv, Busy, RequestOK, Current
      <3>2. /\ instance[job.target] \in Nat /\ instance'[job.target] \in Nat
            /\ result.evidence \in Nat
        BY Zenon, <3>1, InstNat DEF IInv, TypeOK, DiskType, LoopType
      <3> QED
        BY <2>2, <3>1, <3>2 DEF IInv, LoopInv, Grows
    <2>3. loop \in {"collected", "delivered"} =>
             result.evidence \in {NoInstance, subject'[job.ev]}
      BY Zenon, <2>1 DEF IInv, LoopInv, Busy
    <2> QED
      BY Zenon, <2>2, <2>3 DEF IInv, LoopInv, Rested
  <1>3. CooldownInv'
    <2>1. ASSUME NEW t \in Targets, NEW i \in Instances, lastCollected'[<<t, i>>] # -1
          PROVE  t \in Devs /\ i <= instance'[t]
      <3>1. t \in Devs /\ i <= instance[t] /\ instance[t] <= instance'[t]
        BY Zenon, <2>1 DEF IInv, CooldownInv, Grows
      <3>2. i \in Nat /\ instance[t] \in Nat /\ instance'[t] \in Nat
        BY Zenon, <3>1, InstNat DEF IInv, TypeOK, DiskType, Inst
      <3> QED
        BY <3>1, <3>2
    <2>2. ASSUME NEW d \in Devs, instance'[d] # NoInstance, ~Rested(<<d, instance'[d]>>)
          PROVE  instance'[d] = instance[d]
      <3>1. lastCollected[<<d, instance'[d]>>] # -1
        BY Zenon, <2>2 DEF Rested
      <3>2. d \in Targets /\ instance'[d] \in Instances
        BY Zenon, <2>2, DeviceNames DEF TypeOK, DiskType, Inst
      <3>3. instance'[d] <= instance[d] /\ instance[d] <= instance'[d]
        BY Zenon, <3>1, <3>2 DEF IInv, CooldownInv, Grows
      <3>4. instance[d] \in Nat /\ instance'[d] \in Nat
        BY Zenon, InstNat DEF IInv, TypeOK, DiskType
      <3> QED
        BY <3>3, <3>4
    <2>3. ASSUME NEW d \in Devs, instance'[d] # NoInstance, ~Rested(<<d, instance[d]>>)',
                 instance'[d] = instance[d]
          PROVE  /\ cooldown'[d].on /\ cooldown'[d].identity = instance'[d]
                 /\ cooldown'[d].until >= lastCollected'[<<d, instance'[d]>>] + Cooldown
      BY Zenon, <2>3 DEF IInv, CooldownInv, Rested
    <2> QED
      BY Zenon, <2>1, <2>2, <2>3 DEF CooldownInv, Rested
  <1>4. TableInv'
    BY Zenon DEF IInv, TableInv, CooldownTableBounded, Cooling
  <1> QED
    BY Zenon, <1>1, <1>2, <1>3, <1>4

\* What is known of the MD handler and of the records stays true.
LEMMA MDKept ==
    ASSUME IInv, TypeOK', Grows, md' = md
    PROVE  MDInv'
  <1> SUFFICES ASSUME md.at # "idle" PROVE MDInv'
    BY Zenon DEF MDInv
  <1> DEFINE s == subject[md.ev]
             f == md.found
  <1>1. /\ md.ev \in 1..raised /\ md.dev \in Devs /\ s \in Instances /\ s <= instance[md.dev]
        /\ Current(f) /\ f.target = md.dev /\ f.label = s
        /\ md.member \in {NoInstance, s}
        /\ md.at = "resolve" => f.identity = NoInstance
        /\ f.identity # NoInstance => s <= f.identity
    BY Zenon DEF IInv, MDInv
  <1>2. md.ev \in 1..raised' /\ subject'[md.ev] = s
    BY <1>1 DEF IInv, TypeOK, DiskType, Grows
  <1>3. /\ instance[md.dev] \in Nat /\ instance'[md.dev] \in Nat /\ s \in Nat
        /\ f.identity \in Nat /\ instance[md.dev] <= instance'[md.dev]
    BY Zenon, <1>1, InstNat DEF IInv, TypeOK, DiskType, MDType, FoundSet, Inst, Grows
  <1>4. s <= instance'[md.dev]
    BY <1>1, <1>3
  <1>5. Current(f)'
    BY <1>1, <1>3 DEF Current
  <1> QED
    BY Zenon, <1>1, <1>2, <1>4, <1>5 DEF MDInv

\* What was stored stays about the disk of its event.
LEMMA StoreKept ==
    ASSUME IInv, TypeOK', Grows, persisted' = persisted
    PROVE  StoreInv'
  <1>1. \A e \in Events : persisted[e] # <<>> => e <= raised'
    BY DEF IInv, StoreInv, TypeOK, DiskType, Grows, Events
  <1>2. ASSUME NEW e \in Events, NEW n \in 1..Len(persisted[e])
        PROVE  subject'[e] = subject[e]
    <2>1. persisted[e] # <<>>
      BY <1>2
    <2> QED
      BY <2>1 DEF IInv, StoreInv, Grows, Events
  <1>3. RecordIsAboutItsDisk'
    BY Zenon, <1>2 DEF IInv, StoreInv, RecordIsAboutItsDisk
  <1> QED
    BY Zenon, <1>1, <1>3 DEF StoreInv

\* Events and their reader, when neither the disks nor the session changes.
LEMMA EventsKept ==
    ASSUME IInv, TypeOK', Grows, instance' = instance,
           UNCHANGED <<generation, hooks, session, raising, buffer, readerVars>>
    PROVE  EventInv' /\ ReaderInv'
  <1> USE DEF readerVars
  <1>1. ASSUME NEW x, EventOK(x) PROVE EventOK(x)' /\ subject'[x.ev] = subject[x.ev]
    BY <1>1 DEF EventOK, EventSet, IInv, TypeOK, DiskType, Grows
  <1>2. EventInv'
    BY Zenon, <1>1 DEF IInv, EventInv
  <1>3. reader # "read" => subject'[event.ev] = subject[event.ev]
    BY Zenon, <1>1 DEF IInv, EventInv
  <1>4. ReaderInv'
    BY Zenon, <1>3 DEF IInv, ReaderInv, Current, About
  <1> QED
    BY Zenon, <1>2, <1>4

\* The hooks are attached in their order.
LEMMA Hooks ==
    ASSUME TypeOK
    PROVE  /\ hooks = 3 => Attached("publishing") /\ Attached("removed")
           /\ Attached("events") => hooks = 3
  BY DEF TypeOK, EventType, Attached, AttachOrder

\* There is no event between two sessions.
LEMMA NoEventYet ==
    ASSUME IInv, hooks # 3
    PROVE  /\ \A p \in Probes : raising[p] = NoEvent
           /\ Len(buffer) = 0 /\ reader = "read"
  <1>1. \A x : ~EventOK(x)
    BY Zenon DEF EventOK
  <1>2. Len(buffer) \in Nat
    BY DEF IInv, TypeOK, DiskType
  <1> QED
    BY <1>1, <1>2 DEF IInv, EventInv

\* A step outside of the worker that stores nothing.
LEMMA OutsideTypes ==
    ASSUME IInv, UNCHANGED <<workerVars, persisted>>, DiskType', EventType', MDType'
    PROVE  TypeOK'
  <1>1. RequestType' /\ LoopType' /\ StoreType'
    BY Zenon DEF IInv, TypeOK, RequestType, LoopType, StoreType, workerVars, requestVars, loopVars
  <1> QED
    BY Zenon, <1>1 DEF TypeOK

\* With what it shows of its own part, it keeps the whole invariant.
LEMMA Outside ==
    ASSUME IInv, UNCHANGED <<workerVars, persisted>>, TypeOK', Grows,
           DiskInv', EventInv', ReaderInv', MDInv'
    PROVE  IInv'
  BY Zenon, WorkerKept, StoreKept DEF IInv

-----------------------------------------------------------------------------
(* Sessions.                                                               *)

\* The steps of a session that leave the disks alone.
LEMMA SessionStep ==
    ASSUME IInv, UNCHANGED <<workerVars, diskVars, raised, subject, readerVars, md, present,
                             persisted>>,
           EventType', EventInv',
           reader = "read" \/ UNCHANGED generation
    PROVE  IInv'
  <1> USE DEF readerVars, diskVars
  <1>1. DiskType' /\ MDType'
    BY Zenon DEF IInv, TypeOK, DiskType, MDType
  <1>2. TypeOK'
    BY Zenon, <1>1, OutsideTypes
  <1>3. Grows
    BY Zenon, GrowsNot DEF IInv, workerVars
  <1>4. DiskInv'
    BY Zenon DEF IInv, DiskInv
  <1>5. ReaderInv'
    BY Zenon DEF IInv, ReaderInv, Current, About
  <1>6. MDInv'
    BY Zenon, <1>2, <1>3, MDKept
  <1> QED
    BY Zenon, <1>2, <1>3, <1>4, <1>5, <1>6, Outside

\* A new session begins without events.
LEMMA BeginSessionIInv == IInv /\ BeginSession => IInv'
  <1> SUFFICES ASSUME IInv, BeginSession PROVE IInv'
    BY Zenon
  <1> USE DEF BeginSession, eventVars, readerVars
  <1>1. hooks # 3
    <2>1. session = "open" <=> hooks = 3
      BY Zenon DEF IInv, EventInv
    <2> QED
      BY Zenon, <2>1
  <1>2. EventType'
    BY DEF IInv, TypeOK, EventType
  <1>3. EventInv' /\ reader = "read"
    BY <1>1, NoEventYet DEF EventInv
  <1> QED
    BY Zenon, <1>2, <1>3, SessionStep

\* Hooks are attached while there is no event yet.
LEMMA AttachNextIInv == IInv /\ AttachNext => IInv'
  <1> SUFFICES ASSUME IInv, AttachNext PROVE IInv'
    BY Zenon
  <1> USE DEF AttachNext, eventVars, readerVars
  <1>1. hooks \in 0..2
    BY DEF IInv, EventInv, TypeOK, EventType
  <1>2. EventType'
    BY <1>1 DEF IInv, TypeOK, EventType
  <1>3. session' = "open" <=> hooks' = 3
    BY Zenon, <1>1 DEF AttachOrder
  <1>4. session' = "attaching" => hooks' < 3
    BY <1>1 DEF AttachOrder
  <1>5. EventInv' /\ reader = "read"
    BY <1>1, <1>3, <1>4, NoEventYet DEF EventInv
  <1> QED
    BY Zenon, <1>2, <1>5, SessionStep

\* The events of a session end with it.
LEMMA EndSessionIInv == IInv /\ EndSession => IInv'
  <1> SUFFICES ASSUME IInv, EndSession PROVE IInv'
    BY Zenon
  <1> USE DEF EndSession, readerVars
  <1>1. EventType'
    BY DEF IInv, TypeOK, EventType
  <1>2. EventInv'
    BY DEF EventInv
  <1> QED
    BY Zenon, <1>1, <1>2, SessionStep

\* A record reaches the buffer, or is lost.
LEMMA EventSubmittedIInv ==
    ASSUME IInv, NEW p \in Probes, EventSubmitted(p)
    PROVE  IInv'
  <1> USE DEF EventSubmitted, readerVars, sessionVars, diskVars
  <1>1. EventOK(raising[p]) /\ raising[p] \in EventSet
    BY Zenon DEF IInv, EventInv, EventOK
  <1>2. \A x : EventOK(x) => EventOK(x)'
    BY Zenon DEF EventOK
  <1>3. /\ raising \in [Probes -> EventSet \cup {NoEvent}] /\ buffer \in Seq(EventSet)
        /\ \A n \in 1..Len(buffer) : EventOK(buffer[n])
    BY Zenon DEF IInv, TypeOK, EventType, EventInv
  <1>4. raising' \in [Probes -> EventSet \cup {NoEvent}] /\ buffer' \in Seq(EventSet)
    BY <1>1, <1>3
  <1>5. \A n \in 1..Len(buffer') : EventOK(buffer'[n])
    <2>1. CASE buffer' = buffer
      BY Zenon, <1>3, <2>1
    <2>2. CASE buffer' = Append(buffer, raising[p])
      <3>1. /\ Len(buffer') = Len(buffer) + 1 /\ Len(buffer) \in Nat
            /\ \A n \in 1..Len(buffer) : buffer'[n] = buffer[n]
            /\ buffer'[Len(buffer) + 1] = raising[p]
        BY <1>1, <1>3, <2>2
      <3> QED
        BY <1>1, <1>3, <3>1
    <2> QED
      BY Zenon, <2>1, <2>2
  <1>6. \A q \in Probes : raising'[q] # NoEvent => EventOK(raising'[q])
    BY Zenon, <1>3 DEF IInv, EventInv
  <1>7. EventType'
    BY Zenon, <1>4 DEF IInv, TypeOK, EventType
  <1>8. EventInv'
    BY Zenon, <1>2, <1>5, <1>6 DEF IInv, EventInv
  <1> QED
    BY Zenon, <1>7, <1>8, SessionStep

-----------------------------------------------------------------------------
(* Disks.                                                                  *)

\* A disk is announced: no event keeps a current generation.
LEMMA DiskAnnouncedIInv ==
    ASSUME IInv, NEW d \in Devs, NEW i \in Instances, DiskAnnounced(d, i)
    PROVE  IInv'
  <1> USE DEF DiskAnnounced, eventVars, sessionVars, readerVars
  <1>1. /\ instance \in [Devs -> Inst] /\ i \in Inst /\ i \in Nat
        /\ \A e \in Devs : instance[e] \in Nat /\ instance[e] < i
        /\ generation \in Nat /\ raised \in Nat
    BY Zenon, InstNat DEF IInv, TypeOK, DiskType, EventType, Inst
  <1>2. generation' \in Nat /\ generation' \in {generation, generation + 1}
    BY <1>1 DEF PublishingBump, Bumped
  <1>3. hooks = 3 => generation' = generation + 1
    BY Zenon, Hooks DEF PublishingBump, Bumped, IInv
  <1>4. TypeOK'
    <2>1. DiskType'
      BY Zenon, <1>1 DEF IInv, TypeOK, DiskType
    <2>2. EventType' /\ MDType'
      BY Zenon, <1>2 DEF IInv, TypeOK, EventType, MDType
    <2> QED
      BY Zenon, <2>1, <2>2, OutsideTypes
  <1>5. Grows
    <2>1. \A e \in Devs : instance[e] <= instance'[e]
      BY <1>1
    <2> QED
      BY <1>1, <2>1 DEF Grows, workerVars
  <1>6. DiskInv'
    BY Zenon, <1>1 DEF IInv, TypeOK, DiskType, DiskInv
  <1>7. ASSUME NEW x, EventOK(x) PROVE EventOK(x)' /\ x.gen # generation'
    <2>1. x \in EventSet /\ x.gen \in Nat /\ x.gen <= generation /\ generation' = generation + 1
      BY Zenon, <1>3, <1>7 DEF EventOK, EventSet
    <2> QED
      BY SMTT(30), <1>1, <1>7, <2>1 DEF EventOK
  <1>8. EventInv'
    BY Zenon, <1>7 DEF IInv, EventInv
  <1>9. ReaderInv'
    <2>1. reader # "read" => event.gen # generation'
      BY Zenon, <1>7 DEF IInv, EventInv
    <2>2. Current(found)'
      <3>1. found.identity \in Nat
        BY Zenon, InstNat DEF IInv, TypeOK, EventType, FoundSet
      <3>2. ASSUME found.identity # NoInstance
            PROVE  found.target \in Devs /\ found.identity <= instance'[found.target]
        <4>1. found.target \in Devs /\ found.identity <= instance[found.target]
          BY Zenon, <3>2 DEF IInv, ReaderInv, Current
        <4>2. instance[found.target] <= instance'[found.target]
              /\ instance[found.target] \in Nat /\ instance'[found.target] \in Nat
          BY Zenon, <1>1, <1>5, <4>1 DEF Grows
        <4> QED
          BY SMTT(30), <3>1, <4>1, <4>2
      <3> QED
        BY Zenon, <3>2 DEF IInv, ReaderInv, Current
    <2> QED
      BY Zenon, <2>1, <2>2 DEF IInv, ReaderInv, About
  <1>10. MDInv'
    BY Zenon, <1>4, <1>5, MDKept
  <1> QED
    BY Zenon, <1>4, <1>5, <1>6, <1>8, <1>9, <1>10, Outside

\* The steps of a disk that keep its instance.
LEMMA DiskStep ==
    ASSUME IInv, UNCHANGED <<workerVars, instance, sessionVars, eventVars, readerVars, md,
                             persisted>>,
           present' \in [Targets -> Inst], DiskInv',
           stage' \in [Devs -> {"absent", "adding", "live", "removing"}],
           generation' = generation
           \/ generation' = generation + 1
    PROVE  IInv'
  <1> USE DEF eventVars, sessionVars, readerVars
  <1>1. generation \in Nat /\ generation' \in Nat
    BY DEF IInv, TypeOK, EventType
  <1>2. TypeOK'
    <2>1. DiskType'
      BY Zenon DEF IInv, TypeOK, DiskType
    <2>2. EventType' /\ MDType'
      BY Zenon, <1>1 DEF IInv, TypeOK, EventType, MDType
    <2> QED
      BY Zenon, <2>1, <2>2, OutsideTypes
  <1>3. Grows
    BY Zenon, GrowsNot DEF IInv, workerVars
  <1>4. ASSUME NEW x, EventOK(x) PROVE EventOK(x)' /\ x.gen \in Nat /\ x.gen <= generation
    BY <1>1, <1>4 DEF EventOK, EventSet
  <1>5. EventInv'
    BY Zenon, <1>4 DEF IInv, EventInv
  <1>6. ReaderInv'
    <2>1. reader # "read" /\ event.gen = generation' => event.gen = generation
      BY <1>1, <1>4 DEF IInv, EventInv
    <2> QED
      BY Zenon, <2>1 DEF IInv, ReaderInv, Current, About
  <1>7. MDInv'
    BY Zenon, <1>2, <1>3, MDKept
  <1> QED
    BY Zenon, <1>2, <1>3, <1>5, <1>6, <1>7, Outside

\* sysfs shows the disk; the disk is removed; it is gone.
LEMMA DiskVisibleIInv ==
    ASSUME IInv, NEW d \in Devs, DiskVisible(d)
    PROVE  IInv'
  <1>1. /\ present \in [Targets -> Inst] /\ d \in Targets /\ instance[d] \in Inst
    BY Zenon, DeviceNames DEF IInv, TypeOK, DiskType
  <1>2. present' \in [Targets -> Inst]
    BY Zenon, <1>1 DEF DiskVisible
  <1>3. stage \in [Devs -> {"absent", "adding", "live", "removing"}]
    BY Zenon DEF IInv, TypeOK, DiskType
  <1>4. stage' \in [Devs -> {"absent", "adding", "live", "removing"}]
    BY Zenon, <1>3 DEF DiskVisible
  <1>5. DiskInv'
    BY Zenon, <1>1, <1>3, DeviceNames DEF IInv, DiskInv, DiskVisible
  <1> QED
    BY Zenon, <1>2, <1>4, <1>5, DiskStep DEF DiskVisible

\* A disk begins to go: its name still leads to it.
LEMMA DiskRemovingIInv ==
    ASSUME IInv, NEW d \in Devs, DiskRemoving(d)
    PROVE  IInv'
  <1>1. /\ present' \in [Targets -> Inst]
        /\ stage' \in [Devs -> {"absent", "adding", "live", "removing"}]
    BY Zenon DEF IInv, TypeOK, DiskType, DiskRemoving
  <1>2. DiskInv'
    BY Zenon DEF IInv, TypeOK, DiskType, DiskInv, DiskRemoving
  <1>3. generation' = generation \/ generation' = generation + 1
    BY Zenon DEF DiskRemoving, Bumped
  <1> QED
    BY Zenon, <1>1, <1>2, <1>3, DiskStep DEF DiskRemoving

\* A disk is gone.
LEMMA DiskGoneIInv ==
    ASSUME IInv, NEW d \in Devs, DiskGone(d)
    PROVE  IInv'
  <1>1. /\ present \in [Targets -> Inst] /\ d \in Targets
    BY Zenon, DeviceNames DEF IInv, TypeOK, DiskType
  <1>2. present' \in [Targets -> Inst]
    BY Zenon, <1>1 DEF DiskGone, Inst
  <1>3. stage \in [Devs -> {"absent", "adding", "live", "removing"}]
    BY Zenon DEF IInv, TypeOK, DiskType
  <1>4. stage' \in [Devs -> {"absent", "adding", "live", "removing"}]
    BY Zenon, <1>3 DEF DiskGone
  <1>5. DiskInv'
    BY Zenon, <1>1, <1>3, DeviceNames DEF IInv, DiskInv, DiskGone
  <1> QED
    BY Zenon, <1>2, <1>4, <1>5, DiskStep DEF DiskGone

-----------------------------------------------------------------------------
(* Kernel events and their reader.                                         *)

\* A new event changes nothing for the ones before.
LEMMA NewEventGrows ==
    ASSUME IInv, NEW d \in Devs, NewEvent(d), UNCHANGED <<instance, now, lastCollected>>
    PROVE  /\ Grows /\ raised' = raised + 1 /\ raised + 1 \in Events /\ raised' \in Nat
           /\ raised' <= MaxEvents /\ raised \in Nat
           /\ subject' \in [Events -> Inst] /\ subject'[raised + 1] = instance[d]
           /\ instance[d] \in Nat
  <1>1. /\ raised \in Nat /\ subject \in [Events -> Inst] /\ instance[d] \in Inst
        /\ \A e \in Devs : instance[e] \in Nat
    BY Zenon, InstNat DEF IInv, TypeOK, DiskType
  <1>2. raised' = raised + 1 /\ raised < MaxEvents
        /\ subject' = [subject EXCEPT ![raised + 1] = instance[d]]
    BY Zenon DEF NewEvent
  <1>3. raised + 1 \in Events
    BY <1>1, <1>2, WorkerConstants DEF Events
  <1>4. \A e \in 1..raised : subject'[e] = subject[e]
    BY <1>1, <1>2, WorkerConstants DEF Events
  <1>5. Grows
    BY <1>1, <1>2, <1>4 DEF Grows
  <1> QED
    BY <1>1, <1>2, <1>3, <1>5, WorkerConstants

\* A probe begins to raise an event: the generation it reads is the one under
\* which the disk behind its number was announced.
LEMMA EventBeginsIInv ==
    ASSUME IInv, NEW p \in Probes, NEW d \in Devs, EventBegins(p, d)
    PROVE  IInv'
  <1> USE DEF EventBegins, diskVars, sessionVars, readerVars
  <1> DEFINE x == [ev |-> raised + 1, gen |-> generation, dev |-> d]
  <1>0. NewEvent(d) /\ UNCHANGED <<instance, now, lastCollected>> /\ raising' = [raising EXCEPT ![p] = x]
    BY Zenon DEF workerVars
  <1>1. /\ Grows /\ raised' = raised + 1 /\ raised + 1 \in Events /\ raised' \in Nat
        /\ raised' <= MaxEvents /\ raised \in Nat
        /\ subject' \in [Events -> Inst] /\ subject'[raised + 1] = instance[d]
    BY Zenon, <1>0, NewEventGrows
  <1>2. generation \in Nat /\ raising \in [Probes -> EventSet \cup {NoEvent}] /\ x \in EventSet
    BY Zenon, <1>1 DEF IInv, TypeOK, EventType, EventSet
  <1>3. TypeOK'
    <2>1. DiskType'
      BY Zenon, <1>1 DEF IInv, TypeOK, DiskType
    <2>2. raising' \in [Probes -> EventSet \cup {NoEvent}]
      BY Zenon, <1>0, <1>2
    <2>3. EventType' /\ MDType'
      BY Zenon, <2>2 DEF IInv, TypeOK, EventType, MDType
    <2> QED
      BY Zenon, <2>1, <2>3, OutsideTypes
  <1>4. ASSUME NEW y, EventOK(y) PROVE EventOK(y)' /\ subject'[y.ev] = subject[y.ev]
    BY SMTT(30), <1>1, <1>4 DEF EventOK, Grows
  <1>5. hooks = 3
    BY Zenon, Hooks DEF IInv
  <1>6. ASSUME NEW y, y = x PROVE EventOK(y)'
    BY SMTT(30), <1>1, <1>2, <1>5, <1>6 DEF EventOK
  <1> HIDE DEF x
  <1>7. EventInv'
    <2>1. ASSUME NEW q \in Probes, raising'[q] # NoEvent PROVE EventOK(raising[q])'
      <3>1. CASE q = p
        BY Zenon, <1>0, <1>2, <1>6, <3>1
      <3>2. CASE q # p
        BY Zenon, <1>0, <1>2, <1>4, <2>1, <3>2 DEF IInv, EventInv
      <3> QED
        BY Zenon, <3>1, <3>2
    <2> QED
      BY Zenon, <1>4, <2>1 DEF IInv, EventInv
  <1>8. ReaderInv'
    <2>1. reader # "read" => subject'[event.ev] = subject[event.ev]
      BY Zenon, <1>4 DEF IInv, EventInv
    <2> QED
      BY Zenon, <2>1 DEF IInv, ReaderInv, Current, About
  <1>9. MDInv'
    BY Zenon, <1>1, <1>3, MDKept
  <1>10. DiskInv'
    BY Zenon DEF IInv, DiskInv
  <1> QED
    BY Zenon, <1>1, <1>3, <1>7, <1>8, <1>9, <1>10, Outside

\* The steps of the reader before it submits.
LEMMA ReaderOnly ==
    ASSUME IInv, UNCHANGED <<workerVars, diskVars, generation, sessionVars, raising, raised,
                             subject, md, present, persisted>>,
           EventType', EventInv', ReaderInv'
    PROVE  IInv'
  <1>1. DiskType' /\ MDType'
    BY Zenon DEF IInv, TypeOK, DiskType, MDType, diskVars
  <1>2. TypeOK'
    BY Zenon, <1>1, OutsideTypes
  <1>3. Grows
    BY Zenon, GrowsNot DEF IInv, workerVars, diskVars
  <1>4. DiskInv'
    BY Zenon DEF IInv, DiskInv, diskVars
  <1>5. MDInv'
    BY Zenon, <1>2, <1>3, MDKept
  <1> QED
    BY Zenon, <1>2, <1>3, <1>4, <1>5, Outside

\* The reader takes the oldest record.
LEMMA ReadEventIInv == IInv /\ ReadEvent => IInv'
  <1> SUFFICES ASSUME IInv, ReadEvent PROVE IInv'
    BY Zenon
  <1> USE DEF ReadEvent, diskVars, sessionVars
  <1>1. /\ buffer \in Seq(EventSet) /\ buffer # <<>>
        /\ \A n \in 1..Len(buffer) : EventOK(buffer[n])
    BY Zenon DEF IInv, TypeOK, EventType, EventInv
  <1>2. /\ Len(buffer) \in Nat \ {0} /\ Head(buffer) = buffer[1] /\ Head(buffer) \in EventSet
        /\ Tail(buffer) \in Seq(EventSet) /\ Len(Tail(buffer)) = Len(buffer) - 1
        /\ \A n \in 1..Len(Tail(buffer)) : Tail(buffer)[n] = buffer[n + 1]
    BY <1>1
  <1>3. EventOK(event') /\ \A n \in 1..Len(buffer') : EventOK(buffer'[n])
    BY <1>1, <1>2
  <1>4. \A x : EventOK(x) => EventOK(x)'
    BY Zenon DEF EventOK
  <1>5. EventType'
    BY Zenon, <1>2 DEF IInv, TypeOK, EventType
  <1>6. EventInv'
    BY Zenon, <1>3, <1>4 DEF IInv, EventInv
  <1>7. ReaderInv'
    BY Zenon DEF IInv, ReaderInv, Current
  <1> QED
    BY Zenon, <1>5, <1>6, <1>7, ReaderOnly

\* Between the steps of the reader its event stays what it is.
LEMMA SameEvents ==
    ASSUME IInv, reader # "read",
           UNCHANGED <<diskVars, generation, sessionVars, eventVars, event>>
    PROVE  EventInv'
  <1>1. \A x : EventOK(x) => EventOK(x)'
    BY Zenon DEF EventOK, diskVars, sessionVars, eventVars
  <1> QED
    BY Zenon, <1>1 DEF IInv, EventInv, sessionVars, eventVars

\* What sysfs says about the device number of the reader's event.
LEMMA SeenDisk ==
    ASSUME IInv, reader # "read"
    PROVE  /\ event \in EventSet /\ event.dev \in Devs /\ event.dev \in Targets
           /\ present[event.dev] \in Inst
           /\ present[event.dev] \in {NoInstance, instance[event.dev]}
           /\ event.gen = generation => subject[event.ev] = instance[event.dev]
           /\ instance[event.dev] \in Nat
  <1>1. EventOK(event)
    BY Zenon DEF IInv, EventInv
  <1>2. event \in EventSet /\ event.dev \in Devs /\ event.dev \in Targets
    BY Zenon, <1>1, DeviceNames DEF EventOK, EventSet
  <1> QED
    BY Zenon, <1>1, <1>2, InstNat DEF IInv, DiskInv, EventOK, TypeOK, DiskType

\* The name is resolved.
LEMMA ResolveNameIInv == IInv /\ ResolveName => IInv'
  <1> SUFFICES ASSUME IInv, ResolveName PROVE IInv'
    BY Zenon
  <1>1. reader # "read" /\ EventInv'
    BY Zenon, SameEvents DEF ResolveName
  <1> DEFINE seen == present[event.dev]
  <1>2. /\ event \in EventSet /\ event.dev \in Devs /\ event.dev \in Targets
        /\ seen \in Inst /\ seen \in {NoInstance, instance[event.dev]}
        /\ event.gen = generation => subject[event.ev] = instance[event.dev]
    BY Zenon, <1>1, SeenDisk
  <1>3. found' \in {NoTarget, Unresolved(seen, event.dev)}
        /\ (reader' = "identity" => found' = Unresolved(seen, event.dev))
        /\ reader' \in {"check", "identity"}
    BY Zenon DEF ResolveName
  <1>4. /\ found' \in FoundSet /\ found'.reason = TRUE /\ found'.identity = NoInstance
        /\ found'.label \in {NoInstance, seen}
        /\ reader' = "identity" => found'.target = event.dev
    <2>1. Unknown \in Targets /\ NoInstance \in Inst
      BY Zenon, DeviceNames DEF Inst
    <2>2. \A i \in Inst, t \in Targets :
             LET u == Unresolved(i, t)
             IN  u \in FoundSet /\ u.reason = TRUE /\ u.identity = NoInstance
                 /\ u.label = i /\ u.target = t
      BY Zenon, <2>1 DEF Unresolved, FoundSet
    <2> QED
      BY SMTT(30), <1>2, <1>3, <2>1, <2>2 DEF NoTarget
  <1>5. EventType'
    BY Zenon, <1>4 DEF IInv, TypeOK, EventType, ResolveName, sessionVars, eventVars
  <1>6. ReaderInv'
    <2>1. Current(found)'
      BY Zenon, <1>4 DEF Current
    <2>2. event'.gen = generation' => About(found, event.ev)'
      BY Zenon, <1>2, <1>4 DEF About, ResolveName, eventVars
    <2> QED
      BY Zenon, <1>3, <1>4, <2>1, <2>2 DEF ReaderInv, ResolveName
  <1> QED
    BY Zenon, <1>1, <1>5, <1>6, ReaderOnly DEF ResolveName, eventVars

\* What resolveBlockName makes of a name that was found.
LEMMA IdentifiedIs ==
    ASSUME NEW f \in FoundSet, f.identity = NoInstance, f.reason = TRUE,
           NEW g \in Identified(f), present[f.target] \in Inst
    PROVE  /\ g \in FoundSet /\ g.label = f.label /\ g.target = f.target
           /\ \/ g.identity = NoInstance /\ g.reason = TRUE
              \/ /\ g.identity = present[f.target] /\ g.identity # NoInstance
                 /\ g.reason = FALSE
  BY Zenon DEF Identified, FoundSet

\* The identity is resolved.
LEMMA ResolveIdentityIInv == IInv /\ ResolveIdentity => IInv'
  <1> SUFFICES ASSUME IInv, ResolveIdentity PROVE IInv'
    BY Zenon
  <1>1. reader = "identity" /\ reader' = "check" /\ EventInv'
    BY Zenon, SameEvents DEF ResolveIdentity
  <1> DEFINE seen == present[event.dev]
  <1>2. /\ event \in EventSet /\ event.dev \in Devs
        /\ seen \in Inst /\ seen \in {NoInstance, instance[event.dev]}
        /\ event.gen = generation => subject[event.ev] = instance[event.dev]
        /\ instance[event.dev] \in Nat
    BY Zenon, <1>1, SeenDisk
  <1>3. found \in FoundSet /\ found.identity = NoInstance /\ found.target = event.dev
        /\ (event.gen = generation => About(found, event.ev))
    BY Zenon, <1>1 DEF IInv, TypeOK, EventType, ReaderInv
  <1>4. found.reason = TRUE
    BY Zenon, <1>3 DEF IInv, ReaderInv, Current, FoundSet
  <1>5. found' \in Identified(found)
    BY Zenon DEF ResolveIdentity
  <1>6. /\ found' \in FoundSet /\ found'.label = found.label /\ found'.target = found.target
        /\ \/ found'.identity = NoInstance /\ found'.reason = TRUE
           \/ /\ found'.identity = seen /\ found'.identity # NoInstance
              /\ found'.reason = FALSE
    BY Zenon, <1>2, <1>3, <1>4, <1>5, IdentifiedIs
  <1>7. EventType'
    BY Zenon, <1>6 DEF IInv, TypeOK, EventType, ResolveIdentity, sessionVars, eventVars
  <1>8. ReaderInv'
    <2>1. Current(found)'
      BY SMTT(30), <1>2, <1>3, <1>6 DEF Current, ResolveIdentity, diskVars
    <2>2. event'.gen = generation' => About(found, event.ev)'
      BY Zenon, <1>2, <1>3, <1>6 DEF About, ResolveIdentity, eventVars
    <2> QED
      BY Zenon, <1>1, <2>1, <2>2 DEF ReaderInv
  <1> QED
    BY Zenon, <1>1, <1>7, <1>8, ReaderOnly DEF ResolveIdentity, eventVars

\* The generation is compared after the resolution.
LEMMA CheckGenerationIInv == IInv /\ CheckGeneration => IInv'
  <1> SUFFICES ASSUME IInv, CheckGeneration PROVE IInv'
    BY Zenon
  <1>1. reader = "check" /\ reader' = "submit" /\ EventInv'
    BY Zenon, SameEvents DEF CheckGeneration
  <1>2. EventType'
    BY Zenon DEF IInv, TypeOK, EventType, CheckGeneration, sessionVars, eventVars
  <1>3. ~stale' => event.gen = generation
    BY Zenon DEF CheckGeneration
  <1>4. Current(found) /\ (event.gen = generation => About(found, event.ev))
    BY Zenon, <1>1 DEF IInv, ReaderInv
  <1>5. ReaderInv'
    BY Zenon, <1>1, <1>3, <1>4 DEF ReaderInv, CheckGeneration, Current, About, diskVars, eventVars
  <1> QED
    BY Zenon, <1>1, <1>2, <1>5, ReaderOnly DEF CheckGeneration, eventVars

-----------------------------------------------------------------------------
(* The MD handler.                                                         *)

\* A step of the MD handler before it submits.
LEMMA MDOnly ==
    ASSUME IInv, Grows, DiskType', MDType', MDInv',
           UNCHANGED <<workerVars, diskVars, generation, sessionVars, raising, buffer, lost,
                       readerVars, present, persisted>>
    PROVE  IInv'
  <1>1. EventType'
    BY Zenon DEF IInv, TypeOK, EventType, sessionVars, readerVars
  <1>2. TypeOK'
    BY Zenon, <1>1, OutsideTypes
  <1>3. EventInv' /\ ReaderInv'
    BY Zenon, <1>2, EventsKept DEF diskVars, sessionVars
  <1>4. DiskInv'
    BY Zenon DEF IInv, DiskInv, diskVars
  <1> QED
    BY Zenon, <1>2, <1>3, <1>4, Outside

\* A member becomes faulty.
LEMMA MDFaultIInv ==
    ASSUME IInv, NEW d \in Devs, MDFault(d)
    PROVE  IInv'
  <1>0. NewEvent(d) /\ UNCHANGED <<instance, now, lastCollected>>
    BY Zenon DEF MDFault, workerVars, diskVars
  <1>1. /\ Grows /\ raised' = raised + 1 /\ raised + 1 \in Events /\ raised' \in Nat
        /\ raised' <= MaxEvents /\ raised \in Nat
        /\ subject' \in [Events -> Inst] /\ subject'[raised + 1] = instance[d]
        /\ instance[d] \in Nat
    BY Zenon, <1>0, NewEventGrows
  <1>2. instance[d] \in Instances /\ instance[d] \in Inst /\ d \in Targets /\ NoInstance \in Inst
    BY Zenon, DeviceNames DEF MDFault, IInv, TypeOK, DiskType, Inst
  <1> DEFINE f == Unresolved(instance[d], d)
  <1>3. /\ f \in FoundSet /\ f.reason = TRUE /\ f.identity = NoInstance
        /\ f.label = instance[d] /\ f.target = d
    BY Zenon, <1>2 DEF Unresolved, FoundSet
  <1> HIDE DEF f
  <1>4. PICK m \in {instance[d], NoInstance} :
           md' = [at |-> "resolve", ev |-> raised + 1, dev |-> d, member |-> m, found |-> f]
    BY Zenon DEF MDFault, f
  <1>5. DiskType'
    BY Zenon, <1>1 DEF IInv, TypeOK, DiskType, MDFault, diskVars
  <1>6. MDType'
    BY Zenon, <1>1, <1>2, <1>3, <1>4 DEF MDType
  <1>8. Current(md.found)'
    BY Zenon, <1>3, <1>4 DEF Current
  <1>9. MDInv'
    <2>1. /\ md'.ev = raised + 1 /\ md'.dev = d /\ md'.member = m /\ md'.found = f
          /\ raised + 1 \in 1..raised' /\ instance' = instance
      BY SMTT(30), <1>0, <1>1, <1>4
    <2> QED
      BY SMTT(30), <1>1, <1>2, <1>3, <1>8, <2>1 DEF MDInv
  <1> QED
    BY Zenon, <1>1, <1>5, <1>6, <1>9, MDOnly DEF MDFault

\* The handler resolves the name of the member.
LEMMA MDResolveIInv == IInv /\ MDResolve => IInv'
  <1> SUFFICES ASSUME IInv, MDResolve PROVE IInv'
    BY Zenon
  <1> DEFINE s == subject[md.ev]
             f == md.found
             d == md.dev
  <1>1. /\ md.at = "resolve" /\ md.ev \in 1..raised /\ d \in Devs /\ d \in Targets
        /\ s \in Instances /\ s <= instance[d]
        /\ Current(f) /\ f.target = d /\ f.label = s
        /\ md.member \in {NoInstance, s} /\ f.identity = NoInstance
    BY Zenon, DeviceNames DEF IInv, MDInv, MDResolve
  <1>2. /\ f \in FoundSet /\ f.reason = TRUE /\ present[d] \in Inst
        /\ present[d] \in {NoInstance, instance[d]} /\ instance[d] \in Nat
    BY Zenon, <1>1, InstNat DEF IInv, TypeOK, MDType, DiskType, DiskInv, Current, FoundSet
  <1>3. PICK g \in Identified(f) : md' = [md EXCEPT !.at = "check", !.found = g]
    BY Zenon DEF MDResolve
  <1>4. /\ g \in FoundSet /\ g.label = f.label /\ g.target = f.target
        /\ \/ g.identity = NoInstance /\ g.reason = TRUE
           \/ /\ g.identity = present[d] /\ g.identity # NoInstance
              /\ g.reason = FALSE
    <2>1. present[f.target] \in Inst /\ present[f.target] = present[d]
      BY Zenon, <1>1, <1>2
    <2>2. f \in FoundSet /\ f.identity = NoInstance /\ f.reason = TRUE /\ g \in Identified(f)
      BY Zenon, <1>1, <1>2, <1>3
    <2> HIDE DEF f
    <2> QED
      BY Zenon, <2>1, <2>2, IdentifiedIs
  <1>5. /\ MDType' /\ md'.at = "check" /\ md'.ev = md.ev /\ md'.dev = d
        /\ md'.member = md.member /\ md'.found = g
    <2>1. md \in [at: {"idle", "resolve", "check"}, ev: Events \cup {0}, dev: Targets,
                  member: Inst, found: FoundSet]
      BY Zenon DEF IInv, TypeOK, MDType
    <2>2. g \in FoundSet
      BY Zenon, <1>4
    <2> HIDE DEF f
    <2> QED
      BY Zenon, <1>3, <2>1, <2>2 DEF MDType
  <1>6. DiskType' /\ Grows /\ UNCHANGED <<instance, raised, subject>>
    BY Zenon, GrowsNot DEF IInv, TypeOK, DiskType, MDResolve, diskVars, eventVars, workerVars
  <1>7. Current(md.found)'
    BY SMTT(30), <1>1, <1>2, <1>4, <1>5, <1>6 DEF Current
  <1>8. g.identity # NoInstance => s <= g.identity
    BY Zenon, <1>1, <1>2, <1>4
  <1>9. MDInv'
    BY Zenon, <1>1, <1>4, <1>5, <1>6, <1>7, <1>8 DEF MDInv
  <1> QED
    BY Zenon, <1>5, <1>6, <1>9, MDOnly DEF MDResolve, eventVars

-----------------------------------------------------------------------------
(* Submit.                                                                 *)

\* The targets of the accepted requests are no more than the requests.
LEMMA FlyingTargets ==
    ASSUME NEW F, IsFiniteSet(F)
    PROVE  IsFiniteSet({k[1] : k \in F}) /\ Cardinality({k[1] : k \in F}) <= Cardinality(F)
  <1> DEFINE T == {k[1] : k \in F}
             first == [k \in F |-> k[1]]
  <1>1. first \in Surjection(F, T)
    BY Zenon DEF Surjection
  <1> QED
    BY Zenon, <1>1, FS_Surjection

\* Reclaiming what has expired takes no protection away.
LEMMA ReclaimKeeps ==
    ASSUME IInv, NEW d \in Devs, instance[d] # NoInstance, ~Rested(<<d, instance[d]>>)
    PROVE  /\ Unexpired[d].on /\ Unexpired[d].identity = instance[d]
           /\ Unexpired[d].until >= lastCollected[<<d, instance[d]>>] + Cooldown
  <1>1. /\ cooldown[d].on /\ cooldown[d].identity = instance[d]
        /\ cooldown[d].until >= lastCollected[<<d, instance[d]>>] + Cooldown
    BY Zenon DEF IInv, CooldownInv
  <1>2. d \in Targets /\ <<d, instance[d]>> \in RequestKeys
    BY Zenon, DeviceNames DEF IInv, TypeOK, DiskType, RequestKeys, Inst
  <1>3. /\ lastCollected[<<d, instance[d]>>] \in Nat /\ now \in Nat /\ cooldown[d].until \in Nat
        /\ Cooldown \in Nat /\ now < lastCollected[<<d, instance[d]>>] + Cooldown
    BY SMTT(30), <1>2, WorkerConstants DEF Rested, IInv, TypeOK, LoopType, RequestType
  <1>4. ~(now >= cooldown[d].until)
    BY SMTT(30), <1>1, <1>3
  <1>5. Unexpired[d] = cooldown[d]
    BY Zenon, <1>2, <1>4 DEF Unexpired
  <1> QED
    BY Zenon, <1>1, <1>5

\* The table after Submit, accepted or not.
LEMMA ReclaimCooldown ==
    ASSUME IInv, cooldown' \in {cooldown, Unexpired},
           UNCHANGED <<instance, now, lastCollected>>
    PROVE  /\ CooldownInv'
           /\ cooldown' \in [Targets -> [on: BOOLEAN, identity: Inst, until: Nat]]
           /\ Cooling(cooldown)' \subseteq Cooling(cooldown)
  <1>1. \A k : Rested(k)' <=> Rested(k)
    BY Zenon DEF Rested
  <1>2. \A d \in Devs : instance[d] # NoInstance /\ ~Rested(<<d, instance[d]>>) =>
             /\ cooldown'[d].on /\ cooldown'[d].identity = instance[d]
             /\ cooldown'[d].until >= lastCollected[<<d, instance[d]>>] + Cooldown
    <2>1. CASE cooldown' = cooldown
      BY Zenon, <2>1 DEF IInv, CooldownInv
    <2>2. CASE cooldown' = Unexpired
      BY Zenon, <2>2, ReclaimKeeps
    <2> QED
      BY Zenon, <2>1, <2>2
  <1>3. \A t \in Targets, i \in Instances :
          lastCollected'[<<t, i>>] # -1 => t \in Devs /\ i <= instance'[t]
    BY Zenon DEF IInv, CooldownInv
  <1>4. CooldownInv'
    BY Zenon, <1>1, <1>2, <1>3 DEF CooldownInv, Rested
  <1>5. /\ cooldown' \in [Targets -> [on: BOOLEAN, identity: Inst, until: Nat]]
        /\ \A t \in Targets : cooldown'[t] \in {cooldown[t], NoCooldown}
    <2>1. /\ cooldown \in [Targets -> [on: BOOLEAN, identity: Inst, until: Nat]]
          /\ NoCooldown \in [on: BOOLEAN, identity: Inst, until: Nat]
      BY Zenon DEF IInv, TypeOK, RequestType, NoCooldown, Inst
    <2> QED
      BY Zenon, <2>1 DEF Unexpired
  <1>6. Cooling(cooldown)' \subseteq Cooling(cooldown)
    BY SMTT(30), <1>5 DEF Cooling, NoCooldown
  <1> QED
    BY Zenon, <1>4, <1>5, <1>6

\* An accepted request has room for its cooldown.
LEMMA EnqueueTable ==
    ASSUME IInv, NEW r \in RequestSet, Reserves(Unexpired, r.target), Enqueue(r),
           Cooling(Unexpired) \subseteq Cooling(cooldown)
    PROVE  TableInv'
  <1> DEFINE C == Cooling(Unexpired)
             F == {k[1] : k \in inflight}
             G == {k[1] : k \in inflight'}
             t == r.target
  <1>1. inflight' = inflight \cup {<<t, r.identity>>} /\ Cooling(cooldown)' = C
    BY Zenon DEF Enqueue, RequestKey, Cooling
  <1>2. G = F \cup {t}
    <2>1. <<t, r.identity>>[1] = t
      BY Zenon
    <2>2. \A x \in G : x \in F \cup {t}
      BY Zenon, <1>1, <2>1
    <2>3. \A x \in F \cup {t} : x \in G
      <3>1. t \in G
        BY Zenon, <1>1, <2>1, <<t, r.identity>> \in inflight'
      <3>2. \A x \in F : x \in G
        BY Zenon, <1>1
      <3> QED
        BY Zenon, <3>1, <3>2
    <2> QED
      BY Zenon, <2>2, <2>3
  <1>3. /\ IsFiniteSet(inflight) /\ IsFiniteSet(Cooling(cooldown))
        /\ Cardinality(Cooling(cooldown) \cup F) <= TableCapacity /\ TableCapacity \in Nat
    BY Zenon, WorkerConstants DEF IInv, TableInv, CooldownTableBounded
  <1>4. /\ IsFiniteSet(inflight') /\ IsFiniteSet(C) /\ IsFiniteSet(F)
        /\ Cardinality(F) <= Cardinality(inflight)
    BY Zenon, <1>1, <1>3, FlyingTargets, FS_AddElement, FS_Subset
  <1> HIDE DEF C, F, G, t
  <1>5. IsFiniteSet(C \cup F) /\ IsFiniteSet(Cooling(cooldown) \cup F)
    BY Zenon, <1>3, <1>4, FS_Union
  <1>6. /\ Cardinality(C) \in Nat /\ Cardinality(F) \in Nat /\ Cardinality(inflight) \in Nat
        /\ Cardinality(C \cup F) \in Nat /\ Cardinality(Cooling(cooldown) \cup F) \in Nat
    BY Zenon, <1>3, <1>4, <1>5, FS_CardinalityType
  <1>7. Cardinality(C \cup G) <= TableCapacity
    <2>1. C \cup G = (C \cup F) \cup {t}
      BY Zenon, <1>2
    <2>2. CASE Unexpired[t].on
      <3>1. t \in C
        BY Zenon, <2>2 DEF C, Cooling, t, RequestSet
      <3>2. C \cup G = C \cup F
        BY Zenon, <2>1, <3>1
      <3>3. C \cup F \in SUBSET (Cooling(cooldown) \cup F)
        BY Zenon DEF C
      <3>4. Cardinality(C \cup F) <= Cardinality(Cooling(cooldown) \cup F)
        BY Zenon, <1>5, <3>3, FS_Subset
      <3> QED
        BY Zenon, <1>3, <1>6, <3>2, <3>4, LeqTransitive
    <2>3. CASE Cardinality(C) + Cardinality(inflight) < TableCapacity
      <3>1. Cardinality(C \cup G) <= Cardinality(C \cup F) + 1
        <4>1. Cardinality((C \cup F) \cup {t}) =
                 IF t \in C \cup F THEN Cardinality(C \cup F) ELSE Cardinality(C \cup F) + 1
          BY Zenon, <1>5, FS_AddElement
        <4> QED
          <5>1. \/ Cardinality(C \cup G) = Cardinality(C \cup F)
                \/ Cardinality(C \cup G) = Cardinality(C \cup F) + 1
            BY Zenon, <2>1, <4>1
          <5> QED
            BY Zenon, <1>6, <5>1, OneMoreAtMost
      <3>2. /\ Cardinality(C \cup F) = Cardinality(C) + Cardinality(F) - Cardinality(C \cap F)
            /\ IsFiniteSet(C \cap F)
        <4>1. C \cap F \in SUBSET C
          BY Zenon
        <4> QED
          BY Zenon, <1>4, <4>1, FS_Union, FS_Subset
      <3>3. Cardinality(C \cap F) \in Nat
        BY Zenon, <3>2, FS_CardinalityType
      <3>4. IsFiniteSet((C \cup F) \cup {t})
        BY Zenon, <1>5, FS_AddElement
      <3>5. Cardinality(C \cup G) \in Nat
        BY Zenon, <2>1, <3>4, FS_CardinalityType
      <3> QED
        BY SMTT(30), <1>3, <1>4, <1>6, <2>3, <3>1, <3>2, <3>3, <3>5
    <2> QED
      BY Zenon, <2>2, <2>3 DEF Reserves, C, t
  <1> QED
    BY Zenon, <1>1, <1>3, <1>4, <1>7 DEF TableInv, CooldownTableBounded, G

\* A refused request leaves the table smaller or as it is.
LEMMA RefuseTable ==
    ASSUME IInv, inflight' = inflight, Cooling(cooldown)' \subseteq Cooling(cooldown)
    PROVE  TableInv'
  <1> DEFINE F == {k[1] : k \in inflight}
             C == Cooling(cooldown)
  <1>1. /\ IsFiniteSet(inflight) /\ IsFiniteSet(C)
        /\ Cardinality(C \cup F) <= TableCapacity /\ TableCapacity \in Nat
    BY Zenon, WorkerConstants DEF IInv, TableInv, CooldownTableBounded
  <1>2. IsFiniteSet(C') /\ IsFiniteSet(F)
    BY Zenon, <1>1, FlyingTargets, FS_Subset
  <1>3. IsFiniteSet(C \cup F) /\ IsFiniteSet(C' \cup F)
    BY Zenon, <1>1, <1>2, FS_Union
  <1>4. C' \cup F \in SUBSET (C \cup F)
    BY Zenon
  <1>5. Cardinality(C' \cup F) <= Cardinality(C \cup F)
    BY Zenon, <1>3, <1>4, FS_Subset
  <1>6. Cardinality(C' \cup F) \in Nat /\ Cardinality(C \cup F) \in Nat
    BY Zenon, <1>3, FS_CardinalityType
  <1>7. Cardinality(C' \cup F) <= TableCapacity
    BY SMTT(30), <1>1, <1>5, <1>6
  <1> QED
    BY Zenon, <1>1, <1>2, <1>7 DEF TableInv, CooldownTableBounded

\* What is stored about the disk of its event keeps the records right.
LEMMA PersistKeeps ==
    ASSUME IInv, NEW e \in 1..raised, NEW label, NEW evidence,
           label \in {NoInstance, subject[e]}, evidence \in {NoInstance, subject[e]},
           Persist(e, label, evidence), UNCHANGED <<raised, subject>>
    PROVE  StoreType' /\ StoreInv'
  <1> DEFINE rec == [label |-> label, evidence |-> evidence]
             R == [label: Inst, evidence: Inst]
  <1>1. e \in Events /\ rec \in R
    <2>1. e \in Events
      BY WorkerConstants DEF IInv, TypeOK, DiskType, Events
    <2>2. subject[e] \in Inst /\ NoInstance \in Inst
      BY Zenon, <2>1 DEF IInv, TypeOK, DiskType, Inst
    <2> QED
      BY Zenon, <2>1, <2>2
  <1>2. persisted \in [Events -> Seq(R)]
    BY Zenon DEF IInv, TypeOK, StoreType
  <1>3. rec.label = label /\ rec.evidence = evidence
    BY Zenon
  <1> HIDE DEF rec, R
  <1>4. persisted' = [persisted EXCEPT ![e] = Append(persisted[e], rec)]
    BY Zenon DEF Persist, rec
  <1>5. /\ Append(persisted[e], rec) \in Seq(R)
        /\ Len(Append(persisted[e], rec)) = Len(persisted[e]) + 1 /\ Len(persisted[e]) \in Nat
        /\ \A n \in 1..Len(persisted[e]) : Append(persisted[e], rec)[n] = persisted[e][n]
        /\ Append(persisted[e], rec)[Len(persisted[e]) + 1] = rec
    BY SMTT(30), <1>1, <1>2, AppendProperties
  <1>6. persisted' \in [Events -> Seq(R)]
    BY Zenon, <1>2, <1>4, <1>5
  <1>7. persisted'[e] = Append(persisted[e], rec)
        /\ \A x \in Events \ {e} : persisted'[x] = persisted[x]
    BY Zenon, <1>1, <1>2, <1>4
  <1>8. RecordIsAboutItsDisk'
    <2>1. ASSUME NEW x \in Events, NEW n \in 1..Len(persisted'[x])
          PROVE  /\ persisted'[x][n].label \in {NoInstance, subject[x]}
                 /\ persisted'[x][n].evidence \in {NoInstance, subject[x]}
      <3>1. CASE x # e \/ n \in 1..Len(persisted[e])
        <4>1. n \in 1..Len(persisted[x]) /\ persisted'[x][n] = persisted[x][n]
          BY Zenon, <1>1, <1>5, <1>7, <2>1, <3>1
        <4> QED
          BY Zenon, <4>1 DEF IInv, StoreInv, RecordIsAboutItsDisk
      <3>2. CASE x = e /\ n = Len(persisted[e]) + 1
        BY Zenon, <1>3, <1>5, <1>7, <3>2
      <3> QED
        BY SMTT(30), <1>5, <1>7, <3>1, <3>2
    <2> QED
      BY Zenon, <2>1 DEF RecordIsAboutItsDisk
  <1>9. \A x \in Events : persisted'[x] # <<>> => x <= raised'
    BY SMTT(30), <1>7 DEF IInv, StoreInv
  <1> QED
    BY Zenon, <1>6, <1>8, <1>9 DEF StoreType, StoreInv, R

\* Submit accepts only what rests.
LEMMA AcceptedOK ==
    ASSUME IInv, NEW r \in RequestSet, Accepts(r), r.ev \in 1..raised, About(r, r.ev), Current(r)
    PROVE  RequestOK(r)
  <1> SUFFICES ASSUME r.identity # NoInstance, r.identity = instance[r.target],
                      ~Rested(RequestKey(r))
               PROVE  FALSE
    BY Zenon DEF RequestOK
  <1>1. r.target \in Devs
    BY Zenon DEF Current
  <1>2. ~Rested(<<r.target, instance[r.target]>>) /\ instance[r.target] # NoInstance
    BY Zenon DEF RequestKey
  <1>3. Unexpired[r.target].on /\ Unexpired[r.target].identity = instance[r.target]
    BY Zenon, <1>1, <1>2, ReclaimKeeps
  <1> QED
    BY Zenon, <1>3 DEF Accepts

\* The queue with one more request.
LEMMA EnqueueQueue ==
    ASSUME IInv, NEW r \in RequestSet, RequestOK(r), RequestKey(r) \notin inflight, Enqueue(r),
           UNCHANGED <<loopVars, raised, subject, instance, now, lastCollected>>
    PROVE  QueueInv' /\ queue' \in Seq(RequestSet) /\ inflight' \subseteq RequestKeys
  <1> DEFINE m == Len(queue)
  <1>1. queue' = Append(queue, r) /\ inflight' = inflight \cup {RequestKey(r)} /\ loop' = loop
        /\ job' = job
    BY Zenon DEF Enqueue, loopVars
  <1>2. queue \in Seq(RequestSet) /\ inflight \subseteq RequestKeys
    BY Zenon DEF IInv, TypeOK, RequestType
  <1>3. /\ queue' \in Seq(RequestSet) /\ Len(queue') = m + 1 /\ m \in Nat
        /\ \A n \in 1..m : queue'[n] = queue[n]
        /\ queue'[m + 1] = r
    BY SMTT(30), <1>1, <1>2, AppendProperties
  <1>4. RequestKey(r) \in RequestKeys
    BY Zenon DEF RequestKey, RequestKeys, RequestSet, Inst
  <1>5. \A x : RequestOK(x) => RequestOK(x)'
    BY Zenon DEF RequestOK, About, Current, Rested
  <1>6. \A n \in 1..m + 1 : n \in 1..m \/ n = m + 1
    BY SMTT(30), <1>3
  <1>7. \A n \in 1..m : RequestOK(queue[n]) /\ RequestKey(queue[n]) \in inflight
                        /\ RequestKey(queue[n]) # RequestKey(r)
    BY Zenon DEF IInv, QueueInv
  <1>8. \A n \in 1..m + 1 : RequestOK(queue'[n]) /\ RequestKey(queue'[n]) \in inflight'
    BY Zenon, <1>1, <1>3, <1>5, <1>6, <1>7
  <1>9. \A i, n \in 1..m + 1 : RequestKey(queue'[i]) = RequestKey(queue'[n]) => i = n
    BY Zenon, <1>3, <1>6, <1>7 DEF IInv, QueueInv
  <1>10. Busy' => /\ RequestOK(job) /\ RequestKey(job) \in inflight
                  /\ \A n \in 1..m + 1 : RequestKey(queue'[n]) # RequestKey(job)
    BY Zenon, <1>1, <1>3, <1>6 DEF IInv, QueueInv, Busy
  <1> QED
    BY Zenon, <1>1, <1>2, <1>3, <1>4, <1>5, <1>8, <1>9, <1>10 DEF QueueInv

\* What a handler that submits, or stores at once, leaves of the invariant.
Handled ==
    /\ RequestType /\ StoreType
    /\ QueueInv /\ CooldownInv /\ TableInv /\ StoreInv

\* collectEvidenceOrPersist.
LEMMA SubmitHandled ==
    ASSUME IInv, NEW e \in 1..raised, NEW f \in FoundSet, About(f, e), Current(f),
           SubmitOrPersist(e, f),
           UNCHANGED <<loopVars, raised, subject, instance, now, lastCollected>>
    PROVE  Handled'
  <1> DEFINE r == [ev |-> e, label |-> f.label, target |-> f.target,
                   identity |-> f.identity, reason |-> f.reason]
  <1>1. r \in RequestSet /\ About(r, r.ev) /\ Current(r) /\ r.ev \in 1..raised
    <2>1. e \in Events
      BY SMTT(30), WorkerConstants DEF IInv, TypeOK, DiskType, Events
    <2> QED
      BY Zenon, <2>1 DEF RequestSet, FoundSet, About, Current
  <1>2. /\ r.ev = e
        /\ \/ Accepts(r) /\ Enqueue(r) /\ UNCHANGED persisted
           \/ ~Accepts(r) /\ Refuse /\ Persist(e, f.label, NoInstance)
    BY Zenon DEF SubmitOrPersist
  <1> HIDE DEF r
  <1>3. CASE Accepts(r) /\ Enqueue(r) /\ UNCHANGED persisted
    <2>1. RequestOK(r) /\ RequestKey(r) \notin inflight /\ Reserves(Unexpired, r.target)
      BY Zenon, <1>1, <1>3, AcceptedOK DEF Accepts
    <2>2. QueueInv' /\ queue' \in Seq(RequestSet) /\ inflight' \subseteq RequestKeys
      BY Zenon, <1>1, <1>3, <2>1, EnqueueQueue
    <2>3. cooldown' = Unexpired
      BY Zenon, <1>3 DEF Enqueue
    <2>4. /\ CooldownInv'
          /\ cooldown' \in [Targets -> [on: BOOLEAN, identity: Inst, until: Nat]]
          /\ Cooling(cooldown)' \subseteq Cooling(cooldown)
      BY Zenon, <2>3, ReclaimCooldown
    <2>5. Cooling(Unexpired) \subseteq Cooling(cooldown)
      BY Zenon, <2>3, <2>4 DEF Cooling
    <2>6. TableInv'
      BY Zenon, <1>1, <1>3, <2>1, <2>5, EnqueueTable
    <2>7. StoreType' /\ StoreInv'
      BY Zenon, <1>3 DEF IInv, TypeOK, StoreType, StoreInv, RecordIsAboutItsDisk
    <2> QED
      BY Zenon, <2>2, <2>4, <2>6, <2>7 DEF Handled, RequestType
  <1>4. CASE ~Accepts(r) /\ Refuse /\ Persist(e, f.label, NoInstance)
    <2>1. cooldown' \in {cooldown, Unexpired} /\ UNCHANGED <<queue, inflight>>
      BY Zenon, <1>4 DEF Refuse
    <2>2. /\ CooldownInv'
          /\ cooldown' \in [Targets -> [on: BOOLEAN, identity: Inst, until: Nat]]
          /\ Cooling(cooldown)' \subseteq Cooling(cooldown)
      BY Zenon, <2>1, ReclaimCooldown
    <2>3. TableInv'
      BY Zenon, <2>1, <2>2, RefuseTable
    <2>4. \A x : RequestOK(x) => RequestOK(x)'
      BY Zenon DEF RequestOK, About, Current, Rested
    <2>5. QueueInv'
      BY Zenon, <2>1, <2>4 DEF IInv, QueueInv, Busy, loopVars
    <2>6. StoreType' /\ StoreInv'
      BY Zenon, <1>4, PersistKeeps DEF About
    <2> QED
      BY Zenon, <2>1, <2>2, <2>3, <2>5, <2>6 DEF Handled, RequestType, IInv, TypeOK
  <1> QED
    BY Zenon, <1>2, <1>3, <1>4

\* An event that is stored without asking the worker.
LEMMA StoredHandled ==
    ASSUME IInv, NEW e \in 1..raised, NEW label \in {NoInstance, subject[e]},
           Persist(e, label, NoInstance),
           UNCHANGED <<requestVars, loopVars, raised, subject, instance, now, lastCollected>>
    PROVE  Handled'
  <1>1. StoreType' /\ StoreInv'
    BY Zenon, PersistKeeps
  <1>2. \A x : RequestOK(x) => RequestOK(x)'
    BY Zenon DEF RequestOK, About, Current, Rested
  <1>3. QueueInv'
    BY Zenon, <1>2 DEF IInv, QueueInv, Busy, requestVars, loopVars
  <1>4. CooldownInv' /\ TableInv' /\ RequestType'
    <2>1. cooldown' \in {cooldown, Unexpired} /\ inflight' = inflight
      BY Zenon DEF requestVars
    <2> QED
      BY Zenon, <2>1, ReclaimCooldown, RefuseTable DEF requestVars, IInv, TypeOK, RequestType
  <1> QED
    BY Zenon, <1>1, <1>3, <1>4 DEF Handled

\* A handler has done its work.
LEMMA HandlerDone ==
    ASSUME IInv, Handled', EventType', EventInv', ReaderInv', MDType', MDInv',
           UNCHANGED <<loopVars, now, lastCollected, diskVars, raised, subject, present>>
    PROVE  IInv'
  <1>1. DiskType' /\ DiskInv'
    BY Zenon DEF IInv, TypeOK, DiskType, DiskInv, diskVars
  <1>2. LoopType'
    BY Zenon DEF IInv, TypeOK, LoopType, loopVars
  <1>3. LoopInv'
    BY Zenon DEF IInv, LoopInv, Rested, loopVars, diskVars
  <1> QED
    BY Zenon, <1>1, <1>2, <1>3 DEF IInv, TypeOK, Handled

\* The reader hands its event on.
LEMMA HandleEventIInv == IInv /\ HandleEvent => IInv'
  <1> SUFFICES ASSUME IInv, HandleEvent PROVE IInv'
    BY Zenon
  <1>1. /\ UNCHANGED <<loopVars, raised, subject, instance, stage, present, now, lastCollected>>
        /\ UNCHANGED <<generation, hooks, session, raising, buffer, md>>
    BY Zenon DEF HandleEvent, diskVars, eventVars, sessionVars
  <1>2. reader = "submit" /\ event.ev \in 1..raised /\ found \in FoundSet /\ Current(found)
        /\ (~stale => About(found, event.ev))
    BY Zenon DEF HandleEvent, IInv, EventInv, EventOK, ReaderInv, TypeOK, EventType
  <1>3. Handled'
    <2>1. CASE stale
      BY Zenon, <1>1, <1>2, <2>1, StoredHandled DEF HandleEvent
    <2>2. CASE ~stale
      BY Zenon, <1>1, <1>2, <2>2, SubmitHandled DEF HandleEvent
    <2> QED
      BY Zenon, <2>1, <2>2
  <1>4. reader' = "read" /\ event' = NoEvent /\ found' = NoTarget
    BY Zenon DEF HandleEvent
  <1>5. NoTarget \in FoundSet /\ NoTarget.reason = TRUE /\ NoTarget.identity = NoInstance
    BY Zenon, DeviceNames DEF NoTarget, Unresolved, FoundSet, Inst
  <1>6. EventType'
    BY Zenon, <1>1, <1>4, <1>5 DEF IInv, TypeOK, EventType
  <1>7. \A x : EventOK(x) => EventOK(x)'
    BY Zenon, <1>1 DEF EventOK
  <1>8. EventInv'
    BY Zenon, <1>1, <1>4, <1>7 DEF IInv, EventInv
  <1>9. ReaderInv'
    BY Zenon, <1>4, <1>5 DEF ReaderInv, Current
  <1>10. MDType' /\ MDInv'
    BY Zenon, <1>1 DEF IInv, TypeOK, MDType, MDInv, Current
  <1> QED
    BY Zenon, <1>1, <1>3, <1>6, <1>8, <1>9, <1>10, HandlerDone DEF diskVars

\* The MD handler hands its event on.
LEMMA MDSubmitIInv == IInv /\ MDSubmit => IInv'
  <1> SUFFICES ASSUME IInv, MDSubmit PROVE IInv'
    BY Zenon
  <1>1. /\ UNCHANGED <<loopVars, raised, subject, instance, stage, present, now, lastCollected>>
        /\ UNCHANGED <<generation, hooks, session, raising, buffer, readerVars>>
    BY Zenon DEF MDSubmit, diskVars, eventVars, sessionVars
  <1> DEFINE s == subject[md.ev]
             f == md.found
             d == md.dev
  <1>2. /\ md.at = "check" /\ md.ev \in 1..raised /\ d \in Devs
        /\ s \in Instances /\ s <= instance[d]
        /\ Current(f) /\ f.target = d /\ f.label = s
        /\ md.member \in {NoInstance, s}
        /\ f.identity # NoInstance => s <= f.identity
    BY Zenon DEF IInv, MDInv, MDSubmit
  <1>3. f \in FoundSet /\ f.identity \in Nat /\ s \in Nat /\ instance[d] \in Nat
    BY Zenon, <1>2, InstNat DEF IInv, TypeOK, MDType, DiskType, FoundSet, Inst
  <1>4. Handled'
    <2>1. CASE MemberCurrent
      <3>1. present[d] = s /\ s # NoInstance
        BY Zenon, <1>2, <2>1, InstNat DEF MemberCurrent
      <3>2. instance[d] = s
        BY Zenon, <1>2, <3>1 DEF IInv, DiskInv
      <3>3. f.identity # NoInstance => f.identity <= s
        BY Zenon, <1>2, <3>2 DEF Current
      <3>4. f.identity \in {NoInstance, s}
        BY SMTT(30), <1>2, <1>3, <3>3
      <3>5. About(f, md.ev)
        BY Zenon, <1>2, <3>4 DEF About
      <3> QED
        BY Zenon, <1>1, <1>2, <1>3, <2>1, <3>5, SubmitHandled DEF MDSubmit
    <2>2. CASE ~MemberCurrent
      BY Zenon, <1>1, <1>2, <2>2, StoredHandled DEF MDSubmit
    <2> QED
      BY Zenon, <2>1, <2>2
  <1>5. md' = MDIdle
    BY Zenon DEF MDSubmit
  <1>6. MDType' /\ MDInv'
    <2>1. NoTarget \in FoundSet /\ Unknown \in Targets /\ NoInstance \in Inst
      BY Zenon, DeviceNames DEF NoTarget, Unresolved, FoundSet, Inst
    <2> QED
      BY Zenon, <1>5, <2>1 DEF MDType, MDInv, MDIdle
  <1>7. EventType'
    BY Zenon, <1>1 DEF IInv, TypeOK, EventType, readerVars
  <1>8. \A x : EventOK(x) => EventOK(x)'
    BY Zenon, <1>1 DEF EventOK
  <1>9. EventInv' /\ ReaderInv'
    BY Zenon, <1>1, <1>8 DEF IInv, EventInv, ReaderInv, Current, About, readerVars
  <1> QED
    BY Zenon, <1>1, <1>4, <1>6, <1>7, <1>9, HandlerDone DEF diskVars

-----------------------------------------------------------------------------
(* The goroutine.                                                          *)

\* A step of the worker that touches nothing else.
LEMMA WorkerOnly ==
    ASSUME IInv, UNCHANGED <<rest, present>>, RequestType', LoopType', StoreType',
           QueueInv', LoopInv', CooldownInv', TableInv', StoreInv'
    PROVE  IInv'
  <1> USE DEF rest, diskVars, sessionVars, eventVars, readerVars
  <1>1. DiskType' /\ DiskInv'
    BY Zenon DEF IInv, TypeOK, DiskType, DiskInv
  <1>2. EventType' /\ MDType'
    BY Zenon DEF IInv, TypeOK, EventType, MDType
  <1>3. \A x : EventOK(x) => EventOK(x)'
    BY Zenon DEF EventOK
  <1>4. EventInv' /\ ReaderInv'
    BY Zenon, <1>3 DEF IInv, EventInv, ReaderInv, Current, About
  <1>5. MDInv'
    BY Zenon DEF IInv, MDInv, Current
  <1> QED
    BY Zenon, <1>1, <1>2, <1>4, <1>5 DEF IInv, TypeOK

\* A step of the goroutine that leaves the tables and the clock alone.
LEMMA LoopOnly ==
    ASSUME IInv, UNCHANGED <<rest, present, now, lastCollected, inflight, cooldown, persisted>>,
           queue' \in Seq(RequestSet), job' \in RequestSet \cup {NoJob},
           result' \in [evidence: Inst, apply: BOOLEAN], QueueInv', LoopInv'
    PROVE  IInv'
  <1> USE DEF rest, diskVars, eventVars
  <1>1. RequestType' /\ LoopType' /\ StoreType'
    BY Zenon DEF IInv, TypeOK, RequestType, LoopType, StoreType
  <1>2. CooldownInv' /\ TableInv'
    BY Zenon DEF IInv, CooldownInv, TableInv, CooldownTableBounded, Cooling, Rested
  <1>3. StoreInv'
    BY Zenon DEF IInv, StoreInv, RecordIsAboutItsDisk
  <1> QED
    BY Zenon, <1>1, <1>2, <1>3, WorkerOnly

\* The queue is left alone too.
LEMMA JobStep ==
    ASSUME IInv, Busy, Busy',
           UNCHANGED <<rest, now, lastCollected, inflight, queue, job>>
    PROVE  QueueInv' /\ queue' \in Seq(RequestSet) /\ job' \in RequestSet \cup {NoJob}
  <1>1. \A x : RequestOK(x) => RequestOK(x)'
    BY Zenon DEF RequestOK, About, Current, Rested, rest, diskVars, eventVars
  <1> QED
    BY Zenon, <1>1 DEF IInv, TypeOK, RequestType, LoopType, QueueInv

\* What is known of the request the goroutine has.
LEMMA JobFacts ==
    ASSUME IInv, Busy
    PROVE  /\ job \in RequestSet /\ RequestOK(job) /\ About(job, job.ev) /\ Current(job)
           /\ job.ev \in 1..raised
           /\ job.identity \in Nat /\ job.target \in Targets
           /\ job.identity # NoInstance =>
                 /\ job.target \in Devs /\ instance[job.target] \in Nat
                 /\ job.identity <= instance[job.target] /\ job.identity \in Instances
                 /\ present[job.target] \in {NoInstance, instance[job.target]}
  <1>1. job \in RequestSet /\ RequestOK(job) /\ About(job, job.ev) /\ Current(job)
        /\ job.ev \in 1..raised
    BY Zenon DEF IInv, QueueInv, RequestOK
  <1>2. job.identity \in Inst /\ job.target \in Targets
    BY Zenon, <1>1 DEF RequestSet
  <1>3. job.identity # NoInstance => job.target \in Devs /\ job.identity <= instance[job.target]
    BY Zenon, <1>1 DEF Current
  <1>4. job.target \in Devs => /\ instance[job.target] \in Nat
                               /\ present[job.target] \in {NoInstance, instance[job.target]}
    BY Zenon, InstNat DEF IInv, TypeOK, DiskType, DiskInv
  <1> QED
    BY Zenon, <1>1, <1>2, <1>3, <1>4, InstNat DEF Inst

\* The goroutine takes the oldest request, or finds none.
LEMMA TakeIInv == IInv /\ Take /\ UNCHANGED rest => IInv'
  <1> SUFFICES ASSUME IInv, Take, UNCHANGED rest PROVE IInv'
    BY Zenon
  <1>1. /\ queue \in Seq(RequestSet) /\ ~Busy /\ result \in [evidence: Inst, apply: BOOLEAN]
        /\ job \in RequestSet \cup {NoJob}
    BY Zenon DEF IInv, TypeOK, RequestType, LoopType, Take, Busy
  <1>2. \A x : RequestOK(x) => RequestOK(x)'
    BY Zenon DEF RequestOK, About, Current, Rested, rest, diskVars, eventVars, Take
  <1>3. CASE queue = <<>>
    <2>1. UNCHANGED <<queue, job>> /\ loop' = "wait"
      BY Zenon, <1>3 DEF Take
    <2>2. QueueInv' /\ LoopInv'
      BY Zenon, <1>2, <2>1 DEF IInv, QueueInv, Busy, LoopInv, Take
    <2> QED
      BY Zenon, <1>1, <2>1, <2>2, LoopOnly DEF Take
  <1>4. CASE queue # <<>>
    <2>1. job' = Head(queue) /\ queue' = Tail(queue) /\ loop' = "taken"
      BY Zenon, <1>4 DEF Take
    <2>2. /\ Len(queue) \in Nat \ {0} /\ job' = queue[1] /\ job' \in RequestSet
          /\ queue' \in Seq(RequestSet) /\ Len(queue') = Len(queue) - 1
          /\ \A n \in 1..Len(queue') : queue'[n] = queue[n + 1]
      BY <1>1, <1>4, <2>1
    <2>3. /\ \A n \in 1..Len(queue) : RequestOK(queue[n]) /\ RequestKey(queue[n]) \in inflight
          /\ \A m, n \in 1..Len(queue) : RequestKey(queue[m]) = RequestKey(queue[n]) => m = n
          /\ inflight' = inflight
      BY Zenon DEF IInv, QueueInv, Take
    <2>4. 1 \in 1..Len(queue) /\ \A n \in 1..Len(queue') : n + 1 \in 1..Len(queue) /\ n + 1 # 1
      BY <2>2
    <2>5. /\ \A n \in 1..Len(queue') : RequestOK(queue'[n]) /\ RequestKey(queue'[n]) \in inflight
          /\ RequestOK(job') /\ RequestKey(job') \in inflight
          /\ \A n \in 1..Len(queue') : RequestKey(queue'[n]) # RequestKey(job')
      BY Zenon, <2>2, <2>3, <2>4
    <2>6. ASSUME NEW m \in 1..Len(queue'), NEW n \in 1..Len(queue'),
                 RequestKey(queue'[m]) = RequestKey(queue'[n])
          PROVE  m = n
      <3>1. m + 1 = n + 1
        BY Zenon, <2>2, <2>3, <2>4, <2>6
      <3> QED
        BY SMTT(30), <2>2, <3>1
    <2>7. QueueInv'
      BY Zenon, <1>2, <2>3, <2>5, <2>6 DEF QueueInv
    <2>8. LoopInv'
      BY Zenon, <2>1 DEF LoopInv
    <2> QED
      BY Zenon, <1>1, <2>2, <2>7, <2>8, LoopOnly DEF Take
  <1> QED
    BY Zenon, <1>3, <1>4

\* The goroutine is woken, or leaves.
LEMMA AwaitWorkIInv == IInv /\ AwaitWork /\ UNCHANGED rest => IInv'
  <1> SUFFICES ASSUME IInv, AwaitWork, UNCHANGED rest PROVE IInv'
    BY Zenon
  <1>1. loop' \in {"scan", "exited"}
    BY Zenon DEF AwaitWork, Wakes
  <1>2. \A x : RequestOK(x) => RequestOK(x)'
    BY Zenon DEF RequestOK, About, Current, Rested, rest, diskVars, eventVars, AwaitWork
  <1>3. QueueInv' /\ LoopInv'
    BY Zenon, <1>1, <1>2 DEF IInv, QueueInv, Busy, LoopInv, AwaitWork
  <1> QED
    BY Zenon, <1>3, LoopOnly DEF AwaitWork, IInv, TypeOK, RequestType, LoopType

\* collectEvidence up to the command: an identity that validates rests.
LEMMA BeginCollectionIInv == IInv /\ BeginCollection /\ UNCHANGED rest => IInv'
  <1> SUFFICES ASSUME IInv, BeginCollection, UNCHANGED rest PROVE IInv'
    BY Zenon
  <1> USE DEF requestVars
  <1>1. Busy /\ Busy' /\ UNCHANGED <<rest, present, now, lastCollected, inflight, cooldown,
                                     persisted, queue, job>>
    BY Zenon DEF BeginCollection, Busy
  <1>2. QueueInv' /\ queue' \in Seq(RequestSet) /\ job' \in RequestSet \cup {NoJob}
    BY Zenon, <1>1, JobStep
  <1>3. result' \in [evidence: Inst, apply: BOOLEAN]
    <2>1. \A b \in BOOLEAN : [evidence |-> NoInstance, apply |-> b]
                                \in [evidence: Inst, apply: BOOLEAN]
      BY Zenon DEF Inst
    <2>2. result \in [evidence: Inst, apply: BOOLEAN]
      BY Zenon DEF IInv, TypeOK, LoopType
    <2> QED
      BY Zenon, <2>1, <2>2 DEF BeginCollection
  <1>4. job.reason <=> job.identity = NoInstance
    BY Zenon, <1>1, JobFacts DEF Current
  <1>5. LoopInv'
    <2>1. CASE loop' = "collected"
      <3>1. result'.evidence = NoInstance /\ (result'.apply => job.identity = NoInstance)
        BY SMTT(30), <1>4, <2>1 DEF BeginCollection
      <3> QED
        BY Zenon, <1>1, <2>1, <3>1 DEF LoopInv
    <2>2. CASE loop' = "command"
      <3>1. job.identity # NoInstance /\ present[job.target] = job.identity
        BY Zenon, <1>4, <2>2 DEF BeginCollection, Validates
      <3>2. instance[job.target] = job.identity
        BY Zenon, <1>1, <3>1, JobFacts
      <3>3. Rested(RequestKey(job))
        BY Zenon, <1>1, <3>1, <3>2, JobFacts DEF RequestOK
      <3> QED
        BY Zenon, <1>1, <2>2, <3>1, <3>3 DEF LoopInv, Rested
    <2> QED
      BY Zenon, <2>1, <2>2 DEF BeginCollection
  <1> QED
    BY Zenon, <1>1, <1>2, <1>3, <1>5, LoopOnly

\* The command reads the disk that is there.
LEMMA RunCommandIInv == IInv /\ RunCommand /\ UNCHANGED rest => IInv'
  <1> SUFFICES ASSUME IInv, RunCommand, UNCHANGED rest PROVE IInv'
    BY Zenon
  <1> USE DEF requestVars
  <1>1. Busy /\ Busy' /\ UNCHANGED <<rest, present, now, lastCollected, inflight, cooldown,
                                     persisted, queue, job>>
        /\ loop = "command" /\ loop' = "validate"
    BY Zenon DEF RunCommand, Busy
  <1>2. QueueInv' /\ queue' \in Seq(RequestSet) /\ job' \in RequestSet \cup {NoJob}
    BY Zenon, <1>1, JobStep
  <1>3. PICK seen \in {present[job.target], NoInstance} :
           result' = [evidence |-> seen, apply |-> TRUE]
    BY Zenon DEF RunCommand
  <1>4. /\ job.identity # NoInstance /\ job.target \in Targets
        /\ instance[job.target] \in Nat /\ job.identity \in Nat
        /\ job.identity <= instance[job.target]
        /\ present[job.target] \in {NoInstance, instance[job.target]}
    BY Zenon, <1>1, JobFacts DEF IInv, LoopInv
  <1>5. result'.evidence = seen /\ result' \in [evidence: Inst, apply: BOOLEAN]
    BY Zenon, <1>3, <1>4 DEF IInv, TypeOK, DiskType, Inst
  <1>6. instance' = instance
    BY Zenon DEF rest, diskVars
  <1>7. LoopInv'
    BY SMTT(30), <1>1, <1>4, <1>5, <1>6 DEF LoopInv
  <1> QED
    BY Zenon, <1>1, <1>2, <1>5, <1>7, LoopOnly

\* The second validation: what was read is the disk of the request, and no
\* later one has been examined under its name.
LEMMA RevalidateIInv == IInv /\ Revalidate /\ UNCHANGED rest => IInv'
  <1> SUFFICES ASSUME IInv, Revalidate, UNCHANGED rest PROVE IInv'
    BY Zenon
  <1> USE DEF requestVars
  <1>1. Busy /\ Busy' /\ UNCHANGED <<rest, present, now, lastCollected, inflight, cooldown,
                                     persisted, queue, job>>
        /\ loop = "validate" /\ loop' = "collected"
    BY Zenon DEF Revalidate, Busy
  <1>2. QueueInv' /\ queue' \in Seq(RequestSet) /\ job' \in RequestSet \cup {NoJob}
    BY Zenon, <1>1, JobStep
  <1>3. result \in [evidence: Inst, apply: BOOLEAN] /\ NoResult \in [evidence: Inst, apply: BOOLEAN]
    BY Zenon DEF IInv, TypeOK, LoopType, NoResult, Inst
  <1>4. result' \in [evidence: Inst, apply: BOOLEAN]
    BY Zenon, <1>3 DEF Revalidate, Revalidated
  <1>5. job.identity # NoInstance
    BY Zenon, <1>1 DEF IInv, LoopInv
  <1>6. CASE Validates(job)
    <2>1. result' = result /\ present[job.target] = job.identity
      BY Zenon, <1>5, <1>6 DEF Revalidate, Revalidated, Validates
    <2>2. instance[job.target] = job.identity /\ job.target \in Targets /\ job.identity \in Nat
      BY Zenon, <1>1, <1>5, <2>1, JobFacts
    <2>3. result.evidence \in Nat
      BY Zenon, <1>3, InstNat
    <2>4. result.evidence # NoInstance => result.evidence = job.identity
      <3>1. result.evidence # NoInstance =>
               job.identity <= result.evidence /\ result.evidence <= instance[job.target]
        BY Zenon, <1>1 DEF IInv, LoopInv
      <3> QED
        BY SMTT(30), <2>2, <2>3, <3>1
    <2>5. job.identity = subject[job.ev]
      BY Zenon, <1>1, <1>5, JobFacts DEF About
    <2>6. \A i \in Instances : i > job.identity => lastCollected[<<job.target, i>>] = -1
      <3>1. \A i \in Instances : i \in Nat
        BY Zenon, InstNat DEF Inst
      <3>2. \A i \in Instances : lastCollected[<<job.target, i>>] # -1 => i <= job.identity
        BY Zenon, <2>2 DEF IInv, CooldownInv
      <3> QED
        BY SMTT(30), <2>2, <3>1, <3>2
    <2>7. subject' = subject
      BY Zenon DEF rest, eventVars
    <2>8. LoopInv'
      BY Zenon, <1>1, <2>1, <2>4, <2>5, <2>6, <2>7 DEF LoopInv
    <2> QED
      BY Zenon, <1>1, <1>2, <1>4, <2>8, LoopOnly
  <1>7. CASE ~Validates(job)
    <2>1. result' = NoResult
      BY Zenon, <1>7 DEF Revalidate, Revalidated
    <2>2. LoopInv'
      BY Zenon, <1>1, <2>1 DEF LoopInv, NoResult
    <2> QED
      BY Zenon, <1>1, <1>2, <1>4, <2>2, LoopOnly
  <1> QED
    BY Zenon, <1>6, <1>7

\* The record is stored with its evidence.
LEMMA DeliverIInv == IInv /\ Deliver /\ UNCHANGED rest => IInv'
  <1> SUFFICES ASSUME IInv, Deliver, UNCHANGED rest PROVE IInv'
    BY Zenon
  <1> USE DEF requestVars
  <1>1. Busy /\ Busy' /\ UNCHANGED <<rest, present, now, lastCollected, inflight, cooldown,
                                     queue, job, result, raised, subject, instance>>
        /\ loop = "collected" /\ loop' = "delivered"
    BY Zenon DEF Deliver, Busy, rest, eventVars, diskVars
  <1>2. QueueInv'
    BY Zenon, <1>1, JobStep
  <1>3. /\ job.label \in {NoInstance, subject[job.ev]} /\ job.ev \in 1..raised
        /\ result.evidence \in {NoInstance, subject[job.ev]}
    BY Zenon, <1>1, JobFacts DEF About, IInv, LoopInv
  <1>4. StoreType' /\ StoreInv'
    BY Zenon, <1>1, <1>3, PersistKeeps DEF Deliver
  <1>5. RequestType' /\ LoopType'
    BY Zenon, <1>1 DEF IInv, TypeOK, RequestType, LoopType
  <1>6. CooldownInv' /\ TableInv'
    BY Zenon, <1>1 DEF IInv, CooldownInv, TableInv, CooldownTableBounded, Cooling, Rested
  <1>7. LoopInv'
    BY Zenon, <1>1 DEF IInv, LoopInv
  <1> QED
    BY Zenon, <1>1, <1>2, <1>4, <1>5, <1>6, <1>7, WorkerOnly

\* Time passes: what rests goes on resting.
LEMMA TickIInv == IInv /\ Tick /\ UNCHANGED rest => IInv'
  <1> SUFFICES ASSUME IInv, Tick, UNCHANGED rest PROVE IInv'
    BY Zenon
  <1>1. /\ UNCHANGED <<present, queue, inflight, cooldown, loop, job, result, persisted,
                       lastCollected, raised, subject, instance>>
        /\ now' = now + 1
    BY Zenon DEF Tick, requestVars, loopVars, rest, eventVars, diskVars
  <1>2. RequestType' /\ LoopType' /\ StoreType'
    <2>1. now \in Nat /\ now + 1 \in Nat
      BY DEF IInv, TypeOK, LoopType
    <2>2. LoopType'
      BY Zenon, <1>1, <2>1 DEF IInv, TypeOK, LoopType
    <2> QED
      BY Zenon, <1>1, <2>2 DEF IInv, TypeOK, RequestType, StoreType
  <1>3. \A k \in RequestKeys : Rested(k) => Rested(k)'
    BY SMTT(30), <1>1, WorkerConstants DEF Rested, IInv, TypeOK, LoopType
  <1>4. \A x : RequestOK(x) => RequestOK(x)'
    <2>1. ASSUME NEW x, RequestOK(x) PROVE RequestOK(x)'
      <3>1. RequestKey(x) \in RequestKeys
        BY Zenon, <2>1 DEF RequestOK, RequestSet, RequestKey, RequestKeys, Inst
      <3> QED
        BY Zenon, <1>1, <1>3, <2>1, <3>1 DEF RequestOK, About, Current
    <2> QED
      BY Zenon, <2>1
  <1>5. QueueInv'
    BY Zenon, <1>1, <1>4 DEF IInv, QueueInv, Busy
  <1>6. LoopInv'
    <2>1. loop = "command" => RequestKey(job) \in RequestKeys
      BY Zenon, JobFacts DEF Busy, RequestSet, RequestKey, RequestKeys, Inst
    <2>2. loop = "command" => Rested(RequestKey(job))'
      BY Zenon, <1>1, <1>3, <2>1 DEF IInv, LoopInv
    <2> QED
      BY Zenon, <1>1, <2>2 DEF IInv, LoopInv
  <1>7. CooldownInv'
    <2>1. ASSUME NEW d \in Devs, instance[d] # NoInstance, ~Rested(<<d, instance[d]>>)'
          PROVE  ~Rested(<<d, instance[d]>>)
      <3>1. <<d, instance[d]>> \in RequestKeys
        BY Zenon, DeviceNames DEF IInv, TypeOK, DiskType, RequestKeys, Inst
      <3> QED
        BY Zenon, <1>1, <1>3, <2>1, <3>1 DEF Rested
    <2> QED
      BY Zenon, <1>1, <2>1 DEF IInv, CooldownInv
  <1>8. TableInv' /\ StoreInv'
    BY Zenon, <1>1 DEF IInv, TableInv, CooldownTableBounded, Cooling, StoreInv, RecordIsAboutItsDisk
  <1> QED
    BY Zenon, <1>1, <1>2, <1>5, <1>6, <1>7, <1>8, WorkerOnly

\* The cancellation itself changes nothing that was accepted.
LEMMA CancelIInv == IInv /\ Cancel /\ UNCHANGED rest => IInv'
  <1> SUFFICES ASSUME IInv, Cancel, UNCHANGED rest PROVE IInv'
    BY Zenon
  <1>1. UNCHANGED <<present, queue, inflight, cooldown, loop, job, result, persisted,
                    lastCollected, now, raised, subject, instance>>
    BY Zenon DEF Cancel, requestVars, loopVars, rest, eventVars, diskVars
  <1>2. \A x : RequestOK(x) => RequestOK(x)'
    BY Zenon, <1>1 DEF RequestOK, About, Current, Rested
  <1>3. QueueInv' /\ LoopInv'
    BY Zenon, <1>1, <1>2 DEF IInv, QueueInv, Busy, LoopInv, Rested
  <1> QED
    BY Zenon, <1>1, <1>3, LoopOnly DEF IInv, TypeOK, RequestType, LoopType

\* A request ends: its key and its cooldown change places in the table.
LEMMA FinishTable ==
    ASSUME IInv, Finish, Busy
    PROVE  /\ TableInv'
           /\ cooldown' \in [Targets -> [on: BOOLEAN, identity: Inst, until: Nat]]
           /\ \A t \in Targets : t # job.target => cooldown'[t] = cooldown[t]
  <1> DEFINE F == {k[1] : k \in inflight}
             G == {k[1] : k \in inflight'}
             C == Cooling(cooldown)
             D == {t \in Targets : cooldown'[t].on}
             entry == [on |-> TRUE, identity |-> job.identity, until |-> now + Cooldown]
  <1>1. /\ IsFiniteSet(inflight) /\ IsFiniteSet(C)
        /\ Cardinality(C \cup F) <= TableCapacity /\ TableCapacity \in Nat
    BY Zenon, WorkerConstants DEF IInv, TableInv, CooldownTableBounded
  <1>2. inflight' = inflight \ {RequestKey(job)} /\ RequestKey(job) \in inflight
        /\ cooldown' \in {cooldown, [cooldown EXCEPT ![job.target] = entry]}
    BY Zenon DEF Finish, IInv, QueueInv
  <1>3. cooldown \in [Targets -> [on: BOOLEAN, identity: Inst, until: Nat]]
        /\ entry \in [on: BOOLEAN, identity: Inst, until: Nat] /\ job.target \in Targets
    <2>1. job.identity \in Inst /\ now + Cooldown \in Nat /\ job.target \in Targets
      <3>1. job \in RequestSet /\ now \in Nat /\ Cooldown \in Nat
        BY Zenon, JobFacts, WorkerConstants DEF IInv, TypeOK, LoopType
      <3> QED
        BY <3>1 DEF RequestSet
    <2> QED
      BY Zenon, <2>1 DEF IInv, TypeOK, RequestType
  <1> HIDE DEF entry
  <1>4. /\ cooldown' \in [Targets -> [on: BOOLEAN, identity: Inst, until: Nat]]
        /\ \A t \in Targets : t # job.target => cooldown'[t] = cooldown[t]
    BY Zenon, <1>2, <1>3
  <1>5. job.target \in F
    <2>1. RequestKey(job)[1] = job.target
      BY Zenon DEF RequestKey
    <2> QED
      BY Zenon, <1>2, <2>1
  <1>6. D \cup G \in SUBSET (C \cup F) /\ D \in SUBSET (C \cup F) /\ inflight' \in SUBSET inflight
    BY Zenon, <1>2, <1>4, <1>5 DEF Cooling
  <1>7. IsFiniteSet(C \cup F)
    BY Zenon, <1>1, FlyingTargets, FS_Union
  <1> HIDE DEF F, G, C, D
  <1>8. /\ IsFiniteSet(D) /\ IsFiniteSet(inflight') /\ IsFiniteSet(D \cup G)
        /\ Cardinality(D \cup G) <= Cardinality(C \cup F)
    BY Zenon, <1>1, <1>6, <1>7, FS_Subset
  <1>9. Cardinality(D \cup G) \in Nat /\ Cardinality(C \cup F) \in Nat
    BY Zenon, <1>7, <1>8, FS_CardinalityType
  <1>10. Cardinality(D \cup G) <= TableCapacity
    BY <1>1, <1>8, <1>9
  <1>11. TableInv'
    BY Zenon, <1>8, <1>10 DEF TableInv, CooldownTableBounded, Cooling, D, G
  <1> QED
    BY Zenon, <1>4, <1>11

\* When a request ends, the disk that is there stays protected: an unresolved
\* request does not displace it, and one for an earlier disk was not applied.
LEMMA FinishCooldown ==
    ASSUME IInv, Finish, Busy, loop = "delivered", UNCHANGED <<instance, now>>
    PROVE  /\ CooldownInv'
           /\ lastCollected' \in [RequestKeys -> Nat \cup {-1}]
           /\ \A k \in RequestKeys : k # RequestKey(job) => lastCollected'[k] = lastCollected[k]
  <1> DEFINE key == RequestKey(job)
             entry == [on |-> TRUE, identity |-> job.identity, until |-> now + Cooldown]
  <1>1. /\ key \in RequestKeys /\ key = <<job.target, job.identity>> /\ now \in Nat
        /\ lastCollected \in [RequestKeys -> Nat \cup {-1}] /\ job.target \in Targets
        /\ cooldown \in [Targets -> [on: BOOLEAN, identity: Inst, until: Nat]]
    BY Zenon, JobFacts DEF RequestSet, RequestKey, RequestKeys, IInv, TypeOK, LoopType, RequestType, Inst
  <1>2. /\ lastCollected' = IF result.apply THEN [lastCollected EXCEPT ![key] = now]
                            ELSE lastCollected
        /\ cooldown' = IF result.apply /\ Displaces(job)
                       THEN [cooldown EXCEPT ![job.target] = entry] ELSE cooldown
    BY Zenon DEF Finish
  <1>3. /\ lastCollected' \in [RequestKeys -> Nat \cup {-1}]
        /\ \A k \in RequestKeys : k # key => lastCollected'[k] = lastCollected[k]
    BY Zenon, <1>1, <1>2
  <1>4. ASSUME NEW t \in Targets, NEW i \in Instances, lastCollected'[<<t, i>>] # -1
        PROVE  t \in Devs /\ i <= instance[t]
    <2>0. <<t, i>> \in RequestKeys /\ i # NoInstance
      BY Zenon, InstNat DEF RequestKeys
    <2>1. <<t, i>> = key => job.target = t /\ job.identity = i
      BY SMTT(30), <1>1
    <2>2. CASE <<t, i>> = key
      <3>1. job.target = t /\ job.identity = i
        BY Zenon, <2>2, <2>1
      <3> QED
        BY Zenon, <2>0, <3>1, JobFacts
    <2>3. CASE <<t, i>> # key
      BY Zenon, <1>3, <1>4, <2>0, <2>3 DEF IInv, CooldownInv
    <2> QED
      BY Zenon, <2>2, <2>3
  <1>5. ASSUME NEW d \in Devs, instance[d] # NoInstance,
               lastCollected'[<<d, instance[d]>>] # -1,
               ~(now >= lastCollected'[<<d, instance[d]>>] + Cooldown)
        PROVE  /\ cooldown'[d].on /\ cooldown'[d].identity = instance[d]
               /\ cooldown'[d].until >= lastCollected'[<<d, instance[d]>>] + Cooldown
    <2> DEFINE own == <<d, instance[d]>>
    <2>1. d \in Targets /\ own \in RequestKeys /\ instance[d] \in Instances
          /\ instance[d] \in Nat /\ Cooldown \in Nat
      BY Zenon, <1>5, DeviceNames, InstNat, WorkerConstants DEF IInv, TypeOK, DiskType, RequestKeys, Inst
    <2>2. CASE own = key /\ result.apply
      <3>1. job.target = d /\ job.identity = instance[d]
        <4>1. <<d, instance[d]>> = <<job.target, job.identity>>
          BY Zenon, <1>1, <2>2
        <4> QED
          BY Zenon, <4>1, SamePair
      <3>2. Displaces(job)
        BY Zenon, <1>5, <3>1 DEF Displaces
      <3>3. cooldown'[d] = entry /\ lastCollected'[own] = now
        BY Zenon, <1>1, <1>2, <2>2, <3>1, <3>2
      <3> QED
        <4>1. entry.on /\ entry.identity = job.identity /\ entry.until = now + Cooldown
          BY Zenon
        <4>2. now + Cooldown >= now + Cooldown
          BY Zenon, <1>1, <2>1, RestBegins
        <4> HIDE DEF entry
        <4> QED
          BY Zenon, <3>1, <3>3, <4>1, <4>2
    <2>3. CASE own # key \/ ~result.apply
      <3>1. lastCollected'[own] = lastCollected[own]
        BY Zenon, <1>2, <1>3, <2>1, <2>3
      <3>2. ~Rested(own)
        BY Zenon, <1>5, <3>1 DEF Rested
      <3>3. /\ cooldown[d].on /\ cooldown[d].identity = instance[d]
            /\ cooldown[d].until >= lastCollected[own] + Cooldown
        BY Zenon, <1>5, <3>2 DEF IInv, CooldownInv
      <3>4. ~(now >= cooldown[d].until)
        <4>1. cooldown[d].until \in Nat /\ lastCollected[own] \in Nat \cup {-1} /\ now \in Nat
          BY Zenon, <1>1, <2>1
        <4>2. ~(now >= lastCollected[own] + Cooldown)
          BY Zenon, <1>5, <3>1
        <4> QED
          BY Zenon, <2>1, <3>3, <4>1, <4>2, RestNotOver
      <3>5. CASE d # job.target \/ ~result.apply
        BY Zenon, <1>1, <1>2, <2>1, <3>1, <3>3, <3>5
      <3>6. CASE d = job.target /\ job.identity = NoInstance
        <4>1. ~Displaces(job)
          BY Zenon, <3>3, <3>4, <3>6 DEF Displaces
        <4> QED
          BY Zenon, <1>2, <3>1, <3>3, <4>1
      <3>7. CASE d = job.target /\ job.identity # NoInstance /\ result.apply
        <4>1. job.identity # instance[d]
          BY Zenon, <1>1, <2>3, <3>7
        <4>2. instance[d] > job.identity
          <5>1. job.identity \in Nat /\ job.identity <= instance[d]
            BY Zenon, <3>7, JobFacts
          <5> QED
            BY Zenon, <2>1, <4>1, <5>1, LaterIsGreater
        <4>3. lastCollected[own] = -1
          BY Zenon, <2>1, <3>7, <4>2 DEF IInv, LoopInv
        <4> QED
          BY Zenon, <1>5, <3>1, <4>3
      <3> QED
        BY Zenon, <3>5, <3>6, <3>7
    <2> QED
      BY Zenon, <2>2, <2>3
  <1>6. CooldownInv'
    BY Zenon, <1>4, <1>5 DEF CooldownInv, Rested
  <1> QED
    BY Zenon, <1>3, <1>6

\* The end of a request.
LEMMA FinishIInv == IInv /\ Finish /\ UNCHANGED rest => IInv'
  <1> SUFFICES ASSUME IInv, Finish, UNCHANGED rest PROVE IInv'
    BY Zenon
  <1>1. /\ loop = "delivered" /\ Busy /\ loop' = "scan" /\ job' = NoJob /\ result' = NoResult
        /\ inflight' = inflight \ {RequestKey(job)}
        /\ UNCHANGED <<present, now, queue, persisted, raised, subject, instance>>
    BY Zenon DEF Finish, Busy, rest, eventVars, diskVars
  <1>2. /\ TableInv'
        /\ cooldown' \in [Targets -> [on: BOOLEAN, identity: Inst, until: Nat]]
    BY Zenon, <1>1, FinishTable
  <1>3. /\ CooldownInv'
        /\ lastCollected' \in [RequestKeys -> Nat \cup {-1}]
        /\ \A k \in RequestKeys : k # RequestKey(job) => lastCollected'[k] = lastCollected[k]
    BY Zenon, <1>1, FinishCooldown
  <1>4. RequestType' /\ LoopType' /\ StoreType'
    BY Zenon, <1>1, <1>2, <1>3 DEF IInv, TypeOK, RequestType, LoopType, StoreType, NoResult, Inst
  <1>5. ASSUME NEW n \in 1..Len(queue)
        PROVE  RequestOK(queue[n])' /\ RequestKey(queue[n]) \in inflight'
    <2>1. /\ RequestOK(queue[n]) /\ RequestKey(queue[n]) \in inflight
          /\ RequestKey(queue[n]) # RequestKey(job) /\ RequestKey(queue[n]) \in RequestKeys
      BY Zenon, <1>1, <1>5 DEF IInv, QueueInv, TypeOK, RequestType
    <2>2. Rested(RequestKey(queue[n])) => Rested(RequestKey(queue[n]))'
      BY Zenon, <1>1, <1>3, <2>1 DEF Rested
    <2> QED
      BY Zenon, <1>1, <2>1, <2>2 DEF RequestOK, About, Current
  <1>6. QueueInv'
    BY Zenon, <1>1, <1>5 DEF IInv, QueueInv, Busy
  <1>7. LoopInv'
    BY Zenon, <1>1 DEF LoopInv
  <1>8. StoreInv'
    BY Zenon, <1>1 DEF IInv, StoreInv, RecordIsAboutItsDisk
  <1> QED
    BY Zenon, <1>1, <1>2, <1>3, <1>4, <1>6, <1>7, <1>8, WorkerOnly

-----------------------------------------------------------------------------
(* The theorems.                                                           *)

\* Nothing is there in the beginning.
LEMMA InitIInv == Init => IInv
  <1> SUFFICES ASSUME Init PROVE IInv
    BY Zenon
  <1> USE DEF Init, WorkerInit
  <1>1. NoTarget \in FoundSet /\ Unknown \in Targets /\ NoInstance \in Inst
        /\ NoTarget.reason = TRUE /\ NoTarget.identity = NoInstance
    BY Zenon, DeviceNames DEF NoTarget, Unresolved, FoundSet, Inst
  <1>2. DiskType
    BY SMTT(30), <1>1, WorkerConstants DEF DiskType
  <1>3. RequestType
    BY SMTT(30), <1>1 DEF RequestType, NoCooldown
  <1>4. LoopType
    BY Zenon, <1>1 DEF LoopType, NoResult
  <1>5. EventType
    BY SMTT(30), <1>1 DEF EventType
  <1>6. MDType
    BY Zenon, <1>1 DEF MDType, MDIdle
  <1>7. StoreType
    BY SMTT(30) DEF StoreType
  <1>8. DiskInv
    BY Zenon, DeviceNames DEF DiskInv
  <1>9. QueueInv /\ LoopInv
    <2>1. ~Busy /\ loop = "scan" /\ queue = <<>>
      BY Zenon DEF Busy
    <2> HIDE DEF Init, WorkerInit
    <2>2. \A n \in 1..Len(queue) : FALSE
      BY Zenon, <2>1, NoEntry
    <2> QED
      BY Zenon, <2>1, <2>2 DEF QueueInv, LoopInv
  <1>10. CooldownInv
    <2>1. \A t \in Targets, i \in Instances : <<t, i>> \in RequestKeys
      BY Zenon DEF RequestKeys
    <2> QED
      BY Zenon, <2>1 DEF CooldownInv
  <1>11. TableInv
    <2>1. Cooling(cooldown) = {} /\ inflight = {} /\ {k[1] : k \in inflight} = {}
      <3>1. \A t \in Targets : ~cooldown[t].on
        BY Zenon DEF NoCooldown
      <3>2. Cooling(cooldown) = {}
        BY Zenon, <3>1 DEF Cooling
      <3>3. inflight = {}
        BY Zenon
      <3>4. {k[1] : k \in inflight} = {}
        BY Zenon, <3>3
      <3> QED
        BY Zenon, <3>2, <3>3, <3>4
    <2>2. Cooling(cooldown) \cup {k[1] : k \in inflight} = {}
      BY Zenon, <2>1
    <2>3. IsFiniteSet({}) /\ Cardinality({}) = 0
      BY Zenon, FS_EmptySet
    <2>4. CooldownTableBounded
      <3>1. Cardinality(Cooling(cooldown) \cup {k[1] : k \in inflight}) = 0
        BY Zenon, <2>2, <2>3
      <3>2. TableCapacity \in Nat
        BY Zenon, WorkerConstants
      <3> QED
        BY Zenon, <3>1, <3>2, ZeroLeast DEF CooldownTableBounded
    <2>5. IsFiniteSet(inflight) /\ IsFiniteSet(Cooling(cooldown))
      BY Zenon, <2>1, <2>3
    <2> QED
      BY Zenon, <2>4, <2>5 DEF TableInv
  <1>12. EventInv /\ ReaderInv
    <2>1. Current(found)
      BY Zenon, <1>1 DEF Current
    <2>2. session = "closed" /\ hooks = 0 /\ reader = "read" /\ Len(buffer) = 0
          /\ \A p \in Probes : raising[p] = NoEvent
      BY Zenon
    <2> HIDE DEF Init, WorkerInit
    <2>3. EventInv
      BY SMTT(30), <2>2 DEF EventInv
    <2> QED
      BY Zenon, <2>1, <2>2, <2>3 DEF ReaderInv
  <1>13. MDInv
    BY Zenon DEF MDInv, MDIdle
  <1>14. StoreInv
    <2>1. \A e \in Events : persisted[e] = <<>>
      BY Zenon
    <2> HIDE DEF Init, WorkerInit
    <2>2. \A e \in Events : \A n \in 1..Len(persisted[e]) : FALSE
      BY Zenon, <2>1, NoEntry
    <2> QED
      BY Zenon, <2>1, <2>2 DEF StoreInv, RecordIsAboutItsDisk
  <1> QED
    BY Zenon, <1>2, <1>3, <1>4, <1>5, <1>6, <1>7, <1>8, <1>9, <1>10, <1>11, <1>12, <1>13, <1>14
    DEF IInv, TypeOK

\* Every step keeps the invariant.
LEMMA NextIInv == IInv /\ [Next]_vars => IInv'
  <1> SUFFICES ASSUME IInv, [Next]_vars PROVE IInv'
    BY Zenon
  <1>1. CASE BeginSession \/ AttachNext \/ EndSession
    BY Zenon, <1>1, BeginSessionIInv, AttachNextIInv, EndSessionIInv
  <1>2. ASSUME NEW d \in Devs,
               DiskVisible(d) \/ DiskRemoving(d) \/ DiskGone(d) \/ MDFault(d)
        PROVE  IInv'
    BY Zenon, <1>2, DiskVisibleIInv, DiskRemovingIInv, DiskGoneIInv, MDFaultIInv
  <1>3. ASSUME NEW d \in Devs, NEW i \in Instances, DiskAnnounced(d, i)
        PROVE  IInv'
    BY Zenon, <1>3, DiskAnnouncedIInv
  <1>4. ASSUME NEW p \in Probes, EventSubmitted(p) \/ \E d \in Devs : EventBegins(p, d)
        PROVE  IInv'
    BY Zenon, <1>4, EventSubmittedIInv, EventBeginsIInv
  <1>5. CASE ReaderStep
    BY Zenon, <1>5, ReadEventIInv, ResolveNameIInv, ResolveIdentityIInv, CheckGenerationIInv,
       HandleEventIInv DEF ReaderStep
  <1>6. CASE MDStep
    BY Zenon, <1>6, MDResolveIInv, MDSubmitIInv DEF MDStep
  <1>7. CASE WorkerSteps /\ UNCHANGED rest
    BY Zenon, <1>7, TakeIInv, AwaitWorkIInv, BeginCollectionIInv, RunCommandIInv, RevalidateIInv,
       DeliverIInv, FinishIInv, TickIInv, CancelIInv DEF WorkerSteps, LoopStep
  <1>8. CASE UNCHANGED vars
    <2>1. UNCHANGED <<rest, present, now, lastCollected, inflight, cooldown, persisted, queue,
                      job, result, loop>>
      BY Zenon, <1>8 DEF vars, rest, workerVars, requestVars, loopVars
    <2>2. \A x : RequestOK(x) => RequestOK(x)'
      BY Zenon, <2>1 DEF RequestOK, About, Current, Rested, rest, diskVars, eventVars
    <2>3. QueueInv' /\ LoopInv'
      BY Zenon, <2>1, <2>2 DEF IInv, QueueInv, Busy, LoopInv, Rested, rest, diskVars, eventVars
    <2> QED
      BY Zenon, <2>1, <2>3, LoopOnly DEF IInv, TypeOK, RequestType, LoopType
  <1> QED
    BY Zenon, <1>1, <1>2, <1>3, <1>4, <1>5, <1>6, <1>7, <1>8 DEF Next

\* The inductive invariant holds in every reachable state.
THEOREM Invariance == Spec => []IInv
  BY InitIInv, NextIInv, PTL DEF Spec

\* For every number of disks, probes, events and sessions, and however often
\* device numbers are reused: a stored record names, and carries the evidence
\* of, the disk its event was raised for, or none.
THEOREM RecordsAreAboutTheirDisks == Spec => []RecordIsAboutItsDisk
  <1>1. IInv => RecordIsAboutItsDisk
    BY Zenon DEF IInv, StoreInv
  <1> QED
    BY <1>1, Invariance, PTL

\* For every capacity: the cooldown table, with the room reserved for accepted
\* requests, never exceeds it.
THEOREM TableIsBounded == Spec => []CooldownTableBounded
  <1>1. IInv => CooldownTableBounded
    BY Zenon DEF IInv, TableInv
  <1> QED
    BY <1>1, Invariance, PTL

\* For every cooldown: the health command is not run for a device generation
\* whose last collection is more recent than the cooldown.
THEOREM QuietPeriods == Spec => []QuietPeriodKept
  <1>1. IInv => QuietPeriodKept
    BY Zenon DEF IInv, LoopInv, Rested, QuietPeriodKept
  <1> QED
    BY <1>1, Invariance, PTL
=============================================================================
