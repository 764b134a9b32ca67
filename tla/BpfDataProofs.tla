---------------------------- MODULE BpfDataProofs ----------------------------
(***************************************************************************)
(* Proofs about four small models of what the BPF programs keep or         *)
(* compute for user space to read: the names of NVMe controllers           *)
(* (NvmeNames), for any number of addresses and threads; the counters of   *)
(* disk freezes (DiskFreeze), for any number of devices and CPUs; the      *)
(* buckets of I/O latencies (LatencyBuckets), for every word size, packed  *)
(* range and list of thresholds; and the packed slices of the sched-blame  *)
(* tracer (SlicePacking), for all widths of their parts.                   *)
(***************************************************************************)
EXTENDS LatencyBuckets, SlicePacking, DiskFreeze, NvmeNames, FiniteSetTheorems, TLAPS

-----------------------------------------------------------------------------
(* Names of controllers.                                                   *)

Calls == [fn : {"add", "del", "reset", "state"}, addr : Addrs \cup {NoAddr}, ret : BOOLEAN]

NvmeType ==
    /\ ctrlStage \in [Addrs -> {"free", "born", "adding", "live", "deleting", "dead"}]
    /\ ctrl \in [Addrs -> Nat] /\ stack \in [Threads -> Seq(Calls)]
    /\ hooks \in 0..7 /\ prime \in {"no", "listed", "done"} /\ listed \subseteq Addrs
    /\ names \in [Addrs -> Nat]
    /\ cdevCalls \in [Threads -> [addr : Addrs \cup {NoAddr}, name : Nat]]
    /\ otherCalls \in [{"reset", "state"} -> [Threads -> Addrs \cup {NoAddr}]]

\* The outermost call of a thread, and whether it adds or deletes a controller.
First(t) == stack[t][1]
InCdev(t) == stack[t] # <<>> /\ First(t).fn \in {"add", "del"} /\ First(t).addr # NoAddr

\* A call keeps its controller: it is being added or deleted, or cannot be freed.
StackInv(t) ==
    /\ Len(stack[t]) <= 2
    /\ Len(stack[t]) = 2 => First(t).fn = "reset" /\ stack[t][2].fn = "state"
    /\ \A n \in 1..Len(stack[t]) : stack[t][n].fn \in {"reset", "state"} =>
          stack[t][n].addr # NoAddr /\ ctrlStage[stack[t][n].addr] \in {"live", "deleting", "dead"}
    /\ InCdev(t) =>
          ctrlStage[First(t).addr] = IF First(t).fn = "add" THEN "adding" ELSE "deleting"

\* What is noted for a thread is the call it is in, and a call that is not noted
\* is one that began before its hooks were attached.
CdevInv(t) ==
    /\ cdevCalls[t] # NoCall => /\ InCdev(t) /\ First(t).ret
                                /\ cdevCalls[t].addr = First(t).addr
                                /\ cdevCalls[t].name = ctrl[First(t).addr]
                                /\ First(t).fn = "add" => hooks >= 4
    /\ InCdev(t) /\ cdevCalls[t] = NoCall =>
          /\ <<First(t).fn, ctrl[First(t).addr]>> \in unseen
          /\ First(t).fn = "add" => names[First(t).addr] = NoName

OtherInv(t) ==
    /\ otherCalls["reset"][t] # NoAddr =>
          /\ stack[t] # <<>> /\ First(t).fn = "reset" /\ First(t).ret
          /\ First(t).addr = otherCalls["reset"][t]
    /\ otherCalls["state"][t] # NoAddr =>
          /\ stack[t] # <<>> /\ Top(t).fn = "state" /\ Top(t).ret
          /\ Top(t).addr = otherCalls["state"][t]

ThreadInv(t) == StackInv(t) /\ CdevInv(t) /\ OtherInv(t)

\* One thread at a time adds or deletes a controller.
Exclusive ==
    \A t, u \in Threads : t # u /\ InCdev(t) /\ InCdev(u) => First(t).addr # First(u).addr

\* A name that is outdated was left by a deletion that was not seen, and is
\* replaced before the address is live again.
AddrInv(a) ==
    /\ ctrlStage[a] \in {"live", "deleting", "dead"} => names[a] \in {NoName, ctrl[a]}
    /\ ctrlStage[a] \in {"dead", "free", "born", "adding"} /\ names[a] # NoName
          => <<"del", names[a]>> \in unseen
    /\ names[a] # NoName => hooks >= 4
    /\ prime # "no" /\ ctrlStage[a] = "live" /\ <<"add", ctrl[a]>> \notin unseen /\ a \notin listed
          => names[a] = ctrl[a]

PrimeInv == (prime # "no" => hooks = 7) /\ (prime = "done" => listed = {})

NvmeInv ==
    /\ NvmeType /\ PrimeInv /\ Exclusive /\ EventNamesItsController
    /\ \A t \in Threads : ThreadInv(t)
    /\ \A a \in Addrs : AddrInv(a)

\* The places of the hooks in the order of attachment.
LEMMA HookPlaces ==
    ASSUME hooks \in 0..7
    PROVE  /\ Len(AttachOrder) = 7
           /\ (Hooked("del", "ret") <=> hooks >= 1) /\ (Hooked("del", "entry") <=> hooks >= 2)
           /\ (Hooked("add", "ret") <=> hooks >= 3) /\ (Hooked("add", "entry") <=> hooks >= 4)
           /\ (Hooked("show", "entry") <=> hooks >= 5)
           /\ (Hooked("reset", "ret") <=> hooks >= 6) /\ (Hooked("reset", "entry") <=> hooks >= 7)
           /\ (Hooked("state", "ret") <=> hooks >= 6) /\ (Hooked("state", "entry") <=> hooks >= 7)
<1>1. /\ Len(AttachOrder) = 7
      /\ AttachOrder[1] = <<"del", "ret">> /\ AttachOrder[2] = <<"del", "entry">>
      /\ AttachOrder[3] = <<"add", "ret">> /\ AttachOrder[4] = <<"add", "entry">>
      /\ AttachOrder[5] = <<"show", "entry">>
      /\ AttachOrder[6] = <<"events", "ret">> /\ AttachOrder[7] = <<"events", "entry">>
  BY Zenon DEF AttachOrder
<1>2. ASSUME NEW k \in 1..7, NEW x, NEW y, \A n \in 1..7 : AttachOrder[n] = <<x, y>> <=> n = k
      PROVE  (\E n \in 1..hooks : AttachOrder[n] = <<x, y>>) <=> hooks >= k
  BY <1>2
<1>3. /\ Group("del") = "del" /\ Group("add") = "add" /\ Group("show") = "show"
      /\ Group("reset") = "events" /\ Group("state") = "events"
  BY Zenon DEF Group
<1>4. /\ \A n \in 1..7 : AttachOrder[n] = <<"del", "ret">> <=> n = 1
      /\ \A n \in 1..7 : AttachOrder[n] = <<"del", "entry">> <=> n = 2
      /\ \A n \in 1..7 : AttachOrder[n] = <<"add", "ret">> <=> n = 3
      /\ \A n \in 1..7 : AttachOrder[n] = <<"add", "entry">> <=> n = 4
      /\ \A n \in 1..7 : AttachOrder[n] = <<"show", "entry">> <=> n = 5
      /\ \A n \in 1..7 : AttachOrder[n] = <<"events", "ret">> <=> n = 6
      /\ \A n \in 1..7 : AttachOrder[n] = <<"events", "entry">> <=> n = 7
  BY <1>1
<1>5. /\ Hooked("del", "ret") <=> hooks >= 1
      /\ Hooked("del", "entry") <=> hooks >= 2
      /\ Hooked("add", "ret") <=> hooks >= 3
      /\ Hooked("add", "entry") <=> hooks >= 4
  BY <1>2, <1>3, <1>4 DEF Hooked
<1>6. /\ Hooked("show", "entry") <=> hooks >= 5
      /\ Hooked("reset", "ret") <=> hooks >= 6
      /\ Hooked("reset", "entry") <=> hooks >= 7
      /\ Hooked("state", "ret") <=> hooks >= 6
      /\ Hooked("state", "entry") <=> hooks >= 7
  BY <1>2, <1>3, <1>4 DEF Hooked
<1> QED
  BY Zenon, <1>1, <1>5, <1>6

\* A thread enters a call.
LEMMA Pushed ==
    ASSUME NvmeType, NEW t \in Threads, NEW fn \in {"add", "del", "reset", "state"},
           NEW a \in Addrs \cup {NoAddr}, Push(t, fn, a)
    PROVE  /\ stack' \in [Threads -> Seq(Calls)] /\ \A u \in Threads \ {t} : stack'[u] = stack[u]
           /\ Len(stack[t]) \in Nat /\ Len(stack'[t]) = Len(stack[t]) + 1
           /\ \A n \in 1..Len(stack[t]) : stack'[t][n] = stack[t][n]
           /\ stack'[t][Len(stack[t]) + 1].fn = fn /\ stack'[t][Len(stack[t]) + 1].addr = a
           /\ stack'[t][Len(stack[t]) + 1].ret <=> Hooked(fn, "ret")
           /\ unseen \subseteq unseen'
           /\ a # NoAddr /\ ~(Hooked(fn, "entry") /\ Hooked(fn, "ret")) => <<fn, ctrl[a]>> \in unseen'
<1>1. PICK c : c = [fn |-> fn, addr |-> a, ret |-> Hooked(fn, "ret")]
  BY Zenon
<1>2. c.fn = fn /\ c.addr = a /\ (c.ret <=> Hooked(fn, "ret")) /\ c \in Calls
  <2>1. Hooked(fn, "ret") \in BOOLEAN
    BY Zenon DEF Hooked
  <2> QED
    BY Zenon, <1>1, <2>1 DEF Calls
<1>3. stack' = [stack EXCEPT ![t] = Append(stack[t], c)] /\ stack[t] \in Seq(Calls)
  BY Zenon, <1>1 DEF Push, NvmeType
<1>4. /\ Append(stack[t], c) \in Seq(Calls) /\ Len(Append(stack[t], c)) = Len(stack[t]) + 1
      /\ \A n \in 1..Len(stack[t]) : Append(stack[t], c)[n] = stack[t][n]
      /\ Append(stack[t], c)[Len(stack[t]) + 1] = c /\ Len(stack[t]) \in Nat
  BY <1>2, <1>3
<1>5. /\ stack' \in [Threads -> Seq(Calls)] /\ \A u \in Threads \ {t} : stack'[u] = stack[u]
      /\ stack'[t] = Append(stack[t], c)
  BY Zenon, <1>3, <1>4 DEF NvmeType
<1>6. /\ unseen \subseteq unseen'
      /\ a # NoAddr /\ ~(Hooked(fn, "entry") /\ Hooked(fn, "ret")) => <<fn, ctrl[a]>> \in unseen'
  BY Zenon DEF Push
<1> QED
  BY <1>2, <1>4, <1>5, <1>6

\* A thread returns from a call.
LEMMA Popped ==
    ASSUME NvmeType, NEW t \in Threads, stack[t] # <<>>, Pop(t)
    PROVE  /\ stack' \in [Threads -> Seq(Calls)] /\ \A u \in Threads \ {t} : stack'[u] = stack[u]
           /\ Len(stack[t]) \in Nat \ {0} /\ Len(stack'[t]) = Len(stack[t]) - 1
           /\ \A n \in 1..(Len(stack[t]) - 1) : stack'[t][n] = stack[t][n]
<1>1. stack' = [stack EXCEPT ![t] = SubSeq(stack[t], 1, Len(stack[t]) - 1)] /\ stack[t] \in Seq(Calls)
  BY Zenon DEF Pop, NvmeType
<1>2. Len(stack[t]) \in Nat \ {0}
  BY <1>1
<1>3. PICK s : s = SubSeq(stack[t], 1, Len(stack[t]) - 1)
  BY Zenon
<1>4. s \in Seq(Calls) /\ Len(s) = Len(stack[t]) - 1 /\ \A n \in 1..(Len(stack[t]) - 1) : s[n] = stack[t][n]
  BY <1>1, <1>2, <1>3
<1>5. /\ stack' \in [Threads -> Seq(Calls)] /\ \A u \in Threads \ {t} : stack'[u] = stack[u]
      /\ stack'[t] = s
  BY Zenon, <1>1, <1>3, <1>4 DEF NvmeType
<1> QED
  BY Zenon, <1>2, <1>4, <1>5

\* An empty stack, by its length.
LEMMA StackLength ==
    ASSUME NvmeType, NEW t \in Threads
    PROVE  /\ Len(stack[t]) \in Nat /\ (stack[t] = <<>> <=> Len(stack[t]) = 0)
           /\ \A n \in 1..Len(stack[t]) : stack[t][n] \in Calls
BY DEF NvmeType

\* A thread that is in no call.
LEMMA NoCalls ==
    ASSUME NEW s, Len(s) = 0
    PROVE  Len(s) <= 2 /\ Len(s) # 2 /\ \A n \in 1..Len(s) : FALSE
BY SMT

\* The hooks are attached one after the other.
LEMMA HooksCount ==
    ASSUME hooks \in 0..7
    PROVE  /\ hooks \in Nat /\ hooks <= hooks
           /\ hooks' \in Nat /\ hooks <= hooks' => (hooks >= 4 => hooks' >= 4)
BY SMT

\* A step of others leaves a thread's calls and controllers alone.
LEMMA ThreadKept ==
    ASSUME NvmeType, NEW u \in Threads, ThreadInv(u),
           stack'[u] = stack[u], cdevCalls'[u] = cdevCalls[u],
           otherCalls'["reset"][u] = otherCalls["reset"][u],
           otherCalls'["state"][u] = otherCalls["state"][u],
           hooks' \in Nat, hooks <= hooks', unseen \subseteq unseen',
           \A n \in 1..Len(stack[u]) : stack[u][n].fn \in {"reset", "state"} =>
              ctrlStage'[stack[u][n].addr] \in {"live", "deleting", "dead"},
           InCdev(u) => /\ ctrlStage'[First(u).addr] = ctrlStage[First(u).addr]
                        /\ ctrl'[First(u).addr] = ctrl[First(u).addr]
                        /\ First(u).fn = "add" => names'[First(u).addr] = names[First(u).addr]
    PROVE  ThreadInv(u)'
<1>1. First(u)' = First(u) /\ (InCdev(u)' <=> InCdev(u)) /\ Top(u)' = Top(u) /\ hooks \in Nat
  <2>1. First(u)' = First(u) /\ Top(u)' = Top(u)
    BY Zenon DEF First, Top
  <2>2. InCdev(u)' <=> InCdev(u)
    BY Zenon, <2>1 DEF InCdev
  <2> QED
    BY Zenon, <2>1, <2>2, HooksCount DEF NvmeType
<1>2. StackInv(u)'
  BY Zenon, <1>1 DEF ThreadInv, StackInv
<1>3. CdevInv(u)'
  <2>1. hooks >= 4 => hooks' >= 4
    BY Zenon, HooksCount DEF NvmeType
  <2>2. CdevInv(u)
    BY Zenon DEF ThreadInv
  <2>3. ASSUME cdevCalls[u] # NoCall
        PROVE  /\ InCdev(u) /\ First(u).ret /\ cdevCalls[u].addr = First(u).addr
               /\ cdevCalls[u].name = ctrl'[First(u).addr]
               /\ First(u).fn = "add" => hooks' >= 4
    BY Zenon, <2>1, <2>2, <2>3 DEF CdevInv
  <2>4. ASSUME InCdev(u), cdevCalls[u] = NoCall
        PROVE  /\ <<First(u).fn, ctrl'[First(u).addr]>> \in unseen'
               /\ First(u).fn = "add" => names'[First(u).addr] = NoName
    BY Zenon, <2>2, <2>4 DEF CdevInv
  <2> QED
    BY Zenon, <1>1, <2>3, <2>4 DEF CdevInv
<1>4. OtherInv(u)'
  BY Zenon, <1>1 DEF ThreadInv, OtherInv
<1> QED
  BY Zenon, <1>2, <1>3, <1>4 DEF ThreadInv

\* A step that leaves the controller at an address alone.
LEMMA AddrKept ==
    ASSUME NvmeType, NEW a, AddrInv(a), ctrlStage'[a] = ctrlStage[a], ctrl'[a] = ctrl[a], names'[a] = names[a],
           hooks' \in Nat, hooks <= hooks', unseen \subseteq unseen',
           prime' # "no" /\ ctrlStage[a] = "live" /\ a \notin listed' => prime # "no" /\ a \notin listed
    PROVE  AddrInv(a)'
<1>1. hooks >= 4 => hooks' >= 4
  BY Zenon, HooksCount DEF NvmeType
<1> QED
  BY Zenon, <1>1 DEF AddrInv

\* The same calls of the same threads.
LEMMA SameCalls ==
    ASSUME Exclusive, stack' = stack
    PROVE  Exclusive'
BY Zenon DEF Exclusive, InCdev, First

\* The machine starts without hooks and without names.
LEMMA NvmeInit == Init => NvmeInv
<1> SUFFICES ASSUME Init PROVE NvmeInv
  BY Zenon
<1>1. PICK live \in SUBSET Addrs :
         /\ ctrlStage = [a \in Addrs |-> IF a \in live THEN "live" ELSE "free"]
         /\ ctrl \in [Addrs -> 0..1]
  BY Zenon DEF Init
<1>2. /\ stack = [t \in Threads |-> <<>>] /\ hooks = 0 /\ prime = "no" /\ listed = {}
      /\ names = [a \in Addrs |-> NoName] /\ cdevCalls = [t \in Threads |-> NoCall]
      /\ otherCalls = [fn \in {"reset", "state"} |-> [t \in Threads |-> NoAddr]]
      /\ events = {}
  BY Zenon DEF Init
<1>3. NvmeType
  <2>1. /\ ctrlStage \in [Addrs -> {"free", "born", "adding", "live", "deleting", "dead"}]
        /\ ctrl \in [Addrs -> Nat] /\ names \in [Addrs -> Nat]
    BY <1>1, <1>2 DEF NoName
  <2>2. stack \in [Threads -> Seq(Calls)]
    BY <1>2
  <2>3. NoCall \in [addr : Addrs \cup {NoAddr}, name : Nat]
    BY Zenon DEF NoCall, NoName
  <2>4. /\ cdevCalls \in [Threads -> [addr : Addrs \cup {NoAddr}, name : Nat]]
        /\ otherCalls \in [{"reset", "state"} -> [Threads -> Addrs \cup {NoAddr}]]
    BY Zenon, <1>2, <2>3
  <2> QED
    BY <1>2, <2>1, <2>2, <2>4 DEF NvmeType
<1>4. ASSUME NEW t \in Threads PROVE ThreadInv(t) /\ ~InCdev(t)
  <2>1. stack[t] = <<>> /\ Len(stack[t]) = 0 /\ cdevCalls[t] = NoCall
    BY Zenon, <1>2
  <2>2. otherCalls["reset"][t] = NoAddr /\ otherCalls["state"][t] = NoAddr
    BY Zenon, <1>2
  <2> QED
    BY <2>1, <2>2 DEF ThreadInv, StackInv, CdevInv, OtherInv, InCdev
<1>5. ASSUME NEW a \in Addrs PROVE AddrInv(a)
  BY Zenon, <1>2 DEF AddrInv
<1> QED
  BY Zenon, <1>2, <1>3, <1>4, <1>5 DEF NvmeInv, PrimeInv, Exclusive, EventNamesItsController

\* A hook is attached.
LEMMA AttachInv ==
    ASSUME NvmeInv, AttachNext
    PROVE  NvmeInv'
<1>1. /\ NvmeType /\ hooks' = hooks + 1 /\ hooks < 7 /\ prime = "no"
      /\ UNCHANGED <<ctrlStage, ctrl, stack, prime, listed, names, cdevCalls, otherCalls, events, unseen>>
  <2>1. /\ hooks \in 0..7 /\ (prime # "no" => hooks = 7)
    BY Zenon DEF NvmeInv, NvmeType, PrimeInv
  <2>2. Len(AttachOrder) = 7
    BY Zenon, <2>1, HookPlaces
  <2>3. NvmeType
    BY Zenon DEF NvmeInv
  <2> QED
    BY <2>1, <2>2, <2>3 DEF AttachNext, kernelVars
<1>2. hooks' \in 0..7 /\ hooks <= hooks' /\ hooks' \in Nat
  BY <1>1 DEF NvmeType
<1>3. NvmeType'
  BY Zenon, <1>1, <1>2 DEF NvmeType
<1>4. ASSUME NEW t \in Threads PROVE ThreadInv(t)'
  <2>1. ThreadInv(t)
    BY Zenon DEF NvmeInv
  <2>2. \A n \in 1..Len(stack[t]) : stack[t][n].fn \in {"reset", "state"} =>
           ctrlStage'[stack[t][n].addr] \in {"live", "deleting", "dead"}
    BY Zenon, <1>1, <2>1 DEF ThreadInv, StackInv
  <2> QED
    BY Zenon, <1>1, <1>2, <2>1, <2>2, ThreadKept
<1>5. ASSUME NEW a \in Addrs PROVE AddrInv(a)'
  BY Zenon, <1>1, <1>2, AddrKept DEF NvmeInv
<1>6. PrimeInv' /\ Exclusive' /\ EventNamesItsController'
  BY Zenon, <1>1, SameCalls DEF NvmeInv, PrimeInv, EventNamesItsController
<1> QED
  BY <1>3, <1>4, <1>5, <1>6 DEF NvmeInv

\* The state file of a controller is read, or not, while the listing goes on.
LEMMA ShowInv ==
    ASSUME NvmeInv, NEW a,
           UNCHANGED <<kernelVars, hooks, cdevCalls, otherCalls, events, unseen>>,
           prime' \in {"no", "listed", "done"}, listed' \subseteq Addrs, PrimeInv',
           \A b \in Addrs : prime' # "no" /\ ctrlStage[b] = "live" /\ b \notin listed' =>
              \/ prime # "no" /\ b \notin listed
              \/ b = a /\ names'[b] = ctrl[b],
           \/ UNCHANGED names
           \/ names' = [names EXCEPT ![a] = ctrl[a]] /\ a \in InSysfs /\ Hooked("show", "entry")
    PROVE  NvmeInv'
<1>1. NvmeType /\ UNCHANGED <<ctrlStage, ctrl, stack, hooks>> /\ hooks' \in Nat /\ hooks <= hooks'
  BY DEF NvmeInv, NvmeType, kernelVars
<1>2. /\ names' \in [Addrs -> Nat] /\ \A b \in Addrs \ {a} : names'[b] = names[b]
      /\ \/ names'[a] = names[a]
         \/ names'[a] = ctrl[a] /\ ctrlStage[a] \in {"live", "deleting"} /\ hooks >= 4
  <2>1. Hooked("show", "entry") => hooks >= 4
    BY <1>1, HookPlaces DEF NvmeType
  <2> QED
    BY Zenon, <1>1, <2>1 DEF NvmeType, InSysfs
<1>3. NvmeType'
  BY Zenon, <1>1, <1>2 DEF NvmeType
<1>4. ASSUME NEW t \in Threads PROVE ThreadInv(t)'
  <2>1. ThreadInv(t)
    BY Zenon DEF NvmeInv
  <2>2. \A n \in 1..Len(stack[t]) : stack[t][n].fn \in {"reset", "state"} =>
           ctrlStage'[stack[t][n].addr] \in {"live", "deleting", "dead"}
    BY Zenon, <1>1, <2>1 DEF ThreadInv, StackInv
  <2>3. InCdev(t) /\ First(t).fn = "add" => names'[First(t).addr] = names[First(t).addr]
    <3>1. InCdev(t) /\ First(t).fn = "add" => First(t).addr \in Addrs /\ ctrlStage[First(t).addr] = "adding"
      BY <1>1, <2>1, StackLength DEF ThreadInv, StackInv, InCdev, First, Calls
    <3> QED
      BY Zenon, <1>2, <3>1
  <2> QED
    BY Zenon, <1>1, <2>1, <2>2, <2>3, ThreadKept
<1>5. ASSUME NEW b \in Addrs PROVE AddrInv(b)'
  <2>1. AddrInv(b)
    BY Zenon DEF NvmeInv
  <2>2. CASE names'[b] = names[b]
    BY <1>1, <2>1, <2>2 DEF AddrInv
  <2>3. CASE b = a /\ names'[b] = ctrl[b] /\ ctrlStage[b] \in {"live", "deleting"} /\ hooks >= 4
    BY Zenon, <1>1, <2>1, <2>3 DEF AddrInv
  <2> QED
    BY Zenon, <1>2, <2>2, <2>3
<1>6. Exclusive' /\ EventNamesItsController'
  BY Zenon, <1>1, SameCalls DEF NvmeInv, EventNamesItsController
<1> QED
  BY Zenon, <1>3, <1>4, <1>5, <1>6 DEF NvmeInv

\* The steps of primeNVMeControllerNames, and reads by others.
LEMMA PrimingInv ==
    ASSUME NvmeInv, PrimeLists \/ PrimeNothing \/ \E a \in Addrs : PrimeReads(a) \/ OthersRead(a)
    PROVE  NvmeInv'
<1>1. NvmeType /\ PrimeInv
  BY Zenon DEF NvmeInv
<1>2. CASE PrimeLists
  <2>1. /\ prime' = "listed" /\ listed' = InSysfs /\ hooks = 7 /\ InSysfs \subseteq Addrs
        /\ UNCHANGED <<kernelVars, hooks, names, cdevCalls, otherCalls, events, unseen>>
    BY Zenon, <1>1, <1>2, HookPlaces DEF PrimeLists, MayPrime, NvmeType, InSysfs
  <2>2. \A b \in Addrs : ctrlStage[b] = "live" => b \in listed'
    BY Zenon, <2>1 DEF InSysfs
  <2>3. PrimeInv'
    BY Zenon, <2>1 DEF PrimeInv
  <2> QED
    BY Zenon, <2>1, <2>2, <2>3, ShowInv
<1>3. CASE PrimeNothing
  <2>1. /\ prime = "listed" /\ prime' = "done" /\ listed' = {} /\ listed = {} /\ listed' \subseteq Addrs
        /\ UNCHANGED <<kernelVars, hooks, names, cdevCalls, otherCalls, events, unseen>>
    BY Zenon, <1>3 DEF PrimeNothing
  <2>2. PrimeInv'
    BY Zenon, <1>1, <2>1 DEF PrimeInv
  <2> QED
    BY Zenon, <2>1, <2>2, ShowInv
<1>4. ASSUME NEW a \in Addrs, PrimeReads(a) PROVE NvmeInv'
  <2>1. /\ prime = "listed" /\ listed' = listed \ {a} /\ prime' = IF listed' = {} THEN "done" ELSE "listed"
        /\ UNCHANGED <<kernelVars, hooks, cdevCalls, otherCalls, events, unseen>>
    BY Zenon, <1>4 DEF PrimeReads
  <2>2. PrimeInv' /\ listed' \subseteq Addrs /\ prime' \in {"no", "listed", "done"}
    BY Zenon, <1>1, <2>1 DEF PrimeInv, NvmeType
  <2>3. Hooked("show", "entry")
    BY <1>1, <2>1, HookPlaces DEF PrimeInv
  <2>4. \/ a \in InSysfs /\ names' = [names EXCEPT ![a] = ctrl[a]] /\ names'[a] = ctrl[a]
        \/ a \notin InSysfs /\ names' = names
    BY Zenon, <1>1, <1>4, <2>3 DEF PrimeReads, Show, NvmeType
  <2>5. \A b \in Addrs : prime' # "no" /\ ctrlStage[b] = "live" /\ b \notin listed' =>
           (prime # "no" /\ b \notin listed) \/ (b = a /\ names'[b] = ctrl[b])
    BY Zenon, <2>1, <2>4 DEF InSysfs
  <2> QED
    BY <2>1, <2>2, <2>3, <2>4, <2>5, ShowInv
<1>5. ASSUME NEW a \in Addrs, OthersRead(a) PROVE NvmeInv'
  <2>1. /\ a \in InSysfs /\ UNCHANGED <<kernelVars, hooks, prime, listed, cdevCalls, otherCalls, events, unseen>>
        /\ \/ UNCHANGED names
           \/ names' = [names EXCEPT ![a] = ctrl[a]] /\ Hooked("show", "entry")
    BY Zenon, <1>5 DEF OthersRead, Show, goVars
  <2>2. PrimeInv' /\ listed' \subseteq Addrs /\ prime' \in {"no", "listed", "done"}
    BY Zenon, <1>1, <2>1 DEF PrimeInv, NvmeType
  <2> QED
    BY Zenon, <2>1, <2>2, ShowInv
<1> QED
  BY Zenon, <1>2, <1>3, <1>4, <1>5

\* The address of a call, and what its controller is doing.
LEMMA CallAddress ==
    ASSUME NvmeInv, NEW t \in Threads
    PROVE  /\ \A n \in 1..Len(stack[t]) : stack[t][n].fn \in {"reset", "state"} =>
                 /\ stack[t][n].addr \in Addrs
                 /\ ctrlStage[stack[t][n].addr] \in {"live", "deleting", "dead"}
           /\ InCdev(t) => /\ First(t).addr \in Addrs
                           /\ ctrlStage[First(t).addr] \in {"adding", "deleting"}
<1>1. NvmeType /\ StackInv(t)
  BY Zenon DEF NvmeInv, ThreadInv
<1> QED
  BY <1>1, StackLength DEF StackInv, InCdev, First, Calls

\* A controller is created or freed.
LEMMA CreateFreeInv ==
    ASSUME NvmeInv, NEW a \in Addrs, Create(a) \/ Free(a)
    PROVE  NvmeInv'
<1>1. /\ NvmeType /\ UNCHANGED <<stack, hooks, prime, listed, names, cdevCalls, otherCalls, events, unseen>>
      /\ hooks \in Nat /\ hooks <= hooks
  BY DEF NvmeInv, NvmeType, Create, Free, goVars
<1>2. /\ ctrlStage[a] \in {"free", "dead"}
      /\ ctrlStage' = [ctrlStage EXCEPT ![a] = "born"] \/ ctrlStage' = [ctrlStage EXCEPT ![a] = "free"]
      /\ ctrl' = ctrl \/ \E n \in 1..MaxController : ctrl' = [ctrl EXCEPT ![a] = n]
  BY Zenon DEF Create, Free
<1>3. /\ ctrlStage' \in [Addrs -> {"free", "born", "adding", "live", "deleting", "dead"}]
      /\ ctrlStage'[a] \in {"born", "free"} /\ \A b \in Addrs \ {a} : ctrlStage'[b] = ctrlStage[b]
  BY Zenon, <1>1, <1>2 DEF NvmeType
<1>4. ctrl' \in [Addrs -> Nat] /\ \A b \in Addrs \ {a} : ctrl'[b] = ctrl[b]
  <2>1. CASE ctrl' = ctrl
    BY Zenon, <1>1, <2>1 DEF NvmeType
  <2>2. ASSUME NEW n \in 1..MaxController, ctrl' = [ctrl EXCEPT ![a] = n]
        PROVE  ctrl' \in [Addrs -> Nat] /\ \A b \in Addrs \ {a} : ctrl'[b] = ctrl[b]
    <3>1. n \in Nat /\ ctrl \in [Addrs -> Nat]
      BY <1>1, NvmeConstants DEF NvmeType
    <3> QED
      BY Zenon, <2>2, <3>1
  <2> QED
    BY Zenon, <1>2, <2>1, <2>2
<1>5. NvmeType'
  BY Zenon, <1>1, <1>3, <1>4 DEF NvmeType
<1>6. ASSUME NEW t \in Threads PROVE ThreadInv(t)'
  <2>1. ThreadInv(t)
    BY Zenon DEF NvmeInv
  <2>2. \A n \in 1..Len(stack[t]) : stack[t][n].fn \in {"reset", "state"} => stack[t][n].addr # a
    <3>1. CASE Create(a)
      BY Zenon, <3>1, CallAddress DEF Create
    <3>2. CASE Free(a)
      BY Zenon, <3>2 DEF Free
    <3> QED
      BY Zenon, <3>1, <3>2
  <2>3. InCdev(t) => First(t).addr \in Addrs \ {a}
    BY Zenon, <1>2, CallAddress
  <2>4. \A n \in 1..Len(stack[t]) : stack[t][n].fn \in {"reset", "state"} =>
           ctrlStage'[stack[t][n].addr] \in {"live", "deleting", "dead"}
    BY Zenon, <1>3, <2>2, CallAddress
  <2> QED
    BY Zenon, <1>1, <1>3, <1>4, <2>1, <2>3, <2>4, ThreadKept
<1>7. ASSUME NEW b \in Addrs PROVE AddrInv(b)'
  <2>1. AddrInv(b)
    BY Zenon DEF NvmeInv
  <2>2. CASE b # a
    BY Zenon, <1>1, <1>3, <1>4, <2>1, <2>2, AddrKept
  <2>3. CASE b = a
    BY Zenon, <1>1, <1>2, <1>3, <2>1, <2>3 DEF AddrInv
  <2> QED
    BY Zenon, <2>2, <2>3
<1>8. PrimeInv' /\ Exclusive' /\ EventNamesItsController'
  BY Zenon, <1>1, SameCalls DEF NvmeInv, PrimeInv, EventNamesItsController
<1> QED
  BY Zenon, <1>5, <1>6, <1>7, <1>8 DEF NvmeInv

\* A step of thread t in a call for the controller at a: what the others keep.
LEMMA OthersKept ==
    ASSUME NvmeInv, NEW t \in Threads, NEW a, NEW u \in Threads \ {t},
           stack'[u] = stack[u], cdevCalls'[u] = cdevCalls[u],
           otherCalls'["reset"][u] = otherCalls["reset"][u],
           otherCalls'["state"][u] = otherCalls["state"][u],
           UNCHANGED <<ctrl, hooks>>, unseen \subseteq unseen',
           \A b \in Addrs \ {a} : ctrlStage'[b] = ctrlStage[b] /\ names'[b] = names[b],
           a \in Addrs /\ ctrlStage[a] \in {"live", "deleting", "dead"} =>
              ctrlStage'[a] \in {"live", "deleting", "dead"},
           InCdev(u) => First(u).addr # a
    PROVE  ThreadInv(u)'
<1>1. NvmeType /\ ThreadInv(u) /\ hooks' \in Nat /\ hooks <= hooks'
  BY DEF NvmeInv, NvmeType
<1>2. \A n \in 1..Len(stack[u]) : stack[u][n].fn \in {"reset", "state"} =>
         ctrlStage'[stack[u][n].addr] \in {"live", "deleting", "dead"}
  <2> SUFFICES ASSUME NEW n \in 1..Len(stack[u]), stack[u][n].fn \in {"reset", "state"}
               PROVE  ctrlStage'[stack[u][n].addr] \in {"live", "deleting", "dead"}
    BY Zenon
  <2>1. stack[u][n].addr \in Addrs /\ ctrlStage[stack[u][n].addr] \in {"live", "deleting", "dead"}
    BY Zenon, CallAddress
  <2> QED
    BY Zenon, <2>1
<1>3. InCdev(u) => First(u).addr \in Addrs \ {a}
  BY Zenon, CallAddress
<1> QED
  BY Zenon, <1>1, <1>2, <1>3, ThreadKept

\* One thread's calls change.
LEMMA ExclusiveKept ==
    ASSUME Exclusive, NEW t \in Threads, \A u \in Threads \ {t} : stack'[u] = stack[u],
           InCdev(t)' => \A u \in Threads \ {t} : InCdev(u) => First(u).addr # First(t)'.addr
    PROVE  Exclusive'
<1>1. \A u \in Threads \ {t} : First(u)' = First(u) /\ (InCdev(u)' <=> InCdev(u))
  BY Zenon DEF First, InCdev
<1> QED
  BY Zenon, <1>1 DEF Exclusive

\* A thread without calls has nothing noted.
LEMMA IdleThread ==
    ASSUME NvmeInv, NEW t \in Threads, stack[t] = <<>>
    PROVE  /\ Len(stack[t]) = 0 /\ ~InCdev(t) /\ cdevCalls[t] = NoCall
           /\ otherCalls["reset"][t] = NoAddr /\ otherCalls["state"][t] = NoAddr
<1>1. ThreadInv(t)
  BY Zenon DEF NvmeInv
<1> QED
  BY Zenon, <1>1 DEF ThreadInv, CdevInv, OtherInv, InCdev

\* A thread begins to add or to delete a device.
LEMMA CdevEnterInv ==
    ASSUME NvmeInv, NEW t \in Threads, NEW a \in Addrs \cup {NoAddr}, NEW fn \in {"add", "del"},
           CdevEnter(t, fn, a)
    PROVE  NvmeInv'
<1>1. /\ NvmeType /\ hooks \in 0..7 /\ stack[t] = <<>> /\ Push(t, fn, a) /\ NoteCdevCall(t, fn, a)
      /\ names' = names /\ UNCHANGED <<ctrl, hooks, prime, listed, otherCalls, events>>
  BY Zenon DEF NvmeInv, NvmeType, CdevEnter, DropName, goVars
<1>2. /\ a = NoAddr => ctrlStage' = ctrlStage
      /\ a # NoAddr => \/ /\ fn = "add" /\ ctrlStage[a] = "born"
                           /\ ctrlStage' = [ctrlStage EXCEPT ![a] = "adding"]
                       \/ /\ fn = "del" /\ ctrlStage[a] = "live"
                           /\ ctrlStage' = [ctrlStage EXCEPT ![a] = "deleting"]
  BY Zenon DEF CdevEnter
<1>3. /\ ctrlStage' \in [Addrs -> {"free", "born", "adding", "live", "deleting", "dead"}]
      /\ \A b \in Addrs \ {a} : ctrlStage'[b] = ctrlStage[b]
      /\ a # NoAddr => /\ a \in Addrs
                       /\ fn = "add" => ctrlStage[a] = "born" /\ ctrlStage'[a] = "adding"
                       /\ fn = "del" => ctrlStage[a] = "live" /\ ctrlStage'[a] = "deleting"
  BY Zenon, <1>1, <1>2 DEF NvmeType
<1>4. /\ stack' \in [Threads -> Seq(Calls)] /\ \A u \in Threads \ {t} : stack'[u] = stack[u]
      /\ Len(stack'[t]) = 1 /\ stack'[t][1].fn = fn /\ stack'[t][1].addr = a
      /\ stack'[t][1].ret <=> Hooked(fn, "ret")
      /\ unseen \subseteq unseen'
      /\ a # NoAddr /\ ~(Hooked(fn, "entry") /\ Hooked(fn, "ret")) => <<fn, ctrl[a]>> \in unseen'
  <2>1. Len(stack[t]) = 0 /\ fn \in {"add", "del", "reset", "state"} /\ NvmeType /\ Push(t, fn, a)
    BY Zenon, <1>1
  <2>2. /\ stack' \in [Threads -> Seq(Calls)] /\ \A u \in Threads \ {t} : stack'[u] = stack[u]
        /\ Len(stack[t]) \in Nat /\ Len(stack'[t]) = Len(stack[t]) + 1
        /\ \A n \in 1..Len(stack[t]) : stack'[t][n] = stack[t][n]
        /\ stack'[t][Len(stack[t]) + 1].fn = fn /\ stack'[t][Len(stack[t]) + 1].addr = a
        /\ stack'[t][Len(stack[t]) + 1].ret <=> Hooked(fn, "ret")
        /\ unseen \subseteq unseen'
        /\ a # NoAddr /\ ~(Hooked(fn, "entry") /\ Hooked(fn, "ret")) => <<fn, ctrl[a]>> \in unseen'
    BY Zenon, <2>1, Pushed
  <2>3. Len(stack[t]) + 1 = 1
    BY <2>1
  <2> QED
    BY Zenon, <2>2, <2>3
<1>5. /\ Hooked(fn, "entry") => Hooked(fn, "ret")
      /\ Hooked("add", "entry") <=> hooks >= 4
  BY <1>1, HookPlaces
<1>6. /\ cdevCalls[t] = NoCall /\ otherCalls["reset"][t] = NoAddr /\ otherCalls["state"][t] = NoAddr
  BY Zenon, <1>1, IdleThread
<1>7. /\ cdevCalls' \in [Threads -> [addr : Addrs \cup {NoAddr}, name : Nat]]
      /\ \A u \in Threads \ {t} : cdevCalls'[u] = cdevCalls[u]
      /\ a # NoAddr /\ Hooked(fn, "entry") => /\ cdevCalls'[t].addr = a /\ cdevCalls'[t].name = ctrl[a]
                                               /\ cdevCalls'[t] # NoCall
      /\ ~(a # NoAddr /\ Hooked(fn, "entry")) => cdevCalls'[t] = NoCall
  <2>1. CASE a # NoAddr /\ Hooked(fn, "entry")
    <3>1. PICK c : c = [addr |-> a, name |-> ctrl[a]]
      BY Zenon
    <3>2. c \in [addr : Addrs \cup {NoAddr}, name : Nat] /\ c.addr = a /\ c.name = ctrl[a]
      BY Zenon, <1>1, <1>3, <2>1, <3>1 DEF NvmeType
    <3>3. c # NoCall
      BY <2>1, <3>2 DEF NoCall
    <3>4. cdevCalls' = [cdevCalls EXCEPT ![t] = c]
      BY Zenon, <1>1, <2>1, <3>1 DEF NoteCdevCall
    <3>5. /\ cdevCalls' \in [Threads -> [addr : Addrs \cup {NoAddr}, name : Nat]]
          /\ \A u \in Threads \ {t} : cdevCalls'[u] = cdevCalls[u]
          /\ cdevCalls'[t] = c
      BY Zenon, <1>1, <3>2, <3>4 DEF NvmeType
    <3> QED
      BY Zenon, <2>1, <3>2, <3>3, <3>5
  <2>2. CASE ~(a # NoAddr /\ Hooked(fn, "entry"))
    BY Zenon, <1>1, <1>6, <2>2 DEF NoteCdevCall, NvmeType
  <2> QED
    BY Zenon, <2>1, <2>2
<1>8. NvmeType'
  BY Zenon, <1>1, <1>3, <1>4, <1>7 DEF NvmeType
<1>9. /\ First(t)' = stack'[t][1] /\ stack'[t] # <<>>
      /\ InCdev(t)' <=> a # NoAddr
  <2>1. stack'[t] # <<>>
    <3>1. Len(stack'[t]) = 1 /\ Len(<<>>) = 0
      BY Zenon, <1>4
    <3> QED
      BY <3>1
  <2>2. First(t)' = stack'[t][1]
    BY Zenon DEF First
  <2> QED
    BY Zenon, <1>4, <2>1, <2>2 DEF InCdev
<1>10. ThreadInv(t)'
  <2>1. StackInv(t)'
    BY <1>3, <1>4, <1>9 DEF StackInv
  <2>2. fn = "add" /\ a # NoAddr /\ ~Hooked(fn, "entry") => names[a] = NoName
    BY Zenon, <1>1, <1>3, <1>5 DEF NvmeInv, AddrInv
  <2>3. CdevInv(t)'
    <3>1. CASE a # NoAddr /\ Hooked(fn, "entry")
      BY Zenon, <1>1, <1>4, <1>5, <1>7, <1>9, <3>1 DEF CdevInv
    <3>2. CASE ~(a # NoAddr /\ Hooked(fn, "entry"))
      BY Zenon, <1>1, <1>4, <1>7, <1>9, <2>2, <3>2 DEF CdevInv
    <3> QED
      BY Zenon, <3>1, <3>2
  <2>4. OtherInv(t)'
    BY Zenon, <1>1, <1>6 DEF OtherInv
  <2> QED
    BY Zenon, <2>1, <2>3, <2>4 DEF ThreadInv
<1>11. ASSUME NEW u \in Threads \ {t} PROVE ThreadInv(u)' /\ (InCdev(u) => First(u).addr # a)
  <2>1. InCdev(u) => First(u).addr # a
    BY <1>3, CallAddress, NvmeConstants
  <2>2. a \in Addrs /\ ctrlStage[a] \in {"live", "deleting", "dead"} =>
           ctrlStage'[a] \in {"live", "deleting", "dead"}
    BY Zenon, <1>3, NvmeConstants
  <2>3. /\ stack'[u] = stack[u] /\ cdevCalls'[u] = cdevCalls[u]
        /\ otherCalls'["reset"][u] = otherCalls["reset"][u]
        /\ otherCalls'["state"][u] = otherCalls["state"][u]
        /\ UNCHANGED <<ctrl, hooks>> /\ unseen \subseteq unseen'
        /\ \A b \in Addrs \ {a} : ctrlStage'[b] = ctrlStage[b] /\ names'[b] = names[b]
    BY Zenon, <1>1, <1>3, <1>4, <1>7
  <2>4. ThreadInv(u)'
    BY Zenon, <2>1, <2>2, <2>3, OthersKept
  <2> QED
    BY Zenon, <2>1, <2>4
<1>12. ASSUME NEW b \in Addrs PROVE AddrInv(b)'
  <2>1. AddrInv(b) /\ hooks' \in Nat /\ hooks <= hooks'
    BY <1>1 DEF NvmeInv
  <2>2. CASE b # a
    BY Zenon, <1>1, <1>3, <1>4, <2>1, <2>2, AddrKept
  <2>3. CASE b = a
    BY Zenon, <1>1, <1>3, <1>4, <2>1, <2>3, NvmeConstants DEF AddrInv
  <2> QED
    BY Zenon, <2>2, <2>3
<1>13. Exclusive'
  BY <1>4, <1>9, <1>11, ExclusiveKept DEF NvmeInv
<1>14. PrimeInv' /\ EventNamesItsController'
  BY Zenon, <1>1 DEF NvmeInv, PrimeInv, EventNamesItsController
<1> QED
  BY Zenon, <1>8, <1>10, <1>11, <1>12, <1>13, <1>14 DEF NvmeInv

\* A thread's call to add or to delete a device returns.
LEMMA CdevReturnInv ==
    ASSUME NvmeInv, NEW t \in Threads, NEW fn \in {"add", "del"}, NEW ok \in BOOLEAN,
           \/ fn = "add" /\ AddReturns(t, ok)
           \/ fn = "del" /\ ok = TRUE /\ DelReturns(t)
    PROVE  NvmeInv'
<1>1. /\ NvmeType /\ ThreadInv(t) /\ hooks \in 0..7 /\ stack[t] # <<>> /\ Top(t).fn = fn
      /\ CdevReturnProbe(t, fn, ok) /\ Pop(t)
      /\ UNCHANGED <<ctrl, hooks, prime, listed, otherCalls, events, unseen>>
  BY Zenon DEF NvmeInv, NvmeType, AddReturns, DelReturns, Running, goVars
<1>2. Len(stack[t]) = 1 /\ Top(t) = First(t)
  <2>1. Len(stack[t]) \in Nat /\ Len(stack[t]) # 0 /\ Len(stack[t]) <= 2
    BY Zenon, <1>1, StackLength DEF ThreadInv, StackInv
  <2>2. Len(stack[t]) # 2
    <3>1. ASSUME Len(stack[t]) = 2 PROVE FALSE
      <4>1. stack[t][2].fn = "state"
        BY Zenon, <1>1, <3>1 DEF ThreadInv, StackInv
      <4>2. Top(t) = stack[t][2]
        BY Zenon, <3>1 DEF Top
      <4> QED
        BY Zenon, <1>1, <4>1, <4>2
    <3> QED
      BY Zenon, <3>1
  <2>3. Len(stack[t]) = 1
    <3>1. PICK k : k = Len(stack[t])
      BY Zenon
    <3>2. k \in Nat /\ k # 0 /\ k <= 2 /\ k # 2
      BY Zenon, <2>1, <2>2, <3>1
    <3>3. k = 1
      BY <3>2
    <3> QED
      BY Zenon, <3>1, <3>3
  <2> QED
    BY Zenon, <2>3 DEF Top, First
<1>3. PICK a : a = First(t).addr
  BY Zenon
<1>4. a \in Addrs \cup {NoAddr} /\ First(t).fn = fn /\ (InCdev(t) <=> a # NoAddr)
  <2>1. First(t) \in Calls
    BY <1>1, <1>2, StackLength DEF First
  <2> QED
    BY Zenon, <1>1, <1>2, <1>3, <2>1 DEF Calls, InCdev
<1>5. /\ a = NoAddr => ctrlStage' = ctrlStage
      /\ a # NoAddr /\ fn = "del" => ctrlStage' = [ctrlStage EXCEPT ![a] = "dead"]
      /\ a # NoAddr /\ fn = "add" => ctrlStage' = [ctrlStage EXCEPT ![a] = IF ok THEN "live" ELSE "free"]
  BY Zenon, <1>2, <1>3 DEF AddReturns, DelReturns
<1>6. /\ ctrlStage' \in [Addrs -> {"free", "born", "adding", "live", "deleting", "dead"}]
      /\ \A b \in Addrs \ {a} : ctrlStage'[b] = ctrlStage[b]
      /\ a # NoAddr =>
            /\ a \in Addrs
            /\ fn = "add" => ctrlStage[a] = "adding" /\ ctrlStage'[a] = IF ok THEN "live" ELSE "free"
            /\ fn = "del" => ctrlStage[a] = "deleting" /\ ctrlStage'[a] = "dead"
  <2>1. CASE a = NoAddr
    BY Zenon, <1>1, <1>5, <2>1 DEF NvmeType
  <2>2. CASE a # NoAddr
    <3>1. a \in Addrs /\ ctrlStage[a] = IF fn = "add" THEN "adding" ELSE "deleting"
      BY Zenon, <1>1, <1>3, <1>4, <2>2 DEF ThreadInv, StackInv
    <3>2. CASE fn = "add"
      BY Zenon, <1>1, <1>5, <2>2, <3>1, <3>2 DEF NvmeType
    <3>3. CASE fn = "del"
      BY Zenon, <1>1, <1>5, <2>2, <3>1, <3>3 DEF NvmeType
    <3> QED
      BY Zenon, <3>2, <3>3
  <2> QED
    BY Zenon, <2>1, <2>2
<1>7. /\ stack' \in [Threads -> Seq(Calls)] /\ \A u \in Threads \ {t} : stack'[u] = stack[u]
      /\ Len(stack'[t]) = 0 /\ stack'[t] = <<>>
  <2>1. /\ stack' \in [Threads -> Seq(Calls)] /\ \A u \in Threads \ {t} : stack'[u] = stack[u]
        /\ Len(stack'[t]) = Len(stack[t]) - 1
    BY Zenon, <1>1, Popped
  <2>2. Len(stack'[t]) = 0 /\ stack'[t] \in Seq(Calls)
    BY <1>2, <2>1
  <2>3. stack'[t] = <<>>
    BY <2>2
  <2> QED
    BY Zenon, <2>1, <2>2, <2>3
<1>8. /\ cdevCalls' \in [Threads -> [addr : Addrs \cup {NoAddr}, name : Nat]]
      /\ \A u \in Threads \ {t} : cdevCalls'[u] = cdevCalls[u]
      /\ cdevCalls'[t] = NoCall /\ names' \in [Addrs -> Nat]
      /\ \A b \in Addrs \ {a} : names'[b] = names[b]
      /\ cdevCalls[t] = NoCall => names' = names
      /\ cdevCalls[t] # NoCall =>
            /\ a # NoAddr
            /\ fn = "del" => names'[a] = NoName
            /\ fn = "add" => hooks >= 4 /\ names'[a] = IF ok THEN ctrl[a] ELSE names[a]
  <2>1. NoCall \in [addr : Addrs \cup {NoAddr}, name : Nat]
    BY Zenon DEF NoCall, NoName
  <2>2. CASE cdevCalls[t] = NoCall
    BY Zenon, <1>1, <2>2 DEF CdevReturnProbe, NvmeType
  <2>3. CASE cdevCalls[t] # NoCall
    <3>1. /\ a # NoAddr /\ Top(t).ret /\ cdevCalls[t].addr = a /\ cdevCalls[t].name = ctrl[a]
          /\ fn = "add" => hooks >= 4
      BY Zenon, <1>1, <1>2, <1>3, <1>4, <2>3 DEF ThreadInv, CdevInv
    <3>2. /\ cdevCalls' = [cdevCalls EXCEPT ![t] = NoCall]
          /\ fn = "del" => names' = [names EXCEPT ![a] = NoName]
          /\ fn = "add" /\ ok => names' = [names EXCEPT ![a] = ctrl[a]]
          /\ fn = "add" /\ ~ok => names' = names
      BY Zenon, <1>1, <2>3, <3>1 DEF CdevReturnProbe, DropName
    <3>3. /\ cdevCalls' \in [Threads -> [addr : Addrs \cup {NoAddr}, name : Nat]]
          /\ \A u \in Threads \ {t} : cdevCalls'[u] = cdevCalls[u]
          /\ cdevCalls'[t] = NoCall
      BY Zenon, <1>1, <2>1, <3>2 DEF NvmeType
    <3>4. a \in Addrs /\ ctrl[a] \in Nat /\ NoName \in Nat
      BY Zenon, <1>1, <1>4, <3>1 DEF NvmeType, NoName
    <3>5. /\ names' \in [Addrs -> Nat] /\ \A b \in Addrs \ {a} : names'[b] = names[b]
          /\ fn = "del" => names'[a] = NoName
          /\ fn = "add" => names'[a] = IF ok THEN ctrl[a] ELSE names[a]
      <4>1. CASE fn = "del"
        BY Zenon, <1>1, <3>2, <3>4, <4>1 DEF NvmeType
      <4>2. CASE fn = "add" /\ ok
        BY Zenon, <1>1, <3>2, <3>4, <4>2 DEF NvmeType
      <4>3. CASE fn = "add" /\ ~ok
        BY Zenon, <1>1, <3>2, <3>4, <4>3 DEF NvmeType
      <4> QED
        BY Zenon, <4>1, <4>2, <4>3
    <3> QED
      BY Zenon, <2>3, <3>1, <3>3, <3>5
  <2> QED
    BY Zenon, <2>2, <2>3
<1>9. NvmeType'
  BY Zenon, <1>1, <1>6, <1>7, <1>8 DEF NvmeType
<1>10. ~InCdev(t)'
  BY Zenon, <1>7 DEF InCdev
<1>11. otherCalls["reset"][t] = NoAddr /\ otherCalls["state"][t] = NoAddr
  BY Zenon, <1>1, <1>2, <1>4 DEF ThreadInv, OtherInv
<1>12. ThreadInv(t)'
  <2>1. StackInv(t)'
    <3>1. Len(stack'[t]) <= 2 /\ Len(stack'[t]) # 2 /\ \A m \in 1..Len(stack'[t]) : FALSE
      BY Zenon, <1>7, NoCalls
    <3> QED
      BY Zenon, <1>10, <3>1 DEF StackInv
  <2>2. CdevInv(t)'
    BY Zenon, <1>8, <1>10 DEF CdevInv
  <2>3. OtherInv(t)'
    BY Zenon, <1>1, <1>11 DEF OtherInv
  <2> QED
    BY Zenon, <2>1, <2>2, <2>3 DEF ThreadInv
<1>13. ASSUME NEW u \in Threads \ {t} PROVE ThreadInv(u)'
  <2>1. InCdev(u) => First(u).addr # a
    BY Zenon, <1>3, <1>4, CallAddress, NvmeConstants DEF NvmeInv, Exclusive
  <2>2. a \in Addrs /\ ctrlStage[a] \in {"live", "deleting", "dead"} =>
           ctrlStage'[a] \in {"live", "deleting", "dead"}
    BY Zenon, <1>6, NvmeConstants
  <2>3. /\ stack'[u] = stack[u] /\ cdevCalls'[u] = cdevCalls[u]
        /\ otherCalls'["reset"][u] = otherCalls["reset"][u]
        /\ otherCalls'["state"][u] = otherCalls["state"][u]
        /\ UNCHANGED <<ctrl, hooks>> /\ unseen \subseteq unseen'
        /\ \A b \in Addrs \ {a} : ctrlStage'[b] = ctrlStage[b] /\ names'[b] = names[b]
    BY Zenon, <1>1, <1>6, <1>7, <1>8
  <2> QED
    BY Zenon, <2>1, <2>2, <2>3, OthersKept
<1>14. ASSUME NEW b \in Addrs PROVE AddrInv(b)'
  <2>1. AddrInv(b) /\ hooks' \in Nat /\ hooks <= hooks' /\ unseen \subseteq unseen'
    BY Zenon, <1>1, HooksCount DEF NvmeInv, NvmeType
  <2>2. CASE b # a
    BY Zenon, <1>1, <1>6, <1>8, <2>1, <2>2, AddrKept
  <2>3. CASE b = a
    <3>1. a # NoAddr /\ a \in Addrs /\ InCdev(t)
      BY Zenon, <1>4, <2>3, NvmeConstants
    <3>2. cdevCalls[t] = NoCall =>
             /\ <<fn, ctrl[a]>> \in unseen
             /\ fn = "add" => names[a] = NoName
      BY Zenon, <1>1, <1>3, <1>4, <3>1 DEF ThreadInv, CdevInv
    <3>3. CASE fn = "del"
      BY Zenon, <1>1, <1>6, <1>8, <2>1, <2>3, <3>1, <3>2, <3>3 DEF AddrInv
    <3>4. CASE fn = "add" /\ ok
      BY Zenon, <1>1, <1>6, <1>8, <2>1, <2>3, <3>1, <3>2, <3>4 DEF AddrInv
    <3>5. CASE fn = "add" /\ ~ok
      BY Zenon, <1>1, <1>6, <1>8, <2>1, <2>3, <3>1, <3>2, <3>5 DEF AddrInv
    <3> QED
      BY Zenon, <3>3, <3>4, <3>5
  <2> QED
    BY Zenon, <2>2, <2>3
<1>15. Exclusive'
  BY Zenon, <1>7, <1>10, ExclusiveKept DEF NvmeInv
<1>16. PrimeInv' /\ EventNamesItsController'
  BY Zenon, <1>1 DEF NvmeInv, PrimeInv, EventNamesItsController
<1> QED
  BY Zenon, <1>9, <1>12, <1>13, <1>14, <1>15, <1>16 DEF NvmeInv

\* One thread's entry of one of the two maps of calls changes.
LEMMA NoteOther ==
    ASSUME NvmeType, NEW t \in Threads, NEW fn \in {"reset", "state"},
           NEW a \in Addrs \cup {NoAddr}, otherCalls' = [otherCalls EXCEPT ![fn][t] = a]
    PROVE  /\ otherCalls' \in [{"reset", "state"} -> [Threads -> Addrs \cup {NoAddr}]]
           /\ otherCalls'[fn][t] = a
           /\ \A f \in {"reset", "state"} : \A u \in Threads :
                 ~(f = fn /\ u = t) => otherCalls'[f][u] = otherCalls[f][u]
<1>1. PICK g : g = [otherCalls[fn] EXCEPT ![t] = a]
  BY Zenon
<1>2. otherCalls \in [{"reset", "state"} -> [Threads -> Addrs \cup {NoAddr}]]
  BY Zenon DEF NvmeType
<1>3. /\ g \in [Threads -> Addrs \cup {NoAddr}] /\ g[t] = a
      /\ \A u \in Threads : u # t => g[u] = otherCalls[fn][u]
  BY Zenon, <1>1, <1>2
<1>4. otherCalls' = [otherCalls EXCEPT ![fn] = g]
  BY Zenon, <1>1
<1>5. /\ otherCalls' \in [{"reset", "state"} -> [Threads -> Addrs \cup {NoAddr}]]
      /\ otherCalls'[fn] = g
      /\ \A f \in {"reset", "state"} : f # fn => otherCalls'[f] = otherCalls[f]
  BY Zenon, <1>2, <1>3, <1>4
<1> QED
  BY Zenon, <1>3, <1>5

\* A thread enters a reset or a state change.
LEMMA CtrlEnterInv ==
    ASSUME NvmeInv, NEW t \in Threads, NEW a \in Addrs, NEW fn \in {"reset", "state"},
           CtrlEnter(t, fn, a)
    PROVE  NvmeInv'
<1>1. /\ NvmeType /\ ThreadInv(t) /\ hooks \in 0..7 /\ Push(t, fn, a) /\ a # NoAddr
      /\ fn \in {"add", "del", "reset", "state"}
      /\ ctrlStage[a] \in {"live", "deleting", "dead"}
      /\ otherCalls' = IF Hooked(fn, "entry") THEN [otherCalls EXCEPT ![fn][t] = a] ELSE otherCalls
      /\ UNCHANGED <<ctrlStage, ctrl, hooks, prime, listed, names, cdevCalls, events>>
  BY Zenon, NvmeConstants DEF NvmeInv, NvmeType, CtrlEnter, Slot, goVars
<1>2. PICK n : n = Len(stack[t])
  BY Zenon
<1>3. /\ stack' \in [Threads -> Seq(Calls)] /\ \A u \in Threads \ {t} : stack'[u] = stack[u]
      /\ n \in Nat /\ Len(stack'[t]) = n + 1
      /\ \A m \in 1..n : stack'[t][m] = stack[t][m]
      /\ stack'[t][n + 1].fn = fn /\ stack'[t][n + 1].addr = a
      /\ stack'[t][n + 1].ret <=> Hooked(fn, "ret")
      /\ unseen \subseteq unseen'
      /\ a # NoAddr /\ ~(Hooked(fn, "entry") /\ Hooked(fn, "ret")) => <<fn, ctrl[a]>> \in unseen'
  <2>1. NvmeType /\ fn \in {"add", "del", "reset", "state"} /\ a \in Addrs \cup {NoAddr} /\ Push(t, fn, a)
    BY Zenon, <1>1
  <2>2. /\ stack' \in [Threads -> Seq(Calls)] /\ \A u \in Threads \ {t} : stack'[u] = stack[u]
        /\ Len(stack[t]) \in Nat /\ Len(stack'[t]) = Len(stack[t]) + 1
        /\ \A m \in 1..Len(stack[t]) : stack'[t][m] = stack[t][m]
        /\ stack'[t][Len(stack[t]) + 1].fn = fn /\ stack'[t][Len(stack[t]) + 1].addr = a
        /\ stack'[t][Len(stack[t]) + 1].ret <=> Hooked(fn, "ret")
        /\ unseen \subseteq unseen'
        /\ a # NoAddr /\ ~(Hooked(fn, "entry") /\ Hooked(fn, "ret")) => <<fn, ctrl[a]>> \in unseen'
    BY Zenon, <2>1, Pushed
  <2> QED
    BY Zenon, <1>2, <2>2
<1>4. Hooked(fn, "entry") => Hooked(fn, "ret")
  BY <1>1, HookPlaces
<1>5. \/ n = 0
      \/ n = 1 /\ fn = "state" /\ First(t).fn = "reset" /\ First(t).addr = a
  <2>1. CASE stack[t] = <<>>
    BY Zenon, <1>2, <2>1
  <2>2. CASE stack[t] # <<>>
    <3>1. fn = "state" /\ Len(stack[t]) = 1 /\ Top(t).fn = "reset" /\ Top(t).addr = a
      BY Zenon, <2>2 DEF CtrlEnter, Running
    <3>2. Top(t) = First(t)
      BY Zenon, <3>1 DEF Top, First
    <3> QED
      BY Zenon, <1>2, <3>1, <3>2
  <2> QED
    BY Zenon, <2>1, <2>2
<1>6. /\ ~InCdev(t) /\ cdevCalls[t] = NoCall
      /\ n = 0 => otherCalls["reset"][t] = NoAddr
      /\ otherCalls["state"][t] = NoAddr
  <2>1. CASE n = 0
    <3>1. stack[t] = <<>>
      BY Zenon, <1>1, <1>2, <2>1, StackLength
    <3> QED
      BY Zenon, <3>1, IdleThread
  <2>2. CASE n = 1 /\ First(t).fn = "reset"
    <3>1. Top(t) = First(t)
      BY Zenon, <1>2, <2>2 DEF Top, First
    <3> QED
      BY <1>1, <2>2, <3>1 DEF ThreadInv, CdevInv, OtherInv, InCdev
  <2> QED
    BY Zenon, <1>5, <2>1, <2>2
<1>7. /\ otherCalls' \in [{"reset", "state"} -> [Threads -> Addrs \cup {NoAddr}]]
      /\ \A f \in {"reset", "state"} : \A u \in Threads :
            ~(f = fn /\ u = t) => otherCalls'[f][u] = otherCalls[f][u]
      /\ otherCalls'[fn][t] = IF Hooked(fn, "entry") THEN a ELSE otherCalls[fn][t]
  <2>1. otherCalls \in [{"reset", "state"} -> [Threads -> Addrs \cup {NoAddr}]]
    BY Zenon, <1>1 DEF NvmeType
  <2>2. CASE Hooked(fn, "entry")
    BY <1>1, <2>1, <2>2, NoteOther
  <2>3. CASE ~Hooked(fn, "entry")
    BY Zenon, <1>1, <2>1, <2>3
  <2> QED
    BY Zenon, <2>2, <2>3
<1>8. NvmeType'
  BY Zenon, <1>1, <1>3, <1>7 DEF NvmeType
<1>9. /\ First(t)' = stack'[t][1] /\ Top(t)' = stack'[t][n + 1] /\ stack'[t] # <<>>
      /\ n = 0 => Top(t)' = First(t)'
      /\ n = 1 => First(t)' = First(t)
      /\ First(t)'.fn \in {"reset", "state"} /\ ~InCdev(t)'
  <2>1. stack'[t] # <<>>
    <3>1. Len(stack'[t]) # 0 /\ Len(<<>>) = 0
      BY <1>3
    <3> QED
      BY Zenon, <3>1
  <2>2. /\ First(t)' = stack'[t][1] /\ Top(t)' = stack'[t][n + 1]
        /\ n = 0 => Top(t)' = First(t)'
        /\ n = 1 => First(t)' = First(t)
    BY <1>3 DEF First, Top
  <2>3. First(t)'.fn \in {"reset", "state"}
    <3>1. CASE n = 0
      BY Zenon, <1>3, <2>2, <3>1
    <3>2. CASE n = 1 /\ First(t).fn = "reset"
      BY Zenon, <2>2, <3>2
    <3> QED
      BY Zenon, <1>5, <3>1, <3>2
  <2> QED
    BY Zenon, <2>1, <2>2, <2>3 DEF InCdev
<1>10. ThreadInv(t)'
  <2>1. StackInv(t)'
    <3>1. CASE n = 0
      BY <1>1, <1>3, <1>9, <3>1 DEF StackInv
    <3>2. CASE n = 1
      BY <1>1, <1>2, <1>3, <1>5, <1>9, <3>2 DEF StackInv, ThreadInv
    <3> QED
      BY Zenon, <1>5, <3>1, <3>2
  <2>2. CdevInv(t)'
    BY Zenon, <1>1, <1>6, <1>9 DEF CdevInv
  <2>3. OtherInv(t)'
    <3>1. CASE n = 0
      <4>1. /\ otherCalls["reset"][t] = NoAddr /\ otherCalls["state"][t] = NoAddr
            /\ \A f \in {"reset", "state"} : otherCalls'[f][t] # NoAddr =>
                  f = fn /\ Hooked(fn, "entry") /\ otherCalls'[f][t] = a
        BY Zenon, <1>6, <1>7, <3>1
      <4>2. Top(t)'.fn = fn /\ Top(t)'.addr = a /\ (Top(t)'.ret <=> Hooked(fn, "ret"))
        BY Zenon, <1>3, <1>9
      <4> QED
        BY Zenon, <1>4, <1>9, <3>1, <4>1, <4>2 DEF OtherInv
    <3>2. CASE n = 1
      <4>1. /\ fn = "state" /\ otherCalls'["reset"][t] = otherCalls["reset"][t]
            /\ otherCalls'["state"][t] # NoAddr => Hooked(fn, "entry") /\ otherCalls'["state"][t] = a
        BY <1>5, <1>6, <1>7, <3>2
      <4>2. OtherInv(t)
        BY Zenon, <1>1 DEF ThreadInv
      <4> QED
        BY Zenon, <1>3, <1>4, <1>9, <3>2, <4>1, <4>2 DEF OtherInv
    <3> QED
      BY Zenon, <1>5, <3>1, <3>2
  <2> QED
    BY Zenon, <2>1, <2>2, <2>3 DEF ThreadInv
<1>11. ASSUME NEW u \in Threads \ {t} PROVE ThreadInv(u)'
  <2>1. /\ ThreadInv(u) /\ stack'[u] = stack[u] /\ cdevCalls'[u] = cdevCalls[u]
        /\ otherCalls'["reset"][u] = otherCalls["reset"][u]
        /\ otherCalls'["state"][u] = otherCalls["state"][u]
        /\ hooks' \in Nat /\ hooks <= hooks' /\ unseen \subseteq unseen'
    BY Zenon, <1>1, <1>3, <1>7, HooksCount DEF NvmeInv, NvmeType
  <2>2. \A m \in 1..Len(stack[u]) : stack[u][m].fn \in {"reset", "state"} =>
           ctrlStage'[stack[u][m].addr] \in {"live", "deleting", "dead"}
    BY Zenon, <1>1, CallAddress
  <2> QED
    BY Zenon, <1>1, <2>1, <2>2, ThreadKept
<1>12. ASSUME NEW b \in Addrs PROVE AddrInv(b)'
  <2>1. AddrInv(b) /\ hooks' \in Nat /\ hooks <= hooks' /\ unseen \subseteq unseen'
    BY Zenon, <1>1, <1>3, HooksCount DEF NvmeInv, NvmeType
  <2> QED
    BY Zenon, <1>1, <2>1, AddrKept
<1>13. Exclusive'
  BY Zenon, <1>3, <1>9, ExclusiveKept DEF NvmeInv
<1>14. PrimeInv' /\ EventNamesItsController'
  BY Zenon, <1>1 DEF NvmeInv, PrimeInv, EventNamesItsController
<1> QED
  BY Zenon, <1>8, <1>10, <1>11, <1>12, <1>13, <1>14 DEF NvmeInv

\* A reset or a state change returns.
LEMMA CtrlReturnInv ==
    ASSUME NvmeInv, NEW t \in Threads, NEW fn \in {"reset", "state"}, NEW ok \in BOOLEAN,
           CtrlReturns(t, fn, ok)
    PROVE  NvmeInv'
<1>1. PICK a : a = otherCalls[fn][t]
  BY Zenon
<1>2. /\ NvmeType /\ ThreadInv(t) /\ hooks \in 0..7 /\ stack[t] # <<>> /\ Top(t).fn = fn /\ Pop(t)
      /\ UNCHANGED <<ctrlStage, ctrl, hooks, prime, listed, names, cdevCalls, unseen>>
      /\ IF Top(t).ret /\ a # NoAddr
         THEN /\ otherCalls' = [otherCalls EXCEPT ![fn][t] = NoAddr]
              /\ events' = IF ok THEN events \cup {[ctrl |-> ctrl[Top(t).addr], name |-> names[a]]}
                           ELSE events
         ELSE UNCHANGED <<otherCalls, events>>
  BY Zenon, <1>1 DEF NvmeInv, NvmeType, CtrlReturns, Running, Slot, goVars
<1>3. PICK n : n = Len(stack[t])
  BY Zenon
<1>4. /\ n \in 1..2 /\ Top(t) = stack[t][n]
      /\ n = 2 => fn = "state" /\ First(t).fn = "reset"
      /\ n = 1 => Top(t) = First(t) /\ First(t).fn = fn
  <2>1. n \in Nat /\ n # 0 /\ n <= 2
    BY Zenon, <1>2, <1>3, StackLength DEF ThreadInv, StackInv
  <2>2. n \in 1..2
    BY <2>1
  <2>3. Top(t) = stack[t][n] /\ (n = 1 => Top(t) = First(t))
    BY Zenon, <1>3 DEF Top, First
  <2>4. n = 2 => fn = "state" /\ First(t).fn = "reset"
    BY Zenon, <1>2, <1>3, <2>3 DEF ThreadInv, StackInv
  <2> QED
    BY Zenon, <1>2, <2>2, <2>3, <2>4
<1>5. a # NoAddr => Top(t).ret /\ Top(t).addr = a
  <2>1. CASE fn = "state"
    BY Zenon, <1>1, <1>2, <2>1 DEF ThreadInv, OtherInv
  <2>2. CASE fn = "reset"
    <3>1. Top(t) = First(t)
      BY <1>4, <2>2
    <3> QED
      BY Zenon, <1>1, <1>2, <2>2, <3>1 DEF ThreadInv, OtherInv
  <2> QED
    BY Zenon, <2>1, <2>2
<1>6. /\ otherCalls' \in [{"reset", "state"} -> [Threads -> Addrs \cup {NoAddr}]]
      /\ otherCalls'[fn][t] = NoAddr
      /\ \A f \in {"reset", "state"} : \A u \in Threads :
            ~(f = fn /\ u = t) => otherCalls'[f][u] = otherCalls[f][u]
  <2>1. CASE a # NoAddr
    <3>1. NvmeType /\ NoAddr \in Addrs \cup {NoAddr} /\ otherCalls' = [otherCalls EXCEPT ![fn][t] = NoAddr]
      BY Zenon, <1>2, <1>5, <2>1
    <3> QED
      BY ZenonT(30), <3>1, NoteOther
  <2>2. CASE a = NoAddr
    BY Zenon, <1>1, <1>2, <2>2 DEF NvmeType
  <2> QED
    BY Zenon, <2>1, <2>2
<1>7. /\ stack' \in [Threads -> Seq(Calls)] /\ \A u \in Threads \ {t} : stack'[u] = stack[u]
      /\ Len(stack'[t]) = n - 1
      /\ \A m \in 1..(n - 1) : stack'[t][m] = stack[t][m]
  <2>1. NvmeType /\ stack[t] # <<>> /\ Pop(t)
    BY Zenon, <1>2
  <2> QED
    BY Zenon, <1>3, <2>1, Popped
<1>8. NvmeType'
  BY Zenon, <1>2, <1>6, <1>7 DEF NvmeType
<1>9. ~InCdev(t) /\ cdevCalls[t] = NoCall
  BY <1>2, <1>4 DEF ThreadInv, CdevInv, InCdev
<1>10. /\ n = 1 => stack'[t] = <<>>
       /\ n = 2 => stack'[t] # <<>> /\ First(t)' = First(t)
       /\ ~InCdev(t)'
  <2>1. n = 1 => stack'[t] = <<>>
    <3>1. n = 1 => Len(stack'[t]) = 0 /\ stack'[t] \in Seq(Calls)
      BY <1>7
    <3> QED
      BY <3>1
  <2>2. n = 2 => stack'[t] # <<>>
    <3>1. n = 2 => Len(stack'[t]) # Len(<<>>)
      BY <1>7
    <3> QED
      BY Zenon, <3>1
  <2>3. n = 2 => First(t)' = First(t)
    BY <1>7 DEF First
  <2> QED
    BY <1>4, <2>1, <2>2, <2>3 DEF InCdev
<1>11. ThreadInv(t)'
  <2>1. StackInv(t)'
    <3>1. CASE n = 1
      BY <1>7, <1>10, <3>1 DEF StackInv
    <3>2. CASE n = 2
      <4>1. /\ Len(stack'[t]) = 1 /\ stack'[t][1] = stack[t][1] /\ 1 \in 1..Len(stack[t])
        BY <1>3, <1>7, <3>2
      <4>2. stack[t][1].fn \in {"reset", "state"} =>
              stack[t][1].addr # NoAddr /\ ctrlStage[stack[t][1].addr] \in {"live", "deleting", "dead"}
        BY Zenon, <1>2, <4>1 DEF StackInv, ThreadInv
      <4> QED
        BY <1>2, <1>10, <4>1, <4>2 DEF StackInv
    <3> QED
      BY <1>4, <3>1, <3>2
  <2>2. CdevInv(t)'
    BY Zenon, <1>2, <1>9, <1>10 DEF CdevInv
  <2>3. otherCalls'["state"][t] = NoAddr
    <3>1. CASE fn = "state"
      BY Zenon, <1>6, <3>1
    <3>2. CASE fn = "reset"
      BY Zenon, <1>2, <1>6, <3>2 DEF ThreadInv, OtherInv
    <3> QED
      BY Zenon, <3>1, <3>2
  <2>4. otherCalls'["reset"][t] # NoAddr => n = 2 /\ otherCalls'["reset"][t] = otherCalls["reset"][t]
    <3>1. CASE fn = "reset"
      BY Zenon, <1>6, <3>1
    <3>2. CASE fn = "state"
      BY <1>2, <1>4, <1>6, <3>2 DEF ThreadInv, OtherInv
    <3> QED
      BY Zenon, <3>1, <3>2
  <2>5. OtherInv(t)'
    BY Zenon, <1>2, <1>10, <2>3, <2>4 DEF OtherInv, ThreadInv
  <2> QED
    BY Zenon, <2>1, <2>2, <2>5 DEF ThreadInv
<1>12. ASSUME NEW u \in Threads \ {t} PROVE ThreadInv(u)'
  <2>1. /\ ThreadInv(u) /\ stack'[u] = stack[u] /\ cdevCalls'[u] = cdevCalls[u]
        /\ otherCalls'["reset"][u] = otherCalls["reset"][u]
        /\ otherCalls'["state"][u] = otherCalls["state"][u]
        /\ hooks' \in Nat /\ hooks <= hooks' /\ unseen \subseteq unseen'
    BY <1>2, <1>6, <1>7 DEF NvmeInv
  <2>2. \A m \in 1..Len(stack[u]) : stack[u][m].fn \in {"reset", "state"} =>
           ctrlStage'[stack[u][m].addr] \in {"live", "deleting", "dead"}
    BY Zenon, <1>2, CallAddress
  <2> QED
    BY Zenon, <1>2, <2>1, <2>2, ThreadKept
<1>13. ASSUME NEW b \in Addrs PROVE AddrInv(b)'
  <2>1. AddrInv(b) /\ hooks' \in Nat /\ hooks <= hooks' /\ unseen \subseteq unseen'
    BY <1>2 DEF NvmeInv
  <2> QED
    BY Zenon, <1>2, <2>1, AddrKept
<1>14. Exclusive'
  BY Zenon, <1>7, <1>10, ExclusiveKept DEF NvmeInv
<1>15. EventNamesItsController'
  <2>1. EventNamesItsController
    BY Zenon DEF NvmeInv
  <2>2. CASE a # NoAddr
    <3>1. a \in Addrs /\ ctrlStage[a] \in {"live", "deleting", "dead"} /\ Top(t).addr = a
      BY <1>2, <1>3, <1>4, <1>5, <2>2, CallAddress
    <3>2. names[a] \in {NoName, ctrl[a]}
      BY Zenon, <3>1 DEF NvmeInv, AddrInv
    <3>3. PICK e : e = [ctrl |-> ctrl[a], name |-> names[a]]
      BY Zenon
    <3>4. e.name \in {NoName, e.ctrl}
      BY Zenon, <3>2, <3>3
    <3>5. events' \subseteq events \cup {e}
      BY Zenon, <1>2, <1>5, <2>2, <3>1, <3>3
    <3> QED
      BY Zenon, <2>1, <3>4, <3>5 DEF EventNamesItsController
  <2>3. CASE a = NoAddr
    BY Zenon, <1>2, <2>1, <2>3 DEF EventNamesItsController
  <2> QED
    BY Zenon, <2>2, <2>3
<1>16. PrimeInv'
  BY Zenon, <1>2 DEF NvmeInv, PrimeInv
<1> QED
  BY Zenon, <1>8, <1>11, <1>12, <1>13, <1>14, <1>15, <1>16 DEF NvmeInv

\* A step that changes nothing.
LEMMA NvmeStutter ==
    ASSUME NvmeInv, UNCHANGED vars
    PROVE  NvmeInv'
<1>1. /\ ctrlStage' = ctrlStage /\ ctrl' = ctrl /\ stack' = stack /\ hooks' = hooks /\ prime' = prime
      /\ listed' = listed /\ names' = names /\ cdevCalls' = cdevCalls /\ otherCalls' = otherCalls
      /\ events' = events /\ unseen' = unseen
  BY Zenon DEF vars, kernelVars, goVars
<1>2. NvmeType' /\ PrimeInv' /\ EventNamesItsController' /\ hooks \in 0..7
  BY Zenon, <1>1 DEF NvmeInv, NvmeType, PrimeInv, EventNamesItsController
<1>3. hooks' \in Nat /\ hooks <= hooks'
  BY Zenon, <1>1, <1>2, HooksCount
<1>4. \A t \in Threads : First(t)' = First(t) /\ (InCdev(t)' <=> InCdev(t))
  BY Zenon, <1>1 DEF First, InCdev
<1>5. Exclusive'
  BY Zenon, <1>4 DEF NvmeInv, Exclusive
<1>6. ASSUME NEW t \in Threads PROVE ThreadInv(t)'
  <2>1. NvmeType /\ ThreadInv(t)
    BY Zenon DEF NvmeInv
  <2>2. \A n \in 1..Len(stack[t]) : stack[t][n].fn \in {"reset", "state"} =>
           ctrlStage'[stack[t][n].addr] \in {"live", "deleting", "dead"}
    BY Zenon, <1>1, <2>1 DEF ThreadInv, StackInv
  <2> QED
    BY Zenon, <1>1, <1>3, <2>1, <2>2, ThreadKept
<1>7. ASSUME NEW a \in Addrs PROVE AddrInv(a)'
  BY Zenon, <1>1, <1>3, AddrKept DEF NvmeInv
<1> QED
  BY Zenon, <1>2, <1>5, <1>6, <1>7 DEF NvmeInv

\* The invariant of the maps of names and of calls holds in every state.
THEOREM NvmeInvariance == Spec => []NvmeInv
<1>1. ASSUME NvmeInv, [Next]_vars PROVE NvmeInv'
  <2>1. CASE AttachNext
    BY Zenon, <1>1, <2>1, AttachInv
  <2>2. CASE PrimeLists \/ PrimeNothing \/ \E a \in Addrs : PrimeReads(a) \/ OthersRead(a)
    BY Zenon, <1>1, <2>2, PrimingInv
  <2>3. CASE \E a \in Addrs : Create(a) \/ Free(a)
    BY Zenon, <1>1, <2>3, CreateFreeInv
  <2>4. ASSUME NEW t \in Threads, NEW a \in Addrs \cup {NoAddr}, NEW fn \in {"add", "del"},
               CdevEnter(t, fn, a)
        PROVE  NvmeInv'
    BY Zenon, <1>1, <2>4, CdevEnterInv
  <2>5. ASSUME NEW t \in Threads, NEW ok \in BOOLEAN, AddReturns(t, ok) PROVE NvmeInv'
    BY Zenon, <1>1, <2>5, CdevReturnInv
  <2>6. ASSUME NEW t \in Threads, DelReturns(t) PROVE NvmeInv'
    BY Zenon, <1>1, <2>6, CdevReturnInv
  <2>7. ASSUME NEW t \in Threads, NEW a \in Addrs, NEW fn \in {"reset", "state"}, CtrlEnter(t, fn, a)
        PROVE  NvmeInv'
    BY Zenon, <1>1, <2>7, CtrlEnterInv
  <2>8. ASSUME NEW t \in Threads, NEW fn \in {"reset", "state"}, NEW ok \in BOOLEAN,
               CtrlReturns(t, fn, ok)
        PROVE  NvmeInv'
    BY Zenon, <1>1, <2>8, CtrlReturnInv
  <2>9. CASE UNCHANGED vars
    BY Zenon, <1>1, <2>9, NvmeStutter
  <2> QED
    BY Zenon, <1>1, <2>1, <2>2, <2>3, <2>4, <2>5, <2>6, <2>7, <2>8, <2>9 DEF Next
<1> QED
  BY <1>1, NvmeInit, PTL DEF Spec

\* NvmeNamesExact: an event never carries the name of another controller, and
\* the names agree with the controllers once the state files have been read.
THEOREM NvmeTheorem == Spec => []NvmeNamesExact
<1>1. ASSUME NvmeInv PROVE NvmeNamesExact
  BY Zenon, <1>1 DEF NvmeInv, NvmeNamesExact, NamesMatchControllers, AddrInv, PrimeInv
<1> QED
  BY <1>1, NvmeInvariance, PTL


-----------------------------------------------------------------------------
(* Freeze counters.                                                        *)

\* The probes that run for a disk, and those of them that hold its row.
Busy(d) == {c \in CPUs : probe[c].at # "idle" /\ probe[c].dev = d}
Holding(d) == {c \in Busy(d) : probe[c].elem = rows[d].elem}

FreezeType ==
    /\ stage \in [Devs -> {"absent", "published", "registered", "removing"}]
    /\ rows \in [Devs -> [elem : Nat, count : Nat]] /\ elems \in Nat
    /\ freezes \in [Devs -> Nat] /\ since \in [Devs -> Nat]
    /\ clobbered \in [Devs -> BOOLEAN]
    /\ probe \in [CPUs -> [at : {"idle", "insert", "relookup", "add"},
                           dev : Devs \cup {AnyDev}, elem : Nat]]
    /\ \A c \in CPUs : probe[c].at # "idle" => probe[c].dev \in Devs
    /\ scrape \in [at : {"idle", "resolve", "delete"}, dev : Devs \cup {AnyDev}]

\* Every freeze of the current disk is counted, lost, or still in its probe, and
\* a freeze that began after the registration holds the row or will look for it.
DiskInv(d) ==
    /\ IsFiniteSet(Busy(d))
    /\ stage[d] = "absent" => Busy(d) = {}
    /\ stage[d] # "absent" => Cardinality(Busy(d)) <= freezes[d]
    /\ stage[d] = "registered" => rows[d].count + Cardinality(Busy(d)) <= freezes[d]
    /\ stage[d] = "registered" /\ ~clobbered[d] =>
          rows[d].elem # 0 /\ since[d] <= rows[d].count + Cardinality(Holding(d))

FreezeInv == FreezeType /\ \A d \in Devs : DiskInv(d)

\* The sums of DiskInv when a freeze begins, is counted or is given up.
LEMMA Counting ==
    ASSUME NEW b \in Nat, NEW f \in Nat, NEW r \in Nat
    PROVE  /\ b <= f => b + 1 <= f + 1 /\ b - 1 <= f /\ 1 + (b - 1) <= f
           /\ r + b <= f => r + (b + 1) <= f + 1 /\ r + (b - 1) <= f /\ (r + 1) + (b - 1) <= f
BY SMT

\* The lower bound of DiskInv in the same steps.
LEMMA Reaching ==
    ASSUME NEW s \in Nat, NEW r \in Nat, NEW h \in Nat, NEW k \in Nat, s <= r + h
    PROVE  /\ k >= h => s <= r + k
           /\ k >= h - 1 => s <= (r + 1) + k
           /\ k = h + 1 => s + 1 <= r + k
BY SMT

\* A set of probes that gains or loses one.
LEMMA OneProbe ==
    ASSUME NEW S, IsFiniteSet(S), NEW c
    PROVE  /\ Cardinality(S) \in Nat
           /\ IsFiniteSet(S \cup {c}) /\ Cardinality(S \cup {c}) \in Nat
           /\ IsFiniteSet(S \ {c}) /\ Cardinality(S \ {c}) \in Nat
           /\ c \notin S => Cardinality(S \cup {c}) = Cardinality(S) + 1
           /\ c \in S => Cardinality(S \ {c}) = Cardinality(S) - 1
           /\ Cardinality(S \cup {c}) >= Cardinality(S)
           /\ Cardinality(S \ {c}) <= Cardinality(S)
<1>1. PICK u, v : u = S \cup {c} /\ v = S \ {c}
  BY Zenon
<1>2. IsFiniteSet(u) /\ (c \notin S => Cardinality(u) = Cardinality(S) + 1)
  BY Zenon, <1>1, FS_AddElement
<1>3. IsFiniteSet(v) /\ (c \in S => Cardinality(v) = Cardinality(S) - 1)
  BY Zenon, <1>1, FS_RemoveElement
<1>4. (c \in S => u = S) /\ (c \notin S => v = S)
  BY Zenon, <1>1
<1>5. Cardinality(S) \in Nat /\ Cardinality(u) \in Nat /\ Cardinality(v) \in Nat
  BY Zenon, <1>2, <1>3, FS_CardinalityType
<1>6. Cardinality(u) >= Cardinality(S) /\ Cardinality(v) <= Cardinality(S)
  BY <1>2, <1>3, <1>4, <1>5
<1> QED
  BY Zenon, <1>1, <1>2, <1>3, <1>5, <1>6

\* The probes of a disk that hold its row are among those that run for it.
LEMMA HoldingCount ==
    ASSUME NEW d, IsFiniteSet(Busy(d))
    PROVE  /\ IsFiniteSet(Holding(d)) /\ Cardinality(Holding(d)) \in Nat
           /\ Cardinality(Busy(d)) \in Nat
           /\ Cardinality(Holding(d)) <= Cardinality(Busy(d))
<1>1. Holding(d) \subseteq Busy(d)
  BY Zenon DEF Holding
<1>2. IsFiniteSet(Holding(d)) /\ Cardinality(Holding(d)) <= Cardinality(Busy(d))
  BY Zenon, <1>1, FS_Subset
<1> QED
  BY Zenon, <1>2, FS_CardinalityType

\* What a step of one probe does to the two sets of each disk.
LEMMA ProbeStep ==
    ASSUME FreezeType, NEW c \in CPUs, NEW p, probe' = [probe EXCEPT ![c] = p], NEW d
    PROVE  /\ p.at # "idle" /\ p.dev = d => Busy(d)' = Busy(d) \cup {c}
           /\ p.at = "idle" \/ p.dev # d => Busy(d)' = Busy(d) \ {c}
           /\ rows'[d].elem = rows[d].elem =>
                 /\ p.at # "idle" /\ p.dev = d /\ p.elem = rows[d].elem
                       => Holding(d)' = Holding(d) \cup {c}
                 /\ p.at = "idle" \/ p.dev # d \/ p.elem # rows[d].elem
                       => Holding(d)' = Holding(d) \ {c}
           /\ probe[c].at = "idle" \/ probe[c].dev # d => c \notin Busy(d) /\ c \notin Holding(d)
           /\ probe[c].at # "idle" /\ probe[c].dev = d => c \in Busy(d)
<1>1. probe'[c] = p /\ \A e \in CPUs \ {c} : probe'[e] = probe[e]
  BY Zenon DEF FreezeType
<1> QED
  BY <1>1 DEF Busy, Holding

\* A step that leaves the probes and the row of a disk alone.
LEMMA DiskFrame ==
    ASSUME NEW d, DiskInv(d), probe' = probe, rows'[d] = rows[d], stage'[d] = stage[d],
           freezes'[d] = freezes[d], since'[d] = since[d], clobbered'[d] = clobbered[d]
    PROVE  DiskInv(d)'
BY Zenon DEF DiskInv, Busy, Holding

\* No disk has been seen.
LEMMA FreezeInitInv == FreezeInit => FreezeInv
<1> SUFFICES ASSUME FreezeInit PROVE FreezeInv
  BY Zenon
<1>1. FreezeType
  BY Zenon DEF FreezeInit, FreezeType, NoRow, NoProbe
<1>2. \A d \in Devs : Busy(d) = {}
  BY Zenon DEF FreezeInit, Busy, NoProbe
<1> QED
  BY Zenon, <1>1, <1>2, FS_EmptySet DEF FreezeInv, DiskInv, FreezeInit

\* The steps of a disk's life.
LEMMA LifeInv ==
    ASSUME FreezeInv, NEW d \in Devs, Publish(d) \/ Register(d) \/ Remove(d) \/ Gone(d)
    PROVE  FreezeInv'
<1>1. FreezeType /\ probe' = probe /\ Busy(d)' = Busy(d) /\ DiskInv(d)
  BY Zenon DEF FreezeInv, Publish, Register, Remove, Gone, Busy
<1>2. IsFiniteSet(Busy(d)) /\ Cardinality(Busy(d)) \in Nat /\ Cardinality({}) = 0
  BY Zenon, <1>1, HoldingCount, FS_EmptySet DEF DiskInv
<1>3. FreezeType'
  <2> DEFINE r0 == [elem |-> 0, count |-> 0]
             r1 == [elem |-> elems + 1, count |-> 0]
  <2>1. /\ r0 \in [elem : Nat, count : Nat] /\ r1 \in [elem : Nat, count : Nat]
        /\ elems' \in Nat /\ scrape' = scrape
    BY <1>1 DEF FreezeType, Publish, Register, Remove, Gone, ghosts
  <2>2. rows' \in {rows, [rows EXCEPT ![d] = r0], [rows EXCEPT ![d] = r1]}
    BY Zenon DEF Publish, Register, Remove, Gone, NoRow, ZeroedRow
  <2> HIDE DEF r0, r1
  <2>3. rows' \in [Devs -> [elem : Nat, count : Nat]]
    BY Zenon, <1>1, <2>1, <2>2 DEF FreezeType
  <2>4. stage' \in [Devs -> {"absent", "published", "registered", "removing"}]
    <3>1. \E v \in {"absent", "published", "registered", "removing"} : stage' = [stage EXCEPT ![d] = v]
      BY Zenon DEF Publish, Register, Remove, Gone
    <3> QED
      BY Zenon, <1>1, <3>1 DEF FreezeType
  <2>5. freezes' \in [Devs -> Nat] /\ since' \in [Devs -> Nat]
    BY <1>1 DEF FreezeType, Publish, Register, Remove, Gone, ghosts
  <2>6. clobbered' \in [Devs -> BOOLEAN]
    BY Zenon, <1>1 DEF FreezeType, Publish, Register, Remove, Gone, ghosts
  <2> QED
    BY Zenon, <1>1, <2>1, <2>3, <2>4, <2>5, <2>6 DEF FreezeType
<1>4. \A e \in Devs \ {d} : /\ rows'[e] = rows[e] /\ stage'[e] = stage[e] /\ freezes'[e] = freezes[e]
                            /\ since'[e] = since[e] /\ clobbered'[e] = clobbered[e]
  BY <1>1 DEF FreezeType, Publish, Register, Remove, Gone, ghosts
<1>5. \A e \in Devs \ {d} : DiskInv(e)'
  BY Zenon, <1>1, <1>4, DiskFrame DEF FreezeInv
<1>6. DiskInv(d)'
  <2>1. CASE Publish(d)
    <3>1. stage'[d] = "published" /\ freezes'[d] = 0 /\ Busy(d) = {}
      BY Zenon, <1>1, <2>1 DEF FreezeType, Publish, DiskInv
    <3>2. Cardinality(Busy(d)') <= freezes'[d]
      BY <1>1, <1>2, <3>1
    <3> QED
      BY Zenon, <1>1, <1>2, <3>1, <3>2 DEF DiskInv
  <2>2. CASE Register(d)
    <3>1. /\ stage[d] = "published" /\ stage'[d] = "registered" /\ since'[d] = 0
          /\ rows'[d].count = 0 /\ rows'[d].elem # 0 /\ freezes'[d] = freezes[d]
      BY <1>1, <2>2 DEF FreezeType, Register, ZeroedRow
    <3>2. IsFiniteSet(Busy(d)')
      BY Zenon, <1>1, <1>2
    <3>3. Holding(d)' \subseteq Busy(d)'
      BY Zenon DEF Holding
    <3>4. Cardinality(Holding(d)') \in Nat
      BY Zenon, <3>2, <3>3, FS_Subset, FS_CardinalityType
    <3>5. Cardinality(Busy(d)') <= freezes[d]
      BY Zenon, <1>1, <3>1 DEF DiskInv
    <3> QED
      BY <1>1, <1>2, <3>1, <3>2, <3>4, <3>5 DEF DiskInv
  <2>3. CASE Remove(d)
    <3>1. stage[d] # "absent" /\ stage'[d] = "removing" /\ freezes'[d] = freezes[d]
      BY Zenon, <1>1, <2>3 DEF FreezeType, Remove, ghosts
    <3> QED
      BY Zenon, <1>1, <3>1 DEF DiskInv
  <2>4. CASE Gone(d)
    <3>1. stage'[d] = "absent" /\ Busy(d) = {}
      BY Zenon, <1>1, <2>4 DEF FreezeType, Gone, Busy
    <3> QED
      BY Zenon, <1>1, <1>2, <3>1 DEF DiskInv
  <2> QED
    BY Zenon, <2>1, <2>2, <2>3, <2>4
<1> QED
  BY Zenon, <1>3, <1>5, <1>6 DEF FreezeInv

\* The steps of a freeze probe.
LEMMA FreezeBeginsInv ==
    ASSUME FreezeInv, NEW c \in CPUs, NEW d \in Devs, FreezeBegins(c, d)
    PROVE  FreezeInv'
<1>0. PICK p : p = [at |-> IF rows[d].elem = 0 THEN "insert" ELSE "add", dev |-> d, elem |-> rows[d].elem]
  BY Zenon
<1>1. /\ FreezeType /\ probe' = [probe EXCEPT ![c] = p] /\ probe[c].at = "idle" /\ stage[d] # "absent"
      /\ UNCHANGED <<stage, rows, elems, clobbered, scrape>>
      /\ freezes' = [freezes EXCEPT ![d] = @ + 1] /\ since' = [since EXCEPT ![d] = @ + 1]
  BY Zenon, <1>0 DEF FreezeInv, FreezeBegins
<1>2. p.at # "idle" /\ p.dev = d /\ p.elem = rows[d].elem
      /\ p \in [at : {"idle", "insert", "relookup", "add"}, dev : Devs \cup {AnyDev}, elem : Nat]
  BY Zenon, <1>0, <1>1 DEF FreezeType
<1>3. probe'[c] = p /\ \A e \in CPUs \ {c} : probe'[e] = probe[e]
  BY Zenon, <1>1 DEF FreezeType
<1>4. FreezeType'
  <2>1. probe' \in [CPUs -> [at : {"idle", "insert", "relookup", "add"}, dev : Devs \cup {AnyDev}, elem : Nat]]
    BY Zenon, <1>1, <1>2 DEF FreezeType
  <2>2. \A e \in CPUs : probe'[e].at # "idle" => probe'[e].dev \in Devs
    BY Zenon, <1>1, <1>2, <1>3 DEF FreezeType
  <2>3. freezes' \in [Devs -> Nat] /\ since' \in [Devs -> Nat]
    BY <1>1 DEF FreezeType
  <2> QED
    BY Zenon, <1>1, <2>1, <2>2, <2>3 DEF FreezeType
<1>5. ASSUME NEW e \in Devs PROVE DiskInv(e)'
  <2>1. /\ Busy(e)' = IF d = e THEN Busy(e) \cup {c} ELSE Busy(e) \ {c}
        /\ Holding(e)' = IF d = e THEN Holding(e) \cup {c} ELSE Holding(e) \ {c}
        /\ c \notin Busy(e) /\ c \notin Holding(e)
    <3>1. c \notin Busy(e) /\ c \notin Holding(e) /\ rows'[e].elem = rows[e].elem
      BY Zenon, <1>1, ProbeStep
    <3>2. CASE d = e
      <4>1. Busy(e)' = Busy(e) \cup {c} /\ Holding(e)' = Holding(e) \cup {c}
        <5>1. p.at # "idle" /\ p.dev = e /\ p.elem = rows[e].elem
          BY Zenon, <1>2, <3>2
        <5> QED
          BY ZenonT(30), <1>1, <3>1, <5>1, ProbeStep
      <4> QED
        BY Zenon, <3>1, <3>2, <4>1
    <3>3. CASE d # e
      <4>1. Busy(e)' = Busy(e) \ {c} /\ Holding(e)' = Holding(e) \ {c}
        <5>1. p.dev # e
          BY Zenon, <1>2, <3>3
        <5> QED
          BY ZenonT(30), <1>1, <3>1, <5>1, ProbeStep
      <4> QED
        BY Zenon, <3>1, <3>3, <4>1
    <3> QED
      BY Zenon, <3>2, <3>3
  <2>2. DiskInv(e) /\ IsFiniteSet(Busy(e)) /\ IsFiniteSet(Holding(e))
    BY Zenon, HoldingCount DEF FreezeInv, DiskInv
  <2>3. CASE d = e
    <3>1. /\ IsFiniteSet(Busy(e)') /\ Cardinality(Busy(e)') = Cardinality(Busy(e)) + 1
          /\ Cardinality(Holding(e)') = Cardinality(Holding(e)) + 1
          /\ Cardinality(Busy(e)) \in Nat /\ Cardinality(Holding(e)) \in Nat
      BY Zenon, <2>1, <2>2, <2>3, OneProbe
    <3>2. /\ freezes'[e] = freezes[e] + 1 /\ since'[e] = since[e] + 1 /\ stage[e] # "absent"
          /\ freezes[e] \in Nat /\ since[e] \in Nat /\ rows[e].count \in Nat
      BY Zenon, <1>1, <2>3 DEF FreezeType
    <3>3. /\ stage[e] # "absent" => Cardinality(Busy(e)) <= freezes[e]
          /\ stage[e] = "registered" => rows[e].count + Cardinality(Busy(e)) <= freezes[e]
          /\ stage[e] = "registered" /\ ~clobbered[e] =>
                rows[e].elem # 0 /\ since[e] <= rows[e].count + Cardinality(Holding(e))
      BY Zenon, <2>2 DEF DiskInv
    <3>4. /\ Cardinality(Busy(e)') <= freezes'[e]
          /\ stage[e] = "registered" => rows[e].count + Cardinality(Busy(e)') <= freezes'[e]
      BY Zenon, <3>1, <3>2, <3>3, Counting
    <3>5. stage[e] = "registered" /\ ~clobbered[e] =>
             rows[e].elem # 0 /\ since'[e] <= rows[e].count + Cardinality(Holding(e)')
      <4>1. Cardinality(Holding(e)') \in Nat
        BY <3>1
      <4>2. ASSUME stage[e] = "registered", ~clobbered[e]
            PROVE  since[e] + 1 <= rows[e].count + Cardinality(Holding(e)')
        <5>1. since[e] <= rows[e].count + Cardinality(Holding(e))
          BY Zenon, <3>3, <4>2
        <5> QED
          BY ZenonT(30), <3>1, <3>2, <4>1, <5>1, Reaching
      <4> QED
        BY Zenon, <3>2, <3>3, <4>2
    <3> QED
      BY Zenon, <1>1, <3>1, <3>2, <3>4, <3>5 DEF DiskInv
  <2>4. CASE d # e
    <3>1. /\ Busy(e)' = Busy(e) /\ Holding(e)' = Holding(e)
          /\ freezes'[e] = freezes[e] /\ since'[e] = since[e]
      BY <1>1, <2>1, <2>4 DEF FreezeType
    <3> QED
      BY Zenon, <1>1, <2>2, <3>1 DEF DiskInv
  <2> QED
    BY Zenon, <2>3, <2>4
<1> QED
  BY Zenon, <1>4, <1>5 DEF FreezeInv

\* The ways in which the probe on CPU c goes on as p, after a step on the row of
\* disk d: it goes on, with the row it now finds; its element was replaced; it has
\* counted; it has inserted the row; or there is no row.
Accounted(c, d, p) ==
    \/ rows'[d] = rows[d] /\ p.at # "idle" /\ p.elem \in {probe[c].elem, rows[d].elem}
    \/ rows'[d] = rows[d] /\ p.at = "idle" /\ probe[c].elem # rows[d].elem
    \/ /\ rows'[d].elem = rows[d].elem /\ rows'[d].count = rows[d].count + 1
       /\ p.at = "idle"
    \/ rows[d].elem = 0 /\ rows'[d].count = 1 /\ p.at = "idle"
    \/ rows'[d] = rows[d] /\ rows[d].elem = 0

\* A step of a running probe that leaves the disk's row alone, or counts, or
\* loses the freeze with an element that was replaced.
LEMMA RunningInv ==
    ASSUME FreezeInv, NEW c \in CPUs, probe[c].at # "idle",
           NEW p \in [at : {"idle", "insert", "relookup", "add"}, dev : Devs \cup {AnyDev}, elem : Nat],
           p.at # "idle" => p.dev = probe[c].dev, probe' = [probe EXCEPT ![c] = p],
           UNCHANGED <<stage, freezes, since, clobbered, scrape>>, elems' \in Nat,
           NEW d, d = probe[c].dev,
           \A e \in Devs \ {d} : rows'[e] = rows[e],
           rows' \in [Devs -> [elem : Nat, count : Nat]],
           Accounted(c, d, p)
    PROVE  FreezeInv'
<1>1. FreezeType /\ d \in Devs
  BY Zenon DEF FreezeInv, FreezeType
<1>2. probe'[c] = p /\ \A e \in CPUs \ {c} : probe'[e] = probe[e]
  BY Zenon, <1>1 DEF FreezeType
<1>3. FreezeType'
  <2>1. probe' \in [CPUs -> [at : {"idle", "insert", "relookup", "add"}, dev : Devs \cup {AnyDev}, elem : Nat]]
    BY Zenon, <1>1 DEF FreezeType
  <2>2. \A e \in CPUs : probe'[e].at # "idle" => probe'[e].dev \in Devs
    BY <1>1, <1>2 DEF FreezeType
  <2> QED
    BY Zenon, <1>1, <2>1, <2>2 DEF FreezeType
<1>4. ASSUME NEW e \in Devs \ {d} PROVE DiskInv(e)'
  <2>1. /\ Busy(e)' = Busy(e) \ {c} /\ c \notin Busy(e)
        /\ Holding(e)' = Holding(e) \ {c} /\ c \notin Holding(e)
    <3>1. p.at = "idle" \/ p.dev # e
      BY Zenon, <1>4
    <3>2. probe[c].dev # e /\ rows'[e].elem = rows[e].elem
      BY Zenon, <1>4
    <3> QED
      BY ZenonT(30), <1>1, <3>1, <3>2, ProbeStep
  <2>2. Busy(e)' = Busy(e) /\ Holding(e)' = Holding(e) /\ DiskInv(e) /\ rows'[e] = rows[e]
    BY <1>4, <2>1 DEF FreezeInv
  <2> QED
    BY Zenon, <2>2 DEF DiskInv
<1>5. DiskInv(d)'
  <2>1. DiskInv(d) /\ IsFiniteSet(Busy(d)) /\ IsFiniteSet(Holding(d)) /\ c \in Busy(d)
    BY Zenon, <1>1, HoldingCount DEF FreezeInv, DiskInv, Busy
  <2>2. /\ p.at # "idle" => Busy(d)' = Busy(d) \cup {c}
        /\ p.at = "idle" => Busy(d)' = Busy(d) \ {c}
    BY Zenon, <1>1, ProbeStep
  <2>3. /\ IsFiniteSet(Busy(d)') /\ Cardinality(Busy(d)) \in Nat
        /\ p.at # "idle" => Cardinality(Busy(d)') = Cardinality(Busy(d))
        /\ p.at = "idle" => Cardinality(Busy(d)') = Cardinality(Busy(d)) - 1
    <3>1. CASE p.at # "idle"
      <4>1. Busy(d)' = Busy(d)
        BY Zenon, <2>1, <2>2, <3>1
      <4> QED
        BY Zenon, <2>1, <3>1, <4>1, OneProbe
    <3>2. CASE p.at = "idle"
      <4>1. Busy(d)' = Busy(d) \ {c}
        BY Zenon, <2>2, <3>2
      <4> QED
        BY <2>1, <3>2, <4>1, OneProbe
    <3> QED
      BY Zenon, <3>1, <3>2
  <2>4. /\ rows[d].count \in Nat /\ rows'[d].count \in Nat /\ freezes[d] \in Nat /\ since[d] \in Nat
        /\ stage[d] # "absent"
    <3>1. Busy(d) # {}
      BY Zenon, <2>1
    <3> QED
      BY Zenon, <1>1, <2>1, <3>1 DEF FreezeType, DiskInv
  <2>5. ASSUME stage[d] = "registered", ~clobbered[d]
        PROVE  rows'[d].elem # 0 /\ since[d] <= rows'[d].count + Cardinality(Holding(d)')
    <3>1. rows[d].elem # 0 /\ since[d] <= rows[d].count + Cardinality(Holding(d))
      BY Zenon, <2>1, <2>5 DEF DiskInv
    <3>2. rows'[d].elem = rows[d].elem
      BY Zenon, <3>1 DEF Accounted
    <3>3. /\ Holding(d)' = Holding(d) \cup {c} \/ Holding(d)' = Holding(d) \ {c}
          /\ p.at # "idle" /\ p.elem = rows[d].elem => Holding(d)' = Holding(d) \cup {c}
      BY Zenon, <1>1, <3>2, ProbeStep
    <3>4. /\ Cardinality(Holding(d)) \in Nat
          /\ c \notin Holding(d) \/ Holding(d)' = Holding(d) \cup {c}
                => Cardinality(Holding(d)') >= Cardinality(Holding(d))
          /\ Cardinality(Holding(d)') >= Cardinality(Holding(d)) - 1
          /\ Cardinality(Holding(d)') \in Nat
      <4>1. CASE Holding(d)' = Holding(d) \cup {c}
        <5>1. /\ Cardinality(Holding(d)) \in Nat /\ Cardinality(Holding(d) \cup {c}) \in Nat
              /\ Cardinality(Holding(d) \cup {c}) >= Cardinality(Holding(d))
          BY Zenon, <2>1, OneProbe
        <5> QED
          BY <4>1, <5>1
      <4>2. CASE Holding(d)' = Holding(d) \ {c}
        <5>1. /\ Cardinality(Holding(d)) \in Nat /\ Cardinality(Holding(d) \ {c}) \in Nat
              /\ c \in Holding(d) => Cardinality(Holding(d) \ {c}) = Cardinality(Holding(d)) - 1
          BY Zenon, <2>1, OneProbe
        <5>2. c \notin Holding(d) => Holding(d) \ {c} = Holding(d)
          BY Zenon
        <5>3. Holding(d)' # Holding(d) \cup {c}
          BY Zenon, <4>2
        <5>4. /\ Cardinality(Holding(d)') \in Nat
              /\ c \in Holding(d) => Cardinality(Holding(d)') = Cardinality(Holding(d)) - 1
              /\ c \notin Holding(d) => Cardinality(Holding(d)') = Cardinality(Holding(d))
          BY Zenon, <4>2, <5>1, <5>2
        <5> QED
          BY <5>1, <5>3, <5>4
      <4> QED
        BY Zenon, <3>3, <4>1, <4>2
    <3>5. probe[c].elem # rows[d].elem => c \notin Holding(d)
      BY Zenon DEF Holding
    <3>6. \/ /\ rows'[d].count = rows[d].count
             /\ Cardinality(Holding(d)') >= Cardinality(Holding(d))
          \/ /\ rows'[d].count = rows[d].count + 1
             /\ Cardinality(Holding(d)') >= Cardinality(Holding(d)) - 1
      BY Zenon, <3>1, <3>3, <3>4, <3>5 DEF Accounted
    <3>7. since[d] <= rows'[d].count + Cardinality(Holding(d)')
      BY Zenon, <2>4, <3>1, <3>4, <3>6, Reaching
    <3> QED
      BY Zenon, <3>1, <3>2, <3>7
  <2>8. /\ Cardinality(Busy(d)) <= freezes[d]
        /\ stage[d] = "registered" => rows[d].count + Cardinality(Busy(d)) <= freezes[d]
    BY Zenon, <2>1, <2>4 DEF DiskInv
  <2>9. LET b == Cardinality(Busy(d))
            f == freezes[d]
            r == rows[d].count
        IN  /\ b <= f => b + 1 <= f + 1 /\ b - 1 <= f /\ 1 + (b - 1) <= f
            /\ r + b <= f => r + (b + 1) <= f + 1 /\ r + (b - 1) <= f /\ (r + 1) + (b - 1) <= f
    BY Zenon, <2>3, <2>4, Counting
  <2>6. Cardinality(Busy(d)') <= freezes[d]
    BY Zenon, <2>3, <2>8, <2>9
  <2>7. stage[d] = "registered" => rows'[d].count + Cardinality(Busy(d)') <= freezes[d]
    <3>1. \/ rows'[d].count = rows[d].count
          \/ p.at = "idle" /\ rows'[d].count \in {1, rows[d].count + 1}
      BY Zenon DEF Accounted
    <3> QED
      BY Zenon, <2>3, <2>8, <2>9, <3>1
  <2> QED
    BY Zenon, <2>3, <2>4, <2>5, <2>6, <2>7 DEF DiskInv
<1> QED
  BY Zenon, <1>3, <1>4, <1>5 DEF FreezeInv

\* What FreezeInserts, FreezeLooksAgain and FreezeAdds do.
LEMMA ProbeInv ==
    ASSUME FreezeInv, NEW c \in CPUs, FreezeInserts(c) \/ FreezeLooksAgain(c) \/ FreezeAdds(c)
    PROVE  FreezeInv'
<1>0. PICK d : d = probe[c].dev
  BY Zenon
<1> DEFINE r1 == [elem |-> elems + 1, count |-> 1]
           Probes == [at : {"idle", "insert", "relookup", "add"}, dev : Devs \cup {AnyDev}, elem : Nat]
<1>1. /\ FreezeType /\ probe[c].at # "idle" /\ d \in Devs /\ probe[c] \in Probes
      /\ UNCHANGED <<stage, freezes, since, clobbered, scrape>>
  BY Zenon, <1>0 DEF FreezeInv, FreezeType, FreezeInserts, FreezeLooksAgain, FreezeAdds, ghosts
<1>2. /\ rows \in [Devs -> [elem : Nat, count : Nat]] /\ elems \in Nat
      /\ r1 \in [elem : Nat, count : Nat] /\ r1.count = 1
  BY <1>1 DEF FreezeType
<1>3. /\ NoProbe(AnyDev) \in Probes /\ NoProbe(AnyDev).at = "idle"
  BY Zenon DEF NoProbe
<1>4. CASE FreezeInserts(c) /\ rows[d].elem = 0
  <2>1. rows' = [rows EXCEPT ![d] = r1] /\ elems' = elems + 1 /\ probe' = [probe EXCEPT ![c] = NoProbe(AnyDev)]
    BY Zenon, <1>0, <1>4 DEF FreezeInserts, MayInsert
  <2> HIDE DEF r1
  <2>2. /\ rows' \in [Devs -> [elem : Nat, count : Nat]] /\ rows'[d] = r1 /\ elems' \in Nat
        /\ \A e \in Devs \ {d} : rows'[e] = rows[e]
    BY <1>1, <1>2, <2>1
  <2> QED
    <3>1. Accounted(c, d, NoProbe(AnyDev)) /\ elems' \in Nat
      BY Zenon, <1>2, <1>3, <1>4, <2>1, <2>2 DEF Accounted
    <3> QED
      BY Zenon, <1>0, <1>1, <1>3, <2>1, <2>2, <3>1, RunningInv
<1>5. CASE FreezeInserts(c) /\ rows[d].elem # 0
  <2>1. probe' = [probe EXCEPT ![c].at = "relookup"] /\ UNCHANGED <<rows, elems>>
    BY Zenon, <1>0, <1>5 DEF FreezeInserts, MayInsert
  <2>2. PICK w : w = [probe[c] EXCEPT !.at = "relookup"]
    BY Zenon
  <2>3. w \in Probes /\ w.at = "relookup" /\ w.dev = d /\ probe' = [probe EXCEPT ![c] = w]
    BY Zenon, <1>0, <1>1, <2>1, <2>2 DEF FreezeType
  <2>4. /\ Accounted(c, d, w) /\ elems' \in Nat /\ rows' \in [Devs -> [elem : Nat, count : Nat]]
        /\ \A e \in Devs \ {d} : rows'[e] = rows[e]
    BY Zenon, <1>1, <1>2, <2>1, <2>2, <2>3 DEF Accounted
  <2> QED
    BY Zenon, <1>0, <1>1, <2>3, <2>4, RunningInv
<1>6. CASE FreezeLooksAgain(c)
  <2>1. UNCHANGED <<rows, elems>>
    BY Zenon, <1>0, <1>6 DEF FreezeLooksAgain
  <2>2. CASE rows[d].elem = 0
    <3>1. probe' = [probe EXCEPT ![c] = NoProbe(AnyDev)]
      BY Zenon, <1>0, <1>6, <2>2 DEF FreezeLooksAgain
    <3> QED
      <4>1. /\ Accounted(c, d, NoProbe(AnyDev)) /\ elems' \in Nat
            /\ rows' \in [Devs -> [elem : Nat, count : Nat]] /\ \A e \in Devs \ {d} : rows'[e] = rows[e]
        BY Zenon, <1>2, <1>3, <2>1, <2>2 DEF Accounted
      <4> QED
        BY Zenon, <1>0, <1>1, <1>3, <3>1, <4>1, RunningInv
  <2>3. CASE rows[d].elem # 0
    <3>1. PICK w : w = [probe[c] EXCEPT !.at = "add", !.elem = rows[d].elem]
      BY Zenon
    <3>2. probe' = [probe EXCEPT ![c] = w]
      BY Zenon, <1>0, <1>1, <1>6, <2>3, <3>1 DEF FreezeLooksAgain, FreezeType
    <3>3. w \in Probes /\ w.at = "add" /\ w.dev = d /\ w.elem = rows[d].elem
      BY Zenon, <1>0, <1>1, <1>2, <3>1
    <3> QED
      <4>1. /\ Accounted(c, d, w) /\ elems' \in Nat /\ rows' \in [Devs -> [elem : Nat, count : Nat]]
            /\ \A e \in Devs \ {d} : rows'[e] = rows[e]
        BY Zenon, <1>2, <2>1, <3>3 DEF Accounted
      <4> QED
        BY Zenon, <1>0, <1>1, <3>2, <3>3, <4>1, RunningInv
  <2> QED
    BY Zenon, <2>2, <2>3
<1>7. CASE FreezeAdds(c)
  <2>1. /\ rows' = [rows EXCEPT ![d].count = IF rows[d].elem = probe[c].elem THEN @ + 1 ELSE @]
        /\ elems' = elems /\ probe' = [probe EXCEPT ![c] = NoProbe(AnyDev)]
    BY Zenon, <1>0, <1>7 DEF FreezeAdds
  <2>2. /\ rows' \in [Devs -> [elem : Nat, count : Nat]] /\ \A e \in Devs \ {d} : rows'[e] = rows[e]
        /\ rows'[d].elem = rows[d].elem
        /\ rows[d].elem = probe[c].elem => rows'[d].count = rows[d].count + 1
        /\ rows[d].elem # probe[c].elem => rows'[d] = rows[d]
    BY <1>1, <1>2, <2>1
  <2>3. PICK p : p = NoProbe(AnyDev)
    BY Zenon
  <2>4. /\ p \in Probes /\ p.at = "idle" /\ probe' = [probe EXCEPT ![c] = p]
        /\ p.at # "idle" => p.dev = probe[c].dev
        /\ elems' \in Nat
    BY Zenon, <1>2, <1>3, <2>1, <2>3
  <2>5. CASE rows[d].elem = probe[c].elem
    <3>1. rows'[d].elem = rows[d].elem /\ rows'[d].count = rows[d].count + 1 /\ p.at = "idle"
      BY Zenon, <2>2, <2>4, <2>5
    <3>2. Accounted(c, d, p)
      BY Zenon, <3>1 DEF Accounted
    <3> QED
      BY Zenon, <1>0, <1>1, <2>2, <2>4, <3>2, RunningInv
  <2>6. CASE rows[d].elem # probe[c].elem
    <3>1. rows'[d] = rows[d] /\ p.at = "idle" /\ probe[c].elem # rows[d].elem
      BY Zenon, <2>2, <2>4, <2>6
    <3>2. Accounted(c, d, p)
      BY Zenon, <3>1 DEF Accounted
    <3> QED
      BY Zenon, <1>0, <1>1, <2>2, <2>4, <3>2, RunningInv
  <2> QED
    BY Zenon, <2>5, <2>6
<1> QED
  BY Zenon, <1>4, <1>5, <1>6, <1>7

\* The steps of a scrape.
LEMMA ScrapeInv ==
    ASSUME FreezeInv, (\E d \in Devs : ScrapeRow(d)) \/ ScrapeResolves \/ ScrapeDeletes
    PROVE  FreezeInv'
<1>1. FreezeType /\ UNCHANGED <<stage, elems, probe, freezes, since>>
  BY Zenon DEF FreezeInv, ScrapeRow, ScrapeResolves, ScrapeDeletes, ghosts
<1>2. CASE UNCHANGED <<rows, clobbered>>
  <2>1. scrape' \in [at : {"idle", "resolve", "delete"}, dev : Devs \cup {AnyDev}]
    BY <1>1 DEF FreezeType, ScrapeRow, ScrapeResolves, ScrapeDeletes
  <2>2. FreezeType'
    BY Zenon, <1>1, <1>2, <2>1 DEF FreezeType
  <2>3. \A d \in Devs : DiskInv(d)'
    BY Zenon, <1>1, <1>2, DiskFrame DEF FreezeInv
  <2> QED
    BY Zenon, <2>2, <2>3 DEF FreezeInv
<1>3. CASE ScrapeDeletes
  <2>0. PICK d : d = scrape.dev
    BY Zenon
  <2>1. /\ rows' = [rows EXCEPT ![d] = NoRow] /\ scrape' = [scrape EXCEPT !.at = "idle"]
        /\ clobbered' = [clobbered EXCEPT ![d] = stage[d] # "absent"]
    BY Zenon, <1>3, <2>0 DEF ScrapeDeletes
  <2>2. scrape' \in [at : {"idle", "resolve", "delete"}, dev : Devs \cup {AnyDev}]
    BY Zenon, <1>1, <2>1 DEF FreezeType
  <2>3. rows' \in [Devs -> [elem : Nat, count : Nat]] /\ \A e \in Devs \ {d} : rows'[e] = rows[e]
    BY Zenon, <1>1, <2>1 DEF FreezeType, NoRow
  <2>4. clobbered' \in [Devs -> BOOLEAN] /\ \A e \in Devs \ {d} : clobbered'[e] = clobbered[e]
    BY Zenon, <1>1, <2>1 DEF FreezeType
  <2>5. FreezeType'
    BY Zenon, <1>1, <2>2, <2>3, <2>4 DEF FreezeType
  <2>6. \A e \in Devs \ {d} : DiskInv(e)'
    BY Zenon, <1>1, <2>3, <2>4, DiskFrame DEF FreezeInv
  <2>7. ASSUME d \in Devs PROVE DiskInv(d)'
    <3>1. rows'[d].count = 0 /\ (stage[d] # "absent" => clobbered'[d])
      BY Zenon, <1>1, <2>1, <2>7 DEF FreezeType, NoRow
    <3>2. DiskInv(d) /\ Busy(d)' = Busy(d) /\ Cardinality(Busy(d)) \in Nat
      BY Zenon, <1>1, <2>7, HoldingCount DEF FreezeInv, DiskInv, Busy
    <3> QED
      BY <1>1, <3>1, <3>2 DEF DiskInv
  <2> QED
    BY Zenon, <2>5, <2>6, <2>7 DEF FreezeInv
<1> QED
  BY Zenon, <1>2, <1>3 DEF ScrapeRow, ScrapeResolves, ghosts

\* Every step keeps the invariant.
THEOREM FreezeInvariance == FreezeSpec => []FreezeInv
<1>1. FreezeInit => FreezeInv
  BY Zenon, FreezeInitInv
<1>2. ASSUME FreezeInv, [FreezeNext]_freezeVars PROVE FreezeInv'
  <2>1. CASE UNCHANGED freezeVars
    <3>1. /\ UNCHANGED <<stage, rows, elems, probe, freezes, since, clobbered, scrape>>
          /\ \A d \in Devs : DiskInv(d)
      BY Zenon, <1>2, <2>1 DEF FreezeInv, freezeVars, ghosts
    <3>2. FreezeType' /\ \A d \in Devs : DiskInv(d)'
      BY Zenon, <1>2, <3>1, DiskFrame DEF FreezeInv, FreezeType
    <3> QED
      BY Zenon, <3>2 DEF FreezeInv
  <2> QED
    BY Zenon, <1>2, <2>1, LifeInv, FreezeBeginsInv, ProbeInv, ScrapeInv DEF FreezeNext
<1> QED
  BY <1>1, <1>2, PTL DEF FreezeSpec

\* The counter of a registered disk, for any number of device numbers, disks,
\* CPUs and freezes: io_health_freeze_disk_added gives it a fresh element, so a
\* freeze of the former disk never reaches it, and io_health_freeze_queue loses
\* a freeze of its own only to freezeMetrics.
THEOREM FreezesTheorem == FreezeSpec => []FreezesExact
<1>1. FreezeInv => FreezesExact
  <2> SUFFICES ASSUME FreezeInv, NEW d \in Devs, stage[d] = "registered"
               PROVE  /\ rows[d].count <= freezes[d]
                      /\ ~clobbered[d] => rows[d].count + Cardinality(Busy(d)) >= since[d]
    BY Zenon DEF FreezesExact, Busy
  <2>1. DiskInv(d) /\ rows[d].count \in Nat /\ freezes[d] \in Nat /\ since[d] \in Nat
    BY Zenon DEF FreezeInv, FreezeType
  <2>2. /\ Cardinality(Busy(d)) \in Nat /\ Cardinality(Holding(d)) \in Nat
        /\ Cardinality(Holding(d)) <= Cardinality(Busy(d))
    BY Zenon, <2>1, HoldingCount DEF DiskInv
  <2> QED
    BY <2>1, <2>2 DEF DiskInv
<1> QED
  BY <1>1, FreezeInvariance, PTL

-----------------------------------------------------------------------------
(* Latency buckets.                                                        *)

\* The comparison without a branch in io_histogram_above is a comparison, for
\* every value of the machine word and every threshold below its high bit.
THEOREM HistogramAboveCompares ==
    ASSUME NEW value \in Words, NEW threshold \in 0..(Half - 1)
    PROVE  HistogramAbove(value, threshold) = IF value > threshold THEN 1 ELSE 0
BY BucketConstants DEF HistogramAbove, Minus, HighBit, Words, Word

\* The bucket of an interval lies below the index of a threshold exactly when
\* the interval is not longer than that threshold: the sum of comparisons in
\* io_latency_bucket finds the place of the interval among the thresholds.
THEOREM BucketIsPlace ==
    ASSUME NEW ns \in Words, NEW le \in 1..N
    PROVE  /\ Bucket(ns) \in Nat
           /\ Bucket(ns) < le <=> ns <= Thresholds[le]
<1> USE BucketConstants
<1>1. \A k \in 2..N : HistogramAbove(ns, Thresholds[k]) = 1 <=> ns > Thresholds[k]
  <2> SUFFICES ASSUME NEW k \in 2..N
               PROVE  HistogramAbove(ns, Thresholds[k]) = 1 <=> ns > Thresholds[k]
    OBVIOUS
  <2>1. Thresholds[k] \in 0..(Half - 1)
    OBVIOUS
  <2> QED BY <2>1, HistogramAboveCompares
<1>2. IsFiniteSet(Above(ns)) /\ Cardinality(Above(ns)) \in Nat
  <2>1. IsFiniteSet(2..N)
    BY FS_Interval
  <2>2. Above(ns) \subseteq 2..N
    BY DEF Above
  <2> QED BY <2>1, <2>2, FS_Subset, FS_CardinalityType
<1>3. CASE ns <= Thresholds[1]
  <2>1. Thresholds[1] <= Thresholds[le]
    BY SMT
  <2> QED BY <1>3, <2>1 DEF Bucket, Words
<1>4. CASE ns > Thresholds[1] /\ ns <= Thresholds[le]
  <2>1. le \in 2..N
    BY <1>4 DEF Words, Word
  <2>2. Above(ns) \subseteq 2..(le - 1)
    <3> SUFFICES ASSUME NEW k \in 2..N, ns > Thresholds[k], ~(k <= le - 1)
                 PROVE  FALSE
      BY <1>1 DEF Above
    <3>1. k = le \/ le < k
      OBVIOUS
    <3>2. Thresholds[le] <= Thresholds[k]
      BY <3>1, <2>1, SMT
    <3> QED BY <3>2, <1>4, <2>1, SMT DEF Words, Word
  <2>3. IsFiniteSet(2..(le - 1)) /\ Cardinality(2..(le - 1)) = le - 2
    <3>1. /\ IsFiniteSet(2..(le - 1))
          /\ Cardinality(2..(le - 1)) = IF 2 > le - 1 THEN 0 ELSE (le - 1) - 2 + 1
      <4> HIDE BucketConstants
      <4>1. 2 \in Int /\ le - 1 \in Int
        BY <2>1
      <4> QED BY <4>1, FS_Interval, Zenon
    <3> QED BY <2>1, <3>1
  <2>4. Cardinality(Above(ns)) <= le - 2
    BY <2>2, <2>3, FS_Subset
  <2>5. Bucket(ns) = 1 + Cardinality(Above(ns))
    BY <1>4 DEF Bucket, Words, Word
  <2> QED BY <1>2, <1>4, <2>1, <2>4, <2>5
<1>5. CASE ns > Thresholds[1] /\ ns > Thresholds[le]
  <2>1. 2..le \subseteq Above(ns)
    <3> SUFFICES ASSUME NEW k \in 2..N, k <= le
                 PROVE  ns > Thresholds[k]
      BY <1>1 DEF Above
    <3>1. Thresholds[k] <= Thresholds[le]
      BY SMT
    <3> QED BY <3>1, <1>5, SMT DEF Words, Word
  <2>2. IsFiniteSet(2..le) /\ Cardinality(2..le) = le - 1
    <3>1. /\ IsFiniteSet(2..le)
          /\ Cardinality(2..le) = IF 2 > le THEN 0 ELSE le - 2 + 1
      <4> HIDE BucketConstants
      <4>1. 2 \in Int /\ le \in Int
        OBVIOUS
      <4> QED BY <4>1, FS_Interval, Zenon
    <3> QED BY <3>1
  <2>3. le - 1 <= Cardinality(Above(ns))
    BY <1>2, <2>1, <2>2, FS_Subset
  <2>4. Bucket(ns) = 1 + Cardinality(Above(ns))
    BY <1>5 DEF Bucket, Words, Word
  <2> QED BY <1>2, <1>5, <2>3, <2>4 DEF Words, Word
<1>6. Thresholds[1] \in 0..(Half - 1) /\ Thresholds[le] \in 0..(Half - 1)
  OBVIOUS
<1> QED BY <1>3, <1>4, <1>5, <1>6 DEF Words, Word

\* A multiple of the range does not change a remainder.
LEMMA RemainderOfMultiple ==
    ASSUME NEW m \in Nat \ {0}, NEW a \in 0..(m - 1), NEW k \in Nat
    PROVE  (a + m * k) % m = a
OBVIOUS

\* A packed stamp is restored to the time at which the bio was queued, as long
\* as the bio is younger than the packed range, across any change of epoch.
THEOREM StampRestored ==
    ASSUME NEW t \in Nat, NEW q \in 1..t, t < Word, t - q < StampMod
    PROVE  UnpackedStamp(q % StampMod, t) = q
<1> DEFINE r == q % StampMod
           e == q \div StampMod
<1>1. StampMod \in Nat \ {0} /\ Word \in Nat
  BY ClockConstants, BucketConstants DEF Word
<1>2. e \in Nat /\ r \in 0..(StampMod - 1) /\ q = StampMod * e + r
  BY <1>1
<1>3. r <= q
  BY <1>1, <1>2
<1>4. Minus(t, r) = (t - q) + StampMod * e
  BY <1>1, <1>2, <1>3 DEF Minus
<1>5. Minus(t, r) % StampMod = t - q
  <2>1. t - q \in 0..(StampMod - 1)
    BY <1>1
  <2>2. (t - q + StampMod * e) % StampMod = t - q
    BY <1>1, <1>2, <2>1, RemainderOfMultiple, Zenon
  <2> QED BY <1>4, <2>2
<1> QED BY <1>5 DEF UnpackedStamp

-----------------------------------------------------------------------------
(* The buckets of a completed bio.                                         *)

\* Stamps lie in the past, and a sample is what the stamps measure.
BioInv ==
    /\ now \in 1..MaxTime /\ packed \in BOOLEAN
    /\ queued \in 0..now /\ got \in 0..now /\ issue \in 0..now
    /\ sample # NoSample
         => /\ queued # 0 /\ got # 0
            /\ \E skew \in 0..1 : sample = Measured(IssueStamp(skew))

\* BioInv holds in every state.
THEOREM BioInvariance == BioSpec => []BioInv
<1>1. BioInit => BioInv
  BY ClockConstants DEF BioInit, BioInv
<1>2. BioInv /\ [BioNext]_bioVars => BioInv'
  <2> SUFFICES ASSUME BioInv, [BioNext]_bioVars
               PROVE  BioInv'
    OBVIOUS
  <2>1. CASE Tick
    BY <2>1, ClockConstants DEF BioInv, Tick
  <2>2. CASE QueueBio
    BY <2>2 DEF BioInv, QueueBio
  <2>3. CASE GetRequest
    BY <2>3 DEF BioInv, GetRequest
  <2>4. CASE IssueRequest
    BY <2>4 DEF BioInv, IssueRequest
  <2>5. CASE CompleteBio
    BY Zenon, <2>5 DEF BioInv, CompleteBio, Measured, IssueStamp, Stamp
  <2>6. CASE UNCHANGED bioVars
    BY Zenon, <2>6 DEF BioInv, bioVars, Measured, IssueStamp, Stamp
  <2> QED BY <2>1, <2>2, <2>3, <2>4, <2>5, <2>6 DEF BioNext
<1> QED BY <1>1, <1>2, PTL DEF BioSpec

\* A bucket of the queue stages is in the cumulative bucket of a threshold
\* exactly when the stage was not longer.
LEMMA QueueStagePlace ==
    ASSUME NEW start \in 1..MaxTime, NEW end \in 1..(MaxTime + 1), NEW le \in 1..N
    PROVE  InCumulative(LatencyBucket(start, end, TRUE), le) <=> end - start <= Thresholds[le]
<1>1. Thresholds[le] \in 0..(Half - 1) /\ Word \in Nat /\ MaxTime < Word /\ MaxTime \in Nat
  BY BucketConstants, ClockConstants DEF Word
<1>2. CASE end < start
  BY <1>1, <1>2 DEF InCumulative, LatencyBucket, NoBucket
<1>3. CASE end >= start
  <2>1. end - start \in Words
    BY <1>1, <1>3 DEF Words
  <2>2. Bucket(end - start) \in Nat /\ (Bucket(end - start) < le <=> end - start <= Thresholds[le])
    BY <2>1, BucketIsPlace
  <2> QED BY <1>3, <2>2 DEF InCumulative, LatencyBucket, NoBucket
<1>4. end < start \/ end >= start
  BY <1>1
<1> QED BY <1>2, <1>3, <1>4, Zenon

\* The same of the device stage, where a reversed interval is no sample.
LEMMA DeviceStagePlace ==
    ASSUME NEW start \in 0..(MaxTime + 1), NEW end \in 1..MaxTime, NEW le \in 1..N
    PROVE  InCumulative(LatencyBucket(start, end, FALSE), le)
              <=> start # 0 /\ end - start \in 0..Thresholds[le]
<1>1. Thresholds[le] \in 0..(Half - 1) /\ Word \in Nat /\ MaxTime < Word /\ MaxTime \in Nat
  BY BucketConstants, ClockConstants DEF Word
<1>2. CASE start = 0 \/ end < start
  BY <1>1, <1>2 DEF InCumulative, LatencyBucket, NoBucket
<1>3. CASE start # 0 /\ end >= start
  <2>1. end - start \in Words
    BY <1>1, <1>3 DEF Words
  <2>2. Bucket(end - start) \in Nat /\ (Bucket(end - start) < le <=> end - start <= Thresholds[le])
    BY <2>1, BucketIsPlace
  <2> QED BY <1>1, <1>3, <2>2 DEF InCumulative, LatencyBucket, NoBucket
<1>4. (start = 0 \/ end < start) \/ (start # 0 /\ end >= start)
  BY <1>1
<1> QED BY <1>2, <1>3, <1>4, Zenon

\* An issue stamp behind the completion never counts as a fast request.
THEOREM DeviceTime == BioSpec => []DeviceTimeIsReal
<1>1. BioInv => DeviceTimeIsReal
  <2> SUFFICES ASSUME BioInv, sample # NoSample, NEW le \in 1..N
               PROVE  InCumulative(sample.d2c, le)
                        <=> sample.at # 0 /\ now - sample.at \in 0..Thresholds[le]
    BY DEF DeviceTimeIsReal
  <2>1. PICK skew \in 0..1 : sample = Measured(IssueStamp(skew))
    BY DEF BioInv
  <2>2. sample.at = IssueStamp(skew) /\ sample.d2c = LatencyBucket(IssueStamp(skew), now, FALSE)
    BY <2>1 DEF Measured
  <2>3. IssueStamp(skew) \in 0..(MaxTime + 1) /\ now \in 1..MaxTime
    BY ClockConstants, BucketConstants DEF BioInv, IssueStamp, Word
  <2> QED BY Zenon, <2>2, <2>3, DeviceStagePlace
<1> QED BY <1>1, BioInvariance, PTL

\* What the collector exports as the number of bios at or below a threshold is
\* that number, also where the kernel packed the queue time.
THEOREM Cumulative == BioSpec => []CumulativeCountsAtOrBelow
<1>1. BioInv => CumulativeCountsAtOrBelow
  <2> SUFFICES ASSUME BioInv, sample # NoSample, now - queued < StampMod, Stamp # 0, NEW le \in 1..N
               PROVE  /\ InCumulative(sample.q2g, le) <=> got - queued <= Thresholds[le]
                      /\ sample.at # 0 => (InCumulative(sample.q2d, le)
                                              <=> sample.at - queued <= Thresholds[le])
    BY DEF CumulativeCountsAtOrBelow
  <2>1. PICK skew \in 0..1 : sample = Measured(IssueStamp(skew))
    BY DEF BioInv
  <2>2. /\ now \in 1..MaxTime /\ queued \in 1..now /\ got \in 1..now
        /\ MaxTime \in Nat /\ Word \in Nat /\ MaxTime < Word
    BY ClockConstants, BucketConstants DEF BioInv, Word
  <2>3. QueueNs(packed, Stamp, now) = queued
    <3>1. CASE packed
      <4>1. UnpackedStamp(queued % StampMod, now) = queued
        BY <2>2, StampRestored
      <4> QED BY <3>1, <4>1 DEF QueueNs, Stamp
    <3>2. CASE ~packed
      BY <2>2, <3>2 DEF QueueNs, Stamp
    <3> QED BY <3>1, <3>2
  <2>4. /\ sample.q2g = LatencyBucket(queued, got, TRUE)
        /\ sample.q2d = LatencyBucket(queued, IssueStamp(skew), TRUE)
        /\ sample.at = IssueStamp(skew)
    BY <2>1, <2>3 DEF Measured
  <2>5. IssueStamp(skew) \in 0..(MaxTime + 1)
    BY <2>2 DEF BioInv, IssueStamp
  <2>6. InCumulative(sample.q2g, le) <=> got - queued <= Thresholds[le]
    <3>1. queued \in 1..MaxTime /\ got \in 1..(MaxTime + 1)
      BY <2>2
    <3>2. InCumulative(LatencyBucket(queued, got, TRUE), le) <=> got - queued <= Thresholds[le]
      BY Zenon, <3>1, QueueStagePlace
    <3> QED BY Zenon, <2>4, <3>2
  <2>7. ASSUME sample.at # 0
        PROVE  InCumulative(sample.q2d, le) <=> sample.at - queued <= Thresholds[le]
    <3>1. IssueStamp(skew) \in 1..(MaxTime + 1) /\ queued \in 1..MaxTime
      BY <2>2, <2>4, <2>5, <2>7
    <3>2. InCumulative(LatencyBucket(queued, IssueStamp(skew), TRUE), le)
             <=> IssueStamp(skew) - queued <= Thresholds[le]
      BY Zenon, <3>1, QueueStagePlace
    <3> QED BY Zenon, <2>4, <3>2
  <2> QED BY Zenon, <2>6, <2>7
<1> QED BY <1>1, BioInvariance, PTL

\* The buckets exported for a bio are right in all three intervals, for every
\* word size, packed range and list of thresholds.
THEOREM Buckets == BioSpec => []BucketsExact
<1>1. CumulativeCountsAtOrBelow /\ DeviceTimeIsReal => BucketsExact
  BY DEF BucketsExact
<1> QED BY <1>1, Cumulative, DeviceTime, PTL

-----------------------------------------------------------------------------
(* Packed slices.                                                          *)

\* Quotient and remainder, of naturals.
LEMMA DivMod ==
    ASSUME NEW a \in Nat, NEW w \in Nat \ {0}
    PROVE  /\ a \div w \in Nat /\ a % w \in 0..(w - 1)
           /\ (a \div w) * w + (a % w) = a
  <1>1. a \div w \in Int
    BY SMT
  <1>2. a \div w >= 0
    BY SMT
  <1>3. a % w \in 0..(w - 1)
    BY SMT
  <1>4. (a \div w) * w + (a % w) = a
    BY SMT
  <1> QED
    BY <1>1, <1>2, <1>3, <1>4

\* A quotient is bounded by the other factor of a bound of the dividend.
LEMMA DivBound ==
    ASSUME NEW a \in Nat, NEW w \in Nat \ {0}, NEW e \in Nat, a < w * e
    PROVE  a \div w < e
  <1> DEFINE q == a \div w
             r == a % w
  <1>1. q * w + r = a /\ q \in Nat /\ r \in Nat
    BY DivMod
  <1> HIDE DEF q, r
  <1>2. ASSUME q >= e PROVE FALSE
    <2>1. q * w >= w * e
      BY <1>1, <1>2, SMT
    <2> QED
      BY <2>1, <1>1, SMT
  <1>3. q < e
    BY <1>1, <1>2, SMT
  <1> QED
    BY <1>3 DEF q

\* The number of targets is a natural number.
LEMMA TargetsNat == MaxTargets \in Nat /\ WordBits * ExtraWords \in Nat
  BY Widths, SMT DEF MaxTargets

\* A target beyond the base word lies in an extra word, at a bit of it.
LEMMA ExtraPlace ==
    ASSUME NEW d \in Targets, ~(d < BaseBits)
    PROVE  /\ d - BaseBits \in Nat
           /\ 1 + ((d - BaseBits) \div WordBits) \in 1..ExtraWords
           /\ (d - BaseBits) % WordBits \in 0..(WordBits - 1)
  <1>1. d \in Nat /\ d < MaxTargets
    BY TargetsNat DEF Targets
  <1>2. d - BaseBits \in Nat /\ d - BaseBits < WordBits * ExtraWords
    BY <1>1, Widths, TargetsNat DEF MaxTargets
  <1>3. (d - BaseBits) \div WordBits < ExtraWords
    BY <1>2, DivBound, Widths
  <1>4. /\ (d - BaseBits) \div WordBits \in Nat
        /\ (d - BaseBits) % WordBits \in 0..(WordBits - 1)
    BY Zenon, <1>2, DivMod, Widths
  <1> DEFINE q == (d - BaseBits) \div WordBits
  <1>5. 1 + q \in 1..ExtraWords
    <2>1. q < ExtraWords /\ q \in Nat
      BY <1>3, <1>4
    <2> HIDE DEF q
    <2> QED
      BY <2>1, Widths
  <1> QED
    BY <1>2, <1>4, <1>5

\* Every target has a place.
LEMMA PlaceType ==
    ASSUME NEW d \in Targets
    PROVE  WordOf(d) \in 0..ExtraWords /\ BitOf(d) \in Nat
  <1>1. CASE d < BaseBits
    BY <1>1, TargetsNat, Widths DEF WordOf, BitOf, Targets
  <1>2. CASE ~(d < BaseBits)
    <2> DEFINE w == 1 + ((d - BaseBits) \div WordBits)
               b == (d - BaseBits) % WordBits
    <2>1. w \in 1..ExtraWords /\ b \in 0..(WordBits - 1) /\ WordOf(d) = w /\ BitOf(d) = b
      BY <1>2, ExtraPlace DEF WordOf, BitOf
    <2> HIDE DEF w, b
    <2> QED
      BY <2>1, Widths
  <1> QED
    BY <1>1, <1>2

\* No two targets share a place.
LEMMA PlaceInjective ==
    ASSUME NEW d \in Targets, NEW e \in Targets, WordOf(d) = WordOf(e), BitOf(d) = BitOf(e)
    PROVE  d = e
  <1>0. d \in Nat /\ e \in Nat
    BY TargetsNat DEF Targets
  <1>1. CASE d < BaseBits /\ e < BaseBits
    BY <1>1 DEF BitOf
  <1>2. CASE ~(d < BaseBits) /\ ~(e < BaseBits)
    <2> DEFINE q(x) == (x - BaseBits) \div WordBits
               r(x) == (x - BaseBits) % WordBits
    <2>1. q(d) \in Nat /\ q(e) \in Nat
      BY Zenon, <1>2, ExtraPlace, DivMod, Widths
    <2>2. 1 + q(d) = 1 + q(e) /\ r(d) = r(e)
      BY <1>2 DEF WordOf, BitOf
    <2>3. q(d) * WordBits + r(d) = d - BaseBits /\ q(e) * WordBits + r(e) = e - BaseBits
      BY Zenon, <1>2, ExtraPlace, DivMod, Widths
    <2> HIDE DEF q, r
    <2>4. q(d) = q(e)
      BY <2>1, <2>2
    <2>5. d - BaseBits = e - BaseBits
      BY <2>2, <2>3, <2>4
    <2> QED
      BY <2>5, <1>0, Widths
  <1>3. CASE d < BaseBits /\ ~(e < BaseBits)
    <2>1. WordOf(d) = 0 /\ WordOf(e) \in 1..ExtraWords
      BY <1>3, ExtraPlace DEF WordOf
    <2> QED
      BY <2>1, Widths
  <1>4. CASE ~(d < BaseBits) /\ e < BaseBits
    <2>1. WordOf(e) = 0 /\ WordOf(d) \in 1..ExtraWords
      BY <1>4, ExtraPlace DEF WordOf
    <2> QED
      BY <2>1, Widths
  <1> QED
    BY <1>1, <1>2, <1>3, <1>4

-----------------------------------------------------------------------------
\* Inductive: the words hold the bits of the waiting targets and of no other,
\* and the last slice decodes to what it stands for.
SliceInv ==
    /\ words \in [0..ExtraWords -> SUBSET Int]
    /\ waiting \subseteq Targets
    /\ \A d \in Targets : BitOf(d) \in words[WordOf(d)] <=> d \in waiting
    /\ DecodesTruth

\* Nothing waits at the beginning, and the empty slice is decoded.
LEMMA InitSliceInv == SliceInit => SliceInv
  <1> SUFFICES ASSUME SliceInit PROVE SliceInv
    OBVIOUS
  <1>1. words \in [0..ExtraWords -> SUBSET Int] /\ waiting \subseteq Targets
    BY DEF SliceInit
  <1>2. \A d \in Targets : BitOf(d) \in words[WordOf(d)] <=> d \in waiting
    BY PlaceType DEF SliceInit
  <1>3. \A d \in Targets : HasTarget(d) <=> d \in truth.targets
    <2> SUFFICES ASSUME NEW d \in Targets PROVE ~HasTarget(d)
      BY DEF SliceInit, NoTruth
    <2>1. CASE d < BaseBits
      BY <2>1 DEF HasTarget, SliceInit, NoSlice
    <2>2. CASE ~(d < BaseBits)
      BY <2>2, ExtraPlace DEF HasTarget, SliceInit, NoSlice
    <2> QED
      BY <2>1, <2>2
  <1>4. UnpackedCss = truth.css /\ UnpackedDuration = {} /\ truth.duration = {}
    BY DEF SliceInit, NoSlice, NoTruth, UnpackedCss, UnpackedDuration
  <1> QED
    BY <1>1, <1>2, <1>3, <1>4 DEF SliceInv, DecodesTruth

\* set_waiting changes the bit of one target only.
LEMMA SetWaitingSliceInv ==
    ASSUME SliceInv, NEW d \in Targets, SetWaiting(d)
    PROVE  SliceInv'
  <1>1. WordOf(d) \in 0..ExtraWords /\ BitOf(d) \in Int
    BY PlaceType
  <1>2. words \in [0..ExtraWords -> SUBSET Int] /\ waiting \subseteq Targets
    BY DEF SliceInv
  <1>3. words' \in [0..ExtraWords -> SUBSET Int] /\ waiting' \subseteq Targets
    BY <1>1, <1>2 DEF SetWaiting
  <1>4. ASSUME NEW e \in Targets
        PROVE  BitOf(e) \in words'[WordOf(e)] <=> e \in waiting'
    <2>1. BitOf(e) \in words[WordOf(e)] <=> e \in waiting
      BY DEF SliceInv
    <2>2. WordOf(e) \in 0..ExtraWords
      BY PlaceType
    <2>3. WordOf(e) = WordOf(d) /\ BitOf(e) = BitOf(d) => e = d
      BY PlaceInjective
    <2> QED
      BY Zenon, <1>1, <1>2, <2>1, <2>2, <2>3 DEF SetWaiting
  <1>5. DecodesTruth'
    BY DEF SliceInv, SetWaiting, DecodesTruth, UnpackedCss, UnpackedDuration, HasTarget
  <1> QED
    BY <1>3, <1>4, <1>5 DEF SliceInv, WordOf, BitOf, Targets, MaxTargets

\* Membership in a shifted word.
LEMMA InShifted ==
    ASSUME NEW bits \in SUBSET Int, NEW by \in Int, NEW b \in Int
    PROVE  b \in Shifted(bits, by) <=> b - by \in bits
  BY DEF Shifted

\* A slice is packed so that its parts do not overlap.
LEMMA SwitchSliceInv ==
    ASSUME SliceInv, NEW duration \in SUBSET (0..(ClockBits - 1)),
           NEW css \in SUBSET (0..(CssBits - 1)), PackOnSwitch(duration, css)
    PROVE  SliceInv'
  <1> DEFINE long == Clamped(duration)
             low == words[0] \cap (0..(BaseBits - 1))
  <1>1. slice'.base = Shifted(long, CssBits + BaseBits) \cup Shifted(low, CssBits) \cup css
    BY DEF PackOnSwitch, Pack
  <1>2. slice'.extra = [w \in 1..ExtraWords |-> words[w]]
    BY DEF PackOnSwitch, Pack
  <1>3. truth' = [css |-> css, duration |-> duration, targets |-> waiting]
    BY DEF PackOnSwitch
  <1>4. long \subseteq 0..(DurBits - 1) /\ low \subseteq 0..(BaseBits - 1)
    BY Widths DEF Clamped
  <1> HIDE DEF long, low
  <1>a. ASSUME NEW b \in Int
        PROVE  b \in slice'.base <=> \/ b - (CssBits + BaseBits) \in long
                                      \/ b - CssBits \in low
                                      \/ b \in css
    <2>1. long \in SUBSET Int /\ low \in SUBSET Int
      BY <1>4
    <2>2. CssBits + BaseBits \in Int /\ CssBits \in Int
      BY Widths
    <2>3. b \in Shifted(long, CssBits + BaseBits) <=> b - (CssBits + BaseBits) \in long
      BY <2>1, <2>2, InShifted
    <2>4. b \in Shifted(low, CssBits) <=> b - CssBits \in low
      BY <2>1, <2>2, InShifted
    <2> QED
      BY <1>1, <2>3, <2>4
  <1>5. UnpackedCss' = css
    <2>1. ASSUME NEW b \in 0..(CssBits - 1) PROVE b \in slice'.base <=> b \in css
      <3>1. b - (CssBits + BaseBits) \notin long /\ b - CssBits \notin low
        BY <1>4, Widths
      <3> QED
        BY <1>a, <3>1
    <2> QED
      BY Zenon, <2>1 DEF UnpackedCss
  <1>6. UnpackedDuration' = long
    <2>1. ASSUME NEW b \in 0..(DurBits - 1)
          PROVE  b + CssBits + BaseBits \in slice'.base <=> b \in long
      <3>1. /\ b + CssBits + BaseBits \in Int
            /\ (b + CssBits + BaseBits) - (CssBits + BaseBits) = b
            /\ (b + CssBits + BaseBits) - CssBits \notin low
            /\ b + CssBits + BaseBits \notin css
        BY <1>4, Widths
      <3> QED
        BY <1>a, <3>1
    <2> QED
      BY Zenon, <1>4, <2>1 DEF UnpackedDuration
  <1>7. ASSUME NEW d \in Targets PROVE HasTarget(d)' <=> d \in waiting
    <2>0. BitOf(d) \in words[WordOf(d)] <=> d \in waiting
      BY DEF SliceInv
    <2>1. CASE d < BaseBits
      <3>1. d \in Nat
        BY TargetsNat DEF Targets
      <3>2. CssBits + d \in slice'.base <=> d \in low
        BY <1>1, <1>4, <2>1, <3>1, Widths DEF Shifted
      <3>3. d \in low <=> d \in words[0]
        BY <2>1, <3>1, Widths DEF low
      <3> QED
        BY <2>0, <2>1, <3>2, <3>3 DEF HasTarget, WordOf, BitOf
    <2>2. CASE ~(d < BaseBits)
      BY <1>2, <2>0, <2>2, ExtraPlace DEF HasTarget, WordOf, BitOf
    <2> QED
      BY <2>1, <2>2
  <1>8. DecodesTruth'
    <2>1. UnpackedCss' = truth'.css
      BY <1>3, <1>5
    <2>2. UnpackedDuration' = IF \E b \in truth'.duration : b >= DurBits
                              THEN 0..(DurBits - 1) ELSE truth'.duration
      BY <1>3, <1>6 DEF long, Clamped
    <2>3. \A d \in Targets : HasTarget(d)' <=> d \in truth'.targets
      BY <1>3, <1>7
    <2> QED
      BY <2>1, <2>2, <2>3 DEF DecodesTruth, Targets, MaxTargets
  <1> QED
    BY <1>8 DEF SliceInv, PackOnSwitch, WordOf, BitOf, Targets, MaxTargets

\* User space decodes every slice to what it stands for, whatever the widths of
\* the parts and the number of extra words.
THEOREM SlicesDecode == SliceSpec => []DecodesTruth
  <1>1. SliceInit => SliceInv
    BY InitSliceInv
  <1>2. SliceInv /\ [SliceNext]_sliceVars => SliceInv'
    <2> SUFFICES ASSUME SliceInv, [SliceNext]_sliceVars PROVE SliceInv'
      OBVIOUS
    <2>1. CASE \E d \in Targets : SetWaiting(d)
      BY <2>1, SetWaitingSliceInv
    <2>2. CASE \E duration \in SUBSET (0..(ClockBits - 1)), css \in SUBSET (0..(CssBits - 1)) :
                  PackOnSwitch(duration, css)
      BY <2>2, SwitchSliceInv
    <2>3. CASE UNCHANGED sliceVars
      BY <2>3 DEF SliceInv, sliceVars, DecodesTruth, UnpackedCss, UnpackedDuration, HasTarget,
                  WordOf, BitOf, Targets, MaxTargets
    <2> QED
      BY <2>1, <2>2, <2>3 DEF SliceNext
  <1>3. SliceInv => DecodesTruth
    BY DEF SliceInv
  <1> QED
    BY <1>1, <1>2, <1>3, PTL DEF SliceSpec

-----------------------------------------------------------------------------
\* Quotient and remainder are unique.
LEMMA DivModUnique ==
    ASSUME NEW w \in Nat \ {0}, NEW q \in Nat, NEW r \in 0..(w - 1)
    PROVE  (w * q + r) \div w = q /\ (w * q + r) % w = r
  <1> DEFINE a == w * q + r
             p == a \div w
             s == a % w
  <1>0. w * q \in Nat
    BY SMT
  <1>1. a \in Nat
    BY <1>0
  <1>2. p \in Nat /\ s \in 0..(w - 1) /\ p * w + s = a
    BY Zenon, <1>1, DivMod
  <1>3. p * w + s = w * q + r
    BY <1>2 DEF a
  <1> HIDE DEF a, p, s
  <1>4. ASSUME p > q PROVE FALSE
    <2>1. p * w >= (q + 1) * w
      BY <1>2, <1>4, SMT
    <2> QED
      BY <1>2, <1>3, <2>1, SMT
  <1>5. ASSUME p < q PROVE FALSE
    <2>1. w * q >= w * (p + 1)
      BY <1>2, <1>5, SMT
    <2> QED
      BY <1>2, <1>3, <2>1, SMT
  <1>6. p = q
    BY <1>2, <1>4, <1>5, SMT
  <1>7. s = r
    BY <1>2, <1>3, <1>6, SMT
  <1> QED
    BY <1>6, <1>7 DEF p, s, a

\* The target that handlePackedSlice makes of bit b of extra word w is the one
\* that schedBlameSliceHasTarget looks for at that bit.
LEMMA ExtraTarget ==
    ASSUME NEW w \in 1..ExtraWords, NEW b \in 0..(WordBits - 1)
    PROVE  LET d == BaseBits + WordBits * (w - 1) + b
           IN  /\ d \in Targets /\ ~(d < BaseBits)
               /\ (d - BaseBits) % WordBits = b
               /\ 1 + (d - BaseBits) \div WordBits = w
  <1> DEFINE m == WordBits * (w - 1)
             d == BaseBits + m + b
  <1>1. w - 1 \in Nat /\ m \in Nat /\ w \in Nat /\ b \in Nat
    BY Widths, SMT
  <1>2. m + WordBits <= WordBits * ExtraWords
    <2>1. m + WordBits = WordBits * w
      BY <1>1, Widths, SMT
    <2>2. WordBits * w <= WordBits * ExtraWords
      BY <1>1, Widths, SMT
    <2> QED
      BY <2>1, <2>2
  <1>3. (m + b) \div WordBits = w - 1 /\ (m + b) % WordBits = b
    BY <1>1, Widths, DivModUnique
  <1> HIDE DEF m
  <1>4. d - BaseBits = m + b /\ d \in Nat /\ ~(d < BaseBits)
    BY <1>1, Widths
  <1>5. d < MaxTargets
    BY <1>1, <1>2, Widths, TargetsNat DEF MaxTargets
  <1>6. d \in Targets
    BY <1>4, <1>5, TargetsNat DEF Targets
  <1>7. 1 + (d - BaseBits) \div WordBits = w
    BY <1>1, <1>3, <1>4
  <1> QED
    BY <1>3, <1>4, <1>6, <1>7 DEF m

\* And every target beyond the base word is made of some bit of a word.
LEMMA TargetOfBit ==
    ASSUME NEW d \in Targets, ~(d < BaseBits)
    PROVE  \E w \in 1..ExtraWords, b \in 0..(WordBits - 1) :
              /\ w = 1 + (d - BaseBits) \div WordBits
              /\ b = (d - BaseBits) % WordBits
              /\ d = BaseBits + WordBits * (w - 1) + b
  <1> DEFINE a == d - BaseBits
             q == a \div WordBits
             r == a % WordBits
  <1>1. a \in Nat /\ 1 + q \in 1..ExtraWords /\ r \in 0..(WordBits - 1)
    BY ExtraPlace
  <1>2. q \in Nat /\ r \in Nat /\ q * WordBits + r = a
    <2> HIDE DEF a
    <2> QED
      BY <1>1, DivMod, Widths
  <1>3. d \in Nat
    BY TargetsNat DEF Targets
  <1>4. d = BaseBits + WordBits * ((1 + q) - 1) + r
    <2>1. d = BaseBits + a
      BY <1>3, Widths
    <2> HIDE DEF a, q, r
    <2>2. WordBits * ((1 + q) - 1) = q * WordBits
      BY <1>2, Widths, SMT
    <2>3. q * WordBits \in Nat
      BY <1>2, Widths, SMT
    <2> QED
      BY <1>1, <1>2, <2>1, <2>2, <2>3, Widths
  <1> HIDE DEF q, r
  <1> QED
    BY <1>1, <1>4 DEF q, r

\* The two readers of a slice see the same targets, whatever its words are.
LEMMA ReadersAgree == EnumerationAgrees
  <1> DEFINE Bits == {q \in (1..ExtraWords) \X (0..(WordBits - 1)) : q[2] \in slice.extra[q[1]]}
             Base == {b \in 0..(BaseBits - 1) : b + CssBits \in slice.base}
             T(p) == BaseBits + WordBits * (p[1] - 1) + p[2]
  <1>1. ASSUME NEW d \in Base PROVE d \in Targets /\ HasTarget(d)
    <2>1. d \in Nat /\ d < BaseBits /\ d + CssBits \in slice.base
      BY Widths
    <2>2. d \in Targets /\ CssBits + d = d + CssBits
      BY <2>1, Widths, TargetsNat DEF Targets, MaxTargets
    <2> QED
      BY <2>1, <2>2 DEF HasTarget
  <1>2. ASSUME NEW p \in Bits PROVE T(p) \in Targets /\ HasTarget(T(p))
    <2>1. p[1] \in 1..ExtraWords /\ p[2] \in 0..(WordBits - 1) /\ p[2] \in slice.extra[p[1]]
      OBVIOUS
    <2>2. /\ T(p) \in Targets /\ ~(T(p) < BaseBits)
          /\ (T(p) - BaseBits) % WordBits = p[2]
          /\ 1 + (T(p) - BaseBits) \div WordBits = p[1]
      BY <2>1, ExtraTarget
    <2> HIDE DEF T
    <2> QED
      BY <2>1, <2>2 DEF HasTarget
  <1>3. ASSUME NEW d \in Targets, HasTarget(d) PROVE d \in Base \cup {T(p) : p \in Bits}
    <2>1. CASE d < BaseBits
      <3>1. d \in Nat /\ CssBits + d = d + CssBits
        BY TargetsNat, Widths DEF Targets
      <3> QED
        BY <1>3, <2>1, <3>1, Widths DEF HasTarget
    <2>2. CASE ~(d < BaseBits)
      <3>1. PICK w \in 1..ExtraWords, b \in 0..(WordBits - 1) :
              /\ w = 1 + (d - BaseBits) \div WordBits
              /\ b = (d - BaseBits) % WordBits
              /\ d = BaseBits + WordBits * (w - 1) + b
        BY <2>2, TargetOfBit
      <3>2. b \in slice.extra[w]
        BY <1>3, <2>2, <3>1 DEF HasTarget
      <3>4. <<w, b>> \in Bits /\ T(<<w, b>>) = d
        BY Zenon, <3>1, <3>2
      <3> QED
        BY <3>4
    <2> QED
      BY <2>1, <2>2
  <1>4. Enumerated = Base \cup {T(p) : p \in Bits}
    BY DEF Enumerated
  <1> HIDE DEF Base, Bits, T
  <1> QED
    BY <1>1, <1>2, <1>3, <1>4 DEF EnumerationAgrees

\* Whichever way user space looks at a slice, bit by bit in handlePackedSlice or
\* for one target in schedBlameSliceHasTarget, it finds the targets that waited
\* when the slice was packed.
THEOREM SlicesRead == SliceSpec => [](DecodesTruth /\ EnumerationAgrees)
  <1>1. EnumerationAgrees
    BY ReadersAgree
  <1> QED
    BY <1>1, SlicesDecode, PTL

=============================================================================
