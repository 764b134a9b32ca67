-------------------------------- MODULE NvmeNames --------------------------------
(***************************************************************************)
(* How bpf/io_health.c names NVMe controllers.  A controller is known to a *)
(* probe by its address only; nvme_ctrl_names maps addresses to names and  *)
(* is kept by entry and return probes on cdev_device_add and               *)
(* cdev_device_del, paired by the calling thread, and by a probe on the    *)
(* sysfs state file, which Go reads once for every controller it finds     *)
(* after the hooks are attached (primeNVMeControllerNames).  Resets and    *)
(* state changes, paired the same way, raise events with the name.         *)
(*                                                                         *)
(* An address is reused after its controller is freed.  A return probe     *)
(* fires only for calls that were entered after it was attached.           *)
(***************************************************************************)
EXTENDS Integers, Sequences, FiniteSets

CONSTANTS
    Addrs, Threads,
    MaxController,  \* controllers ever created; a controller's number is its name
    MaxEvents,      \* bound on the number of events
    MaxForeign      \* bound on calls for character devices that are not NVMe

NoName == 0
NoAddr == "none"

ASSUME NvmeConstants == MaxController \in Nat /\ NoAddr \notin Addrs

VARIABLES
    ctrlStage,      \* per address: "free", "born", "adding", "live", "deleting", "dead"
    ctrl,       \* per address: the number of its current or last controller
    stack,      \* per thread: its calls, [fn, addr, ret]; ret: the return is probed
    hooks,      \* number of hooks of AttachOrder that are attached
    prime,      \* "no", "listed", "done"
    listed,     \* the addresses that the directory listing showed and are unread
    names,      \* nvme_ctrl_names
    cdevCalls,  \* nvme_cdev_calls, per thread: [addr, name]
    otherCalls, \* nvme_reset_calls and nvme_state_calls: per function and thread
    events,     \* raised events: [ctrl, name]
    raised, foreign,  \* counters for the bounds
    unseen      \* <<fn, controller>> of calls whose entry was not probed

kernelVars == <<ctrlStage, ctrl, stack, foreign>>
goVars == <<hooks, prime, listed>>
vars == <<kernelVars, goVars, names, cdevCalls, otherCalls, events, raised, unseen>>

NoCall == [addr |-> NoAddr, name |-> NoName]

Init ==
    /\ \E live \in SUBSET Addrs :
          /\ ctrlStage = [a \in Addrs |-> IF a \in live THEN "live" ELSE "free"]
          /\ ctrl \in [Addrs -> 0..1] /\ \A a \in Addrs : ctrl[a] = 1 <=> a \in live
          /\ Cardinality(live) <= 1
    /\ stack = [t \in Threads |-> <<>>] /\ foreign = 0
    /\ hooks = 0 /\ prime = "no" /\ listed = {}
    /\ names = [a \in Addrs |-> NoName]
    /\ cdevCalls = [t \in Threads |-> NoCall]
    /\ otherCalls = [fn \in {"reset", "state"} |-> [t \in Threads |-> NoAddr]]
    /\ events = {} /\ raised = 0 /\ unseen = {}

-----------------------------------------------------------------------------
(* Hooks and priming: attachIOHealthHooks.                                 *)

\* selectIOHealthHooks; a return hook comes before its entry hook, so that no
\* call is noted that does not return.  The hooks of resets and of state changes are taken
\* together.
AttachOrder ==
    <<<<"del", "ret">>, <<"del", "entry">>, <<"add", "ret">>, <<"add", "entry">>,
      <<"show", "entry">>, <<"events", "ret">>, <<"events", "entry">>>>

Group(fn) == IF fn \in {"reset", "state"} THEN "events" ELSE fn
Hooked(fn, side) == \E n \in 1..hooks : AttachOrder[n] = <<Group(fn), side>>

AttachNext ==
    /\ hooks < Len(AttachOrder) /\ hooks' = hooks + 1
    /\ UNCHANGED <<kernelVars, prime, listed, names, cdevCalls, otherCalls, events, raised,
                   unseen>>

InSysfs == {a \in Addrs : ctrlStage[a] \in {"live", "deleting"}}

MayPrime == hooks = Len(AttachOrder)

\* ReadDir of /sys/class/nvme.
PrimeLists ==
    /\ MayPrime /\ prime = "no"
    /\ prime' = "listed" /\ listed' = InSysfs
    /\ UNCHANGED <<kernelVars, hooks, names, cdevCalls, otherCalls, events, raised, unseen>>

\* kprobe_nvme_sysfs_show_state, on a read of a state file by Go ...
Show(a) == names' = IF Hooked("show", "entry") THEN [names EXCEPT ![a] = ctrl[a]] ELSE names

\* ... which fails when the controller has gone meanwhile ...
PrimeReads(a) ==
    /\ prime = "listed" /\ a \in listed
    /\ listed' = listed \ {a}
    /\ IF a \in InSysfs THEN Show(a) ELSE UNCHANGED names
    /\ prime' = IF listed' = {} THEN "done" ELSE "listed"
    /\ UNCHANGED <<kernelVars, hooks, cdevCalls, otherCalls, events, raised, unseen>>

PrimeNothing ==
    /\ prime = "listed" /\ listed = {} /\ prime' = "done"
    /\ UNCHANGED <<kernelVars, hooks, listed, names, cdevCalls, otherCalls, events, raised,
                   unseen>>

\* ... or by anyone else.
OthersRead(a) ==
    /\ a \in InSysfs
    /\ Show(a)
    /\ UNCHANGED <<kernelVars, goVars, cdevCalls, otherCalls, events, raised, unseen>>

-----------------------------------------------------------------------------
(* Calls.  A thread enters fn for the controller at a.                     *)

Push(t, fn, a) ==
    /\ stack' = [stack EXCEPT ![t] = Append(@, [fn |-> fn, addr |-> a, ret |-> Hooked(fn, "ret")])]
    /\ unseen' = IF a # NoAddr /\ ~(Hooked(fn, "entry") /\ Hooked(fn, "ret"))
                 THEN unseen \cup {<<fn, ctrl[a]>>} ELSE unseen
Top(t) == stack[t][Len(stack[t])]
Pop(t) == stack' = [stack EXCEPT ![t] = SubSeq(@, 1, Len(@) - 1)]
Running(t, fn) == stack[t] # <<>> /\ Top(t).fn = fn

\* kprobe_nvme_cdev_add and kprobe_nvme_cdev_del: only NVMe devices are noted.
NoteCdevCall(t, fn, a) ==
    cdevCalls' = IF a # NoAddr /\ Hooked(fn, "entry")
                 THEN [cdevCalls EXCEPT ![t] = [addr |-> a, name |-> ctrl[a]]]
                 ELSE cdevCalls

Create(a) ==
    /\ ctrlStage[a] = "free"
    /\ \A b \in Addrs : ctrl[b] < MaxController
    /\ \E n \in 1..MaxController : /\ \A b \in Addrs : ctrl[b] < n
                                   /\ \A m \in 1..(n - 1) : \E b \in Addrs : ctrl[b] >= m
                                   /\ ctrl' = [ctrl EXCEPT ![a] = n]
    /\ ctrlStage' = [ctrlStage EXCEPT ![a] = "born"]
    /\ UNCHANGED <<stack, foreign, goVars, names, cdevCalls, otherCalls, events, raised, unseen>>

\* The name goes when the deletion has returned: sysfs callbacks have drained.
DropName(side, a) == IF side = "ret" THEN [names EXCEPT ![a] = NoName] ELSE names

CdevEnter(t, fn, a) ==
    /\ stack[t] = <<>>
    /\ \/ fn = "add" /\ a # NoAddr /\ ctrlStage[a] = "born"
          /\ ctrlStage' = [ctrlStage EXCEPT ![a] = "adding"]
       \/ fn = "del" /\ a # NoAddr /\ ctrlStage[a] = "live"
          /\ ctrlStage' = [ctrlStage EXCEPT ![a] = "deleting"]
       \/ a = NoAddr /\ foreign < MaxForeign /\ UNCHANGED ctrlStage
    /\ foreign' = IF a = NoAddr THEN foreign + 1 ELSE foreign
    /\ Push(t, fn, a)
    /\ NoteCdevCall(t, fn, a)
    /\ names' = IF fn = "del" THEN DropName("entry", a) ELSE names
    /\ UNCHANGED <<ctrl, goVars, otherCalls, events, raised>>

\* kretprobe_nvme_cdev_add and kretprobe_nvme_cdev_del, with what the call of
\* the same thread left.
CdevReturnProbe(t, fn, ok) ==
    LET call == cdevCalls[t]
    IN IF ~Top(t).ret \/ call = NoCall
       THEN UNCHANGED <<names, cdevCalls>>
       ELSE /\ cdevCalls' = [cdevCalls EXCEPT ![t] = NoCall]
            /\ names' = IF fn = "del" THEN DropName("ret", call.addr)
                        ELSE IF ok THEN [names EXCEPT ![call.addr] = call.name]
                        ELSE names

\* The controller is in sysfs when the addition succeeds; otherwise it is freed
\* without having been used.
AddReturns(t, ok) ==
    LET a == Top(t).addr
    IN /\ Running(t, "add")
       /\ ctrlStage' = IF a = NoAddr THEN ctrlStage
                   ELSE [ctrlStage EXCEPT ![a] = IF ok THEN "live" ELSE "free"]
       /\ CdevReturnProbe(t, "add", ok)
       /\ Pop(t)
       /\ UNCHANGED <<ctrl, foreign, goVars, otherCalls, events, raised, unseen>>

\* cdev_device_del returns when no sysfs callback runs.
DelReturns(t) ==
    LET a == Top(t).addr
    IN /\ Running(t, "del")
       /\ ctrlStage' = IF a = NoAddr THEN ctrlStage ELSE [ctrlStage EXCEPT ![a] = "dead"]
       /\ CdevReturnProbe(t, "del", TRUE)
       /\ Pop(t)
       /\ UNCHANGED <<ctrl, foreign, goVars, otherCalls, events, raised, unseen>>

\* Nobody uses a controller that is freed.
Free(a) ==
    /\ ctrlStage[a] = "dead"
    /\ \A t \in Threads : \A n \in 1..Len(stack[t]) : stack[t][n].addr # a
    /\ ctrlStage' = [ctrlStage EXCEPT ![a] = "free"]
    /\ UNCHANGED <<ctrl, stack, foreign, goVars, names, cdevCalls, otherCalls, events, raised,
                   unseen>>

\* Mutant of Slot: calls are paired by the CPU.
SlotOfCPU(t) == CHOOSE u \in Threads : TRUE

\* Calls are paired by thread: it may migrate between entry and return.
Slot(t) == t

\* nvme_reset_ctrl, and nvme_change_ctrl_state by itself or inside a reset of
\* the same thread.
CtrlEnter(t, fn, a) ==
    /\ ctrlStage[a] \in {"live", "deleting", "dead"} /\ raised < MaxEvents
    /\ \/ stack[t] = <<>>
       \/ fn = "state" /\ Len(stack[t]) = 1 /\ Running(t, "reset") /\ Top(t).addr = a
    /\ raised' = raised + 1
    /\ Push(t, fn, a)
    /\ otherCalls' = IF Hooked(fn, "entry") THEN [otherCalls EXCEPT ![fn][Slot(t)] = a] ELSE otherCalls
    /\ UNCHANGED <<ctrlStage, ctrl, foreign, goVars, names, cdevCalls, events>>

\* kretprobe_nvme_reset and kretprobe_nvme_change_state: only an accepted
\* change is an event.
CtrlReturns(t, fn, accepted) ==
    LET a == otherCalls[fn][Slot(t)]
    IN /\ Running(t, fn)
       /\ IF Top(t).ret /\ a # NoAddr
          THEN /\ otherCalls' = [otherCalls EXCEPT ![fn][Slot(t)] = NoAddr]
               /\ events' = IF accepted
                            THEN events \cup {[ctrl |-> ctrl[Top(t).addr], name |-> names[a]]}
                            ELSE events
          ELSE UNCHANGED <<otherCalls, events>>
       /\ Pop(t)
       /\ UNCHANGED <<ctrlStage, ctrl, foreign, goVars, names, cdevCalls, raised, unseen>>

-----------------------------------------------------------------------------

Next ==
    \/ AttachNext \/ PrimeLists \/ PrimeNothing
    \/ \E a \in Addrs : PrimeReads(a) \/ OthersRead(a) \/ Create(a) \/ Free(a)
    \/ \E t \in Threads :
          \/ \E a \in Addrs \cup {NoAddr}, fn \in {"add", "del"} : CdevEnter(t, fn, a)
          \/ \E ok \in BOOLEAN : AddReturns(t, ok)
          \/ DelReturns(t)
          \/ \E a \in Addrs, fn \in {"reset", "state"} : CtrlEnter(t, fn, a)
          \/ \E fn \in {"reset", "state"}, ok \in BOOLEAN : CtrlReturns(t, fn, ok)

Spec == Init /\ [][Next]_vars

\* An event carries the name of the controller it is about or none, never the
\* name of the one that had its address before, and never that of a controller
\* the same thread handled in an earlier call.
EventNamesItsController == \A e \in events : e.name \in {NoName, e.ctrl}

\* The map of names agrees with the controllers.  Once the deletion of a
\* controller has returned its name is gone, although its state file could be
\* read until then; only a deletion that was already running when the hooks were
\* attached leaves one behind.  After priming every live controller has its
\* name, unless its addition was already running when the hooks were attached.
NamesMatchControllers ==
    \A a \in Addrs :
       /\ ctrlStage[a] \in {"dead", "free", "born"} /\ names[a] # NoName
             => <<"del", names[a]>> \in unseen
       /\ prime = "done" /\ ctrlStage[a] = "live" /\ <<"add", ctrl[a]>> \notin unseen
             => names[a] = ctrl[a]

\* The map of names and the events that copy from it follow the controllers.
NvmeNamesExact == EventNamesItsController /\ NamesMatchControllers
=============================================================================
