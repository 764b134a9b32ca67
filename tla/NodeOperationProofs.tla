------------------------- MODULE NodeOperationProofs -------------------------
(***************************************************************************)
(* Proofs about the operation manager, for every set of request IDs and    *)
(* every MaxConcurrent: the inductive invariant, the safety properties it  *)
(* implies, what an accepted stop means for the end of an operation, and   *)
(* that each step of the manager is a step of OperationLifecycle, the      *)
(* promise its callers rely on, or invisible to them.                      *)
(***************************************************************************)
EXTENDS NodeOperation, FiniteSetTheorems, TLAPS

\* The three forms in which an action changes a finite set counted by
\* activeCount or wg.
LEMMA AddOne ==
  ASSUME NEW S, NEW x, IsFiniteSet(S), x \notin S
  PROVE  /\ IsFiniteSet(S \cup {x})
         /\ Cardinality(S \cup {x}) = Cardinality(S) + 1
         /\ Cardinality(S) \in Nat
BY Zenon, FS_AddElement, FS_CardinalityType

\* Removing an element of a finite set lowers its cardinality by one.
LEMMA RemoveOne ==
  ASSUME NEW S, NEW x, IsFiniteSet(S), x \in S
  PROVE  /\ IsFiniteSet(S \ {x})
         /\ Cardinality(S \ {x}) = Cardinality(S) - 1
         /\ Cardinality(S) \in Nat
         /\ Cardinality(S) > 0
<1>1. /\ IsFiniteSet(S \ {x})
      /\ Cardinality(S \ {x}) = Cardinality(S) - 1
  BY Zenon, FS_RemoveElement
<1>2. Cardinality(S) \in Nat /\ Cardinality(S \ {x}) \in Nat
  BY Zenon, <1>1, FS_CardinalityType
<1> QED
  BY <1>1, <1>2

\* An action of one operation leaves the records of the others alone.
Local(r) ==
  \A q \in RequestIDs \ {r} :
    operations'[q] = operations[q] /\ execution'[q] = execution[q]

\* The types of the records follow from those of the record that changed.
LEMMA LocalTypes ==
  ASSUME NEW r \in RequestIDs, TypeOK, 
         NEW o \in Operation, NEW e \in Execution,
         operations' = [operations EXCEPT ![r] = o],
         execution' = [execution EXCEPT ![r] = e]
  PROVE  /\ operations' \in [RequestIDs -> Operation]
         /\ execution' \in [RequestIDs -> Execution]
         /\ operations'[r] = o
         /\ execution'[r] = e
         /\ Local(r)
BY Zenon DEF TypeOK, Local

\* Stop goroutines belong to active operations, so there are finitely many.
LEMMA StoppersAreActive ==
  ASSUME IInv
  PROVE  /\ Stoppers \subseteq Active
         /\ IsFiniteSet(Stoppers)
         /\ Cardinality(Active) \in Nat
         /\ Cardinality(Stoppers) \in Nat
<1>1. Stoppers \subseteq Active
  BY Zenon DEF IInv, TypeOK, Consistent, Stoppers, Active, Operation, Execution, RunPoints, Statuses
<1> QED
  BY Zenon, <1>1, FS_Subset, FS_CardinalityType DEF IInv

\* NewManager establishes the invariant: only the cleanup loop is counted.
LEMMA InitIInv == Init => IInv
<1> SUFFICES ASSUME Init PROVE IInv
  BY Zenon
<1>1. TypeOK
  BY Zenon DEF Init, NewManager, TypeOK, Absent, NoExecution, Operation, Execution,
         Statuses, Outcomes, RunPoints
<1>2. Active = {} /\ Stoppers = {}
  BY Zenon DEF Init, NewManager, Active, Stoppers, Absent, NoExecution
<1>3. \A r \in RequestIDs : Consistent(operations[r], execution[r])
  BY Zenon DEF Init, NewManager, Consistent, Absent, NoExecution
<1>4. IsFiniteSet({}) /\ Cardinality({}) = 0
  BY Zenon, FS_EmptySet
<1> QED
  BY <1>1, <1>2, <1>3, <1>4, ConfigAssumption
     DEF IInv, CapacityRespected, WaitGroupExact, ShutdownConsistent, Init, NewManager

-----------------------------------------------------------------------------
(* Steps of one operation. *)

IsActive(o) == o.status \in {"pending", "running", "stopping"}
Count(b) == IF b THEN 1 ELSE 0

\* How a step of one operation changes the sets that the counters count.
LEMMA LocalSets ==
  ASSUME NEW r \in RequestIDs, Local(r)
  PROVE  /\ Active' = IF IsActive(operations'[r]) THEN Active \cup {r} ELSE Active \ {r}
         /\ Stoppers' = IF execution'[r].stopper = "running"
                        THEN Stoppers \cup {r} ELSE Stoppers \ {r}
BY Zenon DEF Local, Active, Stoppers, IsActive

\* How the cardinality of a finite set follows one element.
LEMMA LocalCount ==
  ASSUME NEW S, NEW T, NEW r, IsFiniteSet(S),
         T = S \cup {r} \/ T = S \ {r}
  PROVE  /\ IsFiniteSet(T)
         /\ Cardinality(S) \in Nat
         /\ Cardinality(T) \in Nat
         /\ r \in S /\ r \in T => Cardinality(T) = Cardinality(S)
         /\ r \in S /\ r \notin T => Cardinality(T) = Cardinality(S) - 1
         /\ r \notin S /\ r \in T => Cardinality(T) = Cardinality(S) + 1
         /\ r \notin S /\ r \notin T => Cardinality(T) = Cardinality(S)
<1>1. CASE T = S
  BY Zenon, <1>1, FS_CardinalityType
<1>2. CASE r \notin S /\ T = S \cup {r}
  BY Zenon, <1>2, AddOne, FS_CardinalityType
<1>3. CASE r \in S /\ T = S \ {r}
  BY Zenon, <1>3, RemoveOne, FS_CardinalityType
<1>4. T = S \/ (r \notin S /\ T = S \cup {r}) \/ (r \in S /\ T = S \ {r})
  <2>1. r \in S => S \cup {r} = S
    BY Zenon
  <2>2. r \notin S => S \ {r} = S
    BY Zenon
  <2> QED
    BY Zenon, <2>1, <2>2
<1> QED
  BY Zenon, <1>1, <1>2, <1>3, <1>4

\* A step of one operation preserves the invariant if it leaves that operation
\* consistent and moves the counters with it.
LEMMA LocalStep ==
  ASSUME IInv, NEW r \in RequestIDs, NEW o \in Operation, NEW e \in Execution,
         operations' = [operations EXCEPT ![r] = o],
         execution' = [execution EXCEPT ![r] = e],
         Consistent(o, e),
         UNCHANGED adminVars,
         activeCount' = activeCount + Count(IsActive(o)) - Count(IsActive(operations[r])),
         wg' = wg + Count(IsActive(o)) - Count(IsActive(operations[r]))
                  + Count(e.stopper = "running") - Count(execution[r].stopper = "running"),
         IsActive(o) => IsActive(operations[r]) \/ Admits
  PROVE  IInv'
<1>1. /\ operations' \in [RequestIDs -> Operation]
      /\ execution' \in [RequestIDs -> Execution]
      /\ operations'[r] = o
      /\ execution'[r] = e
      /\ Local(r)
  BY Zenon, LocalTypes DEF IInv
<1>2. \A q \in RequestIDs : Consistent(operations'[q], execution'[q])
  BY Zenon, <1>1 DEF IInv, Local
<1>3. /\ r \in Active <=> IsActive(operations[r])
      /\ r \in Stoppers <=> execution[r].stopper = "running"
  BY Zenon DEF Active, Stoppers, IsActive
<1>4. /\ IsFiniteSet(Active')
      /\ Cardinality(Active') = Cardinality(Active) + Count(IsActive(o)) - Count(IsActive(operations[r]))
      /\ Cardinality(Active') \in Nat
  <2>1. Active' = Active \cup {r} \/ Active' = Active \ {r}
    BY Zenon, <1>1, LocalSets
  <2>2. r \in Active' <=> IsActive(o)
    BY Zenon, <1>1, LocalSets
  <2>3. IsFiniteSet(Active)
    BY Zenon DEF IInv
  <2> QED
    BY <2>1, <2>2, <2>3, <1>3, LocalCount DEF Count
<1>5. /\ IsFiniteSet(Stoppers')
      /\ Cardinality(Stoppers') = Cardinality(Stoppers)
            + Count(e.stopper = "running") - Count(execution[r].stopper = "running")
      /\ Cardinality(Stoppers') \in Nat
  <2>1. Stoppers' = Stoppers \cup {r} \/ Stoppers' = Stoppers \ {r}
    BY Zenon, <1>1, LocalSets
  <2>2. r \in Stoppers' <=> e.stopper = "running"
    BY Zenon, <1>1, LocalSets
  <2>3. IsFiniteSet(Stoppers)
    BY Zenon, StoppersAreActive
  <2> QED
    BY <2>1, <2>2, <2>3, <1>3, LocalCount DEF Count
<1>6. Cardinality(Active) \in Nat /\ Cardinality(Stoppers) \in Nat
  BY Zenon, StoppersAreActive
<1>7. CapacityRespected'
  <2>1. activeCount' = Cardinality(Active')
    BY Zenon, <1>4, <1>6 DEF IInv, CapacityRespected, Count
  <2>2. activeCount' <= MaxConcurrent
    BY <2>1, <1>6, ConfigAssumption DEF IInv, CapacityRespected, Count, Admits
  <2> QED
    BY Zenon, <2>1, <2>2 DEF CapacityRespected
<1>8. WaitGroupExact'
  BY <1>4, <1>5, <1>6 DEF IInv, WaitGroupExact, adminVars, Count
<1>9. TypeOK'
  BY <1>1, <1>4, <1>5, <1>7, <1>8 DEF IInv, TypeOK, CapacityRespected, WaitGroupExact, adminVars
<1>10. ShutdownConsistent'
  <2>1. shutdownDone => Cardinality(Active) = 0 /\ Cardinality(Stoppers) = 0
    BY <1>6 DEF IInv, ShutdownConsistent, WaitGroupExact
  <2>2. shutdownDone => Active = {}
    BY Zenon, <2>1, FS_EmptySet DEF IInv
  <2>3. shutdownDone => r \notin Active /\ r \notin Stoppers /\ r \notin Active'
    BY Zenon, <2>2, <1>1, <1>3, LocalSets, StoppersAreActive
       DEF IInv, ShutdownConsistent, Admits, IsActive
  <2>4. shutdownDone => r \notin Stoppers'
    <3>1. e.stopper = "running" => IsActive(o)
      BY Zenon DEF Consistent, IsActive, Operation, Execution, Statuses, RunPoints
    <3> QED
      BY Zenon, <3>1, <2>3, <1>1, LocalSets DEF Active, Stoppers, IsActive
  <2>5. shutdownDone => wg' = wg
    BY <2>3, <2>4, <1>1, <1>3 DEF Count, Active, Stoppers, IsActive, IInv, TypeOK
  <2> QED
    BY Zenon, <2>5 DEF IInv, ShutdownConsistent, adminVars
<1> QED
  BY Zenon, <1>2, <1>4, <1>7, <1>8, <1>9, <1>10 DEF IInv

\* What the invariant says about one operation.
LEMMA InvAt ==
  ASSUME IInv, NEW r \in RequestIDs
  PROVE  /\ operations[r] \in Operation
         /\ execution[r] \in Execution
         /\ Consistent(operations[r], execution[r])
         /\ operations = [operations EXCEPT ![r] = operations[r]]
         /\ activeCount \in Nat
         /\ wg \in Nat
BY Zenon DEF IInv, TypeOK

\* The special case of LocalStep for a step of runOperation, of a caller or of
\* a timer that changes only the runtime of r.
LEMMA RuntimeStep ==
  ASSUME IInv, NEW r \in RequestIDs, NEW e \in Execution,
         execution' = [execution EXCEPT ![r] = e],
         e.stopper = execution[r].stopper,
         Consistent(operations[r], e),
         UNCHANGED <<operations, poolVars, adminVars>>
  PROVE  IInv'
<1>1. /\ operations[r] \in Operation
      /\ operations' = [operations EXCEPT ![r] = operations[r]]
  BY Zenon, InvAt
<1>2. /\ activeCount' = activeCount + Count(IsActive(operations[r])) - Count(IsActive(operations[r]))
      /\ wg' = wg + Count(IsActive(operations[r])) - Count(IsActive(operations[r]))
                  + Count(e.stopper = "running") - Count(execution[r].stopper = "running")
  BY InvAt DEF Count, poolVars
<1>3. UNCHANGED adminVars
  BY Zenon
<1> QED
  BY Zenon, <1>1, <1>2, <1>3, LocalStep

\* A launch that begins knows of every stop accepted before it.
LEMMA BeginLaunchIInv ==
  ASSUME IInv, NEW r \in RequestIDs, BeginLaunch(r)
  PROVE  IInv'
<1>1. PICK err \in {"none", "canceled", "deadline"} :
        /\ operations[r].status = "stopping" <=> err # "none"
        /\ execution' = [execution EXCEPT ![r].pc = "launching",
                                          ![r].launchCancel = TRUE,
                                          ![r].launchErr = err]
  BY Zenon DEF BeginLaunch
<1> DEFINE e == [execution[r] EXCEPT !.pc = "launching", !.launchCancel = TRUE, !.launchErr = err]
<1>2. execution[r] \in Execution /\ Consistent(operations[r], execution[r])
  BY Zenon, InvAt
<1>3. e \in Execution /\ e.stopper = execution[r].stopper
  BY Zenon, <1>1, <1>2 DEF Execution, RunPoints
<1>4. execution' = [execution EXCEPT ![r] = e]
  BY Zenon, <1>1, InvAt DEF IInv, TypeOK, Execution
<1>5. Consistent(operations[r], e)
  BY Zenon, <1>1, <1>2 DEF Consistent, Execution, BeginLaunch, At
<1> HIDE DEF e
<1> QED
  BY Zenon, <1>3, <1>4, <1>5, RuntimeStep DEF BeginLaunch

\* The launch timer only ends the launch context.
LEMMA LaunchTimeoutIInv ==
  ASSUME IInv, NEW r \in RequestIDs, LaunchTimeout(r)
  PROVE  IInv'
<1> DEFINE e == [execution[r] EXCEPT !.launchErr = "deadline"]
<1>1. execution[r] \in Execution /\ Consistent(operations[r], execution[r])
  BY Zenon, InvAt
<1>2. e \in Execution /\ e.stopper = execution[r].stopper
  BY Zenon, <1>1 DEF Execution, RunPoints
<1>3. execution' = [execution EXCEPT ![r] = e]
  BY Zenon, InvAt DEF IInv, TypeOK, Execution, LaunchTimeout
<1>4. Consistent(operations[r], e)
  BY Zenon, <1>1 DEF Consistent, Execution, LaunchTimeout, At
<1> HIDE DEF e
<1> QED
  BY Zenon, <1>2, <1>3, <1>4, RuntimeStep DEF LaunchTimeout

\* A launch that ends as canceled had its context canceled.
LEMMA StartReturnsIInv ==
  ASSUME IInv, NEW r \in RequestIDs, StartReturns(r)
  PROVE  IInv'
<1>1. PICK err \in {"none", "error", execution[r].launchErr} :
        execution' = [execution EXCEPT ![r].startErr = err,
                        ![r].pc = IF err = "none" THEN "started" ELSE "startFailed"]
  BY Zenon DEF StartReturns
<1> DEFINE e == [execution[r] EXCEPT !.startErr = err, !.pc = IF err = "none" THEN "started" ELSE "startFailed"]
<1>2. execution[r] \in Execution /\ Consistent(operations[r], execution[r])
  BY Zenon, InvAt
<1>3. e \in Execution /\ e.stopper = execution[r].stopper
  BY ZenonT(30), <1>1, <1>2 DEF Execution, RunPoints
<1>4. execution' = [execution EXCEPT ![r] = e]
  BY ZenonT(30), <1>1, InvAt DEF IInv, TypeOK, Execution
<1>5. Consistent(operations[r], e)
  BY Zenon, <1>1, <1>2 DEF Consistent, Execution, StartReturns, At
<1> HIDE DEF e
<1> QED
  BY Zenon, <1>3, <1>4, <1>5, RuntimeStep DEF StartReturns

\* The return of Executor.Wait changes no shared state.
LEMMA WaitReturnsIInv ==
  ASSUME IInv, NEW r \in RequestIDs, WaitReturns(r)
  PROVE  IInv'
<1>1. PICK err \in BOOLEAN :
        execution' = [execution EXCEPT ![r].pc = "exited", ![r].waitErr = err]
  BY Zenon DEF WaitReturns
<1> DEFINE e == [execution[r] EXCEPT !.pc = "exited", !.waitErr = err]
<1>2. execution[r] \in Execution /\ Consistent(operations[r], execution[r])
  BY Zenon, InvAt
<1>3. e \in Execution /\ e.stopper = execution[r].stopper
  BY Zenon, <1>1, <1>2 DEF Execution, RunPoints
<1>4. execution' = [execution EXCEPT ![r] = e]
  BY Zenon, <1>1, InvAt DEF IInv, TypeOK, Execution
<1>5. Consistent(operations[r], e)
  BY Zenon, <1>1, <1>2 DEF Consistent, Execution, WaitReturns, At
<1> HIDE DEF e
<1> QED
  BY Zenon, <1>3, <1>4, <1>5, RuntimeStep DEF WaitReturns

\* After the stop result was taken the stop goroutine is gone.
LEMMA CollectStopResultIInv ==
  ASSUME IInv, NEW r \in RequestIDs, CollectStopResult(r)
  PROVE  IInv'
<1> DEFINE e == [execution[r] EXCEPT !.pc = "finalizing"]
<1>1. execution[r] \in Execution /\ Consistent(operations[r], execution[r])
  BY Zenon, InvAt
<1>2. e \in Execution /\ e.stopper = execution[r].stopper
  BY Zenon, <1>1 DEF Execution, RunPoints
<1>3. execution' = [execution EXCEPT ![r] = e]
  BY Zenon, InvAt DEF IInv, TypeOK, Execution, CollectStopResult
<1>4. Consistent(operations[r], e)
  BY Zenon, <1>1 DEF Consistent, Execution, CollectStopResult, At
<1> HIDE DEF e
<1> QED
  BY Zenon, <1>2, <1>3, <1>4, RuntimeStep DEF CollectStopResult

\* Calling launchCancel keeps the promise cancelPending stands for.
LEMMA CancelLaunchIInv ==
  ASSUME IInv, NEW r \in RequestIDs, CancelLaunch(r)
  PROVE  IInv'
<1>1. PICK err \in {"none", "canceled", "deadline"} :
        /\ err = IF execution[r].pc = "launching" /\ execution[r].launchErr = "none"
                 THEN "canceled" ELSE execution[r].launchErr
        /\ execution' = [execution EXCEPT ![r].cancelPending = FALSE,
                                          ![r].launchErr = err]
  BY Zenon, InvAt DEF CancelLaunch, Execution
<1> DEFINE e == [execution[r] EXCEPT !.cancelPending = FALSE, !.launchErr = err]
<1>2. execution[r] \in Execution /\ Consistent(operations[r], execution[r])
  BY Zenon, InvAt
<1>3. e \in Execution /\ e.stopper = execution[r].stopper
  BY ZenonT(30), <1>1, <1>2 DEF Execution, RunPoints
<1>4. execution' = [execution EXCEPT ![r] = e]
  BY Zenon, <1>1, InvAt DEF IInv, TypeOK, Execution
<1>5. Consistent(operations[r], e)
  BY SMTT(30), <1>1, <1>2 DEF Consistent, Execution, CancelLaunch, At
<1> HIDE DEF e
<1> QED
  BY Zenon, <1>3, <1>4, <1>5, RuntimeStep DEF CancelLaunch

\* A record that names no operation may be dropped or marked expired.
LEMMA RecordStep ==
  ASSUME IInv, NEW r \in RequestIDs, NEW o \in Operation,
         operations' = [operations EXCEPT ![r] = o],
         operations[r].status \in {"absent", "terminal"},
         o.status \in {"absent", "terminal"},
         Consistent(o, execution[r]),
         UNCHANGED <<execution, poolVars, adminVars>>
  PROVE  IInv'
<1>1. /\ execution[r] \in Execution
      /\ execution' = [execution EXCEPT ![r] = execution[r]]
  BY Zenon DEF IInv, TypeOK
<1>2. ~IsActive(o) /\ ~IsActive(operations[r])
  BY Zenon DEF IsActive
<1>3. /\ activeCount' = activeCount + Count(IsActive(o)) - Count(IsActive(operations[r]))
      /\ wg' = wg + Count(IsActive(o)) - Count(IsActive(operations[r]))
                  + Count(execution[r].stopper = "running") - Count(execution[r].stopper = "running")
  BY <1>2, InvAt DEF Count, poolVars
<1> QED
  BY Zenon, <1>1, <1>2, <1>3, LocalStep

\* A record that was deleted fits a runtime that does not exist.
LEMMA AbsentConsistent ==
  /\ Absent \in Operation
  /\ NoExecution \in Execution
  /\ Consistent(Absent, NoExecution)
  /\ \A e \in Execution, o \in Operation :
       o.status \in {"absent", "terminal"} /\ Consistent(o, e) => Consistent(Absent, e)
BY SMTT(30) DEF Absent, NoExecution, Operation, Execution, Statuses, RunPoints, Consistent

\* Start: admission takes a slot and a WaitGroup unit; a refusal takes none.
LEMMA StartIInv ==
  ASSUME IInv, NEW r \in RequestIDs, Start(r)
  PROVE  IInv'
<1>1. /\ operations[r].status \in {"absent", "terminal"}
      /\ operations[r] \in Operation
      /\ execution[r] \in Execution
      /\ Consistent(operations[r], execution[r])
  BY Zenon, InvAt DEF Start, IsRetained, IsExpired
<1>2. CASE Admits
  <2> DEFINE o == [Absent EXCEPT !.status = "pending"]
             e == [NoExecution EXCEPT !.pc = "registered"]
  <2>1. /\ operations' = [operations EXCEPT ![r] = o]
        /\ execution' = [execution EXCEPT ![r] = e]
        /\ activeCount' = activeCount + 1
        /\ wg' = wg + 1
        /\ UNCHANGED adminVars
    BY Zenon, <1>2 DEF Start
  <2>2. o \in Operation /\ e \in Execution /\ Consistent(o, e)
    BY Zenon DEF Absent, NoExecution, Operation, Execution, Statuses, RunPoints, Consistent
  <2>3. IsActive(o) /\ ~IsActive(operations[r])
    BY Zenon, <1>1 DEF IsActive, Absent
  <2>4. e.stopper # "running" /\ execution[r].stopper # "running"
    BY Zenon, <1>1 DEF NoExecution, Consistent
  <2> HIDE DEF o, e
  <2>5. /\ activeCount' = activeCount + Count(IsActive(o)) - Count(IsActive(operations[r]))
        /\ wg' = wg + Count(IsActive(o)) - Count(IsActive(operations[r]))
                    + Count(e.stopper = "running") - Count(execution[r].stopper = "running")
    BY <2>1, <2>3, <2>4, InvAt DEF Count
  <2> QED
    BY Zenon, <1>2, <2>1, <2>2, <2>5, LocalStep
<1>3. CASE ~Admits
  BY Zenon, <1>1, <1>3, AbsentConsistent, RecordStep DEF Start, Absent
<1> QED
  BY Zenon, <1>2, <1>3

\* The end of the retention period concerns terminal records only.
LEMMA ExpireIInv ==
  ASSUME IInv, NEW r \in RequestIDs, Expire(r)
  PROVE  IInv'
<1> DEFINE o == [operations[r] EXCEPT !.isExpired = TRUE]
<1>1. /\ operations[r] \in Operation
      /\ Consistent(operations[r], execution[r])
  BY Zenon, InvAt
<1>2. /\ o \in Operation /\ o.status = "terminal"
      /\ Consistent(o, execution[r])
  BY Zenon, <1>1 DEF Expire, Operation, Consistent
<1>3. operations' = [operations EXCEPT ![r] = o]
  BY Zenon DEF Expire, IInv, TypeOK, Operation
<1> HIDE DEF o
<1> QED
  BY Zenon, <1>2, <1>3, RecordStep DEF Expire

\* StopByID: a pending operation is canceled, a running one gets a stopper.
LEMMA StopByIDIInv ==
  ASSUME IInv, NEW r \in RequestIDs, StopByID(r)
  PROVE  IInv'
<1>1. /\ operations[r] \in Operation
      /\ execution[r] \in Execution
      /\ Consistent(operations[r], execution[r])
  BY Zenon, InvAt
<1>2. CASE IsExpired(r) /\ ~CanRequestStop(r)
  BY Zenon, <1>1, <1>2, AbsentConsistent, RecordStep DEF StopByID, Absent, IsExpired, poolVars
<1>3. CASE CanRequestStop(r)
  <2> DEFINE o == [operations[r] EXCEPT !.status = "stopping"]
             e == StopRequested(r)
  <2>1. ~IsExpired(r)
    BY Zenon, <1>3 DEF CanRequestStop, IsExpired
  <2>2. /\ operations' = [operations EXCEPT ![r] = o]
        /\ execution' = [execution EXCEPT ![r] = e]
        /\ activeCount' = activeCount
        /\ wg' = IF SpawnsStopper(r) THEN wg + 1 ELSE wg
        /\ UNCHANGED adminVars
    BY Zenon, <2>1 DEF StopByID, IInv, TypeOK, Operation
  <2>3. o \in Operation /\ e \in Execution
    BY Zenon, <1>1 DEF Operation, Execution, Statuses, StopRequested
  <2>4. Consistent(o, e)
    BY SMTT(30), <1>1, <1>3 DEF Operation, Execution, RunPoints, Consistent, StopRequested, CanRequestStop, CanPrepareStop
  <2>5. IsActive(o) /\ IsActive(operations[r])
    BY Zenon, <1>1, <1>3 DEF IsActive, CanRequestStop, Operation
  <2>6. /\ execution[r].stopper # "running"
        /\ e.stopper = "running" <=> SpawnsStopper(r)
    BY Zenon, <1>1, <1>3 DEF Execution, RunPoints, Consistent, StopRequested, CanRequestStop, CanPrepareStop, SpawnsStopper
  <2> HIDE DEF o, e
  <2>7. /\ activeCount' = activeCount + Count(IsActive(o)) - Count(IsActive(operations[r]))
        /\ wg' = wg + Count(IsActive(o)) - Count(IsActive(operations[r]))
                    + Count(e.stopper = "running") - Count(execution[r].stopper = "running")
    BY <2>2, <2>5, <2>6, InvAt DEF Count
  <2> QED
    BY Zenon, <2>2, <2>3, <2>4, <2>5, <2>7, LocalStep
<1> QED
  BY Zenon, <1>2, <1>3 DEF StopByID

\* Both ways to end an operation release exactly what Start acquired.
LEMMA CommitTerminalIInv ==
  ASSUME IInv, NEW r \in RequestIDs,
         NEW outcome \in Outcomes, NEW reason \in FailureReasons \cup {"none"},
         IsActive(operations[r]), execution[r].stopper # "running",
         CommitTerminal(r, outcome, reason), UNCHANGED adminVars
  PROVE  IInv'
<1> DEFINE o == [Absent EXCEPT !.status = "terminal", !.outcome = outcome, !.reason = reason]
<1>1. /\ operations' = [operations EXCEPT ![r] = o]
      /\ execution' = [execution EXCEPT ![r] = NoExecution]
      /\ activeCount' = activeCount - 1
      /\ wg' = wg - 1
  BY Zenon DEF CommitTerminal
<1>2. o \in Operation /\ NoExecution \in Execution /\ Consistent(o, NoExecution)
  BY Zenon DEF Absent, NoExecution, Operation, Execution, Statuses, RunPoints, Consistent
<1>3. ~IsActive(o) /\ NoExecution.stopper # "running"
  BY Zenon DEF IsActive, Absent, NoExecution
<1> HIDE DEF o
<1>4. /\ activeCount' = activeCount + Count(IsActive(o)) - Count(IsActive(operations[r]))
      /\ wg' = wg + Count(IsActive(o)) - Count(IsActive(operations[r]))
                  + Count(NoExecution.stopper = "running") - Count(execution[r].stopper = "running")
  BY <1>1, <1>3, InvAt DEF Count
<1> QED
  BY Zenon, <1>1, <1>2, <1>3, <1>4, LocalStep

\* A failed launch ends the operation before it had a stopper.
LEMMA FinishStartFailureIInv ==
  ASSUME IInv, NEW r \in RequestIDs, FinishStartFailure(r)
  PROVE  IInv'
<1>1. IsActive(operations[r]) /\ execution[r].stopper # "running"
  BY Zenon, InvAt DEF FinishStartFailure, At, Consistent, IsActive
<1>2. PICK outcome \in Outcomes, reason \in FailureReasons \cup {"none"} :
        CommitTerminal(r, outcome, reason)
  BY Zenon DEF FinishStartFailure, Outcomes, FailureReasons
<1> QED
  BY Zenon, <1>1, <1>2, CommitTerminalIInv DEF FinishStartFailure

\* Finalization ends the operation after its stopper was joined.
LEMMA FinalizeReturnsIInv ==
  ASSUME IInv, NEW r \in RequestIDs, FinalizeReturns(r)
  PROVE  IInv'
<1>1. IsActive(operations[r]) /\ execution[r].stopper # "running"
  BY Zenon, InvAt DEF FinalizeReturns, At, Consistent, IsActive
<1>2. PICK outcome \in Outcomes, reason \in FailureReasons \cup {"none"} :
        CommitTerminal(r, outcome, reason)
  BY Zenon DEF FinalizeReturns, Outcomes, FailureReasons, ClassifyExecution, ClassifyFinalization
<1> QED
  BY Zenon, <1>1, <1>2, CommitTerminalIInv DEF FinalizeReturns

\* A launched operation runs, or gets the stopper it was asked for meanwhile.
LEMMA RecordStartedIInv ==
  ASSUME IInv, NEW r \in RequestIDs, RecordStarted(r)
  PROVE  IInv'
<1> DEFINE stopping == operations[r].status = "stopping"
           o == [operations[r] EXCEPT !.status = IF @ = "pending" THEN "running" ELSE @]
           e == [execution[r] EXCEPT !.pc = "waiting", !.launchCancel = FALSE,
                   !.stopper = IF stopping /\ CanPrepareStop(r) THEN "running" ELSE @]
<1>1. /\ operations[r] \in Operation
      /\ execution[r] \in Execution
      /\ Consistent(operations[r], execution[r])
      /\ CanPrepareStop(r)
  BY Zenon, InvAt DEF RecordStarted, At, Consistent, CanPrepareStop
<1>2. /\ operations' = [operations EXCEPT ![r] = o]
      /\ execution' = [execution EXCEPT ![r] = e]
      /\ activeCount' = activeCount
      /\ wg' = IF stopping THEN wg + 1 ELSE wg
      /\ UNCHANGED adminVars
  BY Zenon, <1>1 DEF RecordStarted, IInv, TypeOK, Operation, Execution
<1>3. o \in Operation /\ e \in Execution
  BY ZenonT(30), <1>1 DEF Operation, Execution, Statuses, RunPoints
<1>4. Consistent(o, e)
  BY ZenonT(30), <1>1 DEF Operation, Execution, RunPoints, Consistent, CanPrepareStop, RecordStarted, At
<1>5. IsActive(o) /\ IsActive(operations[r])
  BY Zenon, <1>1 DEF IsActive, Consistent, RecordStarted, At, Operation
<1>6. /\ execution[r].stopper # "running"
      /\ e.stopper = "running" <=> stopping
  BY Zenon, <1>1 DEF Execution, CanPrepareStop
<1> HIDE DEF o, e, stopping
<1>7. /\ activeCount' = activeCount + Count(IsActive(o)) - Count(IsActive(operations[r]))
      /\ wg' = wg + Count(IsActive(o)) - Count(IsActive(operations[r]))
                  + Count(e.stopper = "running") - Count(execution[r].stopper = "running")
  BY <1>2, <1>5, <1>6, InvAt DEF Count
<1> QED
  BY Zenon, <1>2, <1>3, <1>4, <1>5, <1>7, LocalStep

\* From here on no stop request is accepted, and the mode is fixed.
LEMMA BeginFinalizeIInv ==
  ASSUME IInv, NEW r \in RequestIDs, BeginFinalize(r)
  PROVE  IInv'
<1> DEFINE stopRequested == operations[r].status = "stopping"
           o == [operations[r] EXCEPT !.isFinalizing = TRUE]
           e == [execution[r] EXCEPT
                   !.pc = IF execution[r].stopper # "none" THEN "collecting" ELSE "finalizing",
                   !.stopRequested = stopRequested,
                   !.mode = IF ~stopRequested /\ ~execution[r].waitErr THEN "publish" ELSE "discard"]
<1>1. /\ operations[r] \in Operation
      /\ execution[r] \in Execution
      /\ Consistent(operations[r], execution[r])
  BY Zenon, InvAt
<1>2. /\ operations' = [operations EXCEPT ![r] = o]
      /\ execution' = [execution EXCEPT ![r] = e]
      /\ UNCHANGED <<poolVars, adminVars>>
  BY Zenon, <1>1 DEF BeginFinalize, IInv, TypeOK, Operation, Execution
<1>3. o \in Operation
  BY Zenon, <1>1 DEF Operation
<1>4. e \in Execution /\ Consistent(o, e)
  <2>1. CASE stopRequested
    <3>1. execution[r].pc = "exited" /\ execution[r].stopper # "none"
      BY Zenon, <1>1, <2>1 DEF Consistent, BeginFinalize, At
    <3>2. e = [execution[r] EXCEPT !.pc = "collecting", !.stopRequested = TRUE, !.mode = "discard"]
      BY Zenon, <2>1, <3>1
    <3> QED
      BY ZenonT(30), <1>1, <2>1, <3>1, <3>2 DEF Operation, Execution, RunPoints, Consistent
  <2>2. CASE ~stopRequested
    <3>1. execution[r].pc = "exited" /\ execution[r].stopper = "none" /\ operations[r].status = "running"
      BY Zenon, <1>1, <2>2 DEF Consistent, BeginFinalize, At
    <3>2. PICK m \in {"publish", "discard"} :
            e = [execution[r] EXCEPT !.pc = "finalizing", !.stopRequested = FALSE, !.mode = m]
      BY Zenon, <2>2, <3>1
    <3> QED
      BY ZenonT(30), <1>1, <2>2, <3>1, <3>2 DEF Operation, Execution, RunPoints, Consistent
  <2> QED
    BY Zenon, <2>1, <2>2
<1>5. IsActive(o) <=> IsActive(operations[r])
  BY Zenon, <1>1 DEF IsActive, Operation
<1>6. e.stopper = execution[r].stopper
  BY Zenon, <1>1 DEF Execution
<1> HIDE DEF o, e
<1>7. /\ activeCount' = activeCount + Count(IsActive(o)) - Count(IsActive(operations[r]))
      /\ wg' = wg + Count(IsActive(o)) - Count(IsActive(operations[r]))
                  + Count(e.stopper = "running") - Count(execution[r].stopper = "running")
  BY <1>2, <1>5, <1>6, InvAt DEF Count, poolVars
<1> QED
  BY Zenon, <1>2, <1>3, <1>4, <1>5, <1>7, LocalStep

\* The stop goroutine gives back its WaitGroup unit.
LEMMA StopReturnsIInv ==
  ASSUME IInv, NEW r \in RequestIDs, StopReturns(r)
  PROVE  IInv'
<1>1. PICK result \in {"ok", "error"} :
        execution' = [execution EXCEPT ![r].stopper = result]
  BY Zenon DEF StopReturns
<1> DEFINE e == [execution[r] EXCEPT !.stopper = result]
<1>2. /\ operations[r] \in Operation
      /\ execution[r] \in Execution
      /\ Consistent(operations[r], execution[r])
      /\ operations' = [operations EXCEPT ![r] = operations[r]]
      /\ UNCHANGED adminVars
  BY Zenon, InvAt DEF StopReturns
<1>3. e \in Execution /\ e.stopper # "running"
  BY Zenon, <1>2 DEF Execution
<1>4. execution' = [execution EXCEPT ![r] = e]
  BY Zenon, <1>1 DEF IInv, TypeOK, Execution
<1>5. Consistent(operations[r], e)
  BY Zenon, <1>2 DEF Execution, RunPoints, Consistent, StopReturns
<1> HIDE DEF e
<1>6. /\ activeCount' = activeCount + Count(IsActive(operations[r])) - Count(IsActive(operations[r]))
      /\ wg' = wg + Count(IsActive(operations[r])) - Count(IsActive(operations[r]))
                  + Count(e.stopper = "running") - Count(execution[r].stopper = "running")
  BY <1>3, InvAt DEF Count, StopReturns
<1> QED
  BY Zenon, <1>2, <1>3, <1>4, <1>5, <1>6, LocalStep

-----------------------------------------------------------------------------
(* Steps of the manager as a whole. *)

\* Closing admission touches no operation.
LEMMA BeginShutdownIInv == IInv /\ BeginShutdown => IInv'
<1> SUFFICES ASSUME IInv, BeginShutdown PROVE IInv'
  BY Zenon
<1>1. Active' = Active /\ Stoppers' = Stoppers
  BY Zenon DEF BeginShutdown, Active, Stoppers, opVars
<1> QED
  BY Zenon, <1>1 DEF BeginShutdown, IInv, TypeOK, CapacityRespected, WaitGroupExact,
              ShutdownConsistent, opVars, poolVars

\* wg.Wait returns only when the counter is zero.
LEMMA ShutdownWaitedIInv == IInv /\ ShutdownWaited => IInv'
<1> SUFFICES ASSUME IInv, ShutdownWaited PROVE IInv'
  BY Zenon
<1>1. Active' = Active /\ Stoppers' = Stoppers
  BY Zenon DEF ShutdownWaited, Active, Stoppers, opVars
<1> QED
  BY Zenon, <1>1 DEF ShutdownWaited, IInv, TypeOK, CapacityRespected, WaitGroupExact,
              ShutdownConsistent, opVars, poolVars

\* The cleanup loop gives back its WaitGroup unit.
LEMMA CleanupExitIInv == IInv /\ CleanupExit => IInv'
<1> SUFFICES ASSUME IInv, CleanupExit PROVE IInv'
  BY Zenon
<1>1. Active' = Active /\ Stoppers' = Stoppers
  BY Zenon DEF CleanupExit, Active, Stoppers, opVars
<1>2. /\ Cardinality(Active) \in Nat /\ Cardinality(Stoppers) \in Nat
      /\ wg = Cardinality(Active) + Cardinality(Stoppers) + 1
      /\ wg' = wg - 1
  <2>1. cleanupRunning /\ wg' = wg - 1
    BY Zenon DEF CleanupExit
  <2>2. WaitGroupExact
    BY Zenon DEF IInv
  <2> QED
    BY Zenon, <2>1, <2>2, StoppersAreActive DEF WaitGroupExact
<1>3. ~shutdownDone
  BY <1>2 DEF IInv, ShutdownConsistent
<1>4. /\ cleanupRunning' = FALSE /\ shutdownStarted
      /\ UNCHANGED <<operations, execution, activeCount, isAccepting, shutdownStarted, shutdownDone>>
  BY Zenon DEF CleanupExit, opVars
<1>5. wg' = Cardinality(Active) + Cardinality(Stoppers) /\ wg' \in Nat
  BY <1>2
<1>6. WaitGroupExact'
  BY <1>1, <1>2, <1>4, <1>5 DEF WaitGroupExact
<1>7. TypeOK'
  BY Zenon, <1>4, <1>5 DEF IInv, TypeOK
<1>8. ShutdownConsistent'
  BY Zenon, <1>3, <1>4 DEF IInv, ShutdownConsistent
<1> QED
  BY Zenon, <1>1, <1>4, <1>6, <1>7, <1>8 DEF IInv, CapacityRespected

\* cleanupExpired deletes only records without a runtime.
LEMMA CleanupExpiredIInv == IInv /\ CleanupExpired => IInv'
<1> SUFFICES ASSUME IInv, CleanupExpired PROVE IInv'
  BY Zenon
<1>1. PICK S \in SUBSET {r \in RequestIDs : IsExpired(r)} :
        operations' = [r \in RequestIDs |-> IF r \in S THEN Absent ELSE operations[r]]
  BY Zenon DEF CleanupExpired
<1>2. UNCHANGED <<execution, activeCount, wg, isAccepting, cleanupRunning, shutdownStarted, shutdownDone>>
  BY Zenon DEF CleanupExpired, poolVars, adminVars
<1>3. Active' = Active /\ Stoppers' = Stoppers
  BY Zenon, <1>1, <1>2 DEF Active, Stoppers, IsExpired, Absent
<1>4. operations' \in [RequestIDs -> Operation]
  BY Zenon, <1>1, AbsentConsistent DEF IInv, TypeOK
<1>5. \A r \in RequestIDs : Consistent(operations'[r], execution'[r])
  <2> TAKE r \in RequestIDs
  <2>1. CASE r \in S
    <3>1. operations[r].status \in {"absent", "terminal"}
      BY Zenon, <2>1 DEF IsExpired
    <3>2. Consistent(Absent, execution[r])
      BY Zenon, <3>1, InvAt, AbsentConsistent
    <3> QED
      BY Zenon, <1>1, <1>2, <2>1, <3>2
  <2>2. CASE r \notin S
    BY Zenon, <1>1, <1>2, <2>2 DEF IInv
  <2> QED
    BY Zenon, <2>1, <2>2
<1> QED
  BY Zenon, <1>2, <1>3, <1>4, <1>5 DEF IInv, TypeOK, CapacityRespected, WaitGroupExact, ShutdownConsistent

\* What requestStopLocked makes of one operation, for StartShutdown.
LEMMA StopRequestedConsistent ==
  ASSUME IInv, NEW r \in RequestIDs, CanRequestStop(r)
  PROVE  LET o == [operations[r] EXCEPT !.status = "stopping"] IN
         /\ o \in Operation
         /\ StopRequested(r) \in Execution
         /\ Consistent(o, StopRequested(r))
         /\ r \in Active
         /\ IsActive(o)
         /\ execution[r].stopper # "running"
         /\ StopRequested(r).stopper = "running" <=> SpawnsStopper(r)
<1>1. /\ operations[r] \in Operation
      /\ execution[r] \in Execution
      /\ Consistent(operations[r], execution[r])
  BY Zenon, InvAt
<1>2. /\ [operations[r] EXCEPT !.status = "stopping"] \in Operation
      /\ StopRequested(r) \in Execution
  BY Zenon, <1>1 DEF Operation, Execution, Statuses, StopRequested
<1>3. Consistent([operations[r] EXCEPT !.status = "stopping"], StopRequested(r))
  BY Zenon, <1>1 DEF Operation, Execution, RunPoints, Consistent, StopRequested, CanRequestStop, CanPrepareStop
<1>4. /\ r \in Active
      /\ IsActive([operations[r] EXCEPT !.status = "stopping"])
  BY Zenon, <1>1 DEF Active, IsActive, CanRequestStop, Operation
<1>5. /\ execution[r].stopper # "running"
      /\ StopRequested(r).stopper = "running" <=> SpawnsStopper(r)
  BY Zenon, <1>1 DEF Execution, RunPoints, Consistent, StopRequested, CanRequestStop, CanPrepareStop, SpawnsStopper
<1> QED
  BY Zenon, <1>2, <1>3, <1>4, <1>5

\* startShutdown adds one WaitGroup unit for each stopper it prepares.
LEMMA StartShutdownIInv == IInv /\ StartShutdown => IInv'
<1> SUFFICES ASSUME IInv, StartShutdown PROVE IInv'
  BY Zenon
<1> DEFINE N == {r \in RequestIDs : CanRequestStop(r) /\ SpawnsStopper(r)}
<1>1. \A r \in RequestIDs :
        /\ CanRequestStop(r) => /\ operations'[r] = [operations[r] EXCEPT !.status = "stopping"]
                                /\ execution'[r] = StopRequested(r)
        /\ ~CanRequestStop(r) => operations'[r] = operations[r] /\ execution'[r] = execution[r]
  BY Zenon DEF StartShutdown
<1>2. \A r \in RequestIDs :
        /\ operations'[r] \in Operation
        /\ execution'[r] \in Execution
        /\ Consistent(operations'[r], execution'[r])
        /\ IsActive(operations'[r]) <=> IsActive(operations[r])
        /\ execution'[r].stopper = "running" <=> r \in Stoppers \/ r \in N
        /\ r \in N => r \in Active /\ r \notin Stoppers
  <2> TAKE r \in RequestIDs
  <2>1. CASE CanRequestStop(r)
    BY Zenon, <1>1, <2>1, StopRequestedConsistent DEF Stoppers, Active, IsActive
  <2>2. CASE ~CanRequestStop(r)
    BY Zenon, <1>1, <2>2, InvAt DEF Stoppers
  <2> QED
    BY Zenon, <2>1, <2>2
<1> HIDE DEF N
<1>3. Active' = Active
  BY Zenon, <1>2 DEF Active, IsActive
<1>4. Stoppers' = Stoppers \cup N /\ Stoppers \cap N = {} /\ N \subseteq Active
  BY Zenon, <1>2 DEF Stoppers, N
<1>5. Cardinality(Stoppers') = Cardinality(Stoppers) + Cardinality(N) /\ Cardinality(N) \in Nat
  <2>1. IsFiniteSet(N) /\ IsFiniteSet(Stoppers)
    BY Zenon, <1>4, FS_Subset, StoppersAreActive DEF IInv
  <2>2. Cardinality(Stoppers \cup N) = Cardinality(Stoppers) + Cardinality(N) - Cardinality(Stoppers \cap N)
    BY Zenon, <2>1, FS_Union
  <2>3. Cardinality(Stoppers \cap N) = 0
    BY Zenon, <1>4, FS_EmptySet
  <2> QED
    BY <2>1, <2>2, <2>3, <1>4, FS_CardinalityType
<1>6. wg' = wg + Cardinality(N)
  BY Zenon DEF StartShutdown, N
<1>7. WaitGroupExact' /\ wg' \in Nat
  BY <1>3, <1>5, <1>6, StoppersAreActive DEF IInv, WaitGroupExact, StartShutdown, TypeOK
<1>8. operations' \in [RequestIDs -> Operation] /\ execution' \in [RequestIDs -> Execution]
  BY Zenon, <1>2 DEF StartShutdown
<1> QED
  BY Zenon, <1>2, <1>3, <1>7, <1>8 DEF IInv, TypeOK, CapacityRespected, ShutdownConsistent, StartShutdown

\* Every step keeps the invariant.
LEMMA NextIInv == IInv /\ [Next]_vars => IInv'
<1> SUFFICES ASSUME IInv, [Next]_vars PROVE IInv'
  BY Zenon
<1>1. ASSUME NEW r \in RequestIDs, Caller(r) PROVE IInv'
  BY Zenon, <1>1, StartIInv, StopByIDIInv, CancelLaunchIInv DEF Caller
<1>2. ASSUME NEW r \in RequestIDs, Runner(r) PROVE IInv'
  BY Zenon, <1>2, BeginLaunchIInv, StartReturnsIInv, FinishStartFailureIInv, RecordStartedIInv,
     WaitReturnsIInv, BeginFinalizeIInv, CollectStopResultIInv, FinalizeReturnsIInv DEF Runner
<1>3. ASSUME NEW r \in RequestIDs, StopReturns(r) \/ LaunchTimeout(r) \/ Expire(r) PROVE IInv'
  BY Zenon, <1>3, StopReturnsIInv, LaunchTimeoutIInv, ExpireIInv
<1>4. ASSUME Admin PROVE IInv'
  BY Zenon, <1>4, BeginShutdownIInv, StartShutdownIInv, ShutdownWaitedIInv, CleanupExpiredIInv,
     CleanupExitIInv DEF Admin
<1>5. ASSUME UNCHANGED vars PROVE IInv'
  <2>1. Active' = Active /\ Stoppers' = Stoppers
    BY Zenon, <1>5 DEF vars, opVars, Active, Stoppers
  <2> QED
    BY Zenon, <1>5, <2>1 DEF IInv, TypeOK, CapacityRespected, WaitGroupExact, ShutdownConsistent,
                      vars, opVars, poolVars, adminVars
<1> QED
  BY Zenon, <1>1, <1>2, <1>3, <1>4, <1>5 DEF Next

\* The manager's bookkeeping is exact in every reachable state: activeCount
\* and wg count the operations and goroutines that exist, and each operation's
\* record agrees with the point its goroutine has reached.
THEOREM Invariance == Spec => []IInv
<1>1. Init => IInv
  BY Zenon, InitIInv
<1>2. IInv /\ [Next]_vars => IInv'
  BY Zenon, NextIInv
<1> QED
  BY <1>1, <1>2, PTL DEF Spec

\* The manager's state is well typed; activeCount and wg are never negative.
THEOREM TypeCorrect == Spec => []TypeOK
<1>1. IInv => TypeOK
  BY Zenon DEF IInv
<1> QED
  BY <1>1, Invariance, PTL

\* Start never admits more than MaxConcurrent unfinished operations, and
\* activeCount counts them exactly, for every limit and set of request IDs.
THEOREM Capacity == Spec => []CapacityRespected
<1>1. IInv => CapacityRespected
  BY Zenon DEF IInv
<1> QED
  BY <1>1, Invariance, PTL

\* runOperation never finalizes while Executor.Stop is still in progress.
THEOREM StopJoined == Spec => []StopJoinedBeforeFinalize
<1>1. IInv => StopJoinedBeforeFinalize
  BY Zenon DEF IInv, StopJoinedBeforeFinalize, Stoppers, TypeOK, Execution, RunPoints, Consistent
<1> QED
  BY <1>1, Invariance, PTL

\* A stop request always reaches a launch in progress.
THEOREM StopReaches == Spec => []StopReachesLaunch
<1>1. IInv => StopReachesLaunch
  BY Zenon DEF IInv, StopReachesLaunch, At, Consistent
<1> QED
  BY <1>1, Invariance, PTL

\* When Shutdown has returned success nothing of the manager is running.
THEOREM Quiescence == Spec => []ShutdownQuiescent
<1>1. IInv => ShutdownQuiescent
  <2> SUFFICES ASSUME IInv, shutdownDone PROVE ShutdownQuiescent
    BY Zenon DEF ShutdownQuiescent
  <2>1. wg = 0
    BY Zenon DEF IInv, ShutdownConsistent
  <2>2. Cardinality(Active) = 0 /\ Cardinality(Stoppers) = 0 /\ ~cleanupRunning
    BY <2>1, StoppersAreActive DEF IInv, WaitGroupExact, TypeOK
  <2>3. Active = {} /\ Stoppers = {}
    BY Zenon, <2>2, FS_EmptySet, StoppersAreActive DEF IInv
  <2>4. \A r \in RequestIDs : At(r, "idle")
    BY Zenon, <2>3, InvAt DEF Active, At, Consistent, Operation, Statuses
  <2> QED
    BY Zenon, <2>2, <2>3, <2>4 DEF ShutdownQuiescent
<1> QED
  BY <1>1, Invariance, PTL

\* A stopping operation leaves that status only for a terminal outcome other
\* than completed: the argument behind AcceptedStopHonoured, by the step taken.
LEMMA StoppingStep ==
  ASSUME IInv, [Next]_vars, NEW r \in RequestIDs, operations[r].status = "stopping"
  PROVE  \/ operations'[r].status = "stopping"
         \/ operations'[r].status = "terminal" /\ operations'[r].outcome # "completed"
<1> DEFINE Goal == \/ operations'[r].status = "stopping"
                   \/ operations'[r].status = "terminal" /\ operations'[r].outcome # "completed"
<1> USE DEF Goal
<1>1. /\ operations[r] \in Operation
      /\ execution[r] \in Execution
      /\ Consistent(operations[r], execution[r])
      /\ operations \in [RequestIDs -> Operation]
  BY Zenon, InvAt DEF IInv, TypeOK
<1>2. ASSUME NEW q \in RequestIDs,
             BeginLaunch(q) \/ LaunchTimeout(q) \/ StartReturns(q) \/ WaitReturns(q)
             \/ CollectStopResult(q) \/ StopReturns(q) \/ CancelLaunch(q)
      PROVE  Goal
  BY Zenon, <1>2 DEF BeginLaunch, LaunchTimeout, StartReturns, WaitReturns, CollectStopResult,
              StopReturns, CancelLaunch
<1>3. ASSUME NEW q \in RequestIDs, Start(q) \/ StopByID(q) \/ Expire(q)
      PROVE  Goal
  BY Zenon, <1>1, <1>3 DEF Start, StopByID, Expire, IsRetained, IsExpired, CanRequestStop, Operation
<1>4. ASSUME NEW q \in RequestIDs, RecordStarted(q) \/ BeginFinalize(q)
      PROVE  Goal
  BY <1>1, <1>4 DEF RecordStarted, BeginFinalize, Operation
<1>5. ASSUME NEW q \in RequestIDs, FinishStartFailure(q)
      PROVE  Goal
  BY ZenonT(30), <1>1, <1>5 DEF FinishStartFailure, CommitTerminal, Absent
<1>6. ASSUME NEW q \in RequestIDs, FinalizeReturns(q)
      PROVE  Goal
  <2>1. CASE q = r
    <3>1. execution[r].stopRequested
      BY Zenon, <1>1, <1>6, <2>1 DEF FinalizeReturns, At, Consistent
    <3>2. PICK outcome \in {"failed", "stopped"}, reason \in FailureReasons \cup {"none"} :
            CommitTerminal(r, outcome, reason)
      BY Zenon, <1>6, <2>1, <3>1 DEF FinalizeReturns, ClassifyExecution, ClassifyFinalization,
                              FailureReasons
    <3> QED
      BY Zenon, <1>1, <3>2 DEF CommitTerminal, Absent
  <2>2. CASE q # r
    BY Zenon, <1>1, <1>6, <2>2 DEF FinalizeReturns, CommitTerminal
  <2> QED
    BY Zenon, <2>1, <2>2
<1>7. ASSUME Admin PROVE Goal
  BY Zenon, <1>1, <1>7 DEF Admin, BeginShutdown, StartShutdown, ShutdownWaited, CleanupExpired,
                    CleanupExit, opVars, CanRequestStop, IsExpired
<1>8. ASSUME UNCHANGED vars PROVE Goal
  BY Zenon, <1>8 DEF vars, opVars
<1> QED
  BY Zenon, <1>2, <1>3, <1>4, <1>5, <1>6, <1>7, <1>8 DEF Next, Caller, Runner

\* Once a stop was accepted the operation neither completes nor publishes.
THEOREM StopHonoured == Spec => AcceptedStopHonoured
<1>1. IInv /\ IInv' /\ [Next]_vars =>
        [\A r \in RequestIDs :
           operations[r].status = "stopping" =>
             /\ operations'[r].outcome # "completed"
             /\ execution'[r].mode # "publish"]_vars
  <2> SUFFICES ASSUME IInv, IInv', [Next]_vars, NEW r \in RequestIDs,
                      operations[r].status = "stopping"
               PROVE  /\ operations'[r].outcome # "completed"
                      /\ execution'[r].mode # "publish"
    BY Zenon
  <2>1. \/ operations'[r].status = "stopping"
        \/ operations'[r].status = "terminal" /\ operations'[r].outcome # "completed"
    BY Zenon, StoppingStep
  <2>2. Consistent(operations'[r], execution'[r])
    BY Zenon DEF IInv
  <2> QED
    BY Zenon, <2>1, <2>2 DEF Consistent
<1> QED
  BY <1>1, Invariance, PTL DEF Spec, AcceptedStopHonoured

-----------------------------------------------------------------------------
(* The manager implements OperationLifecycle.                              *)

\* What a caller sees of one record.
Shown(o) == o.status # "absent" /\ ~(o.status = "terminal" /\ o.isExpired)
PhaseOf(o) == IF Shown(o) THEN o.status ELSE "absent"
OutcomeOf(o) == IF Shown(o) THEN o.outcome ELSE "none"

Phase == [r \in RequestIDs |-> PhaseOf(operations[r])]
Result == [r \in RequestIDs |-> OutcomeOf(operations[r])]

\* The refinement mapping, record by record.
LEMMA Mapping ==
  /\ Phase = [r \in RequestIDs |-> Visible(r)]
  /\ Result = [r \in RequestIDs |-> IF IsRetained(r) THEN operations[r].outcome ELSE "none"]
BY Zenon DEF Phase, Result, PhaseOf, OutcomeOf, Shown, Visible, IsRetained, IsExpired

\* A step that changes one record changes what is seen of that record only.
LEMMA OneRecord ==
  ASSUME NEW r \in RequestIDs, NEW o, TypeOK,
         operations' = [operations EXCEPT ![r] = o]
  PROVE  /\ Phase' = [Phase EXCEPT ![r] = PhaseOf(o)]
         /\ Result' = [Result EXCEPT ![r] = OutcomeOf(o)]
         /\ PhaseOf(o) = Phase[r] => Phase' = Phase
         /\ OutcomeOf(o) = Result[r] => Result' = Result
BY Zenon DEF TypeOK, Phase, Result

\* The operations a caller sees unfinished are those activeCount counts.
LEMMA UnfinishedIsActive == Lifecycle!Unfinished = Active
BY Zenon DEF Lifecycle!Unfinished, Active, Visible, IsRetained, IsExpired

\* The same mapping in the next state.
LEMMA MappingNext ==
  /\ Phase' = [r \in RequestIDs |-> Visible(r)]'
  /\ Result' = [r \in RequestIDs |-> IF IsRetained(r) THEN operations[r].outcome ELSE "none"]'
BY Zenon DEF Phase, Result, PhaseOf, OutcomeOf, Shown, Visible, IsRetained, IsExpired

\* A step that nobody sees.
LEMMA Unseen ==
  ASSUME Phase' = Phase, Result' = Result, isAccepting' = isAccepting
  PROVE  [Lifecycle!Next]_(Lifecycle!vars)
BY Zenon, Mapping, MappingNext DEF Lifecycle!vars

\* The lifecycle counts with the same operator.
LEMMA SameCardinality == \A S : Lifecycle!Cardinality(S) = Cardinality(S)
BY Zenon DEF Lifecycle!Cardinality, Cardinality

\* The steps of the lifecycle, in terms of what is seen of the records: a new
\* operation below the limit is accepted.
LEMMA SeenAccept ==
  ASSUME NEW r \in RequestIDs, isAccepting, isAccepting' = isAccepting,
         Phase[r] = "absent", Cardinality(Active) < MaxConcurrent,
         Phase' = [Phase EXCEPT ![r] = "pending"], Result' = Result
  PROVE  Lifecycle!Next
<1>1. Lifecycle!Cardinality(Lifecycle!Unfinished) < MaxConcurrent
  BY Zenon, UnfinishedIsActive, SameCardinality
<1>2. Lifecycle!Accept(r)
  BY Zenon, <1>1, Mapping, MappingNext DEF Lifecycle!Accept
<1> QED
  BY Zenon, <1>2 DEF Lifecycle!Next

\* A change of the phase that leaves the outcome alone.
LEMMA SeenAdvance ==
  ASSUME NEW r \in RequestIDs, isAccepting' = isAccepting, NEW p,
         \/ Phase[r] = "pending" /\ p = "running"
         \/ Phase[r] \in {"pending", "running"} /\ p = "stopping",
         Phase' = [Phase EXCEPT ![r] = p], Result' = Result
  PROVE  Lifecycle!Next
<1>1. Lifecycle!Run(r) \/ Lifecycle!RequestStop(r)
  BY Zenon, Mapping, MappingNext DEF Lifecycle!Run, Lifecycle!RequestStop
<1> QED
  BY Zenon, <1>1 DEF Lifecycle!Next

\* The end of an operation, with an outcome its phase allows.
LEMMA SeenEnd ==
  ASSUME NEW r \in RequestIDs, isAccepting' = isAccepting,
         NEW o \in Lifecycle!OutcomesOf(Phase[r]),
         Phase' = [Phase EXCEPT ![r] = "terminal"], Result' = [Result EXCEPT ![r] = o]
  PROVE  Lifecycle!Next
<1>1. Lifecycle!End(r)
  BY Zenon, Mapping, MappingNext DEF Lifecycle!End
<1> QED
  BY Zenon, <1>1 DEF Lifecycle!Next

\* A terminal record that is no longer retained.
LEMMA SeenForget ==
  ASSUME NEW r \in RequestIDs, isAccepting' = isAccepting, Phase[r] = "terminal",
         Phase' = [Phase EXCEPT ![r] = "absent"], Result' = [Result EXCEPT ![r] = "none"]
  PROVE  Lifecycle!Next
<1>1. Lifecycle!Forget(r)
  BY Zenon, Mapping, MappingNext DEF Lifecycle!Forget
<1> QED
  BY Zenon, <1>1 DEF Lifecycle!Next

-----------------------------------------------------------------------------
(* One lemma for each kind of step of the manager. *)

\* What is seen of a record whose status is not terminal.
LEMMA SeenStatus ==
  ASSUME TypeOK, NEW r \in RequestIDs
  PROVE  /\ operations[r].status # "terminal" => Phase[r] = operations[r].status
         /\ IsRetained(r) <=> Shown(operations[r])
         /\ ~IsRetained(r) => Phase[r] = "absent" /\ Result[r] = "none"
BY Zenon DEF Phase, Result, PhaseOf, OutcomeOf, Shown, IsRetained, IsExpired

\* Steps that leave the records alone.
LEMMA RecordsUnchanged ==
  ASSUME operations' = operations, isAccepting' = isAccepting
  PROVE  [Lifecycle!Next]_(Lifecycle!vars)
BY Zenon, Unseen DEF Phase, Result

\* Start accepts the operation, or removes a record that was gone already.
LEMMA StartRefines ==
  ASSUME IInv, NEW r \in RequestIDs, Start(r)
  PROVE  [Lifecycle!Next]_(Lifecycle!vars)
<1> DEFINE new == [Absent EXCEPT !.status = "pending"]
<1>1. TypeOK /\ isAccepting' = isAccepting /\ Phase[r] = "absent" /\ Result[r] = "none"
  BY Zenon, SeenStatus DEF IInv, Start, adminVars
<1>2. PhaseOf(Absent) = "absent" /\ OutcomeOf(Absent) = "none"
      /\ PhaseOf(new) = "pending" /\ OutcomeOf(new) = "none"
  BY Zenon DEF PhaseOf, OutcomeOf, Shown, Absent
<1>3. CASE Admits /\ operations' = [operations EXCEPT ![r] = new]
  <2>1. Phase' = [Phase EXCEPT ![r] = "pending"] /\ Result' = Result
    <3>1. /\ Phase' = [Phase EXCEPT ![r] = PhaseOf(new)]
          /\ OutcomeOf(new) = Result[r] => Result' = Result
      BY Zenon, <1>1, <1>3, OneRecord
    <3> QED
      BY Zenon, <1>1, <1>2, <3>1
  <2>2. Cardinality(Active) < MaxConcurrent /\ isAccepting
    BY Zenon, <1>3 DEF IInv, CapacityRespected, Admits
  <2> QED
    BY Zenon, <1>1, <2>1, <2>2, SeenAccept
<1>4. CASE operations' = [operations EXCEPT ![r] = Absent]
  <2>1. Phase' = Phase /\ Result' = Result
    BY ZenonT(30), <1>1, <1>2, <1>4, OneRecord DEF Phase, Result
  <2> QED
    BY Zenon, <1>1, <2>1, Unseen
<1> QED
  BY Zenon, <1>3, <1>4 DEF Start

\* StopByID is the acceptance of a stop, or removes a record that was gone.
LEMMA StopByIDRefines ==
  ASSUME IInv, NEW r \in RequestIDs, StopByID(r)
  PROVE  [Lifecycle!Next]_(Lifecycle!vars)
<1> DEFINE stopping == [operations[r] EXCEPT !.status = "stopping"]
<1>1. TypeOK /\ isAccepting' = isAccepting /\ operations[r] \in Operation
  BY Zenon DEF IInv, TypeOK, StopByID, adminVars
<1>2. CASE IsExpired(r) /\ operations' = [operations EXCEPT ![r] = Absent]
  <2>1. Phase[r] = PhaseOf(Absent) /\ Result[r] = OutcomeOf(Absent)
    BY Zenon, <1>2, <1>1, SeenStatus DEF IsRetained, PhaseOf, OutcomeOf, Shown, Absent
  <2>2. Phase' = Phase /\ Result' = Result
    BY Zenon, <1>1, <1>2, <2>1, OneRecord
  <2> QED
    BY Zenon, <1>1, <2>2, Unseen
<1>3. CASE CanRequestStop(r) /\ operations' = [operations EXCEPT ![r].status = "stopping"]
  <2>1. /\ Phase[r] \in {"pending", "running"}
        /\ PhaseOf(stopping) = "stopping"
        /\ OutcomeOf(stopping) = Result[r]
    BY Zenon, <1>1, <1>3 DEF CanRequestStop, Phase, Result, PhaseOf, OutcomeOf, Shown, Operation
  <2>2. operations' = [operations EXCEPT ![r] = stopping]
    BY Zenon, <1>3, <1>1 DEF IInv, TypeOK
  <2>3. /\ Phase' = [Phase EXCEPT ![r] = PhaseOf(stopping)]
        /\ OutcomeOf(stopping) = Result[r] => Result' = Result
    BY Zenon, <1>1, <2>2, OneRecord
  <2> QED
    BY Zenon, <1>1, <2>1, <2>3, SeenAdvance
<1> QED
  BY Zenon, <1>2, <1>3 DEF StopByID

\* The end of the retention period is when callers no longer find the record.
LEMMA ExpireRefines ==
  ASSUME IInv, NEW r \in RequestIDs, Expire(r)
  PROVE  [Lifecycle!Next]_(Lifecycle!vars)
<1> DEFINE expired == [operations[r] EXCEPT !.isExpired = TRUE]
<1>1. TypeOK /\ isAccepting' = isAccepting /\ operations[r] \in Operation
  BY Zenon DEF IInv, TypeOK, Expire, adminVars
<1>2. /\ Phase[r] = "terminal"
      /\ PhaseOf(expired) = "absent"
      /\ OutcomeOf(expired) = "none"
  BY Zenon, <1>1 DEF Expire, Phase, PhaseOf, OutcomeOf, Shown, Operation
<1>3. operations' = [operations EXCEPT ![r] = expired]
  BY Zenon DEF Expire, IInv, TypeOK
<1>4. /\ Phase' = [Phase EXCEPT ![r] = PhaseOf(expired)]
      /\ Result' = [Result EXCEPT ![r] = OutcomeOf(expired)]
  BY Zenon, <1>1, <1>3, OneRecord
<1> QED
  BY Zenon, <1>1, <1>2, <1>4, SeenForget

\* A terminal commit ends the operation with an outcome its phase allows.
LEMMA CommitRefines ==
  ASSUME IInv, NEW r \in RequestIDs, NEW outcome, NEW reason,
         CommitTerminal(r, outcome, reason), isAccepting' = isAccepting,
         outcome \in Lifecycle!OutcomesOf(operations[r].status)
  PROVE  [Lifecycle!Next]_(Lifecycle!vars)
<1> DEFINE done == [Absent EXCEPT !.status = "terminal", !.outcome = outcome, !.reason = reason]
<1>1. PhaseOf(done) = "terminal" /\ OutcomeOf(done) = outcome
  BY Zenon DEF PhaseOf, OutcomeOf, Shown, Absent
<1>2. Phase[r] = operations[r].status
  BY Zenon, SeenStatus DEF IInv, CommitTerminal
<1>3. /\ Phase' = [Phase EXCEPT ![r] = PhaseOf(done)]
      /\ Result' = [Result EXCEPT ![r] = OutcomeOf(done)]
  BY Zenon, OneRecord DEF IInv, CommitTerminal
<1> QED
  BY Zenon, <1>1, <1>2, <1>3, SeenEnd

\* A launch that fails ends as stopped only if a stop was accepted.
LEMMA FinishStartFailureRefines ==
  ASSUME IInv, NEW r \in RequestIDs, FinishStartFailure(r)
  PROVE  [Lifecycle!Next]_(Lifecycle!vars)
<1>1. operations[r].status \in {"pending", "stopping"} /\ isAccepting' = isAccepting
  BY Zenon, InvAt DEF FinishStartFailure, At, Consistent, adminVars
<1>2. PICK outcome \in {"stopped", "failed"}, reason \in FailureReasons \cup {"none"} :
        /\ CommitTerminal(r, outcome, reason)
        /\ outcome = "stopped" => operations[r].status = "stopping"
  BY Zenon DEF FinishStartFailure, FailureReasons
<1>3. outcome \in Lifecycle!OutcomesOf(operations[r].status)
  BY Zenon, <1>1, <1>2 DEF Lifecycle!OutcomesOf
<1> QED
  BY Zenon, <1>1, <1>2, <1>3, CommitRefines

\* A finalized execution completed only if nobody stopped it, and is stopped
\* only if somebody did.
LEMMA FinalizeReturnsRefines ==
  ASSUME IInv, NEW r \in RequestIDs, FinalizeReturns(r)
  PROVE  [Lifecycle!Next]_(Lifecycle!vars)
<1>1. /\ operations[r].status \in {"running", "stopping"}
      /\ execution[r].stopRequested <=> operations[r].status = "stopping"
      /\ isAccepting' = isAccepting
  BY Zenon, InvAt DEF FinalizeReturns, At, Consistent, adminVars
<1>2. PICK outcome \in Outcomes, reason \in FailureReasons \cup {"none"} :
        /\ CommitTerminal(r, outcome, reason)
        /\ outcome = "stopped" => execution[r].stopRequested
        /\ outcome = "completed" => ~execution[r].stopRequested
  BY Zenon DEF FinalizeReturns, ClassifyExecution, ClassifyFinalization, FailureReasons, Outcomes
<1>3. outcome \in Lifecycle!OutcomesOf(operations[r].status)
  BY Zenon, <1>1, <1>2 DEF Lifecycle!OutcomesOf, Outcomes
<1> QED
  BY Zenon, <1>1, <1>2, <1>3, CommitRefines

\* A successful launch is seen unless a stop was accepted during it.
LEMMA RecordStartedRefines ==
  ASSUME IInv, NEW r \in RequestIDs, RecordStarted(r)
  PROVE  [Lifecycle!Next]_(Lifecycle!vars)
<1> DEFINE started == [operations[r] EXCEPT !.status = IF @ = "pending" THEN "running" ELSE @]
<1>1. /\ TypeOK /\ isAccepting' = isAccepting /\ operations[r] \in Operation
      /\ operations[r].status \in {"pending", "stopping"}
  BY Zenon, InvAt DEF IInv, TypeOK, RecordStarted, At, Consistent, adminVars
<1>2. operations' = [operations EXCEPT ![r] = started]
  BY Zenon, <1>1 DEF RecordStarted, TypeOK
<1>3. /\ Phase' = [Phase EXCEPT ![r] = PhaseOf(started)]
      /\ PhaseOf(started) = Phase[r] => Phase' = Phase
      /\ OutcomeOf(started) = Result[r] => Result' = Result
  BY Zenon, <1>1, <1>2, OneRecord
<1>4. Phase[r] = operations[r].status /\ OutcomeOf(started) = Result[r]
  BY Zenon, <1>1 DEF Phase, Result, PhaseOf, OutcomeOf, Shown, Operation
<1>5. CASE operations[r].status = "pending"
  <2>1. PhaseOf(started) = "running"
    BY Zenon, <1>1, <1>5 DEF PhaseOf, Shown, Operation
  <2> QED
    BY Zenon, <1>1, <1>3, <1>4, <1>5, <2>1, SeenAdvance
<1>6. CASE operations[r].status = "stopping"
  <2>1. PhaseOf(started) = "stopping"
    BY Zenon, <1>1, <1>6 DEF PhaseOf, Shown, Operation
  <2> QED
    BY Zenon, <1>1, <1>3, <1>4, <1>6, <2>1, Unseen
<1> QED
  BY Zenon, <1>1, <1>5, <1>6

\* That an execution is being finalized is not seen.
LEMMA BeginFinalizeRefines ==
  ASSUME IInv, NEW r \in RequestIDs, BeginFinalize(r)
  PROVE  [Lifecycle!Next]_(Lifecycle!vars)
<1> DEFINE finalizing == [operations[r] EXCEPT !.isFinalizing = TRUE]
<1>1. TypeOK /\ isAccepting' = isAccepting /\ operations[r] \in Operation
  BY Zenon DEF IInv, TypeOK, BeginFinalize, adminVars
<1>2. operations' = [operations EXCEPT ![r] = finalizing]
  BY Zenon, <1>1 DEF BeginFinalize, TypeOK
<1>3. PhaseOf(finalizing) = Phase[r] /\ OutcomeOf(finalizing) = Result[r]
  BY Zenon, <1>1 DEF Phase, Result, PhaseOf, OutcomeOf, Shown, Operation
<1>4. Phase' = Phase /\ Result' = Result
  BY Zenon, <1>1, <1>2, <1>3, OneRecord
<1> QED
  BY Zenon, <1>1, <1>4, Unseen

\* cleanupExpired deletes records nobody sees any more.
LEMMA CleanupExpiredRefines ==
  ASSUME IInv, CleanupExpired
  PROVE  [Lifecycle!Next]_(Lifecycle!vars)
<1>1. PICK S \in SUBSET {r \in RequestIDs : IsExpired(r)} :
        operations' = [r \in RequestIDs |-> IF r \in S THEN Absent ELSE operations[r]]
  BY Zenon DEF CleanupExpired
<1>2. \A r \in RequestIDs : PhaseOf(operations'[r]) = PhaseOf(operations[r])
                            /\ OutcomeOf(operations'[r]) = OutcomeOf(operations[r])
  BY Zenon, <1>1 DEF IsExpired, PhaseOf, OutcomeOf, Shown, Absent
<1>3. Phase' = Phase /\ Result' = Result
  BY Zenon, <1>2 DEF Phase, Result
<1> QED
  BY Zenon, <1>3, Unseen DEF CleanupExpired, adminVars

\* BeginShutdown closes admission.
LEMMA BeginShutdownRefines ==
  ASSUME BeginShutdown
  PROVE  [Lifecycle!Next]_(Lifecycle!vars)
<1>1. Phase' = Phase /\ Result' = Result
  BY Zenon DEF BeginShutdown, opVars, Phase, Result
<1>2. Lifecycle!Close
  BY Zenon, <1>1, Mapping, MappingNext DEF Lifecycle!Close, BeginShutdown
<1> QED
  BY Zenon, <1>2 DEF Lifecycle!Next

\* startShutdown stops every operation that is not being finalized.
LEMMA StartShutdownRefines ==
  ASSUME IInv, StartShutdown
  PROVE  [Lifecycle!Next]_(Lifecycle!vars)
<1> DEFINE S == {r \in RequestIDs : CanRequestStop(r)}
<1>1. \A r \in RequestIDs : operations[r] \in Operation
  BY Zenon DEF IInv, TypeOK
<1>2. \A r \in RequestIDs : OutcomeOf(operations'[r]) = OutcomeOf(operations[r])
  BY Zenon, <1>1 DEF StartShutdown, CanRequestStop, OutcomeOf, Shown, Operation
<1>3. \A r \in RequestIDs :
        PhaseOf(operations'[r]) = IF r \in S THEN "stopping" ELSE PhaseOf(operations[r])
  BY Zenon, <1>1 DEF StartShutdown, CanRequestStop, PhaseOf, Shown, Operation
<1>4. /\ Result' = Result
      /\ Phase' = [r \in RequestIDs |-> IF r \in S THEN "stopping" ELSE Phase[r]]
  BY Zenon, <1>2, <1>3 DEF Phase, Result
<1>5. S \in SUBSET {r \in RequestIDs : Phase[r] \in {"pending", "running"}}
  BY Zenon, <1>1 DEF CanRequestStop, Phase, PhaseOf, Shown
<1>6. Lifecycle!StopAll
  <2> HIDE DEF S
  <2> DEFINE ph == [r \in RequestIDs |-> Visible(r)]
  <2>1. ~isAccepting /\ isAccepting' = isAccepting
    BY Zenon DEF StartShutdown
  <2>2. Phase = ph /\ Phase' = ph'
    BY Zenon, Mapping, MappingNext
  <2>3. \E T \in SUBSET {r \in RequestIDs : ph[r] \in {"pending", "running"}} :
          ph' = [r \in RequestIDs |-> IF r \in T THEN "stopping" ELSE ph[r]]
    <3> HIDE DEF ph
    <3> QED
      BY Zenon, <1>4, <1>5, <2>2
  <2> QED
    BY Zenon, <1>4, <2>1, <2>3, Mapping, MappingNext DEF Lifecycle!StopAll
<1> QED
  BY Zenon, <1>6 DEF Lifecycle!Next

-----------------------------------------------------------------------------

\* The operation manager implements the lifecycle: every behaviour of Manager,
\* runOperation, the stop goroutines and the cleanup loop looks to callers like
\* a behaviour of OperationLifecycle, including its limit on unfinished
\* operations and the outcomes it allows.
THEOREM Refinement == Spec => ImplementsLifecycle
<1>1. Init => Lifecycle!Init
  <2> SUFFICES ASSUME Init PROVE Lifecycle!Init
    BY Zenon
  <2>1. /\ Phase = [r \in RequestIDs |-> "absent"]
        /\ Result = [r \in RequestIDs |-> "none"]
        /\ isAccepting = TRUE
    BY Zenon DEF Init, NewManager, Absent, Phase, Result, PhaseOf, OutcomeOf, Shown
  <2> QED
    BY Zenon, <2>1, Mapping DEF Lifecycle!Init
<1>2. IInv /\ [Next]_vars => [Lifecycle!Next]_(Lifecycle!vars)
  <2> SUFFICES ASSUME IInv, [Next]_vars PROVE [Lifecycle!Next]_(Lifecycle!vars)
    BY Zenon
  <2>1. ASSUME NEW r \in RequestIDs, Caller(r)
        PROVE  [Lifecycle!Next]_(Lifecycle!vars)
    BY Zenon, <2>1, StartRefines, StopByIDRefines, RecordsUnchanged DEF Caller, CancelLaunch, adminVars
  <2>2. ASSUME NEW r \in RequestIDs,
               \/ BeginLaunch(r) \/ StartReturns(r) \/ WaitReturns(r)
               \/ CollectStopResult(r) \/ StopReturns(r) \/ LaunchTimeout(r)
        PROVE  [Lifecycle!Next]_(Lifecycle!vars)
    <3>1. operations' = operations /\ isAccepting' = isAccepting
      BY Zenon, <2>2 DEF BeginLaunch, StartReturns, WaitReturns, CollectStopResult, StopReturns,
                  LaunchTimeout, adminVars
    <3> QED
      BY Zenon, <3>1, RecordsUnchanged
  <2>3. ASSUME NEW r \in RequestIDs,
               \/ FinishStartFailure(r) \/ RecordStarted(r) \/ BeginFinalize(r)
               \/ FinalizeReturns(r) \/ Expire(r)
        PROVE  [Lifecycle!Next]_(Lifecycle!vars)
    BY Zenon, <2>3, FinishStartFailureRefines, RecordStartedRefines, BeginFinalizeRefines,
       FinalizeReturnsRefines, ExpireRefines
  <2>4. ASSUME ShutdownWaited \/ CleanupExit \/ UNCHANGED vars
        PROVE  [Lifecycle!Next]_(Lifecycle!vars)
    <3>1. operations' = operations /\ isAccepting' = isAccepting
      BY Zenon, <2>4 DEF ShutdownWaited, CleanupExit, vars, opVars, adminVars
    <3> QED
      BY Zenon, <3>1, RecordsUnchanged
  <2> QED
    BY Zenon, <2>1, <2>2, <2>3, <2>4, BeginShutdownRefines, StartShutdownRefines, CleanupExpiredRefines
       DEF Next, Runner, Admin
<1> QED
  BY <1>1, <1>2, Invariance, PTL DEF Spec, ImplementsLifecycle, Lifecycle!Spec

=============================================================================
