---------------------------- MODULE NodeOperation ----------------------------
(***************************************************************************)
(* The operation manager of the node agent                                 *)
(* (internal/nodeagent/operation: Manager, runOperation, startStop).       *)
(*                                                                         *)
(* One operation is one on-demand execution named by a request ID.  Four   *)
(* kinds of thread meet on Manager.mu: the callers of Start, StopByID and  *)
(* Shutdown, the runOperation goroutine of each operation, at most one     *)
(* stop goroutine per operation, and the cleanup loop.  An action is one   *)
(* critical section with the local steps around it, or one return of a     *)
(* call into the executor, whose results are chosen freely.                *)
(*                                                                         *)
(* Clock values are abstracted: a terminal record's retention period ends  *)
(* in the environment action Expire, the launch timeout fires in           *)
(* LaunchTimeout.  The kind of an operation only selects an error (a       *)
(* request ID used with another kind) that changes no state; it is left    *)
(* out, as are calls that only return a snapshot.                          *)
(***************************************************************************)
EXTENDS Naturals, FiniteSets

CONSTANTS
  RequestIDs,      \* request IDs the callers use
  MaxConcurrent    \* Config.MaxConcurrent

\* validateConfig refuses a limit that is not positive.
ASSUME ConfigAssumption == MaxConcurrent \in Nat \ {0}

VARIABLES
  operations,      \* Manager.operations: the managedOperation of each ID
  execution,       \* its executionRuntime and the locals of runOperation
  activeCount,     \* Manager.activeCount
  isAccepting,     \* Manager.isAccepting
  wg,              \* counter of Manager.wg
  cleanupRunning,  \* the goroutine cleanupLoop has not returned
  shutdownStarted, \* startShutdown ran: cleanupStopCh is closed
  shutdownDone     \* Manager.shutdownDone is closed

opVars == <<operations, execution>>
poolVars == <<activeCount, wg>>
adminVars == <<isAccepting, cleanupRunning, shutdownStarted, shutdownDone>>
vars == <<opVars, poolVars, adminVars>>

Statuses == {"absent", "pending", "running", "stopping", "terminal"}
Outcomes == {"completed", "failed", "stopped"}
FailureReasons ==
  {"execution_start_failed", "launch_timeout", "execution_failed",
   "execution_stop_failed", "finalization_failed", "finalization_timeout"}

\* Where runOperation is; "idle" means the goroutine does not exist.
RunPoints == {"idle", "registered", "launching", "startFailed", "started",
              "waiting", "exited", "collecting", "finalizing"}

Operation == [status: Statuses, outcome: Outcomes \cup {"none"},
              reason: FailureReasons \cup {"none"},
              isFinalizing: BOOLEAN, isExpired: BOOLEAN]

\* launchErr is the error of the launch context, stopper the stop goroutine:
\* not started, inside Executor.Stop, or its result in stopResultCh.
\* cancelPending: a caller holds launchCancel and has not called it yet.
Execution == [pc: RunPoints, launchCancel: BOOLEAN, cancelPending: BOOLEAN,
              launchErr: {"none", "canceled", "deadline"},
              startErr: {"none", "canceled", "deadline", "error"},
              waitErr: BOOLEAN, stopRequested: BOOLEAN,
              stopper: {"none", "running", "ok", "error"},
              mode: {"none", "publish", "discard"}]

Absent == [status |-> "absent", outcome |-> "none", reason |-> "none",
           isFinalizing |-> FALSE, isExpired |-> FALSE]

NoExecution == [pc |-> "idle", launchCancel |-> FALSE, cancelPending |-> FALSE,
                launchErr |-> "none", startErr |-> "none", waitErr |-> FALSE,
                stopRequested |-> FALSE, stopper |-> "none", mode |-> "none"]

NewManager ==
  /\ operations = [r \in RequestIDs |-> Absent]
  /\ execution = [r \in RequestIDs |-> NoExecution]
  /\ activeCount = 0
  /\ isAccepting = TRUE
  /\ wg = 1
  /\ cleanupRunning = TRUE
  /\ shutdownStarted = FALSE
  /\ shutdownDone = FALSE

Init == NewManager

-----------------------------------------------------------------------------
(* Helpers of the critical sections. *)

\* Manager.isExpiredLocked.
IsExpired(r) == operations[r].status = "terminal" /\ operations[r].isExpired

\* A snapshot of r can be read: GetByID does not answer ErrNotFound.
IsRetained(r) == operations[r].status # "absent" /\ ~IsExpired(r)

\* The admission test of Start.
Admits == isAccepting /\ activeCount < MaxConcurrent

\* The first test of requestStopLocked.
CanRequestStop(r) ==
  /\ operations[r].status \in {"pending", "running"}
  /\ ~operations[r].isFinalizing

\* prepareStopLocked has work to do: no stop goroutine was prepared yet.
CanPrepareStop(r) == execution[r].stopper = "none"

\* What requestStopLocked leaves in the runtime of r: a launch is cancelled by
\* the caller after the unlock (if runOperation already stored launchCancel),
\* a running execution gets its stop goroutine.
StopRequested(r) ==
  IF operations[r].status = "pending"
  THEN [execution[r] EXCEPT !.cancelPending = execution[r].launchCancel]
  ELSE [execution[r] EXCEPT !.stopper = IF CanPrepareStop(r) THEN "running" ELSE @]

\* Mutant of SpawnsStopper: the stop goroutine is not added to wg.
StopperNotCounted(r) == FALSE

\* requestStopLocked on r starts a stop goroutine, counted by wg.
SpawnsStopper(r) == operations[r].status = "running" /\ CanPrepareStop(r)

\* Mutant of CommitTerminal: a return path of runOperation misses wg.Done.
CommitWithoutDone(r, outcome, reason) ==
  /\ operations[r].status # "terminal"
  /\ operations' = [operations EXCEPT ![r] =
       [Absent EXCEPT !.status = "terminal", !.outcome = outcome, !.reason = reason]]
  /\ execution' = [execution EXCEPT ![r] = NoExecution]
  /\ activeCount' = activeCount - 1
  /\ UNCHANGED wg

\* commitTerminalLocked and the deferred wg.Done of runOperation.
CommitTerminal(r, outcome, reason) ==
  /\ operations[r].status # "terminal"
  /\ operations' = [operations EXCEPT ![r] =
       [Absent EXCEPT !.status = "terminal", !.outcome = outcome, !.reason = reason]]
  /\ execution' = [execution EXCEPT ![r] = NoExecution]
  /\ activeCount' = activeCount - 1
  /\ wg' = wg - 1

-----------------------------------------------------------------------------
(* Calls into the manager. *)

\* Start of a request ID that has no retained record.  An expired record is
\* deleted before admission is decided, so a refusal deletes it too.
Start(r) ==
  /\ ~IsRetained(r)
  /\ \/ /\ Admits
        /\ operations' = [operations EXCEPT ![r] = [Absent EXCEPT !.status = "pending"]]
        /\ execution' = [execution EXCEPT ![r] = [NoExecution EXCEPT !.pc = "registered"]]
        /\ activeCount' = activeCount + 1
        /\ wg' = wg + 1
     \/ /\ ~Admits
        /\ operations' = [operations EXCEPT ![r] = Absent]
        /\ UNCHANGED <<execution, poolVars>>
  /\ UNCHANGED adminVars

\* StopByID: deletes an expired record, or records the stop intent once.
StopByID(r) ==
  /\ \/ /\ IsExpired(r)
        /\ operations' = [operations EXCEPT ![r] = Absent]
        /\ UNCHANGED <<execution, wg>>
     \/ /\ CanRequestStop(r)
        /\ operations' = [operations EXCEPT ![r].status = "stopping"]
        /\ execution' = [execution EXCEPT ![r] = StopRequested(r)]
        /\ wg' = IF SpawnsStopper(r) THEN wg + 1 ELSE wg
  /\ UNCHANGED <<activeCount, adminVars>>

\* The caller of requestStopLocked calls launchCancel after the unlock.  A
\* launch context that is already done keeps its error.
CancelLaunch(r) ==
  /\ execution[r].cancelPending
  /\ execution' = [execution EXCEPT ![r].cancelPending = FALSE,
       ![r].launchErr = IF execution[r].pc = "launching" /\ execution[r].launchErr = "none"
                        THEN "canceled" ELSE execution[r].launchErr]
  /\ UNCHANGED <<operations, poolVars, adminVars>>

BeginShutdown ==
  /\ isAccepting
  /\ isAccepting' = FALSE
  /\ UNCHANGED <<opVars, poolVars, cleanupRunning, shutdownStarted, shutdownDone>>

\* startShutdown, run once: requestStopLocked on every operation.
StartShutdown ==
  /\ ~isAccepting
  /\ ~shutdownStarted
  /\ operations' = [r \in RequestIDs |->
       IF CanRequestStop(r) THEN [operations[r] EXCEPT !.status = "stopping"]
                            ELSE operations[r]]
  /\ execution' = [r \in RequestIDs |->
       IF CanRequestStop(r) THEN StopRequested(r) ELSE execution[r]]
  /\ wg' = wg + Cardinality({r \in RequestIDs : CanRequestStop(r) /\ SpawnsStopper(r)})
  /\ shutdownStarted' = TRUE
  /\ UNCHANGED <<activeCount, isAccepting, cleanupRunning, shutdownDone>>

\* The goroutine of startShutdown returns from wg.Wait.
ShutdownWaited ==
  /\ shutdownStarted
  /\ ~shutdownDone
  /\ wg = 0
  /\ shutdownDone' = TRUE
  /\ UNCHANGED <<opVars, poolVars, isAccepting, cleanupRunning, shutdownStarted>>

-----------------------------------------------------------------------------
(* The cleanup loop, and time. *)

\* The retention period of a terminal record ends.
Expire(r) ==
  /\ operations[r].status = "terminal"
  /\ ~operations[r].isExpired
  /\ operations' = [operations EXCEPT ![r].isExpired = TRUE]
  /\ UNCHANGED <<execution, poolVars, adminVars>>

\* cleanupExpired: the tick may be older than the last expiry, so any of the
\* expired records may be left for the next tick.
CleanupExpired ==
  /\ cleanupRunning
  /\ \E S \in SUBSET {r \in RequestIDs : IsExpired(r)} :
       /\ S # {}
       /\ operations' = [r \in RequestIDs |-> IF r \in S THEN Absent ELSE operations[r]]
  /\ UNCHANGED <<execution, poolVars, adminVars>>

\* cleanupLoop returns once cleanupStopCh is closed.
CleanupExit ==
  /\ cleanupRunning
  /\ shutdownStarted
  /\ cleanupRunning' = FALSE
  /\ wg' = wg - 1
  /\ UNCHANGED <<opVars, activeCount, isAccepting, shutdownStarted, shutdownDone>>

-----------------------------------------------------------------------------
(* runOperation and the stop goroutine. *)

At(r, point) == execution[r].pc = point

\* Mutant of BeginLaunch: a stop that arrived before is not looked for.
BeginLaunchBlindly(r) ==
  /\ At(r, "registered")
  /\ execution' = [execution EXCEPT ![r].pc = "launching", ![r].launchCancel = TRUE]
  /\ UNCHANGED <<operations, poolVars, adminVars>>

\* runOperation up to the call of Executor.Start: a stop that arrived before
\* launchCancel was stored is found here and cancels the launch (unless the
\* launch timeout fired first).
BeginLaunch(r) ==
  /\ At(r, "registered")
  /\ \E err \in IF operations[r].status = "stopping" THEN {"canceled", "deadline"}
                                                     ELSE {"none"} :
       execution' = [execution EXCEPT ![r].pc = "launching",
                                      ![r].launchCancel = TRUE,
                                      ![r].launchErr = err]
  /\ UNCHANGED <<operations, poolVars, adminVars>>

LaunchTimeout(r) ==
  /\ At(r, "launching")
  /\ execution[r].launchErr = "none"
  /\ execution' = [execution EXCEPT ![r].launchErr = "deadline"]
  /\ UNCHANGED <<operations, poolVars, adminVars>>

\* Executor.Start returns: success, an error of its own, or the error of the
\* launch context.  The context's error is read before it is released.
StartReturns(r) ==
  /\ At(r, "launching")
  /\ \E err \in {"none", "error", execution[r].launchErr} :
       execution' = [execution EXCEPT ![r].startErr = err,
                       ![r].pc = IF err = "none" THEN "started" ELSE "startFailed"]
  /\ UNCHANGED <<operations, poolVars, adminVars>>

FinishStartFailure(r) ==
  /\ At(r, "startFailed")
  /\ LET e == execution[r] IN
       IF /\ operations[r].status = "stopping"
          /\ e.startErr = "canceled"
          /\ e.launchErr # "deadline"
       THEN CommitTerminal(r, "stopped", "none")
       ELSE CommitTerminal(r, "failed",
              IF "deadline" \in {e.startErr, e.launchErr}
              THEN "launch_timeout" ELSE "execution_start_failed")
  /\ UNCHANGED adminVars

\* Mutant of RecordStarted: a stop requested during the launch is forgotten.
RecordStartedOnly(r) ==
  /\ At(r, "started")
  /\ operations' = [operations EXCEPT ![r].status = IF @ = "pending" THEN "running" ELSE @]
  /\ execution' = [execution EXCEPT ![r].pc = "waiting", ![r].launchCancel = FALSE]
  /\ UNCHANGED <<poolVars, adminVars>>

\* The critical section after a successful launch: pending becomes running,
\* and a stop requested during the launch gets its stop goroutine.
RecordStarted(r) ==
  /\ At(r, "started")
  /\ LET stopping == operations[r].status = "stopping" IN
     /\ operations' = [operations EXCEPT ![r].status = IF @ = "pending" THEN "running" ELSE @]
     /\ execution' = [execution EXCEPT ![r].pc = "waiting",
          ![r].launchCancel = FALSE,
          ![r].stopper = IF stopping /\ CanPrepareStop(r) THEN "running" ELSE @]
     /\ wg' = IF stopping /\ CanPrepareStop(r) THEN wg + 1 ELSE wg
  /\ UNCHANGED <<activeCount, adminVars>>

\* Executor.Wait returns.
WaitReturns(r) ==
  /\ At(r, "waiting")
  /\ \E err \in BOOLEAN :
       execution' = [execution EXCEPT ![r].pc = "exited", ![r].waitErr = err]
  /\ UNCHANGED <<operations, poolVars, adminVars>>

\* Mutant of BeginFinalize: only the error of Wait decides about the result.
BeginFinalizePublishing(r) ==
  /\ At(r, "exited")
  /\ LET stopRequested == operations[r].status = "stopping" IN
     /\ operations' = [operations EXCEPT ![r].isFinalizing = TRUE]
     /\ execution' = [execution EXCEPT
          ![r].pc = IF execution[r].stopper # "none" THEN "collecting" ELSE "finalizing",
          ![r].stopRequested = stopRequested,
          ![r].mode = IF ~execution[r].waitErr THEN "publish" ELSE "discard"]
  /\ UNCHANGED <<poolVars, adminVars>>

\* The critical section after Wait closes the operation to stop requests and
\* fixes the finalization mode.
BeginFinalize(r) ==
  /\ At(r, "exited")
  /\ LET stopRequested == operations[r].status = "stopping" IN
     /\ operations' = [operations EXCEPT ![r].isFinalizing = TRUE]
     /\ execution' = [execution EXCEPT
          ![r].pc = IF execution[r].stopper # "none" THEN "collecting" ELSE "finalizing",
          ![r].stopRequested = stopRequested,
          ![r].mode = IF ~stopRequested /\ ~execution[r].waitErr THEN "publish" ELSE "discard"]
  /\ UNCHANGED <<poolVars, adminVars>>

\* The stop goroutine: Executor.Stop returns, the result goes to stopResultCh.
StopReturns(r) ==
  /\ execution[r].stopper = "running"
  /\ \E result \in {"ok", "error"} :
       execution' = [execution EXCEPT ![r].stopper = result]
  /\ wg' = wg - 1
  /\ UNCHANGED <<operations, activeCount, adminVars>>

\* Mutant of CollectStopResult: the result is polled, not waited for.
SkipStopResult(r) ==
  /\ At(r, "collecting")
  /\ execution' = [execution EXCEPT ![r].pc = "finalizing"]
  /\ UNCHANGED <<operations, poolVars, adminVars>>

\* runOperation receives from stopResultCh.
CollectStopResult(r) ==
  /\ At(r, "collecting")
  /\ execution[r].stopper \in {"ok", "error"}
  /\ execution' = [execution EXCEPT ![r].pc = "finalizing"]
  /\ UNCHANGED <<operations, poolVars, adminVars>>

\* classifyExecution: the failure reason, "none" without a failure.
ClassifyExecution(e) ==
  CASE e.stopRequested /\ e.stopper = "error" -> "execution_stop_failed"
    [] ~e.stopRequested /\ e.waitErr          -> "execution_failed"
    [] OTHER                                  -> "none"

\* classifyFinalization.
ClassifyFinalization(finalizeErr) ==
  CASE finalizeErr = "none"     -> "none"
    [] finalizeErr = "deadline" -> "finalization_timeout"
    [] OTHER                    -> "finalization_failed"

\* Executor.Finalize returns and finishOperation commits: an execution failure
\* takes precedence over a finalization failure.
FinalizeReturns(r) ==
  /\ At(r, "finalizing")
  /\ \E finalizeErr \in {"none", "error", "deadline"} :
       LET e       == execution[r]
           reason  == IF ClassifyExecution(e) # "none" THEN ClassifyExecution(e)
                      ELSE ClassifyFinalization(finalizeErr)
           outcome == CASE reason # "none"  -> "failed"
                        [] e.stopRequested  -> "stopped"
                        [] OTHER            -> "completed"
       IN CommitTerminal(r, outcome, reason)
  /\ UNCHANGED adminVars

-----------------------------------------------------------------------------

Runner(r) ==
  \/ BeginLaunch(r) \/ StartReturns(r) \/ FinishStartFailure(r)
  \/ RecordStarted(r) \/ WaitReturns(r) \/ BeginFinalize(r)
  \/ CollectStopResult(r) \/ FinalizeReturns(r)

Caller(r) == Start(r) \/ StopByID(r) \/ CancelLaunch(r)

Admin ==
  \/ BeginShutdown \/ StartShutdown \/ ShutdownWaited
  \/ CleanupExpired \/ CleanupExit

Next ==
  \/ \E r \in RequestIDs :
       \/ Caller(r) \/ Runner(r) \/ StopReturns(r)
       \/ LaunchTimeout(r) \/ Expire(r)
  \/ Admin

Spec == Init /\ [][Next]_vars

(***************************************************************************)
(* Every goroutine of the manager keeps running.  Executor.Start returns   *)
(* once its context is done, and the launch timer sees to that;            *)
(* Executor.Stop is bounded by its grace period; Executor.Wait returns     *)
(* once Stop has (Process.Stop returns success only after the reaper is    *)
(* done, and a profiler that could not be signalled runs for a bounded     *)
(* duration), but an execution nobody stops may run forever.  Callers owe  *)
(* nothing, except that one that has taken launchCancel calls it, and that *)
(* the daemon which began a shutdown completes the call.                   *)
(***************************************************************************)
LaunchEnds(r) == execution[r].launchErr # "none" /\ StartReturns(r)

ExecutionEnds(r) == execution[r].stopper \in {"ok", "error"} /\ WaitReturns(r)

Fairness ==
  /\ \A r \in RequestIDs :
       /\ WF_vars(BeginLaunch(r))
       /\ WF_vars(LaunchTimeout(r))
       /\ WF_vars(LaunchEnds(r))
       /\ WF_vars(FinishStartFailure(r))
       /\ WF_vars(RecordStarted(r))
       /\ WF_vars(ExecutionEnds(r))
       /\ WF_vars(BeginFinalize(r))
       /\ WF_vars(CollectStopResult(r))
       /\ WF_vars(FinalizeReturns(r))
       /\ WF_vars(StopReturns(r))
       /\ WF_vars(CancelLaunch(r))
  /\ WF_vars(StartShutdown)
  /\ WF_vars(CleanupExit)
  /\ WF_vars(ShutdownWaited)

FairSpec == Spec /\ Fairness

-----------------------------------------------------------------------------
(* Properties. *)

Active == {r \in RequestIDs : operations[r].status \in {"pending", "running", "stopping"}}
Stoppers == {r \in RequestIDs : execution[r].stopper = "running"}

\* Type correctness; in particular neither activeCount nor the WaitGroup
\* counter ever becomes negative (a negative WaitGroup counter panics).
TypeOK ==
  /\ operations \in [RequestIDs -> Operation]
  /\ execution \in [RequestIDs -> Execution]
  /\ activeCount \in Nat
  /\ wg \in Nat
  /\ isAccepting \in BOOLEAN
  /\ cleanupRunning \in BOOLEAN
  /\ shutdownStarted \in BOOLEAN
  /\ shutdownDone \in BOOLEAN

\* activeCount is the number of operations that are not terminal, whatever
\* path ended the others (start failure, stop, finalization), and admission
\* by Start never lets it pass MaxConcurrent.
CapacityRespected ==
  /\ activeCount = Cardinality(Active)
  /\ activeCount <= MaxConcurrent

\* Executor.Stop never overlaps Executor.Finalize: runOperation takes the stop
\* result before it finalizes, and a stop that arrives later starts nothing.
StopJoinedBeforeFinalize ==
  \A r \in Stoppers : execution[r].pc \in {"waiting", "exited", "collecting"}

\* A stop request that finds a launch in progress reaches it: the launch
\* context is done, or the caller is about to cancel it.  This includes the
\* request that arrives before runOperation has stored launchCancel.
StopReachesLaunch ==
  \A r \in RequestIDs :
    operations[r].status = "stopping" /\ At(r, "launching") =>
      execution[r].launchErr # "none" \/ execution[r].cancelPending

\* When shutdownDone is closed no goroutine of the manager is left and every
\* operation is terminal: Start cannot slip in behind the shutdown.
ShutdownQuiescent ==
  shutdownDone => /\ \A r \in RequestIDs : At(r, "idle")
                  /\ Active = {}
                  /\ Stoppers = {}
                  /\ ~cleanupRunning

\* Once StopByID or Shutdown was accepted for an operation, it does not end as
\* completed, and its result is not published.
AcceptedStopHonoured ==
  [][\A r \in RequestIDs :
       operations[r].status = "stopping" =>
         /\ operations'[r].outcome # "completed"
         /\ execution'[r].mode # "publish"]_vars

\* Every shutdown completes although operations are launching, running,
\* stopping or finalizing when it begins.
ShutdownCompletes == shutdownStarted ~> shutdownDone

-----------------------------------------------------------------------------
(* The inductive invariant. *)

\* How an operation's record o and its runtime e (the point runOperation has
\* reached, the launch context, the stop goroutine) fit together.
Consistent(o, e) ==
  /\ e.pc = "idle" <=> o.status \in {"absent", "terminal"}
  /\ o.outcome # "none" => o.status = "terminal"
  /\ o.isFinalizing <=> e.pc \in {"collecting", "finalizing"}
  /\ e.pc \in {"registered", "launching", "startFailed", "started"} =>
       o.status \in {"pending", "stopping"} /\ e.stopper = "none"
  /\ e.pc \in {"waiting", "exited", "collecting", "finalizing"} =>
       /\ o.status \in {"running", "stopping"}
       /\ e.stopper # "none" <=> o.status = "stopping"
  /\ e.pc = "idle" => e.stopper = "none"
  /\ e.pc = "collecting" => o.status = "stopping"
  /\ e.pc = "finalizing" => e.stopper # "running"
  /\ e.pc \in {"collecting", "finalizing"} =>
       (e.stopRequested <=> o.status = "stopping")
  /\ e.mode = "publish" => e.pc = "finalizing" /\ o.status = "running"
  /\ e.pc = "launching" => e.launchCancel
  /\ e.pc \in {"registered", "launching"} => e.startErr = "none"
  /\ e.startErr = "canceled" => e.launchErr = "canceled"
  /\ e.launchErr = "canceled" => o.status = "stopping"
  /\ e.cancelPending => o.status = "stopping"
  /\ e.pc = "launching" /\ o.status = "stopping" =>
       e.launchErr # "none" \/ e.cancelPending

\* The WaitGroup counts runOperation goroutines, stop goroutines and the
\* cleanup loop.
WaitGroupExact ==
  wg = Cardinality(Active) + Cardinality(Stoppers) + (IF cleanupRunning THEN 1 ELSE 0)

ShutdownConsistent ==
  /\ shutdownStarted => ~isAccepting
  /\ ~cleanupRunning => shutdownStarted
  /\ shutdownDone => shutdownStarted /\ wg = 0

\* The inductive invariant behind the safety properties: the manager's
\* counters are exact and every operation is at a consistent point.
IInv ==
  /\ TypeOK
  /\ IsFiniteSet(Active)
  /\ CapacityRespected
  /\ \A r \in RequestIDs : Consistent(operations[r], execution[r])
  /\ WaitGroupExact
  /\ ShutdownConsistent

-----------------------------------------------------------------------------
(* What callers of the manager can rely on: see OperationLifecycle.  An    *)
(* expired record that has not been deleted yet is already gone for them.  *)

Visible(r) == IF IsRetained(r) THEN operations[r].status ELSE "absent"

Lifecycle == INSTANCE OperationLifecycle WITH
  phase   <- [r \in RequestIDs |-> Visible(r)],
  outcome <- [r \in RequestIDs |-> IF IsRetained(r) THEN operations[r].outcome ELSE "none"],
  open    <- isAccepting

\* The manager implements the lifecycle promised to its callers.
ImplementsLifecycle == Lifecycle!Spec

\* It also keeps the promise that an accepted stop ends the operation.
ImplementsFairLifecycle == Lifecycle!FairSpec

=============================================================================
