------------------------------ MODULE JobControl ------------------------------
(***************************************************************************)
(* The supervision of jobs by huatuo-apiserver (internal/job: runtime,     *)
(* Store) against the node agent that executes them.                       *)
(*                                                                         *)
(* A job is a row of the job store.  While the apiserver is up, a runtime  *)
(* goroutine per unfinished job holds a copy of the row, calls the node    *)
(* (Start, Get and StopOperation) and moves the job along with what it     *)
(* learns; users stop jobs concurrently.  The transition gate makes each   *)
(* read-decide-save section one action.  The rest interleaves: the calls,  *)
(* whose requests and replies may be lost or arrive late, crashes of the   *)
(* apiserver and of the node, and failures of the store, which may or may  *)
(* not have applied the write.  The node is the one OperationLifecycle     *)
(* promises; it closes its listener before it stops its operations         *)
(* (cmd/huatuo-bamai, Daemon.Run: cleanups in reverse order).              *)
(*                                                                         *)
(* Abstractions.  A deadline is unset, ahead or passed.  A row's revision  *)
(* is the flag isCurrent of the runtime's copy: revisions only grow, so a  *)
(* conditional save succeeds iff nothing was saved since the copy was      *)
(* made.  At most one apiserver runs (it locks a pid file); a graceful     *)
(* shutdown cancels the runtimes wherever they are, which is Crash.        *)
(***************************************************************************)
EXTENDS Naturals, FiniteSets

CONSTANTS
  Jobs,           \* job IDs, which are also request IDs on the node
  OtherRequests,  \* request IDs of the node's other clients
  NodeCapacity    \* the node's limit on unfinished operations

ASSUME NodeAssumption ==
  NodeCapacity \in Nat \ {0} /\ Jobs \cap OtherRequests = {}

VARIABLES
  stored,    \* row of each job in the job store
  runtime,   \* the runtime supervising each job
  up,        \* the apiserver process is up
  late,      \* requests a runtime gave up on that may still reach the node
  phase, outcome, open,  \* the node's operations: see OperationLifecycle
  serving,   \* the node's HTTP listener is open
  starts,    \* history: number of StartOperation requests sent for a job
  ended,     \* history: how the node ended a job's operation
  lost       \* history: the node dropped a job's operation

operationVars == <<phase, outcome, open>>
nodeVars == <<operationVars, serving, ended, lost>>
jobVars == <<stored, runtime, up, late, starts>>
vars == <<jobVars, nodeVars>>

Node == INSTANCE OperationLifecycle WITH
  RequestIDs <- Jobs \cup OtherRequests, MaxConcurrent <- NodeCapacity

Deadlines == {"pendingDeadline", "executionDeadline", "unavailableDeadline", "stopDeadline"}
FailureReasons ==
  {"execution_start_failed", "execution_capacity_exceeded", "start_timeout",
   "execution_failed", "execution_timed_out", "stop_timeout", "node_unavailable",
   "operation_lost", "invalid_node_request", "protocol_error"}

\* A row has a status (absent, pending, running, stopping, terminal, deleted), an
\* outcome, a failure reason, a stop reason, whether startedAt and endedAt are
\* set, and four deadlines, each unset, ahead or passed.
\*
\* The row Manager.Create inserts.
NewJob == [status |-> "pending", outcome |-> "none", reason |-> "none",
           stopReason |-> "none", startedAt |-> FALSE, endedAt |-> FALSE,
           pendingDeadline |-> "unset", executionDeadline |-> "unset",
           unavailableDeadline |-> "unset", stopDeadline |-> "unset"]

NoRow(status) == [NewJob EXCEPT !.status = status]

\* Replies that carry an operation, and the error codes of the node client.
OperationReplies == {"pending", "running", "stopping", "completed", "failed", "stopped"}
ErrorReplies == {"not_found", "invalid", "unsupported", "limit", "unavailable"}

\* pc is where run() is: no runtime, waiting, about to save the start
\* deadline, in a call to the node, about to reconcile, or about to reload.
\* job is its copy of the row, call and reply belong to the call in progress.
NoRuntime == [pc |-> "none", job |-> NoRow("absent"), isCurrent |-> FALSE,
              call |-> "none", reply |-> "none"]

\* newRuntime: a runtime for the row that was just created or read.
NewRuntime(row) == [NoRuntime EXCEPT !.pc = "idle", !.job = row, !.isCurrent = TRUE]

Init ==
  /\ stored = [j \in Jobs |-> NoRow("absent")]
  /\ runtime = [j \in Jobs |-> NoRuntime]
  /\ up = TRUE
  /\ late = [j \in Jobs |-> {}]
  /\ Node!Init
  /\ serving = TRUE
  /\ starts = [j \in Jobs |-> 0]
  /\ ended = [j \in Jobs |-> "none"]
  /\ lost = [j \in Jobs |-> FALSE]

-----------------------------------------------------------------------------
(* Transitions of a row. *)

IsTerminal(job) == job.status = "terminal"

\* !now.Before(deadline): the zero time has passed too.
Overdue(deadline) == deadline # "ahead"

SetStopping(job, reason) ==
  [job EXCEPT !.status = "stopping", !.stopReason = reason, !.stopDeadline = "ahead"]

SetTerminal(job, result, reason) ==
  [job EXCEPT !.status = "terminal", !.outcome = result, !.reason = reason, !.endedAt = TRUE]

\* validateState, which every row passes before it is written.
ValidState(job) ==
  /\ IsTerminal(job) <=> job.outcome # "none"
  /\ job.outcome = "failed" => job.reason \in FailureReasons
  /\ IsTerminal(job) <=> job.endedAt
  /\ job.status = "running" => job.startedAt /\ job.executionDeadline # "unset"
  /\ job.status = "stopping" => job.stopReason # "none" /\ job.stopDeadline # "unset"

\* terminalResultForStop.
TerminalForStop(job) ==
  CASE job.stopReason = "user_requested"    -> SetTerminal(job, "stopped", "none")
    [] job.stopReason = "start_timeout"     -> SetTerminal(job, "failed", "start_timeout")
    [] job.stopReason = "execution_timeout" -> SetTerminal(job, "failed", "execution_timed_out")
    [] OTHER                                -> SetTerminal(job, "failed", "execution_failed")

\* The switch of reconcileJobWithOperation on the operation's status; cause is
\* the class of failure mapOperationFailure finds.
FollowOperation(job, operation, cause) ==
  CASE operation = "pending" /\ job.status = "running" ->
         SetTerminal(job, "failed", "protocol_error")
    [] operation = "pending" /\ job.status = "pending" /\ Overdue(job.pendingDeadline) ->
         SetStopping(job, "start_timeout")
    [] operation = "running" /\ job.status = "pending" ->
         [job EXCEPT !.status = "running", !.startedAt = TRUE, !.executionDeadline = "ahead"]
    [] operation = "running" /\ job.status = "running" /\ Overdue(job.executionDeadline) ->
         SetStopping(job, "execution_timeout")
    [] operation = "stopping" /\ job.status # "stopping" ->
         SetTerminal(job, "failed", "protocol_error")
    [] operation = "stopping" /\ job.status = "stopping" /\ Overdue(job.stopDeadline) ->
         SetTerminal(job, "failed", "stop_timeout")
    [] operation = "completed" -> SetTerminal(job, "completed", "none")
    [] operation = "failed"    -> SetTerminal(job, "failed", cause)
    [] operation = "stopped"   -> TerminalForStop(job)
    [] OTHER                   -> job

\* reconcileJobWithOperation up to the save.
ReconcileWithOperation(job, operation, cause) ==
  LET followed == FollowOperation([job EXCEPT !.unavailableDeadline = "unset"], operation, cause)
  IN  IF /\ followed.status = "stopping"
         /\ operation \in {"pending", "running"}
         /\ Overdue(followed.stopDeadline)
      THEN SetTerminal(followed, "failed", "stop_timeout")
      ELSE followed

\* Mutant of ReconcileWithError: a missing operation counts as lost although it
\* was never seen running.
LossAssumed(job, error) ==
  CASE error = "not_found"   -> SetTerminal(job, "failed", "operation_lost")
    [] error = "invalid"     -> SetTerminal(job, "failed", "invalid_node_request")
    [] error = "limit"       -> SetTerminal(job, "failed", "execution_capacity_exceeded")
    [] error = "unsupported" -> SetTerminal(job, "failed", "execution_start_failed")
    [] OTHER                 -> job

\* Mutant of ReconcileWithError: every failed call opens a new window.
WindowReopened(job, error) ==
  CASE error = "not_found"   -> SetTerminal(job, "unknown", "none")
    [] error = "unavailable" -> [job EXCEPT !.unavailableDeadline = "ahead"]
    [] OTHER                 -> SetTerminal(job, "failed", "execution_start_failed")

\* reconcileJobWithError up to the save.
ReconcileWithError(job, error) ==
  CASE error = "not_found" /\ job.startedAt  -> SetTerminal(job, "failed", "operation_lost")
    [] error = "not_found" /\ ~job.startedAt -> SetTerminal(job, "unknown", "none")
    [] error = "invalid"     -> SetTerminal(job, "failed", "invalid_node_request")
    [] error = "limit"       -> SetTerminal(job, "failed", "execution_capacity_exceeded")
    [] error = "unsupported" -> SetTerminal(job, "failed", "execution_start_failed")
    [] error = "unavailable" /\ job.unavailableDeadline = "unset" ->
         [job EXCEPT !.unavailableDeadline = "ahead"]
    [] error = "unavailable" /\ job.unavailableDeadline = "passed" ->
         SetTerminal(job, "failed", "node_unavailable")
    [] OTHER -> job

Reconciled(job, reply, cause) ==
  IF reply \in OperationReplies THEN ReconcileWithOperation(job, reply, cause)
                                ELSE ReconcileWithError(job, reply)

-----------------------------------------------------------------------------
(* Saving a row. *)

\* Mutant of Applied: the update is not conditional on the revision.
AppliedBlindly(j, updated) ==
  /\ ValidState(updated)
  /\ stored' = [stored EXCEPT ![j] = updated]

\* The conditional update is applied: the row is valid and nobody saved it
\* since the runtime's copy was made.
Applied(j, updated) ==
  /\ runtime[j].isCurrent
  /\ ValidState(updated)
  /\ stored' = [stored EXCEPT ![j] = updated]

\* saveTransition gets an answer: the update was applied, and the runtime
\* continues at next or exits; or it was refused as a conflict.
StoreAnswers(j, updated, next, onConflict) ==
  \/ /\ Applied(j, updated)
     /\ runtime' = [runtime EXCEPT ![j] =
          IF next.pc = "none" THEN NoRuntime ELSE [next EXCEPT !.job = updated]]
  \/ /\ ~runtime[j].isCurrent
     /\ runtime' = [runtime EXCEPT ![j] = onConflict]
     /\ UNCHANGED stored

\* saveTransition fails with another error, and the update may have been
\* applied.  The copy stays as it was.
StoreFails(j, updated, onError) ==
  \/ /\ runtime' = [runtime EXCEPT ![j] = onError]
     /\ UNCHANGED stored
  \/ /\ Applied(j, updated)
     /\ runtime' = [runtime EXCEPT ![j] = [onError EXCEPT !.isCurrent = FALSE]]

-----------------------------------------------------------------------------
(* The runtime of a job. *)

Idle(r) == [r EXCEPT !.pc = "idle", !.call = "none", !.reply = "none"]
Conflict(r) == [Idle(r) EXCEPT !.pc = "conflict"]
Calling(r, call) == [r EXCEPT !.pc = "calling", !.call = call, !.reply = "none"]

\* The row is inserted and its runtime started.  If the insert reports an
\* error although it was applied, the row is left without a runtime.
Create(j) ==
  /\ up
  /\ stored[j].status = "absent"
  /\ stored' = [stored EXCEPT ![j] = NewJob]
  /\ \/ runtime' = [runtime EXCEPT ![j] = NewRuntime(NewJob)]
     \/ UNCHANGED runtime
  /\ UNCHANGED <<up, late, starts, nodeVars>>

ShouldStart(job) == job.status = "pending" /\ job.pendingDeadline = "unset"

\* superviseOnce up to its first call; a runtime whose job ended exits.
Supervise(j) ==
  /\ runtime[j].pc = "idle"
  /\ runtime' = [runtime EXCEPT ![j] =
       CASE IsTerminal(@.job)  -> NoRuntime
         [] ShouldStart(@.job) -> [@ EXCEPT !.pc = "starting"]
         [] OTHER              -> Calling(@, "get")]
  /\ UNCHANGED <<stored, up, late, starts, nodeVars>>

\* Mutant of SaveStartDeadline: the deadline is kept in memory only.
StartUnsaved(j) ==
  LET r == runtime[j] IN
  /\ r.pc = "starting"
  /\ runtime' = [runtime EXCEPT ![j] =
       IF ShouldStart(r.job) THEN [Calling(r, "start") EXCEPT !.job.pendingDeadline = "ahead"]
                             ELSE Conflict(r)]
  /\ starts' = [starts EXCEPT ![j] = IF ShouldStart(r.job) THEN @ + 1 ELSE @]
  /\ UNCHANGED <<stored, up, late, nodeVars>>

\* Mutant of SaveStartDeadline: the decision of superviseOnce is not checked
\* again under the transition gate.
StartUnchecked(j) ==
  LET r == runtime[j] IN
  /\ r.pc = "starting"
  /\ StoreAnswers(j, [r.job EXCEPT !.pendingDeadline = "ahead"], Calling(r, "start"), Conflict(r))
  /\ starts' = [starts EXCEPT ![j] = IF runtime'[j].pc = "calling" THEN @ + 1 ELSE @]
  /\ UNCHANGED <<up, late, nodeVars>>

\* saveOperationStartDeadline, and the start request if it succeeds.  The
\* decision of superviseOnce is checked again under the transition gate.
SaveStartDeadline(j) ==
  LET r == runtime[j] IN
  /\ r.pc = "starting"
  /\ IF ShouldStart(r.job)
     THEN StoreAnswers(j, [r.job EXCEPT !.pendingDeadline = "ahead"], Calling(r, "start"), Conflict(r))
     ELSE runtime' = [runtime EXCEPT ![j] = Conflict(r)] /\ UNCHANGED stored
  /\ starts' = [starts EXCEPT ![j] = IF runtime'[j].pc = "calling" THEN @ + 1 ELSE @]
  /\ UNCHANGED <<up, late, nodeVars>>

SaveStartDeadlineFails(j) ==
  LET r == runtime[j] IN
  /\ r.pc = "starting"
  /\ ShouldStart(r.job)
  /\ StoreFails(j, [r.job EXCEPT !.pendingDeadline = "ahead"], Idle(r))
  /\ UNCHANGED <<up, late, starts, nodeVars>>

\* The failure reasons mapOperationFailure produces for the node's reasons.
FailureCauses(reply) ==
  IF reply = "failed" THEN {"execution_start_failed", "execution_failed"} ELSE {"none"}

\* Where superviseOnce goes after reconciling: the runtime of a terminal job
\* exits, and a stopping job whose operation is unfinished is stopped on the
\* node, once per round.
AfterReconcile(r, updated) ==
  CASE IsTerminal(updated) -> NoRuntime
    [] updated.status = "stopping" /\ r.reply \in {"pending", "running"} /\ r.call # "stop" ->
         Calling(r, "stop")
    [] OTHER -> Idle(r)

\* reconcileJobWithOperation and reconcileJobWithError, with an answer from
\* the store or with nothing to save.
Reconcile(j) ==
  LET r == runtime[j] IN
  /\ r.pc = "reconciling"
  /\ IF IsTerminal(r.job)
     THEN runtime' = [runtime EXCEPT ![j] = NoRuntime] /\ UNCHANGED stored
     ELSE \E cause \in FailureCauses(r.reply) :
            LET updated == Reconciled(r.job, r.reply, cause)
                next    == AfterReconcile(r, updated)
            IN  IF updated = r.job
                THEN runtime' = [runtime EXCEPT ![j] = next] /\ UNCHANGED stored
                ELSE StoreAnswers(j, updated, next, Conflict(r))
  /\ UNCHANGED <<up, late, starts, nodeVars>>

\* Mutant of ReconcileFails: a failed save is logged and the round goes on.
ReconcileRegardless(j) ==
  LET r == runtime[j] IN
  /\ r.pc = "reconciling"
  /\ ~IsTerminal(r.job)
  /\ \E cause \in FailureCauses(r.reply) :
       LET updated == Reconciled(r.job, r.reply, cause) IN
       /\ updated # r.job
       /\ StoreFails(j, updated, AfterReconcile(r, updated))
  /\ UNCHANGED <<up, late, starts, nodeVars>>

ReconcileFails(j) ==
  LET r == runtime[j] IN
  /\ r.pc = "reconciling"
  /\ ~IsTerminal(r.job)
  /\ \E cause \in FailureCauses(r.reply) :
       LET updated == Reconciled(r.job, r.reply, cause) IN
       /\ updated # r.job
       /\ StoreFails(j, updated, Idle(r))
  /\ UNCHANGED <<up, late, starts, nodeVars>>

\* reloadFromStore after a conflict; it fails if the row is gone.
Reload(j) ==
  /\ runtime[j].pc = "conflict"
  /\ stored[j].status # "deleted"
  /\ runtime' = [runtime EXCEPT ![j] =
       IF IsTerminal(stored[j]) THEN NoRuntime ELSE NewRuntime(stored[j])]
  /\ UNCHANGED <<stored, up, late, starts, nodeVars>>

ReloadFails(j) ==
  /\ runtime[j].pc = "conflict"
  /\ runtime' = [runtime EXCEPT ![j] = Idle(@)]
  /\ UNCHANGED <<stored, up, late, starts, nodeVars>>

\* runtime.stop on behalf of a user, at any point of the supervision.  A job
\* whose start was never initiated ends at once.
StopByUser(j) ==
  LET r       == runtime[j]
      updated == IF ShouldStart(r.job)
                 THEN SetTerminal([r.job EXCEPT !.stopReason = "user_requested"], "stopped", "none")
                 ELSE SetStopping(r.job, "user_requested")
  IN /\ r.pc # "none"
     /\ r.job.status \in {"pending", "running"}
     /\ StoreAnswers(j, updated, r, r) \/ StoreFails(j, updated, r)
     /\ UNCHANGED <<up, late, starts, nodeVars>>

-----------------------------------------------------------------------------
(* Calls to the node.                                                      *)

\* What the node answers about an operation it retains, or that it does not.
Snapshot(j) ==
  CASE phase[j] = "absent"   -> "not_found"
    [] phase[j] = "terminal" -> outcome[j]
    [] OTHER                 -> phase[j]

\* The node handles a request for j and answers reply.
\* Start answers with the operation that exists, or is admitted or refused.
HandleStart(j, reply) ==
  \/ /\ phase[j] # "absent"
     /\ reply = Snapshot(j)
     /\ UNCHANGED operationVars
  \/ /\ reply = "pending"
     /\ Node!Accept(j)
  \/ /\ phase[j] = "absent"
     /\ \/ reply \in {"invalid", "unsupported"}
        \/ reply = "unavailable" /\ ~open
        \/ reply = "limit" /\ open /\ Cardinality(Node!Unfinished) >= NodeCapacity
     /\ UNCHANGED operationVars

\* Stop finds the operation, and stops it unless it is ending on its own.
HandleStop(j, reply) ==
  \/ reply = "stopping" /\ Node!RequestStop(j)
  \/ reply = Snapshot(j) /\ phase[j] # "pending" /\ UNCHANGED operationVars

Handle(call, j, reply) ==
  /\ serving
  /\ CASE call = "start" -> HandleStart(j, reply)
       [] call = "stop"  -> HandleStop(j, reply)
       [] call = "get"   -> reply = Snapshot(j) /\ UNCHANGED operationVars
  /\ UNCHANGED <<serving, ended, lost>>

Answered(j, reply) ==
  runtime' = [runtime EXCEPT ![j].pc = "reconciling", ![j].reply = reply]

\* The request of the call in progress is handled; the reply may be lost.
Serve(j) ==
  /\ runtime[j].pc = "calling"
  /\ \E reply \in OperationReplies \cup ErrorReplies :
       /\ Handle(runtime[j].call, j, reply)
       /\ Answered(j, reply) \/ Answered(j, "unavailable")
  /\ UNCHANGED <<stored, up, late, starts>>

\* The client's request timeout or a broken connection ends the call, while a
\* request that changes the node's state may still be on its way.
Mutating(call) == {call} \cap {"start", "stop"}

CallFails(j) ==
  /\ runtime[j].pc = "calling"
  /\ Answered(j, "unavailable")
  /\ late' = [late EXCEPT ![j] = @ \cup Mutating(runtime[j].call)]
  /\ UNCHANGED <<stored, up, starts, nodeVars>>

\* A request nobody waits for reaches the node.
ServeLate(j) ==
  /\ \E call \in late[j] :
       /\ \E reply \in OperationReplies \cup ErrorReplies : Handle(call, j, reply)
       /\ late' = [late EXCEPT ![j] = @ \ {call}]
  /\ UNCHANGED <<stored, runtime, up, starts>>

-----------------------------------------------------------------------------
(* The node on its own. *)

\* Operations are launched and end.
NodeRuns(r) ==
  /\ Node!Run(r)
  /\ UNCHANGED <<serving, ended, lost, jobVars>>

NodeEnds(r) ==
  /\ Node!End(r)
  /\ ended' = IF r \in Jobs THEN [ended EXCEPT ![r] = outcome'[r]] ELSE ended
  /\ UNCHANGED <<serving, lost, jobVars>>

\* The retention period of an ended operation is over.
NodeForgets(r) ==
  /\ Node!Forget(r)
  /\ lost' = IF r \in Jobs THEN [lost EXCEPT ![r] = TRUE] ELSE lost
  /\ UNCHANGED <<serving, ended, jobVars>>

\* Another client's operation is accepted.
NodeAcceptsOther(r) ==
  /\ serving
  /\ Node!Accept(r)
  /\ UNCHANGED <<serving, ended, lost, jobVars>>

\* The daemon shuts down: admission closes, then the listener, then the
\* operations are stopped.
NodeCloses ==
  /\ Node!Close
  /\ UNCHANGED <<serving, ended, lost, jobVars>>

NodeStopsServing ==
  /\ ~open
  /\ serving
  /\ serving' = FALSE
  /\ UNCHANGED <<operationVars, ended, lost, jobVars>>

\* Mutant of NodeStopsAll: the operations are stopped behind an open listener.
NodeStopsAllServing ==
  /\ Node!StopAll
  /\ UNCHANGED <<serving, ended, lost, jobVars>>

NodeStopsAll ==
  /\ ~serving
  /\ Node!StopAll
  /\ UNCHANGED <<serving, ended, lost, jobVars>>

\* The daemon is started again after a shutdown or a crash, with no memory of
\* its operations.
NodeRestarts ==
  /\ phase' = [r \in Jobs \cup OtherRequests |-> "absent"]
  /\ outcome' = [r \in Jobs \cup OtherRequests |-> "none"]
  /\ open' = TRUE
  /\ serving' = TRUE
  /\ lost' = [j \in Jobs |-> lost[j] \/ phase[j] # "absent"]
  /\ UNCHANGED <<ended, jobVars>>

-----------------------------------------------------------------------------
(* The apiserver process, and time. *)

Crash ==
  /\ up
  /\ up' = FALSE
  /\ runtime' = [j \in Jobs |-> NoRuntime]
  /\ late' = [j \in Jobs |-> late[j] \cup
       IF runtime[j].pc = "calling" THEN Mutating(runtime[j].call) ELSE {}]
  /\ UNCHANGED <<stored, starts, nodeVars>>

\* NewManager: recover starts a runtime for every unfinished row.
Recover ==
  /\ ~up
  /\ up' = TRUE
  /\ runtime' = [j \in Jobs |->
       IF stored[j].status \in {"pending", "running", "stopping"}
       THEN NewRuntime(stored[j]) ELSE NoRuntime]
  /\ UNCHANGED <<stored, late, starts, nodeVars>>

\* The deadlines that can still matter to a job: see nextSupervisionDelay.
Watched(job) ==
  CASE job.status = "pending"  -> {"unavailableDeadline", "pendingDeadline"}
    [] job.status = "running"  -> {"unavailableDeadline", "executionDeadline"}
    [] job.status = "stopping" -> {"unavailableDeadline", "stopDeadline"}
    [] OTHER                   -> {}

\* A deadline passes.  If the row and the runtime's copy both have it, it is
\* the same one: the row is at most one transition ahead of the copy.
Later(job, d) ==
  IF d \in Watched(job) /\ job[d] = "ahead" THEN [job EXCEPT ![d] = "passed"] ELSE job

DeadlinePasses(j, d) ==
  /\ \E job \in {stored[j], runtime[j].job} : Later(job, d) # job
  /\ stored' = [stored EXCEPT ![j] = Later(@, d)]
  /\ runtime' = [runtime EXCEPT ![j].job = Later(@, d)]
  /\ UNCHANGED <<up, late, starts, nodeVars>>

\* DeleteTerminalBefore, once the row's retention period is over.
CleanupTerminal(j) ==
  /\ up
  /\ IsTerminal(stored[j])
  /\ stored' = [stored EXCEPT ![j] = NoRow("deleted")]
  /\ runtime' = [runtime EXCEPT ![j].isCurrent = FALSE]
  /\ UNCHANGED <<up, late, starts, nodeVars>>

-----------------------------------------------------------------------------

RuntimeStep(j) ==
  \/ Supervise(j) \/ SaveStartDeadline(j) \/ SaveStartDeadlineFails(j)
  \/ Reconcile(j) \/ ReconcileFails(j) \/ Reload(j) \/ ReloadFails(j)

CallStep(j) == Serve(j) \/ CallFails(j) \/ ServeLate(j)

NodeStep ==
  \/ \E r \in Jobs \cup OtherRequests : NodeRuns(r) \/ NodeEnds(r) \/ NodeForgets(r)
  \/ \E r \in OtherRequests : NodeAcceptsOther(r)
  \/ NodeCloses \/ NodeStopsServing \/ NodeStopsAll \/ NodeRestarts

Next ==
  \/ \E j \in Jobs :
       \/ Create(j) \/ StopByUser(j) \/ CleanupTerminal(j)
       \/ RuntimeStep(j) \/ CallStep(j)
       \/ \E d \in Deadlines : DeadlinePasses(j, d)
  \/ NodeStep
  \/ Crash \/ Recover

Spec == Init /\ [][Next]_vars

(***************************************************************************)
(* Runtimes keep running, a call ends by its reply or by the client's      *)
(* request timeout, and deadlines pass.  A store that is asked again and   *)
(* again answers eventually (strong fairness of the steps it answers).     *)
(* The node and the network owe nothing.                                   *)
(***************************************************************************)
Fairness ==
  \A j \in Jobs :
    /\ WF_vars(Supervise(j))
    /\ WF_vars(Serve(j) \/ CallFails(j))
    /\ SF_vars(SaveStartDeadline(j))
    /\ SF_vars(Reconcile(j))
    /\ SF_vars(Reload(j))
    /\ WF_vars(ReloadFails(j))
    /\ \A d \in Deadlines : WF_vars(DeadlinePasses(j, d))

FairSpec == Spec /\ Fairness

-----------------------------------------------------------------------------
(* Properties. *)

\* StartOperation is requested at most once for a job, whatever crashes, lost
\* replies, ambiguous saves and recoveries come in between.
StartedAtMostOnce ==
  \A j \in Jobs : starts[j] <= 1

\* A stop request is on its way to the node only after the intent to stop was
\* persisted, so that it survives a crash of the apiserver.
StopIntentPersisted ==
  \A j \in Jobs :
    "stop" \in late[j] \/ (runtime[j].pc = "calling" /\ runtime[j].call = "stop") =>
      stored[j].stopReason # "none" \/ stored[j].status = "deleted"

\* A job is reported as completed or stopped only if that is what happened to
\* its operation on the node; stopped also if it never had one.
OutcomeAgrees ==
  \A j \in Jobs :
    /\ stored[j].outcome = "completed" => ended[j] = "completed"
    /\ stored[j].outcome = "stopped" => ended[j] = "stopped" \/ starts[j] = 0

\* A job fails as operation_lost only if the node really dropped an operation
\* of this job.
LossExplained ==
  \A j \in Jobs : stored[j].reason = "operation_lost" => lost[j]

\* With a node that keeps its lifecycle no job fails as protocol_error: an
\* operation is never seen stopping without a stored stop intent, not even
\* while the node shuts down, and never seen to regress.
NoProtocolError ==
  \A j \in Jobs : stored[j].reason # "protocol_error"

\* A terminal row changes no more; it is only deleted.
TerminalStable ==
  [][\A j \in Jobs : IsTerminal(stored[j]) =>
       stored'[j] = stored[j] \/ stored'[j].status = "deleted"]_vars

\* Supervision ends every job unless the apiserver goes down: through its
\* operation, or through one of the deadlines.
SupervisedJobsEnd ==
  \A j \in Jobs :
    runtime[j].pc # "none" ~> stored[j].status \in {"terminal", "deleted"} \/ ~up
=============================================================================
