--------------------------- MODULE JobControlProofs ---------------------------
(***************************************************************************)
(* Proofs about the supervision of jobs, for every set of jobs and of other *)
(* clients and every capacity of the node: a job is started at most once,  *)
(* a stop is persisted before it is requested, and what the row says in    *)
(* the end agrees with what happened on the node.                          *)
(***************************************************************************)
EXTENDS JobControl, TLAPS

Requests == Jobs \cup OtherRequests
Replies == OperationReplies \cup ErrorReplies
DeadlineValues == {"unset", "ahead", "passed"}

Statuses == {"absent", "pending", "running", "stopping", "terminal", "deleted"}
Results == {"none", "completed", "failed", "stopped", "unknown"}
Reasons == FailureReasons \cup {"none"}
StopReasons == {"none", "user_requested", "start_timeout", "execution_timeout"}

Row == [status: Statuses, outcome: Results, reason: Reasons, stopReason: StopReasons,
        startedAt: BOOLEAN, endedAt: BOOLEAN,
        pendingDeadline: DeadlineValues, executionDeadline: DeadlineValues,
        unavailableDeadline: DeadlineValues, stopDeadline: DeadlineValues]

Runtime == [pc: {"none", "idle", "starting", "calling", "reconciling", "conflict"},
            job: Row, isCurrent: BOOLEAN, call: {"none", "start", "stop", "get"},
            reply: Replies \cup {"none"}]

JobType == /\ stored \in [Jobs -> Row] /\ runtime \in [Jobs -> Runtime]
           /\ late \in [Jobs -> SUBSET {"start", "stop"}]
           /\ starts \in [Jobs -> {0, 1}]

NodeType ==
  /\ phase \in [Requests -> {"absent", "pending", "running", "stopping", "terminal"}]
  /\ outcome \in [Requests -> {"none", "completed", "failed", "stopped"}]
  /\ ended \in [Jobs -> {"none", "completed", "failed", "stopped"}]
  /\ lost \in [Jobs -> BOOLEAN] /\ serving \in BOOLEAN

\* The intent to stop j is stored, or its row was deleted after it ended.
Intent(j) == stored[j].stopReason # "none" \/ stored[j].status = "deleted"

\* The operation of j was launched, or at least asked to stop or ended.
Ran(j) == lost[j] \/ phase[j] \in {"running", "stopping", "terminal"}

\* A runtime is in a call to the node.
InCall(j, call) == runtime[j].pc = "calling" /\ runtime[j].call = call

\* A current copy is the row.
CopyInv(j) ==
  LET r == runtime[j] IN
  /\ r.isCurrent => r.job = stored[j] /\ r.job.status \notin {"absent", "deleted"}
  /\ r.pc # "none" => stored[j].status # "absent"
  /\ r.pc = "calling" => r.call # "none"
  /\ r.pc = "reconciling" => r.reply # "none"

\* Rows: what their status says about the rest, and about the node.
RowInv(j) ==
  LET row == stored[j] IN
  /\ row.status \in {"absent", "deleted"} => row = NoRow(row.status)
  /\ row.outcome # "none" => row.status = "terminal"
  /\ row.stopReason # "none" => row.status \in {"stopping", "terminal"}
  /\ row.status = "stopping" => row.stopReason # "none"
  /\ row.outcome = "completed" => ended[j] = "completed"
  /\ row.outcome = "stopped" => ended[j] = "stopped" \/ starts[j] = 0
  /\ row.reason = "operation_lost" => lost[j]
  /\ row.reason # "protocol_error"

\* The start request is sent after its deadline was stored.  While it is on its
\* way, in the call or late, the node has never had the operation.
StartInv(j) ==
  /\ starts[j] = 1 => stored[j].pendingDeadline # "unset" \/ stored[j].status = "deleted"
  /\ ~("start" \in late[j] /\ InCall(j, "start"))
  /\ "start" \in late[j] \/ InCall(j, "start") => starts[j] = 1
  /\ "start" \in late[j] \/ InCall(j, "start") \/ starts[j] = 0 =>
       phase[j] = "absent" /\ ended[j] = "none" /\ ~lost[j]

\* The one operation the node can have of j.
NodeInv(j) ==
  /\ phase[j] # "absent" => ~lost[j]
  /\ phase[j] \in {"pending", "running", "stopping"} => ended[j] = "none"
  /\ phase[j] = "terminal" => ended[j] = outcome[j]
  /\ phase[j] = "stopping" /\ serving => Intent(j)

\* What was seen running has run; a stop follows a stored intent.
SeenInv(j) ==
  LET r == runtime[j] IN
  /\ r.job.startedAt \/ r.job.status = "running" => Ran(j)
  /\ stored[j].startedAt \/ stored[j].status = "running" => Ran(j)
  /\ r.job.status = "stopping" => Intent(j)
  /\ "stop" \in late[j] \/ InCall(j, "stop") => Intent(j)

\* A reply stays true of the node in the sense the reconciliation needs.
ReplyInv(j) ==
  LET r == runtime[j] IN
  r.pc = "reconciling" =>
    /\ r.reply \in {"completed", "failed", "stopped"} => ended[j] = r.reply
    /\ r.reply = "running" => Ran(j)
    /\ r.reply = "not_found" /\ r.job.startedAt => lost[j]
    /\ r.reply = "pending" => r.job.status # "running"
    /\ r.reply = "stopping" => Intent(j)

JobInv(j) ==
  CopyInv(j) /\ RowInv(j) /\ StartInv(j) /\ NodeInv(j) /\ SeenInv(j) /\ ReplyInv(j)

\* The inductive invariant.
IInv == JobType /\ NodeType /\ \A j \in Jobs : JobInv(j)

-----------------------------------------------------------------------------
(* Rows. *)

\* The rows and runtimes the code starts from.
LEMMA FreshValues ==
  /\ NewJob \in Row
  /\ \A status \in {"absent", "deleted"} :
       NoRow(status) \in Row /\ NoRow(status) = [NewJob EXCEPT !.status = status]
  /\ NoRuntime \in Runtime
  /\ \A row \in Row : NewRuntime(row) \in Runtime
<1>1. NewJob \in Row
  BY SMT DEF NewJob, Row, DeadlineValues, Statuses, Results, Reasons, StopReasons
<1>2. ASSUME NEW status \in {"absent", "deleted"} PROVE NoRow(status) \in Row
  BY <1>1, SMT DEF NoRow, Row, Statuses
<1>3. NoRuntime \in Runtime
  BY <1>2, SMT DEF NoRuntime, Runtime
<1>4. ASSUME NEW row \in Row PROVE NewRuntime(row) \in Runtime
  BY <1>3, Zenon DEF NewRuntime, Runtime
<1> QED
  BY <1>1, <1>2, <1>3, <1>4 DEF NoRow

\* A row that is being stopped differs in three fields.
LEMMA SetStoppingIs ==
  ASSUME NEW job \in Row, NEW reason \in StopReasons
  PROVE  LET u == SetStopping(job, reason) IN
         /\ u \in Row /\ u.status = "stopping" /\ u.stopReason = reason
         /\ u.outcome = job.outcome /\ u.reason = job.reason
         /\ u.startedAt = job.startedAt /\ u.pendingDeadline = job.pendingDeadline
<1> DEFINE u == SetStopping(job, reason)
<1>1. u \in Row
  BY Zenon DEF SetStopping, Row, DeadlineValues, Statuses
<1>2. /\ u.status = "stopping" /\ u.stopReason = reason
      /\ u.outcome = job.outcome /\ u.reason = job.reason
      /\ u.startedAt = job.startedAt /\ u.pendingDeadline = job.pendingDeadline
  BY SMT DEF SetStopping, Row
<1> QED
  BY <1>1, <1>2

\* A row that ends keeps what it knew of its start and of its stop.
LEMMA SetTerminalIs ==
  ASSUME NEW job \in Row, NEW result \in Results, NEW reason \in Reasons
  PROVE  LET u == SetTerminal(job, result, reason) IN
         /\ u \in Row /\ u.status = "terminal" /\ u.outcome = result /\ u.reason = reason
         /\ u.startedAt = job.startedAt /\ u.pendingDeadline = job.pendingDeadline
         /\ u.stopReason = job.stopReason
<1> DEFINE u == SetTerminal(job, result, reason)
<1>1. u \in Row
  BY Zenon DEF SetTerminal, Row, Statuses
<1>2. /\ u.status = "terminal" /\ u.outcome = result /\ u.reason = reason
      /\ u.startedAt = job.startedAt /\ u.pendingDeadline = job.pendingDeadline
      /\ u.stopReason = job.stopReason
  BY SMT DEF SetTerminal, Row
<1> QED
  BY <1>1, <1>2

\* What reconciling an unfinished row with a reply may do to it.
Advances(job, reply, u) ==
  /\ u.pendingDeadline = job.pendingDeadline
  /\ u.status \in {"pending", "running", "stopping", "terminal"}
  /\ job.stopReason # "none" => u.stopReason # "none"
  /\ u.stopReason # "none" => u.status \in {"stopping", "terminal"}
  /\ u.outcome \in {"completed", "stopped"} => u.outcome = reply
  /\ u.reason = "operation_lost" =>
       job.reason = "operation_lost" \/ (reply = "not_found" /\ job.startedAt)
  /\ u.reason = "protocol_error" => job.reason = "protocol_error"
  /\ u.startedAt \/ u.status = "running" =>
       job.startedAt \/ job.status = "running" \/ reply = "running"

\* A row that is not ended, as the invariant knows it.
Unended(job) ==
  /\ job.status \in {"pending", "running", "stopping"}
  /\ job.outcome = "none"
  /\ job.stopReason # "none" => job.status = "stopping"

\* FollowOperation, when the reply is none of the two that mean a broken
\* protocol.
LEMMA FollowAdvances ==
  ASSUME NEW job \in Row, Unended(job), NEW reply \in OperationReplies,
         NEW cause \in FailureCauses(reply),
         reply = "pending" => job.status # "running",
         reply = "stopping" => job.status = "stopping"
  PROVE  LET u == FollowOperation(job, reply, cause) IN
         u \in Row /\ Advances(job, reply, u)
<1> DEFINE u == FollowOperation(job, reply, cause)
<1>0. /\ cause \in FailureReasons \cup {"none"}
      /\ cause \notin {"operation_lost", "protocol_error"}
  BY DEF FailureCauses, FailureReasons
<1>s. \A reason \in {"user_requested", "start_timeout", "execution_timeout"} :
        /\ SetStopping(job, reason) \in Row
        /\ job.stopReason = "none" => Advances(job, reply, SetStopping(job, reason))
  BY SetStoppingIs DEF Advances, StopReasons, Unended
<1>t. ASSUME NEW result \in {"completed", "failed", "stopped"},
             NEW reason \in (FailureReasons \cup {"none"}) \ {"operation_lost", "protocol_error"},
             result = "failed" \/ result = reply
      PROVE  /\ SetTerminal(job, result, reason) \in Row
             /\ Advances(job, reply, SetTerminal(job, result, reason))
  <2> DEFINE v == SetTerminal(job, result, reason)
  <2>1. /\ v \in Row /\ v.status = "terminal" /\ v.outcome = result /\ v.reason = reason
        /\ v.startedAt = job.startedAt /\ v.pendingDeadline = job.pendingDeadline
        /\ v.stopReason = job.stopReason
    <3>1. result \in Results /\ reason \in Reasons
      BY DEF Results, Reasons
    <3> QED
      BY <3>1, SetTerminalIs
  <2> HIDE DEF v
  <2>2. Advances(job, reply, v)
    BY <2>1, <1>t DEF Advances, Unended
  <2> QED
    BY <2>1, <2>2 DEF v
<1>j. Advances(job, reply, job)
  BY DEF Advances, Unended
<1>r. {"start_timeout", "execution_timed_out", "execution_failed", "stop_timeout", "none"} \subseteq
        (FailureReasons \cup {"none"}) \ {"operation_lost", "protocol_error"}
  BY DEF FailureReasons
<1>1. CASE reply = "pending"
  <2>1. u = job \/ (job.status = "pending" /\ u = SetStopping(job, "start_timeout"))
    BY <1>1 DEF FollowOperation
  <2> QED
    BY <2>1, <1>s, <1>j DEF Unended
<1>2. CASE reply = "running"
  <2>1. \/ u = job
        \/ /\ job.status = "pending"
           /\ u = [job EXCEPT !.status = "running", !.startedAt = TRUE, !.executionDeadline = "ahead"]
        \/ job.status = "running" /\ u = SetStopping(job, "execution_timeout")
    BY <1>2 DEF FollowOperation
  <2>2. CASE /\ job.status = "pending"
             /\ u = [job EXCEPT !.status = "running", !.startedAt = TRUE, !.executionDeadline = "ahead"]
    <3>1. u \in Row
      BY <2>2, Zenon DEF Row, DeadlineValues, Statuses
    <3>2. /\ u.status = "running" /\ u.outcome = job.outcome /\ u.reason = job.reason
          /\ u.pendingDeadline = job.pendingDeadline /\ u.stopReason = job.stopReason
      BY <2>2, SMT DEF Row
    <3> QED
      BY <3>1, <3>2, <1>2, <2>2 DEF Advances, Unended
  <2> QED
    BY <2>1, <2>2, <1>s, <1>j DEF Unended
<1>3. CASE reply = "stopping"
  <2>1. u = job \/ u = SetTerminal(job, "failed", "stop_timeout")
    BY <1>3 DEF FollowOperation
  <2> QED
    BY <2>1, <1>t, <1>j, <1>r
<1>4. CASE reply = "completed"
  <2>1. u = SetTerminal(job, "completed", "none")
    BY <1>4 DEF FollowOperation
  <2> QED
    BY <2>1, <1>4, <1>t, <1>r
<1>5. CASE reply = "failed"
  <2>1. u = SetTerminal(job, "failed", cause)
    BY <1>5 DEF FollowOperation
  <2> QED
    BY <2>1, <1>0, <1>t
<1>6. CASE reply = "stopped"
  <2>1. u = TerminalForStop(job)
    BY <1>6 DEF FollowOperation
  <2>2. \/ u = SetTerminal(job, "stopped", "none")
        \/ u = SetTerminal(job, "failed", "start_timeout")
        \/ u = SetTerminal(job, "failed", "execution_timed_out")
        \/ u = SetTerminal(job, "failed", "execution_failed")
    BY <2>1 DEF TerminalForStop
  <2> QED
    BY <2>2, <1>6, <1>t, <1>r
<1> QED
  BY <1>1, <1>2, <1>3, <1>4, <1>5, <1>6 DEF OperationReplies

\* reconcileJobWithOperation: the availability window is closed first, and a
\* stop that is overdue ends the row.
LEMMA OperationAdvances ==
  ASSUME NEW job \in Row, Unended(job), NEW reply \in OperationReplies,
         NEW cause \in FailureCauses(reply),
         reply = "pending" => job.status # "running",
         reply = "stopping" => job.status = "stopping"
  PROVE  LET u == ReconcileWithOperation(job, reply, cause) IN
         u \in Row /\ Advances(job, reply, u)
<1> DEFINE reachable == [job EXCEPT !.unavailableDeadline = "unset"]
           followed == FollowOperation(reachable, reply, cause)
           u == ReconcileWithOperation(job, reply, cause)
<1>1. reachable \in Row
  BY Zenon DEF Row, DeadlineValues
<1>2. /\ reachable.status = job.status /\ reachable.outcome = job.outcome
      /\ reachable.stopReason = job.stopReason /\ reachable.reason = job.reason
      /\ reachable.startedAt = job.startedAt
      /\ reachable.pendingDeadline = job.pendingDeadline
  BY SMT DEF Row
<1>3. Unended(reachable)
  BY <1>2 DEF Unended
<1> HIDE DEF reachable
<1>4. followed \in Row /\ Advances(reachable, reply, followed)
  BY <1>1, <1>2, <1>3, FollowAdvances
<1>5. Advances(job, reply, followed)
  BY <1>4, <1>2 DEF Advances
<1>6. \/ u = followed
      \/ followed.status = "stopping" /\ u = SetTerminal(followed, "failed", "stop_timeout")
  BY DEF ReconcileWithOperation, reachable
<1> HIDE DEF followed, u
<1>7. CASE u = followed
  BY <1>7, <1>4, <1>5 DEF u
<1>8. CASE followed.status = "stopping" /\ u = SetTerminal(followed, "failed", "stop_timeout")
  <2>1. "failed" \in Results /\ "stop_timeout" \in Reasons
    BY DEF FailureReasons, Results, Reasons
  <2>2. /\ u \in Row /\ u.status = "terminal" /\ u.outcome = "failed" /\ u.reason = "stop_timeout"
        /\ u.startedAt = followed.startedAt /\ u.pendingDeadline = followed.pendingDeadline
        /\ u.stopReason = followed.stopReason
    BY <1>4, <1>8, <2>1, SetTerminalIs
  <2> QED
    BY <2>2, <1>5 DEF Advances, u
<1> QED
  BY <1>6, <1>7, <1>8

\* reconcileJobWithError.
LEMMA ErrorAdvances ==
  ASSUME NEW job \in Row, Unended(job), NEW reply \in ErrorReplies
  PROVE  LET u == ReconcileWithError(job, reply) IN
         u \in Row /\ Advances(job, reply, u)
<1> DEFINE u == ReconcileWithError(job, reply)
<1>t. ASSUME NEW result \in {"failed", "unknown"},
             NEW reason \in (FailureReasons \cup {"none"}) \ {"protocol_error"},
             reason = "operation_lost" => reply = "not_found" /\ job.startedAt
      PROVE  /\ SetTerminal(job, result, reason) \in Row
             /\ Advances(job, reply, SetTerminal(job, result, reason))
  <2> DEFINE v == SetTerminal(job, result, reason)
  <2>1. /\ v \in Row /\ v.status = "terminal" /\ v.outcome = result /\ v.reason = reason
        /\ v.startedAt = job.startedAt /\ v.pendingDeadline = job.pendingDeadline
        /\ v.stopReason = job.stopReason
    <3>1. result \in Results /\ reason \in Reasons
      BY DEF Results, Reasons
    <3> QED
      BY <3>1, SetTerminalIs
  <2> HIDE DEF v
  <2>2. Advances(job, reply, v)
    BY <2>1, <1>t DEF Advances, Unended
  <2> QED
    BY <2>1, <2>2 DEF v
<1>r. {"operation_lost", "invalid_node_request", "execution_capacity_exceeded",
       "execution_start_failed", "node_unavailable", "none"} \subseteq
        (FailureReasons \cup {"none"}) \ {"protocol_error"}
  BY DEF FailureReasons
<1>j. Advances(job, reply, job)
  BY DEF Advances, Unended
<1>1. \/ reply = "not_found" /\ job.startedAt /\ u = SetTerminal(job, "failed", "operation_lost")
      \/ u = SetTerminal(job, "unknown", "none")
      \/ u = SetTerminal(job, "failed", "invalid_node_request")
      \/ u = SetTerminal(job, "failed", "execution_capacity_exceeded")
      \/ u = SetTerminal(job, "failed", "execution_start_failed")
      \/ u = [job EXCEPT !.unavailableDeadline = "ahead"]
      \/ u = SetTerminal(job, "failed", "node_unavailable")
      \/ u = job
  BY DEF ReconcileWithError, ErrorReplies
<1>2. CASE u = [job EXCEPT !.unavailableDeadline = "ahead"]
  <2>1. u \in Row
    BY <1>2, Zenon DEF Row, DeadlineValues
  <2>2. /\ u.status = job.status /\ u.outcome = job.outcome /\ u.stopReason = job.stopReason
        /\ u.reason = job.reason /\ u.startedAt = job.startedAt
        /\ u.pendingDeadline = job.pendingDeadline
    BY <1>2, SMT DEF Row
  <2> QED
    BY <2>1, <2>2 DEF Advances, Unended
<1> HIDE DEF u
<1> QED
  BY <1>1, <1>2, <1>t, <1>r, <1>j DEF u

\* Reconciling an unfinished row with any reply that fits it.
LEMMA ReconciledAdvances ==
  ASSUME NEW job \in Row, Unended(job), NEW reply \in Replies,
         NEW cause \in FailureCauses(reply),
         reply = "pending" => job.status # "running",
         reply = "stopping" => job.status = "stopping"
  PROVE  LET u == Reconciled(job, reply, cause) IN
         u \in Row /\ Advances(job, reply, u)
<1>1. CASE reply \in OperationReplies
  BY <1>1, OperationAdvances DEF Reconciled
<1>2. CASE reply \notin OperationReplies
  BY <1>2, ErrorAdvances DEF Reconciled, Replies
<1> QED
  BY <1>1, <1>2

-----------------------------------------------------------------------------
(* Frames. *)

\* Nothing the invariant says of j changes.
Same(j) ==
  /\ stored'[j] = stored[j] /\ runtime'[j] = runtime[j]
  /\ late'[j] = late[j] /\ starts'[j] = starts[j]
  /\ phase'[j] = phase[j] /\ outcome'[j] = outcome[j]
  /\ ended'[j] = ended[j] /\ lost'[j] = lost[j]

\* A job no step touches keeps its invariant.
LEMMA SameKeeps ==
  ASSUME NEW j \in Jobs, JobInv(j), Same(j), serving' = serving
  PROVE  JobInv(j)'
<1>1. CopyInv(j)'
  BY DEF JobInv, CopyInv, Same
<1>2. RowInv(j)'
  BY DEF JobInv, RowInv, Same
<1>3. StartInv(j)'
  BY DEF JobInv, StartInv, InCall, Same
<1>4. NodeInv(j)'
  BY DEF JobInv, NodeInv, Intent, Same
<1>5. SeenInv(j)'
  BY DEF JobInv, SeenInv, Intent, Ran, InCall, Same
<1>6. ReplyInv(j)'
  BY DEF JobInv, ReplyInv, Intent, Ran, Same
<1> QED
  BY <1>1, <1>2, <1>3, <1>4, <1>5, <1>6 DEF JobInv

\* A step is checked job by job.
LEMMA JobWise ==
  ASSUME IInv, JobType', NodeType', serving' = serving,
         \A k \in Jobs : Same(k) \/ JobInv(k)'
  PROVE  IInv'
<1>1. ASSUME NEW k \in Jobs PROVE JobInv(k)'
  BY SameKeeps DEF IInv
<1> QED
  BY <1>1 DEF IInv

\* Initially there are no jobs.
LEMMA InitIInv == Init => IInv
<1> SUFFICES ASSUME Init PROVE IInv
  OBVIOUS
<1>1. JobType
  BY FreshValues DEF Init, JobType
<1>2. NodeType
  BY DEF Init, NodeType, Node!Init, Requests
<1>3. ASSUME NEW j \in Jobs PROVE JobInv(j)
  <2>1. /\ stored[j] = NoRow("absent") /\ runtime[j] = NoRuntime /\ late[j] = {}
        /\ starts[j] = 0 /\ phase[j] = "absent" /\ ended[j] = "none" /\ lost[j] = FALSE
    BY DEF Init, Node!Init
  <2>2. /\ NoRow("absent").status = "absent" /\ NoRow("absent").outcome = "none"
        /\ NoRow("absent").reason = "none" /\ NoRow("absent").stopReason = "none"
        /\ NoRow("absent").startedAt = FALSE
    BY DEF NoRow, NewJob
  <2>3. /\ NoRuntime.pc = "none" /\ NoRuntime.job = NoRow("absent") /\ ~NoRuntime.isCurrent
    BY DEF NoRuntime
  <2>4. CopyInv(j) /\ RowInv(j)
    BY <2>1, <2>2, <2>3 DEF CopyInv, RowInv
  <2>5. StartInv(j) /\ NodeInv(j)
    BY <2>1, <2>3 DEF StartInv, NodeInv, InCall
  <2>6. SeenInv(j) /\ ReplyInv(j)
    BY <2>1, <2>2, <2>3 DEF SeenInv, ReplyInv, InCall
  <2> QED
    BY <2>4, <2>5, <2>6 DEF JobInv
<1> QED
  BY <1>1, <1>2, <1>3 DEF IInv

-----------------------------------------------------------------------------
(* Steps of a runtime. *)

\* The runtime of j becomes m while its row, the calls under way and the node
\* stay: its copy is the old one, the row or none, and it calls the node only to
\* ask, or to stop what its copy says is stopping.
LEMMA WaitKeeps ==
  ASSUME IInv, NEW j \in Jobs, NEW m \in Runtime,
         runtime[j].pc # "none", runtime' = [runtime EXCEPT ![j] = m],
         UNCHANGED <<stored, late, starts, nodeVars>>,
         \/ m.job = runtime[j].job /\ (m.isCurrent => runtime[j].isCurrent)
         \/ m.job = stored[j] /\ stored[j].status \notin {"absent", "deleted"}
         \/ m = NoRuntime,
         m.pc = "calling" =>
           \/ m.call = "get"
           \/ m.call = "stop" /\ runtime[j].job.status = "stopping"
           \/ runtime[j].pc = "calling" /\ m.call = runtime[j].call,
         m.pc = "reconciling" =>
           /\ runtime[j].pc = "reconciling" /\ m.reply = runtime[j].reply
           /\ m.job = runtime[j].job
  PROVE  IInv'
<1> DEFINE r == runtime[j]
<1>0. JobInv(j) /\ stored[j] \in Row /\ r \in Runtime
  BY DEF IInv, JobType
<1>1. /\ runtime'[j] = m /\ \A k \in Jobs \ {j} : runtime'[k] = runtime[k]
      /\ runtime' \in [Jobs -> Runtime]
  BY DEF IInv, JobType
<1>2. JobType' /\ NodeType'
  BY <1>1 DEF IInv, JobType, NodeType, nodeVars, operationVars
<1>3. \A k \in Jobs \ {j} : Same(k)
  BY <1>1 DEF Same, nodeVars, operationVars
<1>4. /\ NoRuntime.pc = "none" /\ ~NoRuntime.isCurrent
      /\ NoRuntime.job.status = "absent" /\ ~NoRuntime.job.startedAt
  BY DEF NoRuntime, NoRow, NewJob
<1>u. /\ stored' = stored /\ late' = late /\ starts' = starts /\ phase' = phase
      /\ outcome' = outcome /\ ended' = ended /\ lost' = lost /\ serving' = serving
  BY DEF nodeVars, operationVars
<1>5. CopyInv(j)'
  BY <1>0, <1>1, <1>4, <1>u DEF JobInv, CopyInv
<1>6. RowInv(j)'
  BY <1>0, <1>u DEF JobInv, RowInv
<1>7. StartInv(j)'
  BY <1>0, <1>1, <1>u DEF JobInv, StartInv, InCall
<1>8. NodeInv(j)'
  BY <1>0, <1>u DEF JobInv, NodeInv, Intent
<1>9. SeenInv(j)'
  BY Zenon, <1>0, <1>1, <1>4, <1>u DEF JobInv, SeenInv, Intent, Ran, InCall, RowInv
<1>10. ReplyInv(j)'
  BY <1>0, <1>1, <1>4, <1>u DEF JobInv, ReplyInv, Intent, Ran
<1>11. JobInv(j)'
  BY <1>5, <1>6, <1>7, <1>8, <1>9, <1>10 DEF JobInv
<1> QED
  BY <1>2, <1>3, <1>11, <1>u, JobWise

\* An update the code may save over the current row of j.
Saveable(j, u) ==
  LET row == stored[j] IN
  /\ u.status \in {"pending", "running", "stopping", "terminal"}
  /\ row.pendingDeadline # "unset" => u.pendingDeadline # "unset"
  /\ row.stopReason # "none" => u.stopReason # "none"
  /\ u.stopReason # "none" => u.status \in {"stopping", "terminal"}
  /\ u.outcome = "completed" => ended[j] = "completed"
  /\ u.outcome = "stopped" => ended[j] = "stopped" \/ starts[j] = 0
  /\ u.reason = "operation_lost" => lost[j]
  /\ u.reason # "protocol_error"
  /\ u.startedAt \/ u.status = "running" => Ran(j)

\* Saving such an update keeps what is said of the row and of the node.
LEMMA RowSaved ==
  ASSUME IInv, NEW j \in Jobs, NEW u \in Row, Applied(j, u), Saveable(j, u),
         UNCHANGED nodeVars, starts'[j] = starts[j]
  PROVE  /\ stored' \in [Jobs -> Row] /\ stored'[j] = u
         /\ \A k \in Jobs \ {j} : stored'[k] = stored[k]
         /\ RowInv(j)' /\ NodeInv(j)'
         /\ Intent(j) => Intent(j)'
<1>0. JobInv(j) /\ stored[j] \in Row /\ runtime[j].isCurrent /\ ValidState(u)
  BY DEF IInv, JobType, Applied
<1>1. /\ stored' \in [Jobs -> Row] /\ stored'[j] = u
      /\ \A k \in Jobs \ {j} : stored'[k] = stored[k]
  BY DEF IInv, JobType, Applied
<1>2. stored[j].status \notin {"absent", "deleted"}
  BY <1>0 DEF JobInv, CopyInv
<1>3. Intent(j) => Intent(j)'
  BY <1>1, <1>2 DEF Intent, Saveable
<1>4. RowInv(j)'
  BY <1>0, <1>1 DEF RowInv, Saveable, ValidState, IsTerminal, nodeVars
<1>5. NodeInv(j)'
  BY Zenon, <1>0, <1>3 DEF JobInv, NodeInv, nodeVars, operationVars
<1> QED
  BY <1>1, <1>3, <1>4, <1>5

\* The update u is applied and the runtime of j becomes m, with the saved row,
\* an outdated copy or none.  It calls the node to stop an operation only after
\* a stop was saved; a call or a reply that a user's stop finds stays.
LEMMA SaveKeeps ==
  ASSUME IInv, NEW j \in Jobs, NEW u \in Row, NEW m \in Runtime,
         Applied(j, u), Saveable(j, u), runtime' = [runtime EXCEPT ![j] = m],
         UNCHANGED <<late, starts, nodeVars>>,
         \/ m.job = u
         \/ m.job = runtime[j].job /\ ~m.isCurrent
         \/ m = NoRuntime,
         m.pc = "calling" =>
           \/ m.call = "get"
           \/ m.call = "stop" /\ u.status = "stopping"
           \/ runtime[j].pc = "calling" /\ m.call = runtime[j].call,
         m.pc = "reconciling" =>
           /\ runtime[j].pc = "reconciling" /\ m.reply = runtime[j].reply
           /\ u.status # "running" /\ u.startedAt = runtime[j].job.startedAt
  PROVE  IInv'
<1> DEFINE r == runtime[j]
<1>0. JobInv(j) /\ stored[j] \in Row /\ r \in Runtime
  BY DEF IInv, JobType
<1>1. /\ runtime'[j] = m /\ \A k \in Jobs \ {j} : runtime'[k] = runtime[k]
      /\ runtime' \in [Jobs -> Runtime]
  BY DEF IInv, JobType
<1>u. /\ late' = late /\ starts' = starts /\ phase' = phase
      /\ outcome' = outcome /\ ended' = ended /\ lost' = lost /\ serving' = serving
  BY DEF nodeVars, operationVars
<1>2. /\ stored' \in [Jobs -> Row] /\ stored'[j] = u
      /\ \A k \in Jobs \ {j} : stored'[k] = stored[k]
      /\ RowInv(j)' /\ NodeInv(j)'
      /\ Intent(j) => Intent(j)'
  BY Zenon, <1>u, RowSaved
<1>3. JobType' /\ NodeType'
  BY Zenon, <1>1, <1>2, <1>u DEF IInv, JobType, NodeType
<1>4. \A k \in Jobs \ {j} : Same(k)
  BY <1>1, <1>2, <1>u DEF Same
<1>5. /\ NoRuntime.pc = "none" /\ ~NoRuntime.isCurrent
      /\ NoRuntime.job.status = "absent" /\ ~NoRuntime.job.startedAt
  BY DEF NoRuntime, NoRow, NewJob
<1>6. Ran(j)' = Ran(j)
  BY <1>u DEF Ran
<1>7. u.status = "stopping" => Intent(j)'
  BY <1>2 DEF RowInv, Intent
<1>8. r.job = stored[j] /\ stored[j].status \notin {"absent", "deleted"}
  BY Zenon, <1>0 DEF JobInv, CopyInv, Applied
<1>9. CopyInv(j)'
  BY Zenon, <1>0, <1>1, <1>2, <1>5 DEF JobInv, CopyInv, Saveable
<1>10. StartInv(j)'
  BY Zenon, <1>0, <1>1, <1>2, <1>8, <1>u DEF JobInv, StartInv, InCall, Saveable
<1>11. SeenInv(j)'
  <2>1. /\ m.job.startedAt \/ m.job.status = "running" => Ran(j)
        /\ u.startedAt \/ u.status = "running" => Ran(j)
    BY Zenon, <1>0, <1>5 DEF JobInv, SeenInv, Saveable
  <2>2. m.job.status = "stopping" => Intent(j)'
    BY Zenon, <1>0, <1>2, <1>5, <1>7 DEF JobInv, SeenInv
  <2>3. "stop" \in late[j] \/ (m.pc = "calling" /\ m.call = "stop") => Intent(j)'
    BY Zenon, <1>0, <1>2, <1>7 DEF JobInv, SeenInv, InCall
  <2> QED
    BY Zenon, <2>1, <2>2, <2>3, <1>1, <1>2, <1>6, <1>u DEF SeenInv, InCall
<1>12. ReplyInv(j)'
  BY Zenon, <1>0, <1>1, <1>2, <1>5, <1>6, <1>u DEF JobInv, ReplyInv
<1>13. JobInv(j)'
  BY Zenon, <1>2, <1>9, <1>10, <1>11, <1>12 DEF JobInv
<1> QED
  BY Zenon, <1>3, <1>4, <1>13, <1>u, JobWise

\* Where a runtime goes: only its place, its call and its reply change.
LEMMA RuntimeIs ==
  ASSUME NEW r \in Runtime
  PROVE  /\ Idle(r) \in Runtime /\ Idle(r).pc = "idle"
         /\ Idle(r).job = r.job /\ Idle(r).isCurrent = r.isCurrent
         /\ Conflict(r) \in Runtime /\ Conflict(r).pc = "conflict"
         /\ Conflict(r).job = r.job /\ Conflict(r).isCurrent = r.isCurrent
         /\ \A call \in {"start", "stop", "get"} :
              /\ Calling(r, call) \in Runtime /\ Calling(r, call).pc = "calling"
              /\ Calling(r, call).call = call
              /\ Calling(r, call).job = r.job /\ Calling(r, call).isCurrent = r.isCurrent
<1>1. Idle(r) \in Runtime
  BY Zenon DEF Idle, Runtime
<1>2. Idle(r).pc = "idle" /\ Idle(r).job = r.job /\ Idle(r).isCurrent = r.isCurrent
  BY SMT DEF Idle, Runtime
<1>3. Conflict(r) \in Runtime
  BY <1>1, Zenon DEF Conflict, Runtime
<1>4. /\ Conflict(r).pc = "conflict"
      /\ Conflict(r).job = r.job /\ Conflict(r).isCurrent = r.isCurrent
  BY <1>1, <1>2, SMT DEF Conflict, Runtime
<1>5. ASSUME NEW call \in {"start", "stop", "get"}
      PROVE  /\ Calling(r, call) \in Runtime /\ Calling(r, call).pc = "calling"
             /\ Calling(r, call).call = call
             /\ Calling(r, call).job = r.job /\ Calling(r, call).isCurrent = r.isCurrent
  <2>1. Calling(r, call) \in Runtime
    <3>1. call \in {"none", "start", "stop", "get"}
      OBVIOUS
    <3> QED
      BY <3>1, Zenon DEF Calling, Runtime
  <2> QED
    BY <2>1, SMT DEF Calling, Runtime
<1> QED
  BY <1>1, <1>2, <1>3, <1>4, <1>5

\* A runtime with another copy, or with an outdated one.
LEMMA CopyIs ==
  ASSUME NEW r \in Runtime, NEW job \in Row
  PROVE  /\ [r EXCEPT !.job = job] \in Runtime /\ [r EXCEPT !.job = job].job = job
         /\ [r EXCEPT !.job = job].pc = r.pc /\ [r EXCEPT !.job = job].call = r.call
         /\ [r EXCEPT !.job = job].reply = r.reply
         /\ [r EXCEPT !.job = job].isCurrent = r.isCurrent
         /\ [r EXCEPT !.isCurrent = FALSE] \in Runtime
         /\ [r EXCEPT !.isCurrent = FALSE].job = r.job
         /\ [r EXCEPT !.isCurrent = FALSE].pc = r.pc
         /\ [r EXCEPT !.isCurrent = FALSE].call = r.call
         /\ [r EXCEPT !.isCurrent = FALSE].reply = r.reply
         /\ ~[r EXCEPT !.isCurrent = FALSE].isCurrent
<1>1. [r EXCEPT !.job = job] \in Runtime /\ [r EXCEPT !.isCurrent = FALSE] \in Runtime
  BY Zenon DEF Runtime
<1> QED
  BY <1>1, SMT DEF Runtime

\* superviseOnce up to its first call.
LEMMA SuperviseKeeps ==
  ASSUME IInv, NEW j \in Jobs, Supervise(j)
  PROVE  IInv'
<1> DEFINE r == runtime[j]
           s == [r EXCEPT !.pc = "starting"]
           m == CASE IsTerminal(r.job)  -> NoRuntime
                  [] ShouldStart(r.job) -> s
                  [] OTHER              -> Calling(r, "get")
<1>0. r \in Runtime
  BY DEF IInv, JobType
<1>1. s \in Runtime /\ s.pc = "starting" /\ s.job = r.job /\ s.isCurrent = r.isCurrent
  <2>1. s \in Runtime
    BY <1>0, Zenon DEF Runtime
  <2> QED
    BY <1>0, <2>1, SMT DEF Runtime
<1>2. NoRuntime.pc = "none" /\ NoRuntime \in Runtime
  BY FreshValues DEF NoRuntime
<1>3. runtime' = [runtime EXCEPT ![j] = m] /\ m \in {NoRuntime, s, Calling(r, "get")}
  BY Zenon DEF Supervise
<1>4. UNCHANGED <<stored, late, starts, nodeVars>>
  BY DEF Supervise
<1> HIDE DEF s, m
<1>5. /\ Calling(r, "get") \in Runtime /\ Calling(r, "get").pc = "calling"
      /\ Calling(r, "get").call = "get" /\ Calling(r, "get").job = r.job
      /\ Calling(r, "get").isCurrent = r.isCurrent
  BY <1>0, RuntimeIs
<1>6. /\ m \in Runtime /\ m.pc # "reconciling" /\ (m.pc = "calling" => m.call = "get")
      /\ m = NoRuntime \/ (m.job = r.job /\ m.isCurrent = r.isCurrent)
  BY <1>1, <1>2, <1>3, <1>5
<1>7. r.pc # "none"
  BY DEF Supervise
<1> QED
  BY Zenon, <1>3, <1>4, <1>6, <1>7, WaitKeeps

\* reloadFromStore, which gives a fresh copy or leaves the runtime waiting.
LEMMA ReloadKeeps ==
  ASSUME IInv, NEW j \in Jobs, Reload(j) \/ ReloadFails(j)
  PROVE  IInv'
<1> DEFINE r == runtime[j]
<1>0. /\ r \in Runtime /\ stored[j] \in Row /\ r.pc # "none" /\ stored[j].status # "absent"
      /\ UNCHANGED <<stored, late, starts, nodeVars>>
  BY Zenon DEF IInv, JobType, JobInv, CopyInv, Reload, ReloadFails
<1>1. NoRuntime.pc = "none" /\ NoRuntime \in Runtime
  BY FreshValues DEF NoRuntime
<1>2. /\ NewRuntime(stored[j]) \in Runtime /\ NewRuntime(stored[j]).pc = "idle"
      /\ NewRuntime(stored[j]).job = stored[j]
  BY Zenon, <1>0, FreshValues DEF NewRuntime, NoRuntime
<1>3. CASE ReloadFails(j)
  BY Zenon, <1>0, <1>3, RuntimeIs, WaitKeeps DEF ReloadFails
<1>4. CASE Reload(j) /\ IsTerminal(stored[j])
  BY Zenon, <1>0, <1>1, <1>4, WaitKeeps DEF Reload
<1>5. CASE Reload(j) /\ ~IsTerminal(stored[j])
  BY Zenon, <1>0, <1>2, <1>5, WaitKeeps DEF Reload
<1> QED
  BY <1>3, <1>4, <1>5

\* What reconciling a current copy with the reply leads to may be saved: the
\* reply is still true enough of the node, and fits the row.
LEMMA ReconciledSaveable ==
  ASSUME IInv, NEW j \in Jobs, runtime[j].pc = "reconciling", runtime[j].isCurrent,
         ~IsTerminal(runtime[j].job), NEW cause \in FailureCauses(runtime[j].reply)
  PROVE  LET u == Reconciled(runtime[j].job, runtime[j].reply, cause) IN
         u \in Row /\ Saveable(j, u)
<1> DEFINE r == runtime[j]
           u == Reconciled(r.job, r.reply, cause)
<1>0. JobInv(j) /\ stored[j] \in Row /\ r \in Runtime
  BY DEF IInv, JobType
<1>1. r.job = stored[j] /\ stored[j].status \in {"pending", "running", "stopping"}
  <2>1. r.job = stored[j] /\ stored[j].status \notin {"absent", "deleted", "terminal"}
    BY <1>0 DEF JobInv, CopyInv, IsTerminal
  <2>2. stored[j].status \in Statuses
    BY <1>0 DEF Row
  <2> QED
    BY <2>1, <2>2 DEF Statuses
<1>2. Unended(r.job)
  BY Zenon, <1>0, <1>1 DEF JobInv, RowInv, Unended
<1>3. r.reply \in Replies
  <2>1. r.reply \in Replies \cup {"none"}
    BY <1>0 DEF Runtime
  <2> QED
    BY <1>0, <2>1 DEF JobInv, CopyInv
<1>4. r.reply = "pending" => r.job.status # "running"
  BY <1>0 DEF JobInv, ReplyInv
<1>5. r.reply = "stopping" => r.job.status = "stopping"
  BY Zenon, <1>0, <1>1 DEF JobInv, ReplyInv, RowInv, Intent
<1>6. u \in Row /\ Advances(r.job, r.reply, u)
  BY Zenon, <1>0, <1>1, <1>2, <1>3, <1>4, <1>5, ReconciledAdvances
<1> HIDE DEF u
<1>7. /\ u.outcome = "completed" => ended[j] = "completed"
      /\ u.outcome = "stopped" => ended[j] = "stopped"
  BY Zenon, <1>0, <1>6 DEF JobInv, ReplyInv, Advances
<1>8. u.reason = "operation_lost" => lost[j]
  BY Zenon, <1>0, <1>1, <1>6 DEF JobInv, ReplyInv, RowInv, Advances
<1>9. u.reason # "protocol_error"
  BY Zenon, <1>0, <1>1, <1>6 DEF JobInv, RowInv, Advances
<1>10. u.startedAt \/ u.status = "running" => Ran(j)
  BY Zenon, <1>0, <1>6 DEF JobInv, SeenInv, ReplyInv, Advances
<1>11. Saveable(j, u)
  BY Zenon, <1>1, <1>6, <1>7, <1>8, <1>9, <1>10 DEF Saveable, Advances
<1> QED
  BY <1>6, <1>11 DEF u

\* reconcileJobWithOperation and reconcileJobWithError, with an answer.
LEMMA ReconcileKeeps ==
  ASSUME IInv, NEW j \in Jobs, Reconcile(j)
  PROVE  IInv'
<1> DEFINE r == runtime[j]
<1>0. /\ r \in Runtime /\ r.pc = "reconciling" /\ NoRuntime \in Runtime /\ NoRuntime.pc = "none"
      /\ UNCHANGED <<late, starts, nodeVars>>
  BY FreshValues DEF IInv, JobType, Reconcile, NoRuntime
<1>1. CASE IsTerminal(r.job)
  BY Zenon, <1>0, <1>1, WaitKeeps DEF Reconcile
<1>2. CASE ~IsTerminal(r.job)
  <2> PICK cause \in FailureCauses(r.reply) :
        LET updated == Reconciled(r.job, r.reply, cause)
            next    == AfterReconcile(r, updated)
        IN  IF updated = r.job
            THEN runtime' = [runtime EXCEPT ![j] = next] /\ UNCHANGED stored
            ELSE StoreAnswers(j, updated, next, Conflict(r))
    BY <1>2 DEF Reconcile
  <2> DEFINE u == Reconciled(r.job, r.reply, cause)
             next == AfterReconcile(r, u)
  <2>1. /\ Idle(r) \in Runtime /\ Idle(r).pc = "idle"
        /\ Idle(r).job = r.job /\ Idle(r).isCurrent = r.isCurrent
        /\ Conflict(r) \in Runtime /\ Conflict(r).pc = "conflict"
        /\ Conflict(r).job = r.job /\ Conflict(r).isCurrent = r.isCurrent
        /\ Calling(r, "stop") \in Runtime /\ Calling(r, "stop").pc = "calling"
        /\ Calling(r, "stop").call = "stop" /\ Calling(r, "stop").job = r.job
        /\ Calling(r, "stop").isCurrent = r.isCurrent
    BY Zenon, <1>0, RuntimeIs
  <2>2. \/ next = NoRuntime
        \/ next = Idle(r)
        \/ next = Calling(r, "stop") /\ u.status = "stopping"
    <3> HIDE DEF u
    <3> QED
      BY DEF AfterReconcile
  <2>3. /\ next \in Runtime /\ next.pc # "reconciling"
        /\ next.pc = "calling" => next.call = "stop" /\ u.status = "stopping"
        /\ next = NoRuntime \/ (next.job = r.job /\ next.isCurrent = r.isCurrent)
    <3> HIDE DEF next, u
    <3> QED
      BY Zenon, <1>0, <2>1, <2>2
  <2>4. CASE u = r.job /\ runtime' = [runtime EXCEPT ![j] = next] /\ UNCHANGED stored
    <3> HIDE DEF u, next
    <3> QED
      BY Zenon, <1>0, <2>3, <2>4, WaitKeeps
  <2>5. CASE /\ Applied(j, u)
             /\ runtime' = [runtime EXCEPT ![j] =
                  IF next.pc = "none" THEN NoRuntime ELSE [next EXCEPT !.job = u]]
    <3>1. u \in Row /\ Saveable(j, u)
      BY Zenon, <1>0, <1>2, <2>5, ReconciledSaveable DEF Applied
    <3> HIDE DEF u, next
    <3>2. CASE next.pc = "none"
      BY Zenon, <1>0, <2>5, <3>1, <3>2, SaveKeeps
    <3>3. CASE next.pc # "none"
      <4> DEFINE m == [next EXCEPT !.job = u]
      <4>1. m \in Runtime /\ m.job = u /\ m.pc = next.pc /\ m.call = next.call
        BY Zenon, <2>3, <3>1, CopyIs
      <4>2. runtime' = [runtime EXCEPT ![j] = m]
        BY <2>5, <3>3
      <4>3. m.pc # "reconciling" /\ (m.pc = "calling" => m.call = "stop" /\ u.status = "stopping")
        BY <2>3, <4>1
      <4> HIDE DEF m
      <4> QED
        BY Zenon, <1>0, <2>5, <3>1, <4>1, <4>2, <4>3, SaveKeeps
    <3> QED
      BY <3>2, <3>3
  <2>6. CASE ~r.isCurrent /\ runtime' = [runtime EXCEPT ![j] = Conflict(r)] /\ UNCHANGED stored
    BY Zenon, <1>0, <2>1, <2>6, WaitKeeps
  <2> QED
    BY <2>4, <2>5, <2>6 DEF StoreAnswers
<1> QED
  BY <1>1, <1>2

\* saveTransition fails: the update may have been applied or not, the runtime
\* becomes m, and its copy stays.
LEMMA FailedSaveKeeps ==
  ASSUME IInv, NEW j \in Jobs, NEW u, NEW m \in Runtime, runtime[j].pc # "none",
         StoreFails(j, u, m), UNCHANGED <<late, starts, nodeVars>>,
         runtime[j].isCurrent => u \in Row /\ Saveable(j, u),
         m.job = runtime[j].job, m.isCurrent = runtime[j].isCurrent,
         \/ m = runtime[j] /\ u.status # "running" /\ u.startedAt = runtime[j].job.startedAt
         \/ m.pc = "idle"
  PROVE  IInv'
<1> DEFINE n == [m EXCEPT !.isCurrent = FALSE]
<1>1. CASE runtime' = [runtime EXCEPT ![j] = m] /\ UNCHANGED stored
  BY Zenon, <1>1, WaitKeeps
<1>2. CASE Applied(j, u) /\ runtime' = [runtime EXCEPT ![j] = n]
  <2>1. u \in Row /\ Saveable(j, u)
    BY <1>2 DEF Applied
  <2>2. /\ n \in Runtime /\ n.job = m.job /\ n.pc = m.pc /\ n.call = m.call /\ n.reply = m.reply
        /\ ~n.isCurrent
    BY Zenon, <2>1, CopyIs
  <2> HIDE DEF n
  <2> QED
    BY Zenon, <1>2, <2>1, <2>2, SaveKeeps
<1> QED
  BY <1>1, <1>2 DEF StoreFails

\* A reconciliation whose save fails.
LEMMA ReconcileFailsKeeps ==
  ASSUME IInv, NEW j \in Jobs, ReconcileFails(j)
  PROVE  IInv'
<1> DEFINE r == runtime[j]
<1>0. /\ r \in Runtime /\ r.pc = "reconciling" /\ UNCHANGED <<late, starts, nodeVars>>
      /\ ~IsTerminal(r.job)
  BY DEF IInv, JobType, ReconcileFails
<1>1. PICK cause \in FailureCauses(r.reply) :
        StoreFails(j, Reconciled(r.job, r.reply, cause), Idle(r))
  BY DEF ReconcileFails
<1> DEFINE u == Reconciled(r.job, r.reply, cause)
<1>2. r.isCurrent => u \in Row /\ Saveable(j, u)
  BY Zenon, <1>0, ReconciledSaveable
<1>3. /\ Idle(r) \in Runtime /\ Idle(r).pc = "idle"
      /\ Idle(r).job = r.job /\ Idle(r).isCurrent = r.isCurrent
  BY <1>0, RuntimeIs
<1> HIDE DEF u
<1> QED
  BY Zenon, <1>0, <1>1, <1>2, <1>3, FailedSaveKeeps DEF u

\* The row with its start deadline: nothing else changes.
LEMMA DeadlineSet ==
  ASSUME NEW job \in Row
  PROVE  LET u == [job EXCEPT !.pendingDeadline = "ahead"] IN
         /\ u \in Row /\ u.status = job.status /\ u.outcome = job.outcome
         /\ u.reason = job.reason /\ u.stopReason = job.stopReason
         /\ u.startedAt = job.startedAt /\ u.pendingDeadline = "ahead"
<1> DEFINE u == [job EXCEPT !.pendingDeadline = "ahead"]
<1>1. u \in Row
  BY Zenon DEF Row, DeadlineValues
<1>2. /\ u.status = job.status /\ u.outcome = job.outcome
      /\ u.reason = job.reason /\ u.stopReason = job.stopReason
      /\ u.startedAt = job.startedAt /\ u.pendingDeadline = "ahead"
  BY SMT DEF Row
<1> QED
  BY <1>1, <1>2

\* A current copy that should be started may be saved with its deadline, and
\* no start was requested before.
LEMMA DeadlineSaveable ==
  ASSUME IInv, NEW j \in Jobs, runtime[j].isCurrent, ShouldStart(runtime[j].job)
  PROVE  LET u == [runtime[j].job EXCEPT !.pendingDeadline = "ahead"] IN
         u \in Row /\ Saveable(j, u) /\ starts[j] = 0 /\ runtime[j].job = stored[j]
<1> DEFINE r == runtime[j]
           u == [r.job EXCEPT !.pendingDeadline = "ahead"]
<1>0. JobInv(j) /\ stored[j] \in Row /\ starts[j] \in {0, 1}
  BY DEF IInv, JobType
<1>1. r.job = stored[j] /\ stored[j].status = "pending" /\ stored[j].pendingDeadline = "unset"
  BY Zenon, <1>0 DEF JobInv, CopyInv, ShouldStart
<1>2. /\ u \in Row /\ u.status = stored[j].status /\ u.outcome = stored[j].outcome
      /\ u.reason = stored[j].reason /\ u.stopReason = stored[j].stopReason
      /\ u.startedAt = stored[j].startedAt /\ u.pendingDeadline = "ahead"
  BY <1>0, <1>1, DeadlineSet
<1> HIDE DEF u
<1>3. starts[j] = 0
  BY Zenon, <1>0, <1>1 DEF JobInv, StartInv
<1>4. Saveable(j, u)
  BY Zenon, <1>0, <1>1, <1>2 DEF Saveable, JobInv, RowInv, SeenInv
<1> QED
  BY <1>1, <1>2, <1>3, <1>4 DEF u

\* The deadline is saved and the start is requested: this is the first time.
LEMMA StartKeeps ==
  ASSUME IInv, NEW j \in Jobs, ShouldStart(runtime[j].job),
         NEW u \in Row, Applied(j, u), u.status = stored[j].status,
         u.outcome = stored[j].outcome, u.reason = stored[j].reason,
         u.stopReason = stored[j].stopReason, u.startedAt = stored[j].startedAt,
         u.pendingDeadline = "ahead",
         NEW m \in Runtime, m.pc = "calling", m.call = "start", m.job = u,
         runtime' = [runtime EXCEPT ![j] = m],
         starts' \in [Jobs -> {0, 1}], starts'[j] = 1,
         \A k \in Jobs \ {j} : starts'[k] = starts[k],
         UNCHANGED <<late, nodeVars>>
  PROVE  IInv'
<1> DEFINE r == runtime[j]
<1>0. /\ JobInv(j) /\ stored[j] \in Row /\ r.isCurrent /\ ValidState(u)
  BY Zenon DEF IInv, JobType, Applied
<1>1. starts[j] = 0 /\ r.job = stored[j]
  BY Zenon, <1>0, DeadlineSaveable
<1>2. /\ stored[j].status = "pending" /\ stored[j].outcome = "none" /\ stored[j].stopReason = "none"
  BY Zenon, <1>0, <1>1 DEF ShouldStart, JobInv, RowInv
<1>3. /\ u.status = "pending" /\ u.outcome = "none" /\ u.stopReason = "none"
      /\ u.reason = stored[j].reason /\ u.startedAt = stored[j].startedAt
      /\ u.pendingDeadline = "ahead"
  BY Zenon, <1>2
<1>u. /\ late' = late /\ phase' = phase
      /\ outcome' = outcome /\ ended' = ended /\ lost' = lost /\ serving' = serving
  BY Zenon DEF nodeVars, operationVars
<1>4. /\ runtime' \in [Jobs -> Runtime] /\ runtime'[j] = m
      /\ \A k \in Jobs \ {j} : runtime'[k] = runtime[k]
      /\ stored' \in [Jobs -> Row] /\ stored'[j] = u
      /\ \A k \in Jobs \ {j} : stored'[k] = stored[k]
  BY Zenon, <1>1 DEF IInv, JobType, Applied
<1>6. JobType' /\ NodeType' /\ \A k \in Jobs \ {j} : Same(k)
  BY Zenon, <1>4, <1>u DEF IInv, JobType, NodeType, Same
<1>7. CopyInv(j)'
  BY Zenon, <1>3, <1>4 DEF CopyInv
<1>8. RowInv(j)'
  <2>1. stored[j].reason # "protocol_error" /\ (stored[j].reason = "operation_lost" => lost[j])
    BY Zenon, <1>0 DEF JobInv, RowInv
  <2> QED
    <3>1. /\ stored'[j].status = "pending" /\ stored'[j].outcome = "none"
          /\ stored'[j].stopReason = "none" /\ stored'[j].reason = stored[j].reason
      BY Zenon, <1>3, <1>4
    <3> QED
      BY Zenon, <1>u, <2>1, <3>1 DEF RowInv
<1>9. StartInv(j)'
  <2>1. phase[j] = "absent" /\ ended[j] = "none" /\ ~lost[j] /\ "start" \notin late[j]
    <3>1. StartInv(j)
      BY Zenon, <1>0 DEF JobInv
    <3>2. starts[j] # 1
      BY SMTT(30), <1>1
    <3> QED
      BY Zenon, <1>1, <3>1, <3>2 DEF StartInv
  <2> QED
    BY Zenon, <1>3, <1>4, <1>u, <2>1 DEF StartInv
<1>10. NodeInv(j)'
  BY Zenon, <1>0, <1>1, <1>u DEF JobInv, StartInv, NodeInv
<1>11. SeenInv(j)'
  BY Zenon, <1>0, <1>1, <1>2, <1>3, <1>4, <1>u DEF JobInv, SeenInv, Ran, Intent, InCall
<1>12. ReplyInv(j)'
  BY Zenon, <1>4 DEF ReplyInv
<1>13. JobInv(j)'
  BY Zenon, <1>7, <1>8, <1>9, <1>10, <1>11, <1>12 DEF JobInv
<1> QED
  BY Zenon, <1>6, <1>13, <1>u, JobWise

\* saveOperationStartDeadline.
LEMMA SaveStartKeeps ==
  ASSUME IInv, NEW j \in Jobs, SaveStartDeadline(j)
  PROVE  IInv'
<1> DEFINE r == runtime[j]
           u == [r.job EXCEPT !.pendingDeadline = "ahead"]
           c == Calling(r, "start")
<1>0. /\ r \in Runtime /\ r.pc = "starting" /\ UNCHANGED <<late, nodeVars>>
      /\ r.job \in Row
  BY DEF IInv, JobType, Runtime, SaveStartDeadline
<1>1. /\ Conflict(r) \in Runtime /\ Conflict(r).pc = "conflict"
      /\ Conflict(r).job = r.job /\ Conflict(r).isCurrent = r.isCurrent
      /\ c \in Runtime /\ c.pc = "calling" /\ c.call = "start"
  BY <1>0, RuntimeIs
<1>2. starts' = [starts EXCEPT ![j] = IF runtime'[j].pc = "calling" THEN @ + 1 ELSE @]
  BY DEF SaveStartDeadline
<1>3. CASE runtime' = [runtime EXCEPT ![j] = Conflict(r)] /\ UNCHANGED stored
  <2>1. runtime'[j].pc = "conflict"
    BY <1>1, <1>3 DEF IInv, JobType
  <2>2. starts' = starts
    BY <1>2, <2>1 DEF IInv, JobType
  <2> QED
    BY Zenon, <1>0, <1>1, <1>3, <2>2, WaitKeeps
<1>4. CASE /\ ShouldStart(r.job) /\ Applied(j, u)
           /\ runtime' = [runtime EXCEPT ![j] = IF c.pc = "none" THEN NoRuntime ELSE [c EXCEPT !.job = u]]
  <2> DEFINE m == [c EXCEPT !.job = u]
  <2>1. /\ u \in Row /\ u.status = stored[j].status /\ u.outcome = stored[j].outcome
        /\ u.reason = stored[j].reason /\ u.stopReason = stored[j].stopReason
        /\ u.startedAt = stored[j].startedAt /\ u.pendingDeadline = "ahead"
    <3>1. r.job = stored[j]
      BY <1>4 DEF IInv, JobInv, CopyInv, Applied
    <3> QED
      BY <1>0, <3>1, DeadlineSet
  <2> HIDE DEF u, c
  <2>2. m \in Runtime /\ m.pc = "calling" /\ m.call = "start" /\ m.job = u
    BY Zenon, <1>1, <2>1, CopyIs
  <2>3. runtime' = [runtime EXCEPT ![j] = m]
    BY <1>1, <1>4
  <2>4. runtime'[j].pc = "calling"
    BY <2>2, <2>3 DEF IInv, JobType
  <2>5. /\ starts' \in [Jobs -> {0, 1}] /\ starts'[j] = 1
        /\ \A k \in Jobs \ {j} : starts'[k] = starts[k]
    <3>1. starts[j] = 0
      BY Zenon, <1>4, DeadlineSaveable DEF Applied
    <3> QED
      BY <1>2, <2>4, <3>1 DEF IInv, JobType
  <2>6. ShouldStart(runtime[j].job) /\ Applied(j, u) /\ UNCHANGED <<late, nodeVars>>
    BY <1>0, <1>4
  <2> HIDE DEF m
  <2> QED
    BY Zenon, <2>1, <2>2, <2>3, <2>5, <2>6, StartKeeps
<1> QED
  BY <1>3, <1>4 DEF SaveStartDeadline, StoreAnswers

\* saveOperationStartDeadline, when the save fails: no start is requested, and
\* if the deadline was stored none ever will be.
LEMMA SaveStartFailsKeeps ==
  ASSUME IInv, NEW j \in Jobs, SaveStartDeadlineFails(j)
  PROVE  IInv'
<1> DEFINE r == runtime[j]
           u == [r.job EXCEPT !.pendingDeadline = "ahead"]
<1>0. /\ r \in Runtime /\ r.pc = "starting" /\ UNCHANGED <<late, starts, nodeVars>>
      /\ ShouldStart(r.job) /\ StoreFails(j, u, Idle(r))
  BY DEF IInv, JobType, SaveStartDeadlineFails
<1>1. /\ Idle(r) \in Runtime /\ Idle(r).pc = "idle"
      /\ Idle(r).job = r.job /\ Idle(r).isCurrent = r.isCurrent
  BY <1>0, RuntimeIs
<1>2. r.isCurrent => u \in Row /\ Saveable(j, u)
  BY <1>0, DeadlineSaveable
<1> HIDE DEF u
<1> QED
  BY Zenon, <1>0, <1>1, <1>2, FailedSaveKeeps

\* runtime.stop: what it saves over a current copy.
LEMMA StopSaveable ==
  ASSUME IInv, NEW j \in Jobs, runtime[j].isCurrent,
         runtime[j].job.status \in {"pending", "running"},
         NEW u,
         u = IF ShouldStart(runtime[j].job)
             THEN SetTerminal([runtime[j].job EXCEPT !.stopReason = "user_requested"], "stopped", "none")
             ELSE SetStopping(runtime[j].job, "user_requested")
  PROVE  u \in Row /\ Saveable(j, u)
<1> DEFINE job == runtime[j].job
           v == [job EXCEPT !.stopReason = "user_requested"]
<1>0. JobInv(j) /\ stored[j] \in Row /\ job = stored[j] /\ starts[j] \in {0, 1}
  BY DEF IInv, JobType, JobInv, CopyInv
<1>1. "stopped" \in Results /\ "none" \in Reasons /\ "user_requested" \in StopReasons
  BY DEF Results, Reasons, StopReasons
<1>2. CASE ShouldStart(job)
  <2>1. v \in Row
    BY <1>0, <1>1, Zenon DEF Row
  <2>2. /\ v.stopReason = "user_requested" /\ v.startedAt = job.startedAt
        /\ v.pendingDeadline = job.pendingDeadline
    BY <1>0, SMT DEF Row
  <2>3. u = SetTerminal(v, "stopped", "none")
    BY <1>2
  <2> HIDE DEF v
  <2>4. /\ u \in Row /\ u.status = "terminal" /\ u.outcome = "stopped" /\ u.reason = "none"
        /\ u.startedAt = job.startedAt /\ u.pendingDeadline = job.pendingDeadline
        /\ u.stopReason = "user_requested"
    BY <1>1, <2>1, <2>2, <2>3, SetTerminalIs
  <2>5. starts[j] = 0
    BY <1>0, <1>2 DEF JobInv, StartInv, ShouldStart
  <2> QED
    BY <1>0, <2>4, <2>5 DEF Saveable, JobInv, SeenInv
<1>3. CASE ~ShouldStart(job)
  <2>1. u = SetStopping(job, "user_requested")
    BY <1>3
  <2>2. /\ u \in Row /\ u.status = "stopping" /\ u.stopReason = "user_requested"
        /\ u.outcome = job.outcome /\ u.reason = job.reason
        /\ u.startedAt = job.startedAt /\ u.pendingDeadline = job.pendingDeadline
    BY <1>0, <1>1, <2>1, SetStoppingIs
  <2> QED
    BY <1>0, <2>2 DEF Saveable, JobInv, RowInv, SeenInv
<1> QED
  BY <1>2, <1>3

\* runtime.stop on behalf of a user, wherever the supervision is.
LEMMA StopKeeps ==
  ASSUME IInv, NEW j \in Jobs, StopByUser(j)
  PROVE  IInv'
<1> DEFINE r == runtime[j]
           u == IF ShouldStart(r.job)
                THEN SetTerminal([r.job EXCEPT !.stopReason = "user_requested"], "stopped", "none")
                ELSE SetStopping(r.job, "user_requested")
<1>0. /\ r \in Runtime /\ r.job \in Row /\ r.pc # "none" /\ UNCHANGED <<late, starts, nodeVars>>
      /\ r.job.status \in {"pending", "running"}
      /\ StoreAnswers(j, u, r, r) \/ StoreFails(j, u, r)
  BY DEF IInv, JobType, Runtime, StopByUser
<1>1. r.isCurrent => u \in Row /\ Saveable(j, u)
  BY <1>0, StopSaveable
<1>2. u.status \in {"stopping", "terminal"} /\ u.startedAt = r.job.startedAt
  <2>1. CASE ShouldStart(r.job)
    BY <1>0, <2>1, SMT DEF SetTerminal, Row
  <2>2. CASE ~ShouldStart(r.job)
    BY <1>0, <2>2, SMT DEF SetStopping, Row
  <2> QED
    BY <2>1, <2>2
<1> HIDE DEF u
<1>3. CASE StoreFails(j, u, r)
  BY Zenon, <1>0, <1>1, <1>2, <1>3, FailedSaveKeeps
<1>4. CASE StoreAnswers(j, u, r, r)
  <2>1. CASE ~r.isCurrent /\ runtime' = [runtime EXCEPT ![j] = r] /\ UNCHANGED stored
    BY Zenon, <1>0, <2>1, WaitKeeps
  <2>2. CASE /\ Applied(j, u)
             /\ runtime' = [runtime EXCEPT ![j] = IF r.pc = "none" THEN NoRuntime ELSE [r EXCEPT !.job = u]]
    <3> DEFINE m == [r EXCEPT !.job = u]
    <3>1. u \in Row /\ Saveable(j, u)
      BY <1>1, <2>2 DEF Applied
    <3>2. m \in Runtime /\ m.job = u /\ m.pc = r.pc /\ m.call = r.call /\ m.reply = r.reply
      BY Zenon, <1>0, <3>1, CopyIs
    <3>3. runtime' = [runtime EXCEPT ![j] = m]
      BY <1>0, <2>2
    <3>4. /\ m.pc = "calling" => r.pc = "calling" /\ m.call = r.call
          /\ m.pc = "reconciling" =>
               /\ r.pc = "reconciling" /\ m.reply = r.reply
               /\ u.status # "running" /\ u.startedAt = r.job.startedAt
      BY <1>2, <3>2
    <3> HIDE DEF m
    <3> QED
      BY Zenon, <1>0, <2>2, <3>1, <3>2, <3>3, <3>4, SaveKeeps
  <2> QED
    BY <1>4, <2>1, <2>2 DEF StoreAnswers
<1> QED
  BY <1>0, <1>3, <1>4

-----------------------------------------------------------------------------
(* Rows that appear, age and go. *)

\* The fields of the rows and of the runtime that stand for nothing.
LEMMA EmptyValues ==
  /\ NoRuntime.pc = "none" /\ ~NoRuntime.isCurrent
  /\ NoRuntime.job.status = "absent" /\ ~NoRuntime.job.startedAt
  /\ \A status : /\ NoRow(status).status = status /\ NoRow(status).outcome = "none"
                 /\ NoRow(status).reason = "none" /\ NoRow(status).stopReason = "none"
                 /\ NoRow(status).startedAt = FALSE
                 /\ NoRow(status).pendingDeadline = "unset"
  /\ NewJob.status = "pending" /\ NewJob.outcome = "none" /\ NewJob.reason = "none"
  /\ NewJob.stopReason = "none" /\ NewJob.startedAt = FALSE
  /\ \A row : /\ NewRuntime(row).pc = "idle" /\ NewRuntime(row).job = row
              /\ NewRuntime(row).isCurrent
BY DEF NoRuntime, NoRow, NewJob, NewRuntime

\* Manager.Create.
LEMMA CreateKeeps ==
  ASSUME IInv, NEW j \in Jobs, Create(j)
  PROVE  IInv'
<1> DEFINE r == runtime[j]
<1>0. /\ JobInv(j) /\ r \in Runtime /\ starts[j] \in {0, 1} /\ stored[j] = NoRow("absent")
      /\ NewJob \in Row /\ NewRuntime(NewJob) \in Runtime
  BY FreshValues DEF IInv, JobType, JobInv, RowInv, Create
<1>u. /\ late' = late /\ starts' = starts /\ phase' = phase
      /\ outcome' = outcome /\ ended' = ended /\ lost' = lost /\ serving' = serving
  BY DEF Create, nodeVars, operationVars
<1>1. /\ stored' \in [Jobs -> Row] /\ stored'[j] = NewJob
      /\ \A k \in Jobs \ {j} : stored'[k] = stored[k]
  BY <1>0 DEF IInv, JobType, Create
<1>2. /\ runtime' \in [Jobs -> Runtime]
      /\ \A k \in Jobs \ {j} : runtime'[k] = runtime[k]
      /\ runtime'[j] = NewRuntime(NewJob) \/ runtime'[j] = r
  BY <1>0 DEF IInv, JobType, Create
<1>3. JobType' /\ NodeType' /\ \A k \in Jobs \ {j} : Same(k)
  BY <1>1, <1>2, <1>u DEF IInv, JobType, NodeType, Same
<1>4. starts[j] = 0 /\ phase[j] = "absent" /\ ended[j] = "none" /\ ~lost[j]
  BY SMTT(30), <1>0, EmptyValues DEF JobInv, StartInv
<1>5. r.pc = "none" /\ ~r.isCurrent
  BY SMTT(30), <1>0, EmptyValues DEF JobInv, CopyInv
<1>6. runtime'[j].pc \in {"idle", "none"}
  BY SMTT(30), <1>2, <1>5, EmptyValues
<1>7. CopyInv(j)'
  BY SMTT(30), <1>1, <1>2, <1>5, EmptyValues DEF CopyInv
<1>8. RowInv(j)'
  BY <1>1, EmptyValues DEF RowInv
<1>9. StartInv(j)'
  BY SMTT(30), <1>0, <1>4, <1>6, <1>u DEF JobInv, StartInv, InCall
<1>10. NodeInv(j)'
  BY Zenon, <1>4, <1>u DEF NodeInv
<1>11. SeenInv(j)'
  <2>1. ~Intent(j) /\ SeenInv(j) /\ Ran(j)' = Ran(j)
    BY SMTT(30), <1>0, <1>u, EmptyValues DEF Intent, JobInv, Ran
  <2>2. /\ "stop" \notin late[j] /\ r.job.status # "stopping"
        /\ r.job.startedAt \/ r.job.status = "running" => Ran(j)
    BY Zenon, <2>1 DEF SeenInv
  <2>3. ~stored'[j].startedAt /\ stored'[j].status = "pending"
    BY <1>1, EmptyValues
  <2>4. /\ runtime'[j].job.status # "stopping"
        /\ runtime'[j].job.startedAt \/ runtime'[j].job.status = "running" => Ran(j)
    BY SMTT(30), <1>2, <2>2, EmptyValues
  <2>5. ~InCall(j, "stop")'
    BY <1>6 DEF InCall
  <2> QED
    BY Zenon, <1>u, <2>1, <2>2, <2>3, <2>4, <2>5 DEF SeenInv
<1>12. ReplyInv(j)'
  BY <1>6 DEF ReplyInv
<1>13. JobInv(j)'
  BY <1>7, <1>8, <1>9, <1>10, <1>11, <1>12 DEF JobInv
<1> QED
  BY <1>3, <1>13, <1>u, JobWise

\* DeleteTerminalBefore.
LEMMA CleanupKeeps ==
  ASSUME IInv, NEW j \in Jobs, CleanupTerminal(j)
  PROVE  IInv'
<1> DEFINE r == runtime[j]
           m == [r EXCEPT !.isCurrent = FALSE]
<1>0. JobInv(j) /\ r \in Runtime /\ NoRow("deleted") \in Row
  BY FreshValues DEF IInv, JobType
<1>u. /\ late' = late /\ starts' = starts /\ phase' = phase
      /\ outcome' = outcome /\ ended' = ended /\ lost' = lost /\ serving' = serving
  BY DEF CleanupTerminal, nodeVars, operationVars
<1>1. /\ stored' \in [Jobs -> Row] /\ stored'[j] = NoRow("deleted")
      /\ \A k \in Jobs \ {j} : stored'[k] = stored[k]
  BY <1>0 DEF IInv, JobType, CleanupTerminal
<1>2. /\ m \in Runtime /\ m.job = r.job /\ m.pc = r.pc /\ m.call = r.call /\ m.reply = r.reply
      /\ ~m.isCurrent
  BY Zenon, <1>0, FreshValues, CopyIs
<1>3. runtime' = [runtime EXCEPT ![j] = m]
  BY DEF CleanupTerminal
<1> HIDE DEF m
<1>4. /\ runtime' \in [Jobs -> Runtime] /\ runtime'[j] = m
      /\ \A k \in Jobs \ {j} : runtime'[k] = runtime[k]
  BY <1>2, <1>3 DEF IInv, JobType
<1>5. JobType' /\ NodeType' /\ \A k \in Jobs \ {j} : Same(k)
  BY Zenon, <1>1, <1>4, <1>u DEF IInv, JobType, NodeType, Same
<1>6. Intent(j)'
  BY Zenon, <1>1, EmptyValues DEF Intent
<1>7. CopyInv(j)'
  BY Zenon, <1>0, <1>1, <1>2, <1>4, EmptyValues DEF JobInv, CopyInv
<1>8. RowInv(j)'
  BY SMTT(30), <1>1, EmptyValues DEF RowInv
<1>9. StartInv(j)'
  <2>1. StartInv(j) /\ InCall(j, "start")' = InCall(j, "start") /\ stored'[j].status = "deleted"
    <3>1. StartInv(j)
      BY Zenon, <1>0 DEF JobInv
    <3>2. InCall(j, "start")' = InCall(j, "start")
      BY Zenon, <1>2, <1>4 DEF InCall
    <3>3. stored'[j].status = "deleted"
      BY Zenon, <1>1, EmptyValues
    <3> QED
      BY Zenon, <3>1, <3>2, <3>3
  <2> QED
    BY Zenon, <1>u, <2>1 DEF StartInv
<1>10. NodeInv(j)'
  BY Zenon, <1>0, <1>6, <1>u DEF JobInv, NodeInv
<1>11. SeenInv(j)'
  <2>1. SeenInv(j)
    BY Zenon, <1>0 DEF JobInv
  <2>2. stored'[j].status = "deleted" /\ stored'[j].startedAt = FALSE
    BY SMTT(30), <1>1, EmptyValues
  <2>3. Ran(j)' = Ran(j) /\ runtime'[j].job = runtime[j].job
    BY <1>2, <1>4, <1>u DEF Ran
  <2> QED
    BY Zenon, <1>6, <2>1, <2>2, <2>3 DEF SeenInv
<1>12. ReplyInv(j)'
  BY Zenon, <1>0, <1>2, <1>4, <1>6, <1>u DEF JobInv, ReplyInv, Ran
<1>13. JobInv(j)'
  BY <1>7, <1>8, <1>9, <1>10, <1>11, <1>12 DEF JobInv
<1> QED
  BY <1>5, <1>13, <1>u, JobWise

\* A deadline that passes changes that deadline only, of an unfinished row.
LEMMA LaterIs ==
  ASSUME NEW job \in Row, NEW d \in Deadlines
  PROVE  LET u == Later(job, d) IN
         /\ u \in Row /\ u.status = job.status /\ u.outcome = job.outcome
         /\ u.reason = job.reason /\ u.stopReason = job.stopReason
         /\ u.startedAt = job.startedAt
         /\ job.pendingDeadline # "unset" => u.pendingDeadline # "unset"
         /\ job.status \in {"absent", "deleted", "terminal"} => u = job
<1> DEFINE u == Later(job, d)
<1>1. job.status \in {"absent", "deleted", "terminal"} => u = job
  BY DEF Later, Watched
<1>2. CASE u = job
  BY <1>1, <1>2
<1>3. CASE u = [job EXCEPT !["pendingDeadline"] = "passed"]
  <2>1. u \in Row
    BY <1>3, Zenon DEF Row, DeadlineValues
  <2>2. /\ u.status = job.status /\ u.outcome = job.outcome
        /\ u.reason = job.reason /\ u.stopReason = job.stopReason
        /\ u.startedAt = job.startedAt /\ u.pendingDeadline = "passed"
    BY <1>3, SMT DEF Row
  <2> HIDE DEF u
  <2> QED
    BY <1>1, <2>1, <2>2 DEF u
<1>4. CASE \/ u = [job EXCEPT !["executionDeadline"] = "passed"]
           \/ u = [job EXCEPT !["unavailableDeadline"] = "passed"]
           \/ u = [job EXCEPT !["stopDeadline"] = "passed"]
  <2>1. u \in Row
    BY ZenonT(30), <1>4 DEF Row, DeadlineValues
  <2>2. /\ u.status = job.status /\ u.outcome = job.outcome
        /\ u.reason = job.reason /\ u.stopReason = job.stopReason
        /\ u.startedAt = job.startedAt /\ u.pendingDeadline = job.pendingDeadline
    BY <1>4, SMT DEF Row
  <2> HIDE DEF u
  <2> QED
    BY <1>1, <2>1, <2>2 DEF u
<1>5. u = job \/ u = [job EXCEPT ![d] = "passed"]
  BY DEF Later
<1> HIDE DEF u
<1> QED
  BY Zenon, <1>2, <1>3, <1>4, <1>5 DEF Deadlines, u

\* A deadline of a row and of the runtime's copy passes.
LEMMA DeadlineKeeps ==
  ASSUME IInv, NEW j \in Jobs, NEW d \in Deadlines, DeadlinePasses(j, d)
  PROVE  IInv'
<1> DEFINE r == runtime[j]
           u == Later(stored[j], d)
           w == Later(r.job, d)
           m == [r EXCEPT !.job = w]
<1>0. JobInv(j) /\ r \in Runtime /\ stored[j] \in Row /\ r.job \in Row
  BY DEF IInv, JobType, Runtime
<1>u. /\ late' = late /\ starts' = starts /\ phase' = phase
      /\ outcome' = outcome /\ ended' = ended /\ lost' = lost /\ serving' = serving
  BY DEF DeadlinePasses, nodeVars, operationVars
<1>1. /\ u \in Row /\ u.status = stored[j].status /\ u.outcome = stored[j].outcome
      /\ u.reason = stored[j].reason /\ u.stopReason = stored[j].stopReason
      /\ u.startedAt = stored[j].startedAt
      /\ stored[j].pendingDeadline # "unset" => u.pendingDeadline # "unset"
      /\ stored[j].status \in {"absent", "deleted"} => u = stored[j]
  BY Zenon, <1>0, LaterIs
<1>2. w \in Row /\ w.status = r.job.status /\ w.startedAt = r.job.startedAt
  BY Zenon, <1>0, LaterIs
<1>3. r.job = stored[j] => w = u
  OBVIOUS
<1>4. runtime' = [runtime EXCEPT ![j] = m] /\ stored' = [stored EXCEPT ![j] = u]
  BY DEF DeadlinePasses
<1> HIDE DEF u, w
<1>5. /\ m \in Runtime /\ m.job = w /\ m.pc = r.pc /\ m.call = r.call /\ m.reply = r.reply
      /\ m.isCurrent = r.isCurrent
  BY Zenon, <1>0, <1>2, CopyIs
<1> HIDE DEF m
<1>6. /\ stored' \in [Jobs -> Row] /\ stored'[j] = u
      /\ \A k \in Jobs \ {j} : stored'[k] = stored[k]
      /\ runtime' \in [Jobs -> Runtime] /\ runtime'[j] = m
      /\ \A k \in Jobs \ {j} : runtime'[k] = runtime[k]
  BY <1>1, <1>4, <1>5 DEF IInv, JobType
<1>7. JobType' /\ NodeType' /\ \A k \in Jobs \ {j} : Same(k)
  BY Zenon, <1>6, <1>u DEF IInv, JobType, NodeType, Same
<1>8. Intent(j)' = Intent(j) /\ Ran(j)' = Ran(j)
  BY Zenon, <1>1, <1>6, <1>u DEF Intent, Ran
<1>9. CopyInv(j)'
  BY Zenon, <1>0, <1>1, <1>3, <1>5, <1>6 DEF JobInv, CopyInv
<1>10. RowInv(j)'
  BY Zenon, <1>0, <1>1, <1>6, <1>u DEF JobInv, RowInv
<1>11. StartInv(j)'
  BY Zenon, <1>0, <1>1, <1>5, <1>6, <1>u DEF JobInv, StartInv, InCall
<1>12. NodeInv(j)'
  BY Zenon, <1>0, <1>8, <1>u DEF JobInv, NodeInv
<1>13. SeenInv(j)'
  BY Zenon, <1>0, <1>1, <1>2, <1>5, <1>6, <1>8, <1>u DEF JobInv, SeenInv, InCall
<1>14. ReplyInv(j)'
  BY Zenon, <1>0, <1>2, <1>5, <1>6, <1>8, <1>u DEF JobInv, ReplyInv
<1>15. JobInv(j)'
  BY <1>9, <1>10, <1>11, <1>12, <1>13, <1>14 DEF JobInv
<1> QED
  BY <1>7, <1>15, <1>u, JobWise

-----------------------------------------------------------------------------
(* The apiserver process. *)

\* The runtimes are gone; the requests of their calls are late.
LEMMA CrashKeeps ==
  ASSUME IInv, Crash
  PROVE  IInv'
<1>u. /\ stored' = stored /\ starts' = starts /\ phase' = phase
      /\ outcome' = outcome /\ ended' = ended /\ lost' = lost /\ serving' = serving
  BY Zenon DEF Crash, nodeVars, operationVars
<1>1. ASSUME NEW j \in Jobs
      PROVE  /\ runtime'[j] = NoRuntime
             /\ late'[j] \in SUBSET {"start", "stop"}
             /\ \A call \in late'[j] : call \in late[j] \/ InCall(j, call)
  BY DEF Crash, IInv, JobType, Mutating, InCall
<1>2. JobType'
  <2>1. runtime' \in [Jobs -> Runtime]
    BY FreshValues DEF Crash
  <2>2. late' \in [Jobs -> SUBSET {"start", "stop"}]
    BY Zenon, <1>1 DEF Crash
  <2> QED
    BY <2>1, <2>2, <1>u DEF IInv, JobType
<1>3. NodeType'
  BY <1>u DEF IInv, NodeType
<1>4. ASSUME NEW j \in Jobs PROVE JobInv(j)'
  <2>0. JobInv(j)
    BY DEF IInv
  <2>1. CopyInv(j)' /\ RowInv(j)' /\ NodeInv(j)' /\ ReplyInv(j)'
    BY ZenonT(30), <1>1, <1>u, <2>0, EmptyValues DEF JobInv, CopyInv, RowInv, NodeInv, Intent, ReplyInv
  <2>2. StartInv(j)'
    BY Zenon, <1>1, <1>u, <2>0, EmptyValues DEF JobInv, StartInv, InCall
  <2>3. SeenInv(j)'
    BY Zenon, <1>1, <1>u, <2>0, EmptyValues DEF JobInv, SeenInv, Ran, Intent, InCall
  <2> QED
    BY <2>1, <2>2, <2>3 DEF JobInv
<1> QED
  BY <1>2, <1>3, <1>4 DEF IInv

\* NewManager: the unfinished rows get runtimes with current copies.
LEMMA RecoverKeeps ==
  ASSUME IInv, Recover
  PROVE  IInv'
<1>u. /\ stored' = stored /\ starts' = starts /\ late' = late /\ phase' = phase
      /\ outcome' = outcome /\ ended' = ended /\ lost' = lost /\ serving' = serving
  BY DEF Recover, nodeVars, operationVars
<1>1. ASSUME NEW j \in Jobs
      PROVE  \/ runtime'[j] = NoRuntime
             \/ /\ runtime'[j] = NewRuntime(stored[j])
                /\ stored[j].status \in {"pending", "running", "stopping"}
  BY DEF Recover
<1>2. JobType'
  <2>1. runtime' \in [Jobs -> Runtime]
    BY FreshValues DEF Recover, IInv, JobType
  <2> QED
    BY <2>1, <1>u DEF IInv, JobType
<1>3. NodeType'
  BY <1>u DEF IInv, NodeType
<1>4. ASSUME NEW j \in Jobs PROVE JobInv(j)'
  <2>0. JobInv(j)
    BY DEF IInv
  <2>1. runtime'[j].pc \in {"none", "idle"}
    BY <1>1, EmptyValues
  <2>2. CopyInv(j)'
    BY SMTT(30), <1>1, <1>u, EmptyValues DEF CopyInv
  <2>3. RowInv(j)' /\ NodeInv(j)' /\ ReplyInv(j)'
    BY Zenon, <1>u, <2>0, <2>1 DEF JobInv, RowInv, NodeInv, Intent, ReplyInv
  <2>4. StartInv(j)'
    BY Zenon, <1>u, <2>0, <2>1 DEF JobInv, StartInv, InCall
  <2>5. SeenInv(j)'
    <3>1. SeenInv(j) /\ RowInv(j) /\ ~InCall(j, "stop")'
      BY Zenon, <2>0, <2>1 DEF JobInv, InCall
    <3>2. Ran(j)' = Ran(j) /\ Intent(j)' = Intent(j)
      BY Zenon, <1>u DEF Ran, Intent
    <3>3. stored[j].status = "stopping" => Intent(j)
      BY Zenon, <3>1 DEF RowInv, Intent
    <3>4. \/ runtime'[j].job = stored[j]
          \/ ~runtime'[j].job.startedAt /\ runtime'[j].job.status \notin {"running", "stopping"}
      <4>1. CASE runtime'[j] = NoRuntime
        <5>1. ~NoRuntime.job.startedAt /\ NoRuntime.job.status = "absent"
          BY Zenon, EmptyValues
        <5> QED
          BY Zenon, <4>1, <5>1
      <4>2. CASE runtime'[j] = NewRuntime(stored[j])
        <5>1. NewRuntime(stored[j]).job = stored[j]
          BY Zenon, EmptyValues
        <5> QED
          BY Zenon, <4>2, <5>1
      <4> QED
        BY Zenon, <1>1, <4>1, <4>2
    <3> QED
      BY Zenon, <1>u, <3>1, <3>2, <3>3, <3>4 DEF SeenInv
  <2> QED
    BY <2>2, <2>3, <2>4, <2>5 DEF JobInv
<1> QED
  BY <1>2, <1>3, <1>4 DEF IInv

-----------------------------------------------------------------------------
(* Calls to the node. *)

\* What the node does with a request for j: nothing, admit its operation, or
\* accept the stop; and what it answers.
Handled(call, j, reply) ==
  \/ /\ phase'[j] = phase[j]
     /\ reply = Snapshot(j) \/ reply \in {"invalid", "unsupported", "unavailable", "limit"}
  \/ /\ call = "start" /\ phase[j] = "absent" /\ phase'[j] = "pending" /\ reply = "pending"
  \/ /\ call = "stop" /\ phase[j] \in {"pending", "running"} /\ phase'[j] = "stopping"
     /\ reply = "stopping"

\* The handlers of the node have no other effects.
LEMMA HandleIs ==
  ASSUME IInv, NEW j \in Jobs, NEW call \in {"start", "stop", "get"}, NEW reply,
         Handle(call, j, reply)
  PROVE  /\ NodeType' /\ serving /\ serving' = serving /\ outcome' = outcome
         /\ ended' = ended /\ lost' = lost
         /\ \A k \in Jobs \ {j} : phase'[k] = phase[k]
         /\ Handled(call, j, reply)
<1>0. NodeType /\ j \in Requests
  BY DEF IInv, Requests
<1>1. serving /\ serving' = serving /\ ended' = ended /\ lost' = lost
  BY DEF Handle
<1>2. CASE UNCHANGED operationVars /\ Handled(call, j, reply)
  BY <1>0, <1>1, <1>2 DEF NodeType, operationVars
<1>3. CASE call = "start" /\ reply = "pending" /\ Node!Accept(j)
  <2>1. /\ phase[j] = "absent" /\ phase' = [phase EXCEPT ![j] = "pending"] /\ outcome' = outcome
    BY <1>3 DEF Node!Accept
  <2>2. /\ phase'[j] = "pending" /\ \A k \in Requests \ {j} : phase'[k] = phase[k]
        /\ phase' \in [Requests -> {"absent", "pending", "running", "stopping", "terminal"}]
    BY <1>0, <2>1 DEF NodeType
  <2> QED
    BY Zenon, <1>0, <1>1, <1>3, <2>1, <2>2 DEF NodeType, Handled, Requests
<1>4. CASE call = "stop" /\ reply = "stopping" /\ Node!RequestStop(j)
  <2>1. /\ phase[j] \in {"pending", "running"} /\ phase' = [phase EXCEPT ![j] = "stopping"]
        /\ outcome' = outcome
    BY <1>4 DEF Node!RequestStop
  <2>2. /\ phase'[j] = "stopping" /\ \A k \in Requests \ {j} : phase'[k] = phase[k]
        /\ phase' \in [Requests -> {"absent", "pending", "running", "stopping", "terminal"}]
    BY <1>0, <2>1 DEF NodeType
  <2> QED
    BY Zenon, <1>0, <1>1, <1>4, <2>1, <2>2 DEF NodeType, Handled, Requests
<1>5. CASE call = "start"
  <2>1. HandleStart(j, reply)
    BY <1>5 DEF Handle
  <2> QED
    BY Zenon, <1>2, <1>3, <1>5, <2>1 DEF HandleStart, Handled, operationVars
<1>6. CASE call = "stop"
  <2>1. HandleStop(j, reply)
    BY <1>6 DEF Handle
  <2> QED
    BY Zenon, <1>2, <1>4, <1>6, <2>1 DEF HandleStop, Handled, operationVars
<1>7. CASE call = "get"
  <2>1. reply = Snapshot(j) /\ UNCHANGED operationVars
    BY <1>7 DEF Handle
  <2> QED
    BY Zenon, <1>2, <2>1 DEF Handled, operationVars
<1> QED
  BY Zenon, <1>5, <1>6, <1>7

\* The node handles a request for j that was on its way: what the invariant
\* says of the row, of the node and of what was seen stays true.
LEMMA HandledKeeps ==
  ASSUME IInv, NEW j \in Jobs, NEW call, NEW reply, Handled(call, j, reply),
         call \in late[j] \/ InCall(j, call), serving, serving' = serving,
         stored' = stored, starts' = starts, outcome' = outcome, ended' = ended, lost' = lost
  PROVE  /\ RowInv(j)' /\ NodeInv(j)'
         /\ Intent(j)' = Intent(j) /\ (Ran(j) => Ran(j)')
         /\ (call # "start" /\ phase[j] = "absent") => phase'[j] = "absent"
<1>0. JobInv(j)
  BY DEF IInv
<1>1. RowInv(j)'
  BY Zenon, <1>0 DEF JobInv, RowInv
<1>2. Intent(j)' = Intent(j)
  BY Zenon DEF Intent
<1>3. call = "start" => phase[j] = "absent" /\ ended[j] = "none" /\ ~lost[j]
  BY Zenon, <1>0 DEF JobInv, StartInv
<1>4. call = "stop" => Intent(j)
  BY Zenon, <1>0 DEF JobInv, SeenInv
<1>5. NodeInv(j)'
  BY Zenon, <1>0, <1>2, <1>3, <1>4 DEF JobInv, NodeInv, Handled
<1>6. Ran(j) => Ran(j)'
  BY <1>3 DEF Ran, Handled
<1>7. (call # "start" /\ phase[j] = "absent") => phase'[j] = "absent"
  BY DEF Handled
<1> QED
  BY Zenon, <1>1, <1>2, <1>5, <1>6, <1>7

\* The answer to a request is true of the operation as it is afterwards.
LEMMA AnswerIsTrue ==
  ASSUME IInv, NEW j \in Jobs, NEW call, NEW reply, Handled(call, j, reply),
         InCall(j, call), serving, stored' = stored, ended' = ended, lost' = lost
  PROVE  /\ reply \in {"completed", "failed", "stopped"} => ended[j] = reply
         /\ reply = "running" => Ran(j)'
         /\ reply = "not_found" /\ runtime[j].job.startedAt => lost[j]
         /\ reply = "pending" => runtime[j].job.status # "running"
         /\ reply = "stopping" => Intent(j)
<1>0. /\ JobInv(j) /\ phase[j] \in {"absent", "pending", "running", "stopping", "terminal"}
      /\ outcome[j] \in {"none", "completed", "failed", "stopped"}
  BY DEF IInv, NodeType, Requests
<1>1. CASE call = "start" /\ phase[j] = "absent" /\ reply = "pending"
  BY Zenon, <1>0, <1>1 DEF JobInv, StartInv, SeenInv, Ran
<1>2. CASE call = "stop" /\ reply = "stopping"
  BY Zenon, <1>0, <1>2 DEF JobInv, SeenInv
<1>3. CASE reply \in {"invalid", "unsupported", "unavailable", "limit"}
  BY Zenon, <1>3
<1>4. CASE phase'[j] = phase[j] /\ reply = Snapshot(j)
  <2>1. CASE phase[j] = "absent"
    <3>1. reply = "not_found"
      BY <1>4, <2>1 DEF Snapshot
    <3> QED
      BY Zenon, <1>0, <2>1, <3>1 DEF JobInv, SeenInv, Ran
  <2>2. CASE phase[j] = "terminal"
    <3>1. reply = outcome[j]
      BY <1>4, <2>2 DEF Snapshot
    <3> QED
      BY Zenon, <1>0, <2>2, <3>1 DEF JobInv, NodeInv
  <2>3. CASE phase[j] \in {"pending", "running", "stopping"}
    <3>1. reply = phase[j]
      BY <1>4, <2>3 DEF Snapshot
    <3> QED
      BY Zenon, <1>0, <1>4, <2>3, <3>1 DEF JobInv, NodeInv, SeenInv, Ran
  <2> QED
    BY Zenon, <1>0, <2>1, <2>2, <2>3
<1> QED
  BY Zenon, <1>1, <1>2, <1>3, <1>4 DEF Handled

\* The runtime gets a reply.
LEMMA AnsweredIs ==
  ASSUME IInv, NEW j \in Jobs, NEW reply \in Replies, Answered(j, reply)
  PROVE  LET m == runtime'[j] IN
         /\ runtime' \in [Jobs -> Runtime]
         /\ m.pc = "reconciling" /\ m.reply = reply /\ m.job = runtime[j].job
         /\ m.isCurrent = runtime[j].isCurrent
         /\ \A k \in Jobs \ {j} : runtime'[k] = runtime[k]
<1> DEFINE r == runtime[j]
           a == [r EXCEPT !.pc = "reconciling"]
           m == [a EXCEPT !.reply = reply]
<1>0. r \in Runtime /\ runtime \in [Jobs -> Runtime]
  BY DEF IInv, JobType
<1>1. a \in Runtime
  BY <1>0, Zenon DEF Runtime
<1>2. a.pc = "reconciling" /\ a.job = r.job /\ a.isCurrent = r.isCurrent
  BY <1>0, SMT DEF Runtime
<1> HIDE DEF a
<1>3. m \in Runtime
  <2>1. reply \in Replies \cup {"none"}
    OBVIOUS
  <2> QED
    BY <1>1, <2>1, Zenon DEF Runtime
<1>4. m.pc = "reconciling" /\ m.reply = reply /\ m.job = r.job /\ m.isCurrent = r.isCurrent
  BY <1>1, <1>2, SMT DEF Runtime
<1>5. runtime' = [runtime EXCEPT ![j] = m]
  BY Zenon, <1>0 DEF Answered, a
<1> HIDE DEF m
<1>6. runtime'[j] = m /\ \A k \in Jobs \ {j} : runtime'[k] = runtime[k]
  BY <1>0, <1>5
<1>7. runtime' \in [Jobs -> Runtime]
  BY <1>0, <1>3, <1>5
<1> QED
  BY Zenon, <1>4, <1>6, <1>7

\* The node handles the request of a call and the reply arrives or is lost.
LEMMA ServeKeeps ==
  ASSUME IInv, NEW j \in Jobs, Serve(j)
  PROVE  IInv'
<1> DEFINE r == runtime[j]
<1>0. JobInv(j) /\ r \in Runtime /\ r.pc = "calling"
  BY DEF IInv, JobType, Serve
<1>1. PICK reply \in Replies :
        Handle(r.call, j, reply) /\ (Answered(j, reply) \/ Answered(j, "unavailable"))
  BY Zenon DEF Serve, Replies
<1>2. r.call \in {"start", "stop", "get"} /\ InCall(j, r.call)
  BY Zenon, <1>0 DEF JobInv, CopyInv, Runtime, InCall
<1>3. /\ NodeType' /\ serving /\ serving' = serving /\ outcome' = outcome
      /\ ended' = ended /\ lost' = lost
      /\ \A k \in Jobs \ {j} : phase'[k] = phase[k]
      /\ Handled(r.call, j, reply)
  BY Zenon, <1>1, <1>2, HandleIs
<1>4. stored' = stored /\ late' = late /\ starts' = starts
  BY DEF Serve
<1>5. PICK answer \in {reply, "unavailable"} : Answered(j, answer)
  BY <1>1
<1>6. answer \in Replies
  BY DEF Replies, ErrorReplies
<1>7. /\ runtime' \in [Jobs -> Runtime] /\ runtime'[j].pc = "reconciling"
      /\ runtime'[j].reply = answer /\ runtime'[j].job = r.job
      /\ runtime'[j].isCurrent = r.isCurrent
      /\ \A k \in Jobs \ {j} : runtime'[k] = runtime[k]
  BY Zenon, <1>5, <1>6, AnsweredIs
<1>8. JobType' /\ \A k \in Jobs \ {j} : Same(k)
  BY Zenon, <1>3, <1>4, <1>7 DEF IInv, JobType, Same
<1>9. /\ RowInv(j)' /\ NodeInv(j)'
      /\ Intent(j)' = Intent(j) /\ (Ran(j) => Ran(j)')
      /\ (r.call # "start" /\ phase[j] = "absent") => phase'[j] = "absent"
  BY Zenon, <1>2, <1>3, <1>4, HandledKeeps
<1>10. CopyInv(j)'
  <2>1. answer # "none"
    BY <1>6 DEF Replies, OperationReplies, ErrorReplies
  <2> QED
    BY Zenon, <1>0, <1>4, <1>7, <2>1 DEF JobInv, CopyInv
<1>11. StartInv(j)'
  <2>1. StartInv(j) /\ ~InCall(j, "start")'
    BY Zenon, <1>0, <1>7 DEF JobInv, InCall
  <2>2. "start" \in late[j] \/ starts[j] = 0 => r.call # "start" /\ phase[j] = "absent"
    BY SMTT(30), <1>2, <2>1 DEF StartInv
  <2> QED
    BY Zenon, <1>3, <1>4, <1>9, <2>1, <2>2 DEF StartInv
<1>12. SeenInv(j)'
  BY Zenon, <1>0, <1>4, <1>7, <1>9 DEF JobInv, SeenInv, InCall
<1>13. ReplyInv(j)'
  <2>1. /\ reply \in {"completed", "failed", "stopped"} => ended[j] = reply
        /\ reply = "running" => Ran(j)'
        /\ reply = "not_found" /\ r.job.startedAt => lost[j]
        /\ reply = "pending" => r.job.status # "running"
        /\ reply = "stopping" => Intent(j)
    BY Zenon, <1>2, <1>3, <1>4, AnswerIsTrue
  <2> QED
    BY Zenon, <1>3, <1>7, <1>9, <2>1 DEF ReplyInv
<1>14. JobInv(j)'
  BY Zenon, <1>9, <1>10, <1>11, <1>12, <1>13 DEF JobInv
<1> QED
  BY Zenon, <1>3, <1>8, <1>14, JobWise

\* A call fails; its request may still be on its way.
LEMMA CallFailsKeeps ==
  ASSUME IInv, NEW j \in Jobs, CallFails(j)
  PROVE  IInv'
<1> DEFINE r == runtime[j]
<1>0. JobInv(j) /\ r \in Runtime /\ r.pc = "calling" /\ Answered(j, "unavailable")
  BY DEF IInv, JobType, CallFails
<1>u. /\ stored' = stored /\ starts' = starts /\ phase' = phase
      /\ outcome' = outcome /\ ended' = ended /\ lost' = lost /\ serving' = serving
  BY DEF CallFails, nodeVars, operationVars
<1>1. "unavailable" \in Replies
  BY DEF Replies, ErrorReplies
<1>2. /\ runtime' \in [Jobs -> Runtime] /\ runtime'[j].pc = "reconciling"
      /\ runtime'[j].reply = "unavailable" /\ runtime'[j].job = r.job
      /\ runtime'[j].isCurrent = r.isCurrent
      /\ \A k \in Jobs \ {j} : runtime'[k] = runtime[k]
  BY Zenon, <1>0, <1>1, AnsweredIs
<1>3. /\ late' \in [Jobs -> SUBSET {"start", "stop"}]
      /\ \A k \in Jobs \ {j} : late'[k] = late[k]
      /\ \A call \in late'[j] : call \in late[j] \/ InCall(j, call)
  BY Zenon, <1>0 DEF CallFails, Mutating, InCall, IInv, JobType
<1>4. JobType' /\ NodeType' /\ \A k \in Jobs \ {j} : Same(k)
  BY Zenon, <1>2, <1>3, <1>u DEF IInv, JobType, NodeType, Same
<1>5. CopyInv(j)' /\ RowInv(j)' /\ NodeInv(j)'
  BY Zenon, <1>0, <1>2, <1>u DEF JobInv, CopyInv, RowInv, NodeInv, Intent
<1>6. StartInv(j)'
  BY Zenon, <1>0, <1>2, <1>3, <1>u DEF JobInv, StartInv, InCall
<1>7. SeenInv(j)' /\ ReplyInv(j)'
  BY Zenon, <1>0, <1>2, <1>3, <1>u DEF JobInv, SeenInv, ReplyInv, Ran, Intent, InCall
<1>8. JobInv(j)'
  BY <1>5, <1>6, <1>7 DEF JobInv
<1> QED
  BY <1>4, <1>8, <1>u, JobWise

\* A late request reaches the node.
LEMMA ServeLateKeeps ==
  ASSUME IInv, NEW j \in Jobs, ServeLate(j)
  PROVE  IInv'
<1> DEFINE r == runtime[j]
<1>0. JobInv(j) /\ late[j] \subseteq {"start", "stop"}
  BY DEF IInv, JobType
<1>1. PICK call \in late[j] : /\ \E reply \in Replies : Handle(call, j, reply)
                             /\ late' = [late EXCEPT ![j] = @ \ {call}]
  BY Zenon DEF ServeLate, Replies
<1>2. PICK reply \in Replies : Handle(call, j, reply)
  BY <1>1
<1>3. /\ NodeType' /\ serving /\ serving' = serving /\ outcome' = outcome
      /\ ended' = ended /\ lost' = lost
      /\ \A k \in Jobs \ {j} : phase'[k] = phase[k]
      /\ Handled(call, j, reply)
  BY Zenon, <1>0, <1>2, HandleIs
<1>4. stored' = stored /\ runtime' = runtime /\ starts' = starts
  BY DEF ServeLate
<1>5. /\ late' \in [Jobs -> SUBSET {"start", "stop"}] /\ late'[j] = late[j] \ {call}
      /\ \A k \in Jobs \ {j} : late'[k] = late[k]
  BY <1>1 DEF IInv, JobType
<1>6. JobType' /\ \A k \in Jobs \ {j} : Same(k)
  BY Zenon, <1>3, <1>4, <1>5 DEF IInv, JobType, Same
<1>7. /\ RowInv(j)' /\ NodeInv(j)'
      /\ Intent(j)' = Intent(j) /\ (Ran(j) => Ran(j)')
      /\ (call # "start" /\ phase[j] = "absent") => phase'[j] = "absent"
  BY Zenon, <1>3, <1>4, HandledKeeps
<1>8. CopyInv(j)'
  BY Zenon, <1>0, <1>4 DEF JobInv, CopyInv
<1>9. StartInv(j)'
  <2>1. StartInv(j) /\ InCall(j, "start")' = InCall(j, "start") /\ late'[j] = late[j] \ {call}
    BY Zenon, <1>0, <1>4, <1>5 DEF JobInv, InCall
  <2>2. "start" \in late'[j] => "start" \in late[j] /\ call # "start"
    BY Zenon, <2>1
  <2>3. call = "start" => "start" \notin late'[j] /\ ~InCall(j, "start") /\ starts[j] = 1
    BY Zenon, <2>1 DEF StartInv
  <2>4. ASSUME "start" \in late'[j] \/ InCall(j, "start") \/ starts[j] = 0
        PROVE  phase'[j] = "absent" /\ ended[j] = "none" /\ ~lost[j]
    <3>1. phase[j] = "absent" /\ ended[j] = "none" /\ ~lost[j]
      BY Zenon, <2>1, <2>2, <2>4 DEF StartInv
    <3>2. call # "start"
      BY <2>3, <2>4
    <3> QED
      BY Zenon, <1>7, <3>1, <3>2
  <2>5. /\ starts[j] = 1 => stored[j].pendingDeadline # "unset" \/ stored[j].status = "deleted"
        /\ ~("start" \in late'[j] /\ InCall(j, "start"))
        /\ "start" \in late'[j] \/ InCall(j, "start") => starts[j] = 1
    BY Zenon, <2>1, <2>2 DEF StartInv
  <2> QED
    BY Zenon, <1>3, <1>4, <2>1, <2>4, <2>5 DEF StartInv
<1>10. SeenInv(j)' /\ ReplyInv(j)'
  BY Zenon, <1>0, <1>3, <1>4, <1>5, <1>7 DEF JobInv, SeenInv, ReplyInv, InCall
<1>11. JobInv(j)'
  BY Zenon, <1>7, <1>8, <1>9, <1>10 DEF JobInv
<1> QED
  BY Zenon, <1>3, <1>6, <1>11, JobWise

-----------------------------------------------------------------------------
(* The node on its own. *)

\* A step of the node that leaves the jobs' rows and runtimes alone and moves
\* each operation along its lifecycle: launched, ended, or dropped.
LEMMA NodeKeeps ==
  ASSUME IInv, UNCHANGED jobVars, NodeType', NEW j \in Jobs,
         Ran(j) => Ran(j)',
         lost[j] => lost'[j],
         ended[j] # "none" => ended'[j] = ended[j],
         starts[j] = 0 \/ "start" \in late[j] \/ InCall(j, "start") =>
           phase'[j] = phase[j] /\ ended'[j] = ended[j] /\ lost'[j] = lost[j],
         NodeInv(j)'
  PROVE  JobInv(j)'
<1>0. JobInv(j) /\ starts[j] \in {0, 1}
  BY Zenon DEF IInv, JobType
<1>u. stored' = stored /\ runtime' = runtime /\ late' = late /\ starts' = starts
  BY Zenon DEF jobVars
<1>1. CopyInv(j)'
  BY Zenon, <1>0, <1>u DEF JobInv, CopyInv
<1>2. RowInv(j)'
  BY Zenon, <1>0, <1>u DEF JobInv, RowInv
<1>3. StartInv(j)'
  BY Zenon, <1>0, <1>u DEF JobInv, StartInv, InCall
<1>4. SeenInv(j)' /\ ReplyInv(j)'
  BY Zenon, <1>0, <1>u DEF JobInv, SeenInv, ReplyInv, Intent, InCall
<1> QED
  BY Zenon, <1>1, <1>2, <1>3, <1>4 DEF JobInv

\* An operation is launched.
LEMMA NodeRunsKeeps ==
  ASSUME IInv, NEW r \in Requests, NodeRuns(r)
  PROVE  IInv'
<1>0. NodeType
  BY DEF IInv
<1>1. /\ phase[r] = "pending" /\ phase' = [phase EXCEPT ![r] = "running"] /\ outcome' = outcome
      /\ serving' = serving /\ ended' = ended /\ lost' = lost /\ UNCHANGED jobVars
  BY DEF NodeRuns, Node!Run
<1>2. NodeType' /\ phase'[r] = "running" /\ \A k \in Requests \ {r} : phase'[k] = phase[k]
  BY <1>0, <1>1 DEF NodeType
<1>3. JobType' /\ \A k \in Jobs \ {r} : Same(k)
  BY Zenon, <1>1, <1>2 DEF IInv, JobType, Same, jobVars, Requests
<1>4. CASE r \in Jobs
  <2>1. NodeInv(r)'
    BY Zenon, <1>1, <1>2, <1>4 DEF IInv, JobInv, NodeInv
  <2>2. (Ran(r) => Ran(r)') /\ starts[r] # 0 /\ "start" \notin late[r] /\ ~InCall(r, "start")
    BY Zenon, <1>1, <1>2, <1>4 DEF IInv, JobInv, StartInv, Ran
  <2>3. JobInv(r)'
    BY Zenon, <1>1, <1>2, <1>4, <2>1, <2>2, NodeKeeps
  <2> QED
    BY <1>1, <1>2, <1>3, <2>3, JobWise
<1>5. CASE r \notin Jobs
  BY <1>1, <1>2, <1>3, <1>5, JobWise
<1> QED
  BY <1>4, <1>5

\* An operation ends.
LEMMA NodeEndsKeeps ==
  ASSUME IInv, NEW r \in Requests, NodeEnds(r)
  PROVE  IInv'
<1>0. NodeType
  BY DEF IInv
<1>1. PICK o \in Node!OutcomesOf(phase[r]) : outcome' = [outcome EXCEPT ![r] = o]
  BY Zenon DEF NodeEnds, Node!End
<1>2. phase[r] \in {"pending", "running", "stopping"} /\ o \in {"completed", "failed", "stopped"}
  BY <1>1 DEF Node!OutcomesOf
<1>3. /\ phase' = [phase EXCEPT ![r] = "terminal"] /\ serving' = serving /\ lost' = lost
      /\ UNCHANGED jobVars
      /\ ended' = IF r \in Jobs THEN [ended EXCEPT ![r] = outcome'[r]] ELSE ended
  BY DEF NodeEnds, Node!End
<1>4. /\ phase'[r] = "terminal" /\ \A k \in Requests \ {r} : phase'[k] = phase[k]
      /\ phase' \in [Requests -> {"absent", "pending", "running", "stopping", "terminal"}]
  BY <1>0, <1>3 DEF NodeType
<1>5. /\ outcome'[r] = o /\ \A k \in Requests \ {r} : outcome'[k] = outcome[k]
      /\ outcome' \in [Requests -> {"none", "completed", "failed", "stopped"}]
  BY <1>0, <1>1, <1>2 DEF NodeType
<1>6. /\ ended' \in [Jobs -> {"none", "completed", "failed", "stopped"}]
      /\ \A k \in Jobs \ {r} : ended'[k] = ended[k]
      /\ r \in Jobs => ended'[r] = o
  BY Zenon, <1>0, <1>2, <1>3, <1>5 DEF NodeType
<1>7. JobType' /\ NodeType' /\ \A k \in Jobs \ {r} : Same(k)
  BY Zenon, <1>0, <1>3, <1>4, <1>5, <1>6 DEF IInv, JobType, NodeType, Same, jobVars, Requests
<1>8. CASE r \in Jobs
  <2>1. NodeInv(r)'
    BY Zenon, <1>2, <1>3, <1>4, <1>5, <1>6, <1>8 DEF IInv, JobInv, NodeInv
  <2>2. /\ Ran(r) => Ran(r)'
        /\ starts[r] # 0 /\ "start" \notin late[r] /\ ~InCall(r, "start") /\ ended[r] = "none"
    BY Zenon, <1>2, <1>4, <1>8 DEF IInv, JobInv, StartInv, NodeInv, Ran
  <2>3. JobInv(r)'
    BY Zenon, <1>3, <1>7, <1>8, <2>1, <2>2, NodeKeeps
  <2> QED
    BY <1>3, <1>7, <2>3, JobWise
<1>9. CASE r \notin Jobs
  BY <1>3, <1>7, <1>9, JobWise
<1> QED
  BY <1>8, <1>9

\* A terminal record is dropped.
LEMMA NodeForgetsKeeps ==
  ASSUME IInv, NEW r \in Requests, NodeForgets(r)
  PROVE  IInv'
<1>0. NodeType
  BY DEF IInv
<1>1. /\ phase[r] = "terminal" /\ phase' = [phase EXCEPT ![r] = "absent"]
      /\ outcome' = [outcome EXCEPT ![r] = "none"] /\ serving' = serving /\ ended' = ended
      /\ lost' = IF r \in Jobs THEN [lost EXCEPT ![r] = TRUE] ELSE lost
      /\ UNCHANGED jobVars
  BY DEF NodeForgets, Node!Forget
<1>2. /\ phase'[r] = "absent" /\ \A k \in Requests \ {r} : phase'[k] = phase[k]
      /\ phase' \in [Requests -> {"absent", "pending", "running", "stopping", "terminal"}]
      /\ \A k \in Requests \ {r} : outcome'[k] = outcome[k]
      /\ outcome' \in [Requests -> {"none", "completed", "failed", "stopped"}]
  BY <1>0, <1>1 DEF NodeType
<1>3. /\ lost' \in [Jobs -> BOOLEAN] /\ \A k \in Jobs \ {r} : lost'[k] = lost[k]
      /\ r \in Jobs => lost'[r] = TRUE
  BY <1>0, <1>1 DEF NodeType
<1>4. JobType' /\ NodeType' /\ \A k \in Jobs \ {r} : Same(k)
  BY Zenon, <1>0, <1>1, <1>2, <1>3 DEF IInv, JobType, NodeType, Same, jobVars, Requests
<1>5. CASE r \in Jobs
  <2>1. NodeInv(r)' /\ Ran(r)'
    BY Zenon, <1>2, <1>3, <1>5 DEF NodeInv, Ran
  <2>2. starts[r] # 0 /\ "start" \notin late[r] /\ ~InCall(r, "start")
    BY Zenon, <1>1, <1>5 DEF IInv, JobInv, StartInv
  <2>3. JobInv(r)'
    BY Zenon, <1>1, <1>3, <1>4, <1>5, <2>1, <2>2, NodeKeeps
  <2> QED
    BY <1>1, <1>4, <2>3, JobWise
<1>6. CASE r \notin Jobs
  BY <1>1, <1>4, <1>6, JobWise
<1> QED
  BY <1>5, <1>6

\* Another client's operation is accepted.
LEMMA AcceptsOtherKeeps ==
  ASSUME IInv, NEW r \in OtherRequests, NodeAcceptsOther(r)
  PROVE  IInv'
<1>0. NodeType /\ r \in Requests /\ r \notin Jobs
  BY NodeAssumption DEF IInv, Requests
<1>1. /\ phase' = [phase EXCEPT ![r] = "pending"] /\ outcome' = outcome
      /\ serving' = serving /\ ended' = ended /\ lost' = lost /\ UNCHANGED jobVars
  BY DEF NodeAcceptsOther, Node!Accept
<1>2. NodeType' /\ \A k \in Requests \ {r} : phase'[k] = phase[k]
  BY <1>0, <1>1 DEF NodeType
<1>3. JobType' /\ \A k \in Jobs : Same(k)
  BY Zenon, <1>0, <1>1, <1>2 DEF IInv, JobType, Same, jobVars, Requests
<1> QED
  BY <1>1, <1>2, <1>3, JobWise

\* Admission closes.
LEMMA NodeClosesKeeps ==
  ASSUME IInv, NodeCloses
  PROVE  IInv'
<1>1. /\ phase' = phase /\ outcome' = outcome
      /\ serving' = serving /\ ended' = ended /\ lost' = lost /\ UNCHANGED jobVars
  BY DEF NodeCloses, Node!Close
<1>2. JobType' /\ NodeType' /\ \A k \in Jobs : Same(k)
  BY Zenon, <1>1 DEF IInv, JobType, NodeType, Same, jobVars
<1> QED
  BY <1>1, <1>2, JobWise

\* The listener is closed, and then the operations are stopped: nobody sees them
\* stopping, because nobody is answered any more.
LEMMA ShutdownKeeps ==
  ASSUME IInv, NodeStopsServing \/ NodeStopsAll
  PROVE  IInv'
<1>0. NodeType
  BY DEF IInv
<1>1. /\ outcome' = outcome /\ serving' = FALSE /\ ended' = ended /\ lost' = lost
      /\ UNCHANGED jobVars
  BY <1>0 DEF NodeStopsServing, NodeStopsAll, Node!StopAll, operationVars, NodeType
<1>2. \A k \in Requests :
        \/ phase'[k] = phase[k]
        \/ phase[k] \in {"pending", "running"} /\ phase'[k] = "stopping"
  <2>1. CASE NodeStopsServing
    BY <2>1 DEF NodeStopsServing, operationVars
  <2>2. CASE NodeStopsAll
    <3>1. PICK S \in SUBSET {k \in Requests : phase[k] \in {"pending", "running"}} :
            phase' = [k \in Requests |-> IF k \in S THEN "stopping" ELSE phase[k]]
      BY <2>2 DEF NodeStopsAll, Node!StopAll, Requests
    <3> QED
      BY <3>1
  <2> QED
    BY <2>1, <2>2
<1>3. phase' \in [Requests -> {"absent", "pending", "running", "stopping", "terminal"}]
  <2>1. CASE NodeStopsServing
    BY <1>0, <2>1 DEF NodeStopsServing, operationVars, NodeType
  <2>2. CASE NodeStopsAll
    <3>1. PICK S \in SUBSET {k \in Requests : phase[k] \in {"pending", "running"}} :
            phase' = [k \in Requests |-> IF k \in S THEN "stopping" ELSE phase[k]]
      BY <2>2 DEF NodeStopsAll, Node!StopAll, Requests
    <3> QED
      BY <1>0, <3>1 DEF NodeType
  <2> QED
    BY <2>1, <2>2
<1>4. JobType' /\ NodeType'
  BY Zenon, <1>0, <1>1, <1>3 DEF IInv, JobType, NodeType, jobVars
<1>5. ASSUME NEW j \in Jobs PROVE JobInv(j)'
  <2>0. /\ JobInv(j)
        /\ phase'[j] = phase[j] \/ (phase[j] \in {"pending", "running"} /\ phase'[j] = "stopping")
    BY <1>2 DEF IInv, Requests
  <2>1. NodeInv(j)'
    BY Zenon, <1>1, <2>0 DEF JobInv, NodeInv
  <2>2. /\ Ran(j) => Ran(j)'
        /\ starts[j] = 0 \/ "start" \in late[j] \/ InCall(j, "start") => phase'[j] = phase[j]
    BY Zenon, <1>1, <2>0 DEF JobInv, StartInv, Ran
  <2> QED
    BY Zenon, <1>1, <1>4, <2>1, <2>2, NodeKeeps
<1> QED
  BY <1>4, <1>5 DEF IInv

\* The daemon is started again: what it had is lost.
LEMMA NodeRestartsKeeps ==
  ASSUME IInv, NodeRestarts
  PROVE  IInv'
<1>0. NodeType
  BY DEF IInv
<1>1. ended' = ended /\ UNCHANGED jobVars
  BY Zenon DEF NodeRestarts
<1>2. JobType' /\ NodeType'
  BY Zenon, <1>0, <1>1 DEF IInv, JobType, NodeType, jobVars, NodeRestarts, Requests
<1>3. ASSUME NEW j \in Jobs PROVE JobInv(j)'
  <2>1. phase'[j] = "absent" /\ lost'[j] = (lost[j] \/ phase[j] # "absent")
    BY DEF NodeRestarts
  <2>2. NodeInv(j)' /\ (Ran(j) => Ran(j)') /\ (lost[j] => lost'[j])
    BY Zenon, <2>1 DEF NodeInv, Ran
  <2>3. starts[j] = 0 \/ "start" \in late[j] \/ InCall(j, "start") =>
          phase'[j] = phase[j] /\ lost'[j] = lost[j]
    <3>1. lost[j] \in BOOLEAN
      BY <1>0 DEF NodeType
    <3> QED
      BY Zenon, <2>1, <3>1 DEF IInv, JobInv, StartInv
  <2> QED
    BY Zenon, <1>1, <1>2, <2>2, <2>3, NodeKeeps
<1> QED
  BY <1>2, <1>3 DEF IInv

-----------------------------------------------------------------------------
(* Theorems. *)

\* Every step keeps the invariant.
LEMMA NextKeeps ==
  ASSUME IInv, Next
  PROVE  IInv'
<1>1. ASSUME NEW j \in Jobs, Create(j) \/ StopByUser(j) \/ CleanupTerminal(j)
      PROVE  IInv'
  BY <1>1, CreateKeeps, StopKeeps, CleanupKeeps
<1>2. ASSUME NEW j \in Jobs, RuntimeStep(j) PROVE IInv'
  BY <1>2, SuperviseKeeps, SaveStartKeeps, SaveStartFailsKeeps, ReconcileKeeps,
     ReconcileFailsKeeps, ReloadKeeps DEF RuntimeStep
<1>3. ASSUME NEW j \in Jobs, CallStep(j) PROVE IInv'
  BY <1>3, ServeKeeps, CallFailsKeeps, ServeLateKeeps DEF CallStep
<1>4. ASSUME NEW j \in Jobs, NEW d \in Deadlines, DeadlinePasses(j, d) PROVE IInv'
  BY <1>4, DeadlineKeeps
<1>5. CASE NodeStep
  BY <1>5, NodeRunsKeeps, NodeEndsKeeps, NodeForgetsKeeps, AcceptsOtherKeeps,
     NodeClosesKeeps, ShutdownKeeps, NodeRestartsKeeps DEF NodeStep, Requests
<1> QED
  BY <1>1, <1>2, <1>3, <1>4, <1>5, CrashKeeps, RecoverKeeps DEF Next

\* The invariant is inductive.
THEOREM Invariance == Spec => []IInv
<1>1. ASSUME IInv, UNCHANGED vars PROVE IInv'
  <2>1. /\ UNCHANGED jobVars /\ UNCHANGED nodeVars /\ serving' = serving
        /\ \A k \in Jobs : Same(k)
    BY <1>1 DEF vars, jobVars, nodeVars, operationVars, Same
  <2>2. JobType' /\ NodeType'
    BY <1>1, <2>1 DEF IInv, JobType, NodeType, jobVars, nodeVars, operationVars
  <2> QED
    BY <1>1, <2>1, <2>2, JobWise
<1>2. IInv /\ [Next]_vars => IInv'
  BY <1>1, NextKeeps
<1> QED
  BY InitIInv, <1>2, PTL DEF Spec

\* StartOperation is requested at most once for a job, whatever crashes, lost
\* replies, ambiguous saves and recoveries come in between.
THEOREM StartedOnce == Spec => []StartedAtMostOnce
<1>1. IInv => StartedAtMostOnce
  BY DEF IInv, JobType, StartedAtMostOnce
<1> QED
  BY <1>1, Invariance, PTL

\* A stop request is on its way to the node only after the intent to stop was
\* stored.
THEOREM StopsAreIntended == Spec => []StopIntentPersisted
<1>1. IInv => StopIntentPersisted
  BY Zenon DEF IInv, JobInv, SeenInv, Intent, InCall, StopIntentPersisted
<1> QED
  BY <1>1, Invariance, PTL

\* A row says completed or stopped only if the node ended the operation so, or
\* stopped before any was requested.
THEOREM OutcomesAgree == Spec => []OutcomeAgrees
<1>1. IInv => OutcomeAgrees
  BY Zenon DEF IInv, JobInv, RowInv, OutcomeAgrees
<1> QED
  BY <1>1, Invariance, PTL

\* A row blames a lost operation only if the node dropped one.
THEOREM LossesExplained == Spec => []LossExplained
<1>1. IInv => LossExplained
  BY Zenon DEF IInv, JobInv, RowInv, LossExplained
<1> QED
  BY <1>1, Invariance, PTL

\* A row never blames the node's protocol: no reply the node can give is one
\* that ApplyOperation rejects.
THEOREM ProtocolKept == Spec => []NoProtocolError
<1>1. IInv => NoProtocolError
  BY Zenon DEF IInv, JobInv, RowInv, NoProtocolError
<1> QED
  BY <1>1, Invariance, PTL

\* Only a copy that is not ended is saved over a row.
LEMMA TerminalKept ==
  ASSUME IInv, Next, NEW k \in Jobs, IsTerminal(stored[k])
  PROVE  stored'[k] = stored[k] \/ stored'[k].status = "deleted"
<1> SUFFICES ASSUME stored' # stored
             PROVE  stored'[k] = stored[k] \/ stored'[k].status = "deleted"
  OBVIOUS
<1>0. stored \in [Jobs -> Row] /\ runtime \in [Jobs -> Runtime]
  BY DEF IInv, JobType
<1>a. ASSUME NEW j \in Jobs, NEW u, Applied(j, u), ~IsTerminal(runtime[j].job)
      PROVE  stored'[k] = stored[k]
  <2>1. j # k
    BY Zenon, <1>a DEF Applied, IInv, JobInv, CopyInv
  <2> QED
    BY <1>0, <1>a, <2>1 DEF Applied
<1>1. PICK j \in Jobs :
        \/ Create(j) \/ StopByUser(j) \/ CleanupTerminal(j) \/ SaveStartDeadline(j)
        \/ SaveStartDeadlineFails(j) \/ Reconcile(j) \/ ReconcileFails(j)
        \/ \E d \in Deadlines : DeadlinePasses(j, d)
  <2>1. ~NodeStep /\ ~Crash /\ ~Recover
    BY Zenon DEF NodeStep, NodeRuns, NodeEnds, NodeForgets, NodeAcceptsOther, NodeCloses,
           NodeStopsServing, NodeStopsAll, NodeRestarts, Crash, Recover, jobVars
  <2>2. \A j \in Jobs :
          ~(Supervise(j) \/ Reload(j) \/ ReloadFails(j) \/ CallStep(j))
    BY DEF Supervise, Reload, ReloadFails, CallStep, Serve, CallFails, ServeLate
  <2> QED
    BY <2>1, <2>2 DEF Next, RuntimeStep
<1>2. CASE Create(j)
  BY <1>0, <1>2 DEF Create, IsTerminal
<1>3. CASE StopByUser(j)
  <2>1. /\ runtime[j].job.status \in {"pending", "running"}
        /\ \E u : Applied(j, u)
    BY <1>3 DEF StopByUser, StoreAnswers, StoreFails
  <2> QED
    BY <1>a, <2>1 DEF IsTerminal
<1>4. CASE CleanupTerminal(j)
  BY <1>0, <1>4, EmptyValues DEF CleanupTerminal
<1>5. CASE SaveStartDeadline(j) \/ SaveStartDeadlineFails(j)
  <2>1. /\ runtime[j].job.status = "pending"
        /\ \E u : Applied(j, u)
    BY <1>5 DEF SaveStartDeadline, SaveStartDeadlineFails, StoreAnswers, StoreFails, ShouldStart
  <2> QED
    BY <1>a, <2>1 DEF IsTerminal
<1>6. CASE Reconcile(j) \/ ReconcileFails(j)
  <2>1. ~IsTerminal(runtime[j].job) /\ \E u : Applied(j, u)
    BY <1>6 DEF Reconcile, ReconcileFails, StoreAnswers, StoreFails
  <2> QED
    BY <1>a, <2>1
<1>7. ASSUME NEW d \in Deadlines, DeadlinePasses(j, d)
      PROVE  stored'[k] = stored[k]
  <2>1. Later(stored[k], d) = stored[k]
    BY Zenon, <1>0, LaterIs DEF IsTerminal
  <2>2. stored' = [stored EXCEPT ![j] = Later(stored[j], d)]
    BY <1>7 DEF DeadlinePasses
  <2> QED
    BY <1>0, <2>1, <2>2
<1> QED
  BY Zenon, <1>1, <1>2, <1>3, <1>4, <1>5, <1>6, <1>7

\* A terminal row changes no more, whoever still holds a copy of it.
THEOREM TerminalRowsStay == Spec => TerminalStable
<1> DEFINE Stays == \A j \in Jobs : IsTerminal(stored[j]) =>
                      stored'[j] = stored[j] \/ stored'[j].status = "deleted"
<1>1. IInv /\ [Next]_vars => [Stays]_vars
  BY TerminalKept
<1> QED
  BY <1>1, Invariance, PTL DEF Spec, TerminalStable
=============================================================================
