------------------------------ MODULE JobManager ------------------------------
(***************************************************************************)
(* The job manager of huatuo-apiserver (internal/job/manager.go): which    *)
(* jobs have a runtime, the quotas, and the life of the store.             *)
(*                                                                         *)
(* What a runtime does with its job is JobControl; here a runtime runs     *)
(* until its job is terminal or its context is canceled.  Create calls,    *)
(* the goroutines runJobRuntime, the cleanup loop and Shutdown meet on     *)
(* Manager.mu and on the WaitGroup that keeps the store open for them.     *)
(* The process may die at any point, and starts again with recover, which  *)
(* lists the unfinished rows in batches while the runtimes it has already  *)
(* started change them.                                                    *)
(*                                                                         *)
(* The kinds of jobs are counted apart from each other; one is modelled.   *)
(* IDs are ordered (recover continues after the last ID it read), and an   *)
(* ID without a row stands for any fresh one.                              *)
(***************************************************************************)
EXTENDS Naturals, FiniteSets

CONSTANTS
  N,              \* IDs are 1 .. N
  HostOf,         \* the hostname of each job
  MaxTotalJobs,   \* Policy.MaxTotalJobs
  MaxJobsPerHost, \* Policy.MaxJobsPerHost
  BatchSize       \* jobBatchSize

Jobs == 1 .. N
Hosts == {HostOf[j] : j \in Jobs}

\* validateManagerConfig refuses quotas that are not positive.
ASSUME QuotaAssumption ==
  /\ N \in Nat
  /\ HostOf \in [Jobs -> Hosts]
  /\ MaxTotalJobs \in Nat \ {0}
  /\ MaxJobsPerHost \in Nat \ {0}
  /\ BatchSize \in Nat \ {0}

VARIABLES
  rows,         \* the job store: no row, an unfinished job, a terminal one
  storeOpen,    \* the store has not been closed
  process,      \* the apiserver: down, recovering, failed to start, or ready
  lastReadID,   \* cursor of recover
  active,       \* Manager.active
  activeTotal,  \* Manager.activeTotal of the kind
  activeHosts,  \* Manager.activeHosts of the kind
  accepting,    \* Manager.accepting
  task,         \* the Create call or the goroutine runJobRuntime of a job
  canceled,     \* the context of the job's runtime is canceled
  cleaning,     \* the cleanup goroutine has not returned
  wg,           \* counter of Manager.wg
  closing,      \* closeOnce ran
  closed,       \* Manager.closeDone is closed
  orphans       \* history: rows whose insert was reported as failed

storeVars == <<rows, orphans>>
quotaVars == <<active, activeTotal, activeHosts>>
processVars == <<process, lastReadID>>
closeVars == <<storeOpen, accepting, cleaning, closing, closed>>
taskVars == <<task, canceled, wg>>
vars == <<storeVars, quotaVars, processVars, closeVars, taskVars>>

\* A Create call is at its insert, or runJobRuntime is in run.  Both then
\* unregister the runtime and call wg.Done.
Tasks == {"none", "creating", "running", "unregistering", "done"}

\* The memory of a process that starts: newManagerWithStore.
NewProcess ==
  /\ active' = {}
  /\ activeTotal' = 0
  /\ activeHosts' = [h \in Hosts |-> 0]
  /\ accepting' = TRUE
  /\ task' = [j \in Jobs |-> "none"]
  /\ canceled' = [j \in Jobs |-> FALSE]
  /\ cleaning' = FALSE
  /\ wg' = 0
  /\ closing' = FALSE
  /\ closed' = FALSE
  /\ lastReadID' = 0

Init ==
  /\ rows = [j \in Jobs |-> "none"]
  /\ orphans = {}
  /\ storeOpen = FALSE
  /\ process = "down"
  /\ lastReadID = 0
  /\ active = {}
  /\ activeTotal = 0
  /\ activeHosts = [h \in Hosts |-> 0]
  /\ accepting = TRUE
  /\ task = [j \in Jobs |-> "none"]
  /\ canceled = [j \in Jobs |-> FALSE]
  /\ cleaning = FALSE
  /\ wg = 0
  /\ closing = FALSE
  /\ closed = FALSE

-----------------------------------------------------------------------------
(* Registration. *)

OnHost(S, h) == {j \in S : HostOf[j] = h}

\* registerLocked for each job of S.
Register(S) ==
  /\ active' = active \cup S
  /\ activeTotal' = activeTotal + Cardinality(S)
  /\ activeHosts' = [h \in Hosts |-> activeHosts[h] + Cardinality(OnHost(S, h))]

\* Mutant of Unregister: the count of the host is not released.
UnregisterTotalOnly(j) ==
  /\ task[j] = "unregistering"
  /\ active' = active \ {j}
  /\ activeTotal' = activeTotal - 1
  /\ task' = [task EXCEPT ![j] = "done"]
  /\ UNCHANGED <<activeHosts, canceled, wg, storeVars, processVars, closeVars>>

\* unregisterLocked, the first deferred call of runJobRuntime; a Create whose
\* insert failed does the same.
Unregister(j) ==
  /\ task[j] = "unregistering"
  /\ active' = active \ {j}
  /\ activeTotal' = activeTotal - 1
  /\ activeHosts' = [activeHosts EXCEPT ![HostOf[j]] = @ - 1]
  /\ task' = [task EXCEPT ![j] = "done"]
  /\ UNCHANGED <<canceled, wg, storeVars, processVars, closeVars>>

\* The deferred wg.Done.
Done(j) ==
  /\ task[j] = "done"
  /\ task' = [task EXCEPT ![j] = "none"]
  /\ canceled' = [canceled EXCEPT ![j] = FALSE]
  /\ wg' = wg - 1
  /\ UNCHANGED <<storeVars, quotaVars, processVars, closeVars>>

-----------------------------------------------------------------------------
(* Create and the runtimes. *)

\* The quota tests of Create.
HasQuota(j) == activeTotal < MaxTotalJobs /\ activeHosts[HostOf[j]] < MaxJobsPerHost

\* Mutant of Create: the call is added to wg only when its runtime starts.
CreateUncounted(j) ==
  /\ process = "ready"
  /\ accepting
  /\ rows[j] = "none"
  /\ task[j] = "none"
  /\ HasQuota(j)
  /\ Register({j})
  /\ task' = [task EXCEPT ![j] = "creating"]
  /\ UNCHANGED <<canceled, wg, storeVars, processVars, closeVars>>

\* Create up to the insert.  A call that is refused changes nothing.
Create(j) ==
  /\ process = "ready"
  /\ accepting
  /\ rows[j] = "none"
  /\ task[j] = "none"
  /\ HasQuota(j)
  /\ Register({j})
  /\ task' = [task EXCEPT ![j] = "creating"]
  /\ wg' = wg + 1
  /\ UNCHANGED <<canceled, storeVars, processVars, closeVars>>

Inserted(j) ==
  /\ task[j] = "creating"
  /\ storeOpen
  /\ rows' = [rows EXCEPT ![j] = "unfinished"]
  /\ task' = [task EXCEPT ![j] = "running"]
  /\ UNCHANGED <<orphans, canceled, wg, quotaVars, processVars, closeVars>>

\* Mutant of InsertFails: the call returns without unregistering its runtime.
InsertFailsRegistered(j) ==
  /\ task[j] = "creating"
  /\ \/ UNCHANGED storeVars
     \/ /\ storeOpen
        /\ rows' = [rows EXCEPT ![j] = "unfinished"]
        /\ orphans' = orphans \cup {j}
  /\ task' = [task EXCEPT ![j] = "none"]
  /\ wg' = wg - 1
  /\ UNCHANGED <<canceled, quotaVars, processVars, closeVars>>

\* The insert reports an error, although it may have been applied.
InsertFails(j) ==
  /\ task[j] = "creating"
  /\ \/ UNCHANGED storeVars
     \/ /\ storeOpen
        /\ rows' = [rows EXCEPT ![j] = "unfinished"]
        /\ orphans' = orphans \cup {j}
  /\ task' = [task EXCEPT ![j] = "unregistering"]
  /\ UNCHANGED <<canceled, wg, quotaVars, processVars, closeVars>>

\* The runtime brings its job to an end.
JobEnds(j) ==
  /\ task[j] = "running"
  /\ storeOpen
  /\ rows' = [rows EXCEPT ![j] = "terminal"]
  /\ task' = [task EXCEPT ![j] = "unregistering"]
  /\ UNCHANGED <<orphans, canceled, wg, quotaVars, processVars, closeVars>>

\* The runtime sees that its context is canceled.
RuntimeCanceled(j) ==
  /\ task[j] = "running"
  /\ canceled[j]
  /\ task' = [task EXCEPT ![j] = "unregistering"]
  /\ UNCHANGED <<canceled, wg, storeVars, quotaVars, processVars, closeVars>>

\* DeleteTerminalBefore: a batch of the terminal rows past their retention
\* period.
CleanupTerminal ==
  /\ cleaning
  /\ storeOpen
  /\ \E S \in SUBSET {j \in Jobs : rows[j] = "terminal"} :
       /\ S # {}
       /\ Cardinality(S) <= BatchSize
       /\ rows' = [j \in Jobs |-> IF j \in S THEN "none" ELSE rows[j]]
  /\ UNCHANGED <<orphans, quotaVars, processVars, closeVars, taskVars>>

-----------------------------------------------------------------------------
(* Shutdown. *)

\* Mutant of Shutdown: the runtimes are not canceled.
ShutdownUncanceled ==
  /\ process = "ready"
  /\ ~closing
  /\ closing' = TRUE
  /\ accepting' = FALSE
  /\ UNCHANGED <<storeOpen, cleaning, closed, taskVars, storeVars, quotaVars, processVars>>

\* The body of closeOnce: cancels the cleanup and every registered runtime.
Shutdown ==
  /\ process = "ready"
  /\ ~closing
  /\ closing' = TRUE
  /\ accepting' = FALSE
  /\ canceled' = [j \in Jobs |-> canceled[j] \/ j \in active]
  /\ UNCHANGED <<storeOpen, cleaning, closed, task, wg, storeVars, quotaVars, processVars>>

CleanupExits ==
  /\ cleaning
  /\ closing
  /\ cleaning' = FALSE
  /\ wg' = wg - 1
  /\ UNCHANGED <<storeOpen, accepting, closing, closed, task, canceled, storeVars, quotaVars, processVars>>

\* wg.Wait returns in the goroutine of Shutdown, which closes the store.
CloseStore ==
  /\ closing
  /\ ~closed
  /\ wg = 0
  /\ storeOpen' = FALSE
  /\ closed' = TRUE
  /\ UNCHANGED <<accepting, cleaning, closing, taskVars, storeVars, quotaVars, processVars>>

-----------------------------------------------------------------------------
(* The process. *)

\* A crash, or the exit after a shutdown or a failed start.
Exit ==
  /\ process # "down"
  /\ process' = "down"
  /\ storeOpen' = FALSE
  /\ orphans' = {}
  /\ NewProcess
  /\ UNCHANGED rows

Boot ==
  /\ process = "down"
  /\ process' = "recovering"
  /\ storeOpen' = TRUE
  /\ UNCHANGED <<storeVars, quotaVars, lastReadID, accepting, cleaning, closing, closed, taskVars>>

\* Mutant of Unread: the rows read so far are skipped by their number.
UnreadByOffset ==
  LET found == {j \in Jobs : rows[j] = "unfinished"}
  IN  {j \in found : Cardinality({i \in found : i < j}) >= lastReadID}

\* The unfinished rows behind the cursor.
Unread == {j \in Jobs : rows[j] = "unfinished" /\ j > lastReadID}

\* The page List returns if last is its last ID, and whether it is.
Page(last) == {j \in Unread : j <= last}

IsLast(last) ==
  \/ Cardinality(Page(last)) = BatchSize
  \/ Cardinality(Page(last)) < BatchSize /\ Page(last) = Unread

\* One turn of recover that found rows: all of them get a runtime, whatever
\* the quotas say.
RecoverPage ==
  /\ process = "recovering"
  /\ \E last \in Unread :
       /\ IsLast(last)
       /\ lastReadID' = last
       /\ Register(Page(last))
       /\ task' = [j \in Jobs |-> IF j \in Page(last) THEN "running" ELSE task[j]]
       /\ wg' = wg + Cardinality(Page(last))
  /\ UNCHANGED <<process, canceled, storeVars, closeVars>>

\* recover returns and startCleanup follows.
Recovered ==
  /\ process = "recovering"
  /\ Unread = {}
  /\ process' = "ready"
  /\ cleaning' = TRUE
  /\ wg' = wg + 1
  /\ UNCHANGED <<lastReadID, storeOpen, accepting, closing, closed, task, canceled, storeVars, quotaVars>>

\* A List of recover fails: NewManager closes the store and returns the error,
\* while the runtimes it has started go on until the process exits.
RecoverFails ==
  /\ process = "recovering"
  /\ process' = "failed"
  /\ storeOpen' = FALSE
  /\ UNCHANGED <<lastReadID, accepting, cleaning, closing, closed, taskVars, storeVars, quotaVars>>

-----------------------------------------------------------------------------

Task(j) ==
  \/ Inserted(j) \/ InsertFails(j) \/ JobEnds(j) \/ RuntimeCanceled(j)
  \/ Unregister(j) \/ Done(j)

Next ==
  \/ \E j \in Jobs : Create(j) \/ Task(j)
  \/ CleanupTerminal \/ Shutdown \/ CleanupExits \/ CloseStore
  \/ Exit \/ Boot \/ RecoverPage \/ Recovered \/ RecoverFails

Spec == Init /\ [][Next]_vars

\* Inserts return, goroutines run, and a canceled runtime returns.
Fairness ==
  /\ \A j \in Jobs :
       /\ WF_vars(Inserted(j) \/ InsertFails(j))
       /\ WF_vars(RuntimeCanceled(j))
       /\ WF_vars(Unregister(j))
       /\ WF_vars(Done(j))
  /\ WF_vars(CleanupExits)
  /\ WF_vars(CloseStore)

FairSpec == Spec /\ Fairness

-----------------------------------------------------------------------------
(* Properties. *)

\* Type correctness; in particular no count becomes negative, wg.Done is
\* never called once too often.
TypeOK ==
  /\ rows \in [Jobs -> {"none", "unfinished", "terminal"}]
  /\ orphans \subseteq Jobs
  /\ storeOpen \in BOOLEAN
  /\ process \in {"down", "recovering", "failed", "ready"}
  /\ lastReadID \in 0 .. N
  /\ active \subseteq Jobs
  /\ activeTotal \in Nat
  /\ activeHosts \in [Hosts -> Nat]
  /\ accepting \in BOOLEAN
  /\ task \in [Jobs -> Tasks]
  /\ canceled \in [Jobs -> BOOLEAN]
  /\ cleaning \in BOOLEAN
  /\ wg \in Nat
  /\ closing \in BOOLEAN
  /\ closed \in BOOLEAN

\* The counters the quotas are compared with are the numbers of registered
\* runtimes, whatever way a job was registered and ended.
QuotasExact ==
  /\ activeTotal = Cardinality(active)
  /\ \A h \in Hosts : activeHosts[h] = Cardinality(OnHost(active, h))

\* No runtime registered by Create takes the number of runtimes, in all or on
\* a host, past its quota.  Recovered jobs may be more than that.
QuotasKept ==
  [][process = "ready" /\ active' # active /\ active \subseteq active' =>
       /\ Cardinality(active') <= MaxTotalJobs
       /\ \A j \in active' \ active :
            Cardinality(OnHost(active', HostOf[j])) <= MaxJobsPerHost]_vars

\* The store is open for every Create, runtime and cleanup of a manager that
\* started: Shutdown cannot close it under one of them.
StoreOpenWhileUsed ==
  cleaning \/ (\E j \in Jobs : task[j] \in {"creating", "running"}) =>
    storeOpen \/ process = "failed"

\* When Shutdown has closed the store nothing of the manager is left.
ShutdownComplete ==
  closed => active = {} /\ ~cleaning /\ \A j \in Jobs : task[j] = "none"

\* Every unfinished row of a ready manager is supervised, those it found at
\* its start included, unless Create has reported the row as not created.
UnfinishedSupervised ==
  process = "ready" /\ accepting =>
    \A j \in Jobs : rows[j] = "unfinished" => task[j] = "running" \/ j \in orphans

\* Shutdown ends, with Creates and runtimes at any point.
ShutdownEnds == closing ~> closed \/ process = "down"

-----------------------------------------------------------------------------
(* The inductive invariant. *)

Registered == {j \in Jobs : task[j] \in {"creating", "running", "unregistering"}}
Working == {j \in Jobs : task[j] # "none"}

\* Where the manager is in its life, and what that says about the store.
LifeConsistent ==
  /\ process = "down" => Working = {} /\ lastReadID = 0
  /\ process # "ready" => ~cleaning /\ ~closing /\ orphans = {}
  /\ process = "recovering" => storeOpen
  /\ process = "ready" => storeOpen \/ closed
  /\ process = "ready" /\ ~closing => cleaning
  /\ closing <=> ~accepting
  /\ closed => closing /\ wg = 0
  /\ \A j \in Jobs : task[j] = "creating" => process = "ready"
  /\ \A j \in Jobs : canceled[j] => closing

\* Up to the cursor of recover every unfinished row has its runtime, beyond it
\* none has.
RecoveryConsistent ==
  process = "recovering" =>
    \A j \in Jobs : IF j <= lastReadID THEN rows[j] = "unfinished" => task[j] = "running"
                                       ELSE task[j] = "none"

\* The inductive invariant behind the safety properties: who is registered and
\* who is counted by the WaitGroup follows from where each task is.
IInv ==
  /\ TypeOK
  /\ active = Registered
  /\ QuotasExact
  /\ wg = Cardinality(Working) + (IF cleaning THEN 1 ELSE 0)
  /\ \A j \in Jobs : task[j] = "running" => rows[j] = "unfinished"
  /\ LifeConsistent
  /\ RecoveryConsistent
  /\ UnfinishedSupervised
=============================================================================
