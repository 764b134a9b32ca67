--------------------------- MODULE JobManagerProofs ---------------------------
(***************************************************************************)
(* Proofs about the job manager, for every number of jobs, assignment of   *)
(* hosts, quotas and page size: the inductive invariant and the safety     *)
(* properties it implies.                                                  *)
(***************************************************************************)
EXTENDS JobManager, FiniteSetTheorems, TLAPS

\* Sets of jobs are finite.
LEMMA JobSets ==
  ASSUME NEW S \in SUBSET Jobs
  PROVE  /\ IsFiniteSet(S)
         /\ Cardinality(S) \in Nat
         /\ Cardinality(S) = 0 <=> S = {}
<1>1. IsFiniteSet(Jobs)
  BY QuotaAssumption, FS_Interval DEF Jobs
<1>2. IsFiniteSet(S)
  BY Zenon, <1>1, FS_Subset
<1> QED
  BY Zenon, <1>2, FS_CardinalityType, FS_EmptySet

\* How the cardinality of a set of jobs follows the sets joined to it.
LEMMA JoinDisjoint ==
  ASSUME NEW S \in SUBSET Jobs, NEW T \in SUBSET Jobs, S \cap T = {}
  PROVE  Cardinality(S \cup T) = Cardinality(S) + Cardinality(T)
<1>1. IsFiniteSet(S) /\ IsFiniteSet(T) /\ Cardinality(S) \in Nat /\ Cardinality(T) \in Nat
  BY Zenon, JobSets
<1>2. Cardinality(S \cup T) = Cardinality(S) + Cardinality(T) - Cardinality(S \cap T)
  BY Zenon, <1>1, FS_Union
<1>3. Cardinality(S \cap T) = 0
  BY Zenon, FS_EmptySet
<1> QED
  BY <1>1, <1>2, <1>3

\* The same for one job that leaves a set.
LEMMA LeaveOne ==
  ASSUME NEW S \in SUBSET Jobs, NEW j \in S
  PROVE  Cardinality(S \ {j}) = Cardinality(S) - 1
<1>1. IsFiniteSet(S)
  BY Zenon, JobSets
<1> QED
  BY Zenon, <1>1, FS_RemoveElement

\* A single job counts once.
LEMMA One ==
  ASSUME NEW j \in Jobs
  PROVE  Cardinality({j}) = 1
BY Zenon, FS_Singleton

-----------------------------------------------------------------------------
(* Quotas. *)

\* Registering jobs that are not registered yet keeps the counters exact.
LEMMA RegisterExact ==
  ASSUME TypeOK, QuotasExact, NEW S \in SUBSET Jobs, S \cap active = {}, Register(S)
  PROVE  /\ QuotasExact'
         /\ active' \in SUBSET Jobs
         /\ activeTotal' \in Nat
         /\ activeHosts' \in [Hosts -> Nat]
<1>1. Cardinality(active \cup S) = Cardinality(active) + Cardinality(S)
  BY Zenon, JoinDisjoint DEF TypeOK
<1>2. ASSUME NEW h \in Hosts
      PROVE  /\ Cardinality(OnHost(active \cup S, h)) =
                  Cardinality(OnHost(active, h)) + Cardinality(OnHost(S, h))
             /\ Cardinality(OnHost(S, h)) \in Nat
  <2>1. /\ OnHost(active, h) \in SUBSET Jobs
        /\ OnHost(S, h) \in SUBSET Jobs
        /\ OnHost(active, h) \cap OnHost(S, h) = {}
        /\ OnHost(active \cup S, h) = OnHost(active, h) \cup OnHost(S, h)
    BY Zenon DEF OnHost, TypeOK
  <2> QED
    BY Zenon, <2>1, JoinDisjoint, JobSets
<1>3. Cardinality(S) \in Nat
  BY Zenon, JobSets
<1>4. active' \in SUBSET Jobs /\ activeTotal' \in Nat /\ activeHosts' \in [Hosts -> Nat]
  BY <1>2, <1>3 DEF Register, TypeOK
<1>5. activeTotal' = Cardinality(active')
  BY Zenon, <1>1 DEF Register, QuotasExact
<1>6. ASSUME NEW h \in Hosts
      PROVE  activeHosts'[h] = Cardinality(OnHost(active', h))
  BY Zenon, <1>2 DEF Register, QuotasExact
<1> QED
  BY Zenon, <1>4, <1>5, <1>6 DEF QuotasExact, OnHost

\* Unregistering a registered job keeps them exact, and not negative.
LEMMA UnregisterExact ==
  ASSUME TypeOK, QuotasExact, NEW j \in active, Unregister(j)
  PROVE  /\ QuotasExact'
         /\ active' \in SUBSET Jobs
         /\ activeTotal' \in Nat
         /\ activeHosts' \in [Hosts -> Nat]
<1>1. j \in Jobs /\ HostOf[j] \in Hosts
  BY Zenon, QuotaAssumption DEF TypeOK
<1>2. /\ Cardinality(active \ {j}) = Cardinality(active) - 1
      /\ Cardinality(active \ {j}) \in Nat
  BY Zenon, LeaveOne, JobSets DEF TypeOK
<1>3. ASSUME NEW h \in Hosts
      PROVE  /\ activeHosts'[h] = Cardinality(OnHost(active \ {j}, h))
             /\ activeHosts'[h] \in Nat
  <2>1. OnHost(active, h) \in SUBSET Jobs /\ OnHost(active \ {j}, h) \in SUBSET Jobs
    BY Zenon DEF OnHost, TypeOK
  <2>2. CASE h = HostOf[j]
    <3>1. j \in OnHost(active, h) /\ OnHost(active \ {j}, h) = OnHost(active, h) \ {j}
      BY Zenon, <2>2 DEF OnHost
    <3>2. Cardinality(OnHost(active \ {j}, h)) = Cardinality(OnHost(active, h)) - 1
      BY Zenon, <2>1, <3>1, LeaveOne
    <3>3. Cardinality(OnHost(active \ {j}, h)) \in Nat
      BY Zenon, <2>1, JobSets
    <3> QED
      BY Zenon, <1>1, <2>2, <3>2, <3>3 DEF Unregister, QuotasExact, TypeOK
  <2>3. CASE h # HostOf[j]
    <3>1. OnHost(active \ {j}, h) = OnHost(active, h)
      BY Zenon, <2>3 DEF OnHost
    <3> QED
      BY Zenon, <1>1, <2>3, <3>1 DEF Unregister, QuotasExact, TypeOK
  <2> QED
    BY Zenon, <2>2, <2>3
<1>4. active' \in SUBSET Jobs /\ activeTotal' \in Nat /\ activeTotal' = Cardinality(active')
  BY Zenon, <1>2 DEF Unregister, QuotasExact, TypeOK
<1>5. activeHosts' \in [Hosts -> Nat]
  BY Zenon, <1>3 DEF Unregister, TypeOK
<1>6. ASSUME NEW h \in Hosts
      PROVE  activeHosts'[h] = Cardinality(OnHost(active', h))
  BY Zenon, <1>3 DEF Unregister
<1> QED
  BY Zenon, <1>4, <1>5, <1>6 DEF QuotasExact, OnHost

\* Steps that leave the counters alone keep them exact.
LEMMA SameExact ==
  ASSUME QuotasExact, UNCHANGED quotaVars
  PROVE  QuotasExact'
BY Zenon DEF QuotasExact, quotaVars, OnHost

-----------------------------------------------------------------------------
(* The inductive invariant. *)

InTask == {"creating", "running", "unregistering"}

\* How a step of one task changes who is registered and who is counted.
LEMMA TaskStep ==
  ASSUME TypeOK, NEW j \in Jobs, NEW t \in Tasks, task' = [task EXCEPT ![j] = t]
  PROVE  /\ task' \in [Jobs -> Tasks]
         /\ task'[j] = t
         /\ \A i \in Jobs \ {j} : task'[i] = task[i]
         /\ Working' = IF t = "none" THEN Working \ {j} ELSE Working \cup {j}
         /\ Registered' = IF t \in InTask THEN Registered \cup {j} ELSE Registered \ {j}
<1>1. /\ task' \in [Jobs -> Tasks]
      /\ task'[j] = t
      /\ \A i \in Jobs \ {j} : task'[i] = task[i]
  BY Zenon DEF TypeOK
<1>2. Working' = IF t = "none" THEN Working \ {j} ELSE Working \cup {j}
  BY Zenon, <1>1 DEF Working
<1>3. Registered' = IF t \in InTask THEN Registered \cup {j} ELSE Registered \ {j}
  BY Zenon, <1>1 DEF Registered, InTask
<1> QED
  BY Zenon, <1>1, <1>2, <1>3

\* The initial state, before the first start of the process.
LEMMA InitIInv == Init => IInv
<1> SUFFICES ASSUME Init PROVE IInv
  BY Zenon
<1> USE DEF Init
<1>1. TypeOK
  <2>1. 0 \in 0 .. N
    BY QuotaAssumption
  <2>2. task \in [Jobs -> Tasks]
    BY Zenon DEF Tasks
  <2>3. activeHosts \in [Hosts -> Nat]
    BY Zenon
  <2> QED
    BY Zenon, <2>1, <2>2, <2>3 DEF TypeOK
<1>2. Working = {} /\ Registered = {}
  BY Zenon DEF Working, Registered
<1>3. Cardinality({}) = 0
  BY Zenon, FS_EmptySet
<1>4. QuotasExact
  <2>1. \A h \in Hosts : OnHost(active, h) = {}
    BY Zenon DEF OnHost
  <2> QED
    BY Zenon, <1>3, <2>1 DEF QuotasExact
<1>5. wg = Cardinality(Working) + (IF cleaning THEN 1 ELSE 0)
  BY <1>2, <1>3
<1> QED
  BY Zenon, <1>1, <1>2, <1>4, <1>5 DEF IInv, LifeConsistent, RecoveryConsistent, UnfinishedSupervised

\* Create registers its runtime and adds itself to the WaitGroup.
LEMMA CreateIInv == ASSUME IInv, NEW j \in Jobs, Create(j) PROVE IInv'
<1> USE DEF IInv
<1>1. /\ task' \in [Jobs -> Tasks]
      /\ task'[j] = "creating"
      /\ \A i \in Jobs \ {j} : task'[i] = task[i]
      /\ Working' = Working \cup {j}
      /\ Registered' = Registered \cup {j}
  BY Zenon, TaskStep DEF Create, Tasks, InTask
<1>2. j \notin active /\ j \notin Working /\ Working \in SUBSET Jobs
  BY Zenon DEF Create, Working, Registered
<1>3. /\ QuotasExact'
      /\ active' \in SUBSET Jobs
      /\ activeTotal' \in Nat
      /\ activeHosts' \in [Hosts -> Nat]
  BY Zenon, <1>2, RegisterExact DEF Create
<1>4. wg' = Cardinality(Working') + (IF cleaning' THEN 1 ELSE 0)
  <2>1. Cardinality(Working') = Cardinality(Working) + 1
    <3>1. {j} \in SUBSET Jobs /\ Working \cap {j} = {}
      BY Zenon, <1>2
    <3> QED
      BY Zenon, <1>1, <1>2, <3>1, JoinDisjoint, One
  <2>2. Cardinality(Working) \in Nat
    BY Zenon, <1>2, JobSets
  <2> QED
    BY <2>1, <2>2 DEF Create, closeVars
<1>5. TypeOK'
  BY <1>1, <1>3 DEF TypeOK, Create, closeVars, storeVars, processVars
<1>6. active' = Registered'
  BY Zenon, <1>1 DEF Create, Register
<1>7. LifeConsistent' /\ RecoveryConsistent' /\ UnfinishedSupervised'
  <2>1. ~closed'
    BY Zenon DEF Create, closeVars, LifeConsistent
  <2> QED
    BY Zenon, <1>1, <2>1 DEF Create, closeVars, storeVars, processVars, LifeConsistent,
                      RecoveryConsistent, UnfinishedSupervised
<1>8. \A i \in Jobs : task'[i] = "running" => rows'[i] = "unfinished"
  BY Zenon, <1>1 DEF Create, storeVars
<1> QED
  BY Zenon, <1>3, <1>4, <1>5, <1>6, <1>7, <1>8

\* A task that goes on to another point, and stays registered.
LEMMA StaysRegistered ==
  ASSUME IInv, NEW j \in Jobs, NEW t \in InTask, task[j] \in InTask,
         task' = [task EXCEPT ![j] = t],
         UNCHANGED <<canceled, wg, quotaVars, processVars, closeVars>>
  PROVE  /\ QuotasExact'
         /\ active' = Registered'
         /\ Working' = Working
         /\ wg' = Cardinality(Working') + (IF cleaning' THEN 1 ELSE 0)
         /\ task' \in [Jobs -> Tasks]
         /\ task'[j] = t
         /\ \A i \in Jobs \ {j} : task'[i] = task[i]
<1> USE DEF IInv
<1>1. /\ task' \in [Jobs -> Tasks]
      /\ task'[j] = t
      /\ \A i \in Jobs \ {j} : task'[i] = task[i]
      /\ Working' = Working \cup {j}
      /\ Registered' = Registered \cup {j}
  BY Zenon, TaskStep DEF Tasks, InTask
<1>2. j \in Working /\ j \in Registered
  BY Zenon DEF Working, Registered, InTask
<1>3. Working' = Working /\ Registered' = Registered
  BY Zenon, <1>1, <1>2
<1> QED
  BY Zenon, <1>1, <1>3, SameExact DEF quotaVars, closeVars

\* The insert succeeds: the row and its runtime appear together.
LEMMA InsertedIInv == ASSUME IInv, NEW j \in Jobs, Inserted(j) PROVE IInv'
<1>1. /\ QuotasExact' /\ active' = Registered' /\ Working' = Working
      /\ wg' = Cardinality(Working') + (IF cleaning' THEN 1 ELSE 0)
      /\ task' \in [Jobs -> Tasks] /\ task'[j] = "running"
      /\ \A i \in Jobs \ {j} : task'[i] = task[i]
  BY Zenon, StaysRegistered DEF Inserted, InTask
<1>2. rows' \in [Jobs -> {"none", "unfinished", "terminal"}] /\ rows'[j] = "unfinished"
      /\ \A i \in Jobs \ {j} : rows'[i] = rows[i]
  BY Zenon DEF Inserted, IInv, TypeOK
<1>3. TypeOK'
  BY Zenon, <1>1, <1>2 DEF Inserted, IInv, TypeOK, quotaVars, processVars, closeVars
<1>4. \A i \in Jobs : task'[i] = "running" => rows'[i] = "unfinished"
  BY Zenon, <1>1, <1>2 DEF IInv
<1>5. process = "ready"
  BY Zenon DEF Inserted, IInv, LifeConsistent
<1>6. LifeConsistent' /\ RecoveryConsistent' /\ UnfinishedSupervised'
  BY Zenon, <1>1, <1>2, <1>5 DEF Inserted, IInv, LifeConsistent, RecoveryConsistent,
                          UnfinishedSupervised, processVars, closeVars
<1> QED
  BY Zenon, <1>1, <1>3, <1>4, <1>6 DEF IInv

\* The insert reports an error: if there is a row all the same, it is an orphan.
LEMMA InsertFailsIInv == ASSUME IInv, NEW j \in Jobs, InsertFails(j) PROVE IInv'
<1>1. /\ QuotasExact' /\ active' = Registered' /\ Working' = Working
      /\ wg' = Cardinality(Working') + (IF cleaning' THEN 1 ELSE 0)
      /\ task' \in [Jobs -> Tasks] /\ task'[j] = "unregistering"
      /\ \A i \in Jobs \ {j} : task'[i] = task[i]
  BY Zenon, StaysRegistered DEF InsertFails, InTask
<1>2. /\ rows' \in [Jobs -> {"none", "unfinished", "terminal"}]
      /\ \A i \in Jobs \ {j} : rows'[i] = rows[i]
      /\ orphans' \in SUBSET Jobs
      /\ orphans \subseteq orphans'
      /\ rows'[j] = "unfinished" => j \in orphans' \/ rows[j] = "unfinished"
  BY Zenon DEF InsertFails, IInv, TypeOK, storeVars
<1>3. TypeOK'
  BY Zenon, <1>1, <1>2 DEF InsertFails, IInv, TypeOK, quotaVars, processVars, closeVars
<1>4. \A i \in Jobs : task'[i] = "running" => rows'[i] = "unfinished"
  BY Zenon, <1>1, <1>2 DEF IInv
<1>5. process = "ready" /\ process' = "ready"
  BY Zenon DEF InsertFails, IInv, LifeConsistent, processVars
<1>6. LifeConsistent'
  BY Zenon, <1>1, <1>5 DEF InsertFails, IInv, LifeConsistent, closeVars
<1>7. UnfinishedSupervised'
  BY Zenon, <1>1, <1>2, <1>5 DEF InsertFails, IInv, UnfinishedSupervised, closeVars
<1>8. RecoveryConsistent'
  BY Zenon, <1>5 DEF RecoveryConsistent
<1> QED
  BY Zenon, <1>1, <1>3, <1>4, <1>6, <1>7, <1>8 DEF IInv

\* A job ends: its row is no longer unfinished.
LEMMA JobEndsIInv == ASSUME IInv, NEW j \in Jobs, JobEnds(j) PROVE IInv'
<1>1. /\ QuotasExact' /\ active' = Registered' /\ Working' = Working
      /\ wg' = Cardinality(Working') + (IF cleaning' THEN 1 ELSE 0)
      /\ task' \in [Jobs -> Tasks] /\ task'[j] = "unregistering"
      /\ \A i \in Jobs \ {j} : task'[i] = task[i]
  BY Zenon, StaysRegistered DEF JobEnds, InTask
<1>2. rows' \in [Jobs -> {"none", "unfinished", "terminal"}] /\ rows'[j] = "terminal"
      /\ \A i \in Jobs \ {j} : rows'[i] = rows[i]
  BY Zenon DEF JobEnds, IInv, TypeOK
<1>3. TypeOK'
  BY Zenon, <1>1, <1>2 DEF JobEnds, IInv, TypeOK, quotaVars, processVars, closeVars
<1>4. \A i \in Jobs : task'[i] = "running" => rows'[i] = "unfinished"
  BY Zenon, <1>1, <1>2 DEF IInv
<1>5. LifeConsistent' /\ UnfinishedSupervised'
  BY Zenon, <1>1, <1>2 DEF JobEnds, IInv, LifeConsistent, UnfinishedSupervised, processVars, closeVars
<1>6. RecoveryConsistent'
  BY Zenon, <1>1, <1>2 DEF JobEnds, IInv, RecoveryConsistent, processVars
<1> QED
  BY Zenon, <1>1, <1>3, <1>4, <1>5, <1>6 DEF IInv

\* A runtime is canceled only by Shutdown, which has closed admission.
LEMMA RuntimeCanceledIInv == ASSUME IInv, NEW j \in Jobs, RuntimeCanceled(j) PROVE IInv'
<1>1. /\ QuotasExact' /\ active' = Registered' /\ Working' = Working
      /\ wg' = Cardinality(Working') + (IF cleaning' THEN 1 ELSE 0)
      /\ task' \in [Jobs -> Tasks] /\ task'[j] = "unregistering"
      /\ \A i \in Jobs \ {j} : task'[i] = task[i]
  BY Zenon, StaysRegistered DEF RuntimeCanceled, InTask
<1>2. TypeOK'
  BY Zenon, <1>1 DEF RuntimeCanceled, IInv, TypeOK, storeVars, quotaVars, processVars, closeVars
<1>3. \A i \in Jobs : task'[i] = "running" => rows'[i] = "unfinished"
  BY Zenon, <1>1 DEF IInv, RuntimeCanceled, storeVars
<1>4. process' = "ready" /\ ~accepting'
  BY Zenon DEF RuntimeCanceled, IInv, LifeConsistent, processVars, closeVars
<1>5. LifeConsistent'
  BY Zenon, <1>1 DEF RuntimeCanceled, IInv, LifeConsistent, storeVars, processVars, closeVars
<1>6. UnfinishedSupervised' /\ RecoveryConsistent'
  BY Zenon, <1>4 DEF UnfinishedSupervised, RecoveryConsistent
<1> QED
  BY Zenon, <1>1, <1>2, <1>3, <1>5, <1>6 DEF IInv

\* unregisterLocked gives back the quotas; the task is still counted by wg.
LEMMA UnregisterIInv == ASSUME IInv, NEW j \in Jobs, Unregister(j) PROVE IInv'
<1>1. /\ task' \in [Jobs -> Tasks]
      /\ task'[j] = "done"
      /\ \A i \in Jobs \ {j} : task'[i] = task[i]
      /\ Working' = Working \cup {j}
      /\ Registered' = Registered \ {j}
  BY Zenon, TaskStep DEF Unregister, Tasks, InTask, IInv
<1>2. j \in active /\ j \in Working
  BY Zenon DEF Unregister, IInv, Registered, Working
<1>3. /\ QuotasExact'
      /\ active' \in SUBSET Jobs
      /\ activeTotal' \in Nat
      /\ activeHosts' \in [Hosts -> Nat]
  BY Zenon, <1>2, UnregisterExact DEF IInv
<1>4. TypeOK'
  BY Zenon, <1>1, <1>3 DEF Unregister, IInv, TypeOK, storeVars, processVars, closeVars
<1>5. Working' = Working /\ active' = Registered'
  BY Zenon, <1>1, <1>2 DEF Unregister, IInv
<1>6. wg' = Cardinality(Working') + (IF cleaning' THEN 1 ELSE 0)
  BY Zenon, <1>5 DEF Unregister, IInv, closeVars
<1>7. \A i \in Jobs : task'[i] = "running" => rows'[i] = "unfinished"
  BY Zenon, <1>1 DEF IInv, Unregister, storeVars
<1>8. LifeConsistent' /\ RecoveryConsistent' /\ UnfinishedSupervised'
  BY Zenon, <1>1, <1>5 DEF Unregister, IInv, LifeConsistent, RecoveryConsistent,
                    UnfinishedSupervised, storeVars, processVars, closeVars
<1> QED
  BY Zenon, <1>3, <1>4, <1>5, <1>6, <1>7, <1>8 DEF IInv

\* wg.Done removes exactly the task that was counted.
LEMMA DoneIInv == ASSUME IInv, NEW j \in Jobs, Done(j) PROVE IInv'
<1>1. /\ task' \in [Jobs -> Tasks]
      /\ task'[j] = "none"
      /\ \A i \in Jobs \ {j} : task'[i] = task[i]
      /\ Working' = Working \ {j}
      /\ Registered' = Registered \ {j}
  BY Zenon, TaskStep DEF Done, Tasks, InTask, IInv
<1>2. j \notin Registered /\ j \in Working /\ Working \in SUBSET Jobs
  BY Zenon DEF Done, Registered, Working
<1>3. /\ Cardinality(Working') = Cardinality(Working) - 1
      /\ Cardinality(Working) \in Nat
      /\ Cardinality(Working') \in Nat
  <2>1. Working' \in SUBSET Jobs
    BY Zenon, <1>1, <1>2
  <2> QED
    BY Zenon, <1>1, <1>2, <2>1, LeaveOne, JobSets
<1>4. wg' = Cardinality(Working') + (IF cleaning' THEN 1 ELSE 0) /\ wg' \in Nat
  BY <1>3 DEF Done, IInv, closeVars
<1>5. canceled' \in [Jobs -> BOOLEAN] /\ \A i \in Jobs : canceled'[i] => canceled[i]
  BY Zenon DEF Done, IInv, TypeOK
<1>6. TypeOK'
  BY Zenon, <1>1, <1>4, <1>5 DEF Done, IInv, TypeOK, storeVars, quotaVars, processVars, closeVars
<1>7. QuotasExact' /\ active' = Registered'
  BY Zenon, <1>1, <1>2, SameExact DEF Done, IInv, quotaVars
<1>8. \A i \in Jobs : task'[i] = "running" => rows'[i] = "unfinished"
  BY Zenon, <1>1 DEF IInv, Done, storeVars
<1>9. ~closed
  BY <1>3 DEF Done, IInv, LifeConsistent, TypeOK
<1>10. LifeConsistent'
  BY Zenon, <1>1, <1>2, <1>5, <1>9 DEF Done, IInv, LifeConsistent, storeVars, processVars, closeVars
<1>11. RecoveryConsistent' /\ UnfinishedSupervised'
  BY Zenon, <1>1 DEF Done, IInv, RecoveryConsistent, UnfinishedSupervised, storeVars, processVars,
              closeVars
<1> QED
  BY Zenon, <1>4, <1>6, <1>7, <1>8, <1>10, <1>11 DEF IInv

\* Steps that leave the tasks alone keep who is registered and who is counted.
LEMMA SameTasks ==
  ASSUME IInv, UNCHANGED <<task, quotaVars>>
  PROVE  /\ QuotasExact'
         /\ active' = Registered'
         /\ Working' = Working
         /\ Cardinality(Working') = Cardinality(Working)
         /\ Cardinality(Working) \in Nat
<1>1. Working' = Working /\ Registered' = Registered /\ Working \in SUBSET Jobs
  BY Zenon DEF Working, Registered
<1> QED
  BY Zenon, <1>1, SameExact, JobSets DEF IInv, quotaVars

\* Cleanup deletes terminal rows only, and those have no runtime.
LEMMA CleanupTerminalIInv == ASSUME IInv, CleanupTerminal PROVE IInv'
<1>1. UNCHANGED <<task, wg, canceled, quotaVars, processVars, closeVars, orphans>>
  BY Zenon DEF CleanupTerminal, taskVars
<1>2. /\ QuotasExact' /\ active' = Registered' /\ Working' = Working
      /\ wg' = Cardinality(Working') + (IF cleaning' THEN 1 ELSE 0)
  BY Zenon, <1>1, SameTasks DEF IInv, closeVars
<1>3. /\ rows' \in [Jobs -> {"none", "unfinished", "terminal"}]
      /\ \A j \in Jobs : rows'[j] = "unfinished" <=> rows[j] = "unfinished"
  BY Zenon DEF CleanupTerminal, IInv, TypeOK
<1>4. TypeOK'
  BY Zenon, <1>1, <1>3 DEF IInv, TypeOK, quotaVars, processVars, closeVars
<1>5. LifeConsistent' /\ RecoveryConsistent' /\ UnfinishedSupervised'
  BY Zenon, <1>1, <1>2, <1>3 DEF IInv, LifeConsistent, RecoveryConsistent, UnfinishedSupervised,
                          processVars, closeVars
<1> QED
  BY Zenon, <1>1, <1>2, <1>3, <1>4, <1>5 DEF IInv

\* Shutdown closes admission in the same critical section in which it cancels.
LEMMA ShutdownIInv == ASSUME IInv, Shutdown PROVE IInv'
<1>1. /\ QuotasExact' /\ active' = Registered' /\ Working' = Working
      /\ wg' = Cardinality(Working') + (IF cleaning' THEN 1 ELSE 0)
  BY Zenon, SameTasks DEF IInv, Shutdown
<1>2. canceled' \in [Jobs -> BOOLEAN]
  BY Zenon DEF Shutdown, IInv, TypeOK
<1>3. TypeOK'
  BY Zenon, <1>2 DEF Shutdown, IInv, TypeOK, storeVars, quotaVars, processVars
<1>4. ~accepting' /\ process' = "ready"
  BY Zenon DEF Shutdown, processVars
<1>5. LifeConsistent'
  BY Zenon, <1>1 DEF Shutdown, IInv, LifeConsistent, storeVars, processVars
<1>6. RecoveryConsistent' /\ UnfinishedSupervised'
  BY Zenon, <1>4 DEF RecoveryConsistent, UnfinishedSupervised
<1> QED
  BY Zenon, <1>1, <1>3, <1>5, <1>6 DEF IInv, Shutdown, storeVars

\* The cleanup goroutine calls wg.Done once.
LEMMA CleanupExitsIInv == ASSUME IInv, CleanupExits PROVE IInv'
<1>1. /\ QuotasExact' /\ active' = Registered' /\ Working' = Working
      /\ Cardinality(Working') = Cardinality(Working) /\ Cardinality(Working) \in Nat
  BY Zenon, SameTasks DEF CleanupExits
<1>2. wg' = Cardinality(Working') + (IF cleaning' THEN 1 ELSE 0) /\ wg' \in Nat /\ wg # 0
  BY <1>1 DEF CleanupExits, IInv
<1>3. TypeOK'
  BY Zenon, <1>2 DEF CleanupExits, IInv, TypeOK, storeVars, quotaVars, processVars
<1>4. LifeConsistent'
  BY Zenon, <1>1, <1>2 DEF CleanupExits, IInv, LifeConsistent, storeVars, processVars
<1>5. RecoveryConsistent' /\ UnfinishedSupervised'
  BY Zenon DEF CleanupExits, IInv, RecoveryConsistent, UnfinishedSupervised, storeVars, processVars
<1> QED
  BY Zenon, <1>1, <1>2, <1>3, <1>4, <1>5 DEF IInv, CleanupExits, storeVars

\* The store is closed when nothing is counted any more.
LEMMA CloseStoreIInv == ASSUME IInv, CloseStore PROVE IInv'
<1>1. /\ QuotasExact' /\ active' = Registered' /\ Working' = Working
      /\ wg' = Cardinality(Working') + (IF cleaning' THEN 1 ELSE 0)
  BY Zenon, SameTasks DEF IInv, CloseStore, taskVars
<1>2. TypeOK'
  BY Zenon DEF CloseStore, IInv, TypeOK, storeVars, quotaVars, processVars, taskVars
<1>3. process = "ready" /\ ~accepting
  BY Zenon DEF CloseStore, IInv, LifeConsistent
<1>4. LifeConsistent'
  BY Zenon, <1>1, <1>3 DEF CloseStore, IInv, LifeConsistent, storeVars, processVars, taskVars
<1>5. RecoveryConsistent' /\ UnfinishedSupervised'
  BY Zenon, <1>3 DEF CloseStore, RecoveryConsistent, UnfinishedSupervised, processVars
<1> QED
  BY Zenon, <1>1, <1>2, <1>4, <1>5 DEF IInv, CloseStore, storeVars, taskVars

\* A process that ends leaves nothing but the rows.
LEMMA ExitIInv == ASSUME IInv, Exit PROVE IInv'
<1> USE DEF Exit, NewProcess
<1>1. TypeOK'
  <2>1. 0 \in 0 .. N
    BY QuotaAssumption
  <2>2. task' \in [Jobs -> Tasks] /\ canceled' \in [Jobs -> BOOLEAN]
    BY Zenon DEF Tasks
  <2>3. activeHosts' \in [Hosts -> Nat]
    BY Zenon
  <2>4. rows' \in [Jobs -> {"none", "unfinished", "terminal"}]
    BY Zenon DEF IInv, TypeOK
  <2> QED
    BY Zenon, <2>1, <2>2, <2>3, <2>4 DEF TypeOK
<1>2. Working' = {} /\ Registered' = {}
  BY Zenon DEF Working, Registered
<1>3. Cardinality({}) = 0
  BY Zenon, FS_EmptySet
<1>4. QuotasExact'
  <2>1. \A h \in Hosts : OnHost(active', h) = {}
    BY Zenon DEF OnHost
  <2> QED
    BY Zenon, <1>3, <2>1 DEF QuotasExact, OnHost
<1>5. wg' = Cardinality(Working') + (IF cleaning' THEN 1 ELSE 0)
  BY <1>2, <1>3
<1> QED
  BY Zenon, <1>1, <1>2, <1>4, <1>5 DEF IInv, LifeConsistent, RecoveryConsistent, UnfinishedSupervised

\* A process that starts has recovered nothing yet.
LEMMA BootIInv == ASSUME IInv, Boot PROVE IInv'
<1>1. /\ QuotasExact' /\ active' = Registered' /\ Working' = Working
      /\ wg' = Cardinality(Working') + (IF cleaning' THEN 1 ELSE 0)
  BY Zenon, SameTasks DEF IInv, Boot, taskVars
<1>2. TypeOK'
  BY Zenon DEF Boot, IInv, TypeOK, storeVars, quotaVars, taskVars
<1>3. LifeConsistent'
  BY Zenon, <1>1 DEF Boot, IInv, LifeConsistent, storeVars, taskVars
<1>4. UnfinishedSupervised'
  BY Zenon DEF Boot, UnfinishedSupervised
<1>5. \A j \in Jobs : task'[j] = "none"
  BY Zenon DEF Boot, IInv, LifeConsistent, Working, taskVars
<1>6. RecoveryConsistent'
  <2>1. lastReadID' = 0 /\ \A j \in Jobs : ~(j <= 0)
    BY QuotaAssumption DEF Boot, IInv, LifeConsistent, Jobs
  <2> QED
    BY Zenon, <1>5, <2>1 DEF RecoveryConsistent
<1> QED
  BY Zenon, <1>1, <1>2, <1>3, <1>4, <1>6 DEF IInv, Boot, storeVars, taskVars

\* The rows of a page have no runtime yet, and afterwards all have one.
LEMMA RecoverPageIInv == ASSUME IInv, RecoverPage PROVE IInv'
<1> USE DEF IInv
<1>1. PICK last \in Unread :
        /\ lastReadID' = last
        /\ Register(Page(last))
        /\ task' = [j \in Jobs |-> IF j \in Page(last) THEN "running" ELSE task[j]]
        /\ wg' = wg + Cardinality(Page(last))
  BY Zenon DEF RecoverPage
<1> DEFINE P == Page(last)
<1>2. process = "recovering" /\ UNCHANGED <<process, canceled, storeVars, closeVars>>
  BY Zenon DEF RecoverPage
<1>3. /\ P \in SUBSET Jobs
      /\ last \in Jobs /\ last \in 0 .. N /\ last > lastReadID
      /\ \A j \in P : rows[j] = "unfinished" /\ task[j] = "none"
  <2>1. last \in Jobs /\ last > lastReadID
    BY Zenon DEF Unread
  <2>2. last \in 0 .. N
    BY <2>1, QuotaAssumption DEF Jobs
  <2>3. \A j \in P : j \in Jobs /\ rows[j] = "unfinished" /\ j > lastReadID
    BY Zenon DEF Page, Unread
  <2>4. \A j \in P : task[j] = "none"
    BY <1>2, <2>3 DEF RecoveryConsistent, Jobs, TypeOK
  <2> QED
    BY Zenon, <2>1, <2>2, <2>3, <2>4
<1>4. /\ task' \in [Jobs -> Tasks]
      /\ \A j \in P : task'[j] = "running"
      /\ \A j \in Jobs \ P : task'[j] = task[j]
  BY Zenon, <1>1, <1>3 DEF TypeOK, Tasks
<1>5. /\ Working' = Working \cup P /\ Working \cap P = {} /\ Working \in SUBSET Jobs
      /\ Registered' = Registered \cup P /\ P \cap active = {}
  BY Zenon, <1>3, <1>4 DEF Working, Registered
<1> HIDE DEF P
<1>6. /\ QuotasExact'
      /\ active' \in SUBSET Jobs
      /\ activeTotal' \in Nat
      /\ activeHosts' \in [Hosts -> Nat]
  BY Zenon, <1>1, <1>3, <1>5, RegisterExact DEF P
<1>7. wg' = Cardinality(Working') + (IF cleaning' THEN 1 ELSE 0) /\ wg' \in Nat
  <2>1. Cardinality(Working') = Cardinality(Working) + Cardinality(P)
    BY Zenon, <1>3, <1>5, JoinDisjoint
  <2>2. Cardinality(Working) \in Nat /\ Cardinality(P) \in Nat
    BY Zenon, <1>3, <1>5, JobSets
  <2>3. wg' = wg + Cardinality(P) /\ cleaning' = cleaning
    BY Zenon, <1>1, <1>2 DEF P, closeVars
  <2> QED
    BY <2>1, <2>2, <2>3 DEF TypeOK
<1>8. TypeOK'
  BY Zenon, <1>1, <1>2, <1>3, <1>4, <1>6, <1>7 DEF TypeOK, storeVars, closeVars
<1>9. active' = Registered'
  BY Zenon, <1>1, <1>5 DEF Register, P
<1>10. \A j \in Jobs : task'[j] = "running" => rows'[j] = "unfinished"
  BY Zenon, <1>2, <1>3, <1>4 DEF storeVars
<1>11. RecoveryConsistent'
  <2>1. ASSUME NEW j \in Jobs, j <= last, rows[j] = "unfinished"
        PROVE  task'[j] = "running"
    <3>1. CASE j <= lastReadID
      BY Zenon, <1>2, <1>4, <2>1, <3>1 DEF RecoveryConsistent
    <3>2. CASE j > lastReadID
      BY Zenon, <1>4, <2>1, <3>2 DEF P, Page, Unread
    <3>3. j \in Int /\ lastReadID \in Int
      BY QuotaAssumption DEF Jobs, TypeOK
    <3> QED
      BY <3>1, <3>2, <3>3
  <2>2. ASSUME NEW j \in Jobs, ~(j <= last)
        PROVE  task'[j] = "none"
    <3>1. j \notin P
      BY Zenon, <2>2 DEF P, Page
    <3>2. ~(j <= lastReadID)
      BY <1>3, <2>2, QuotaAssumption DEF Jobs, TypeOK
    <3> QED
      BY Zenon, <1>2, <1>4, <3>1, <3>2 DEF RecoveryConsistent
  <2> QED
    BY Zenon, <1>1, <1>2, <2>1, <2>2 DEF RecoveryConsistent, storeVars
<1>12. LifeConsistent'
  <2>1. \A j \in Jobs : task'[j] = "creating" => process' = "ready"
    BY Zenon, <1>2, <1>4 DEF LifeConsistent
  <2> QED
    BY Zenon, <1>2, <2>1 DEF LifeConsistent, storeVars, closeVars
<1>13. UnfinishedSupervised'
  BY Zenon, <1>2 DEF UnfinishedSupervised
<1> QED
  BY Zenon, <1>6, <1>7, <1>8, <1>9, <1>10, <1>11, <1>12, <1>13

\* When the listing is exhausted every unfinished row has its runtime.
LEMMA RecoveredIInv == ASSUME IInv, Recovered PROVE IInv'
<1>1. /\ QuotasExact' /\ active' = Registered' /\ Working' = Working
      /\ Cardinality(Working') = Cardinality(Working) /\ Cardinality(Working) \in Nat
  BY Zenon, SameTasks DEF Recovered
<1>2. wg' = Cardinality(Working') + (IF cleaning' THEN 1 ELSE 0) /\ wg' \in Nat
  BY SMTT(30), <1>1 DEF Recovered, IInv, LifeConsistent
<1>3. TypeOK'
  BY Zenon, <1>2 DEF Recovered, IInv, TypeOK, storeVars, quotaVars
<1>4. LifeConsistent' /\ RecoveryConsistent'
  BY Zenon, <1>1 DEF Recovered, IInv, LifeConsistent, RecoveryConsistent, storeVars
<1>5. \A j \in Jobs : rows[j] = "unfinished" => j <= lastReadID
  <2>1. \A j \in Jobs : rows[j] = "unfinished" => ~(j > lastReadID)
    BY Zenon DEF Recovered, Unread
  <2>2. lastReadID \in Int /\ \A j \in Jobs : j \in Int
    BY QuotaAssumption DEF Jobs, IInv, TypeOK
  <2> QED
    BY <2>1, <2>2
<1>6. UnfinishedSupervised'
  BY Zenon, <1>5 DEF Recovered, IInv, RecoveryConsistent, UnfinishedSupervised, storeVars
<1> QED
  BY Zenon, <1>1, <1>2, <1>3, <1>4, <1>6 DEF IInv, Recovered, storeVars

\* A start that fails closes the store; its runtimes are still counted.
LEMMA RecoverFailsIInv == ASSUME IInv, RecoverFails PROVE IInv'
<1>1. /\ QuotasExact' /\ active' = Registered' /\ Working' = Working
      /\ wg' = Cardinality(Working') + (IF cleaning' THEN 1 ELSE 0)
  BY Zenon, SameTasks DEF IInv, RecoverFails, taskVars
<1>2. TypeOK'
  BY Zenon DEF RecoverFails, IInv, TypeOK, storeVars, quotaVars, taskVars
<1>3. LifeConsistent' /\ RecoveryConsistent' /\ UnfinishedSupervised'
  BY Zenon, <1>1 DEF RecoverFails, IInv, LifeConsistent, RecoveryConsistent, UnfinishedSupervised,
              storeVars, taskVars
<1> QED
  BY Zenon, <1>1, <1>2, <1>3 DEF IInv, RecoverFails, storeVars, taskVars

\* Every step of the manager, and a stuttering step, preserves the invariant.
LEMMA NextIInv == IInv /\ [Next]_vars => IInv'
<1> SUFFICES ASSUME IInv, [Next]_vars PROVE IInv'
  BY Zenon
<1>1. CASE \E j \in Jobs : Create(j) \/ Task(j)
  <2>1. PICK j \in Jobs : Create(j) \/ Task(j)
    BY Zenon, <1>1
  <2> QED
    BY Zenon, <2>1, CreateIInv, InsertedIInv, InsertFailsIInv, JobEndsIInv, RuntimeCanceledIInv,
       UnregisterIInv, DoneIInv DEF Task
<1>2. CASE CleanupTerminal
  BY Zenon, <1>2, CleanupTerminalIInv
<1>3. CASE Shutdown
  BY Zenon, <1>3, ShutdownIInv
<1>4. CASE CleanupExits
  BY Zenon, <1>4, CleanupExitsIInv
<1>5. CASE CloseStore
  BY Zenon, <1>5, CloseStoreIInv
<1>6. CASE Exit
  BY Zenon, <1>6, ExitIInv
<1>7. CASE Boot
  BY Zenon, <1>7, BootIInv
<1>8. CASE RecoverPage
  BY Zenon, <1>8, RecoverPageIInv
<1>9. CASE Recovered
  BY Zenon, <1>9, RecoveredIInv
<1>10. CASE RecoverFails
  BY Zenon, <1>10, RecoverFailsIInv
<1>11. CASE UNCHANGED vars
  <2>1. UNCHANGED <<task, wg, canceled, quotaVars, processVars, closeVars, storeVars>>
    BY Zenon, <1>11 DEF vars, taskVars
  <2>2. /\ QuotasExact' /\ active' = Registered' /\ Working' = Working
        /\ wg' = Cardinality(Working') + (IF cleaning' THEN 1 ELSE 0)
    BY Zenon, <2>1, SameTasks DEF IInv, closeVars
  <2>3. TypeOK'
    BY Zenon, <2>1 DEF IInv, TypeOK, storeVars, quotaVars, processVars, closeVars
  <2>4. LifeConsistent' /\ RecoveryConsistent' /\ UnfinishedSupervised'
    BY Zenon, <2>1, <2>2 DEF IInv, LifeConsistent, RecoveryConsistent, UnfinishedSupervised,
                      storeVars, processVars, closeVars
  <2> QED
    BY Zenon, <2>1, <2>2, <2>3, <2>4 DEF IInv, storeVars
<1> QED
  BY Zenon, <1>1, <1>2, <1>3, <1>4, <1>5, <1>6, <1>7, <1>8, <1>9, <1>10, <1>11 DEF Next

-----------------------------------------------------------------------------
(* The theorems. *)

\* The inductive invariant holds of every behaviour of the manager: the tasks
\* determine who is registered and who is counted by the WaitGroup.
THEOREM Invariance == Spec => []IInv
BY InitIInv, NextIInv, PTL DEF Spec

\* Type correctness: neither the quota counters nor the WaitGroup counter of
\* manager.go becomes negative.
THEOREM TypeCorrect == Spec => []TypeOK
<1>1. IInv => TypeOK
  BY Zenon DEF IInv
<1> QED
  BY <1>1, Invariance, PTL

\* activeTotal and activeHosts are the numbers of registered runtimes.
THEOREM QuotaCounters == Spec => []QuotasExact
<1>1. IInv => QuotasExact
  BY Zenon DEF IInv
<1> QED
  BY <1>1, Invariance, PTL

\* A ready manager supervises every unfinished row it has not reported as not
\* created: recover skips none while its runtimes change the rows it lists.
THEOREM Supervision == Spec => []UnfinishedSupervised
<1>1. IInv => UnfinishedSupervised
  BY Zenon DEF IInv
<1> QED
  BY <1>1, Invariance, PTL

\* The store is open for Create, the runtimes and the cleanup of a manager that
\* started: closed implies that wg is zero, and wg counts them.
THEOREM StoreStaysOpen == Spec => []StoreOpenWhileUsed
<1>1. IInv => StoreOpenWhileUsed
  <2> SUFFICES ASSUME IInv, cleaning \/ (\E j \in Jobs : task[j] \in {"creating", "running"}),
                      process # "failed"
               PROVE  storeOpen
    BY Zenon DEF StoreOpenWhileUsed
  <2>1. Working \in SUBSET Jobs
    BY Zenon DEF Working
  <2>2. Cardinality(Working) \in Nat /\ (Cardinality(Working) = 0 <=> Working = {})
    BY Zenon, <2>1, JobSets
  <2>3. cleaning \/ Working # {}
    BY Zenon DEF Working
  <2>4. wg # 0
    BY <2>2, <2>3 DEF IInv
  <2>5. process \in {"recovering", "ready"}
    BY Zenon, <2>3 DEF IInv, TypeOK, LifeConsistent
  <2> QED
    BY Zenon, <2>4, <2>5 DEF IInv, LifeConsistent
<1> QED
  BY <1>1, Invariance, PTL

\* Once Shutdown has closed the store, no Create, runtime or cleanup is left,
\* and no quota is held.
THEOREM ShutdownLeavesNothing == Spec => []ShutdownComplete
<1>1. IInv => ShutdownComplete
  <2> SUFFICES ASSUME IInv, closed
               PROVE  active = {} /\ ~cleaning /\ \A j \in Jobs : task[j] = "none"
    BY Zenon DEF ShutdownComplete
  <2>1. Working \in SUBSET Jobs
    BY Zenon DEF Working
  <2>2. Cardinality(Working) \in Nat /\ (Cardinality(Working) = 0 <=> Working = {})
    BY Zenon, <2>1, JobSets
  <2>3. Working = {} /\ ~cleaning
    BY SMTT(30), <2>2 DEF IInv, LifeConsistent, TypeOK
  <2> QED
    BY Zenon, <2>3 DEF IInv, Working, Registered
<1> QED
  BY <1>1, Invariance, PTL

\* Create never takes the number of runtimes past a quota: it compares exact
\* counters and registers in the same critical section.
THEOREM QuotaLimits == Spec => QuotasKept
<1> DEFINE Kept ==
      process = "ready" /\ active' # active /\ active \subseteq active' =>
        /\ Cardinality(active') <= MaxTotalJobs
        /\ \A j \in active' \ active :
             Cardinality(OnHost(active', HostOf[j])) <= MaxJobsPerHost
<1>1. ASSUME IInv, IInv', [Next]_vars PROVE [Kept]_vars
  <2> SUFFICES ASSUME process = "ready", active' # active, active \subseteq active'
               PROVE  /\ Cardinality(active') <= MaxTotalJobs
                      /\ \A j \in active' \ active :
                           Cardinality(OnHost(active', HostOf[j])) <= MaxJobsPerHost
    BY Zenon
  <2>1. PICK j \in Jobs : Create(j)
    <3>1. ~UNCHANGED active
      BY Zenon
    <3>2. ~UNCHANGED quotaVars
      BY Zenon, <3>1 DEF quotaVars
    <3>3. \A j \in Jobs : ~Unregister(j)
      BY Zenon DEF Unregister
    <3>4. ~Exit
      BY Zenon, <1>1 DEF Exit, NewProcess
    <3> QED
      BY Zenon, <1>1, <3>2, <3>3, <3>4 DEF Next, Task, vars, Inserted, InsertFails, JobEnds,
           RuntimeCanceled, Done, CleanupTerminal, Shutdown, CleanupExits, CloseStore, Boot,
           RecoverPage, Recovered, RecoverFails
  <2>2. /\ activeTotal < MaxTotalJobs /\ activeHosts[HostOf[j]] < MaxJobsPerHost
        /\ Register({j})
        /\ HostOf[j] \in Hosts
    BY Zenon, <2>1, QuotaAssumption DEF Create, HasQuota
  <2>3. activeTotal' = activeTotal + 1 /\ activeTotal' = Cardinality(active')
    BY Zenon, <1>1, <2>2, One DEF Register, IInv, QuotasExact
  <2>4. activeHosts'[HostOf[j]] = activeHosts[HostOf[j]] + 1
    <3>1. OnHost({j}, HostOf[j]) = {j}
      BY Zenon DEF OnHost
    <3> QED
      BY Zenon, <2>2, <3>1, One DEF Register
  <2>5. activeHosts'[HostOf[j]] = Cardinality(OnHost(active', HostOf[j]))
    BY Zenon, <1>1, <2>2 DEF IInv, QuotasExact, OnHost
  <2>6. active' \ active \subseteq {j}
    BY Zenon, <2>2 DEF Register
  <2>7. activeTotal \in Nat /\ activeHosts[HostOf[j]] \in Nat
    BY Zenon, <1>1, <2>2 DEF IInv, TypeOK
  <2>8. Cardinality(active') <= MaxTotalJobs
    BY <2>2, <2>3, <2>7, QuotaAssumption
  <2>9. Cardinality(OnHost(active', HostOf[j])) <= MaxJobsPerHost
    BY SMTT(30), <2>2, <2>4, <2>5, <2>7, QuotaAssumption
  <2> QED
    BY Zenon, <2>6, <2>8, <2>9
<1> QED
  BY <1>1, Invariance, PTL DEF Spec, QuotasKept
=============================================================================
