-------------------------- MODULE OperationLifecycle --------------------------
(***************************************************************************)
(* What the node agent promises about its operations, as a caller of the   *)
(* Node API sees them: the status machine of internal/nodeagent/operation  *)
(* (types.go), the limit on unfinished operations, and the closing of      *)
(* admission at shutdown.  NodeOperation implements this specification;    *)
(* the job controller is composed with it.                                 *)
(***************************************************************************)
EXTENDS Naturals, FiniteSets

CONSTANTS
  RequestIDs,
  MaxConcurrent

VARIABLES
  phase,    \* visible status of each request ID, "absent" if not retained
  outcome,  \* terminal outcome, "none" before
  open      \* new operations are accepted

vars == <<phase, outcome, open>>

Init ==
  /\ phase = [r \in RequestIDs |-> "absent"]
  /\ outcome = [r \in RequestIDs |-> "none"]
  /\ open = TRUE

Unfinished == {r \in RequestIDs : phase[r] \in {"pending", "running", "stopping"}}

\* A new operation is accepted under its request ID.
Accept(r) ==
  /\ open
  /\ phase[r] = "absent"
  /\ Cardinality(Unfinished) < MaxConcurrent
  /\ phase' = [phase EXCEPT ![r] = "pending"]
  /\ UNCHANGED <<outcome, open>>

\* The execution was launched.
Run(r) ==
  /\ phase[r] = "pending"
  /\ phase' = [phase EXCEPT ![r] = "running"]
  /\ UNCHANGED <<outcome, open>>

\* A stop request is accepted.
RequestStop(r) ==
  /\ phase[r] \in {"pending", "running"}
  /\ phase' = [phase EXCEPT ![r] = "stopping"]
  /\ UNCHANGED <<outcome, open>>

\* The outcomes a phase can end in: only an execution that ran and that nobody
\* stopped completes, and only an accepted stop ends as stopped.
OutcomesOf(p) ==
  CASE p = "pending"  -> {"failed"}
    [] p = "running"  -> {"completed", "failed"}
    [] p = "stopping" -> {"stopped", "failed"}
    [] OTHER          -> {}

End(r) ==
  /\ \E o \in OutcomesOf(phase[r]) : outcome' = [outcome EXCEPT ![r] = o]
  /\ phase' = [phase EXCEPT ![r] = "terminal"]
  /\ UNCHANGED open

\* The retention period of a terminal record ends.
Forget(r) ==
  /\ phase[r] = "terminal"
  /\ phase' = [phase EXCEPT ![r] = "absent"]
  /\ outcome' = [outcome EXCEPT ![r] = "none"]
  /\ UNCHANGED open

\* Shutdown closes admission, and stops what is pending or running.  An
\* execution that is already being finalized is left to end on its own.
Close ==
  /\ open
  /\ open' = FALSE
  /\ UNCHANGED <<phase, outcome>>

StopAll ==
  /\ ~open
  /\ \E S \in SUBSET {r \in RequestIDs : phase[r] \in {"pending", "running"}} :
       phase' = [r \in RequestIDs |-> IF r \in S THEN "stopping" ELSE phase[r]]
  /\ UNCHANGED <<outcome, open>>

Next ==
  \/ \E r \in RequestIDs :
       Accept(r) \/ Run(r) \/ RequestStop(r) \/ End(r) \/ Forget(r)
  \/ Close
  \/ StopAll

Spec == Init /\ [][Next]_vars

\* An accepted stop ends the operation.
FairSpec == Spec /\ \A r \in RequestIDs : WF_vars(phase[r] = "stopping" /\ End(r))

=============================================================================
