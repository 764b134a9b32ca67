------------------------------- MODULE MCIoLatency -------------------------------
(***************************************************************************)
(* A bounded instance of the three models of bpf/iolatency_tracing.c: the  *)
(* counters (IoLatency), the walks over a request (RequestCompletion) and  *)
(* the buckets of a bio (LatencyBuckets).  They share no state: a behaviour*)
(* is one of the part it begins with, and the others rest.                 *)
(***************************************************************************)
EXTENDS IoLatency, RequestCompletion, LatencyBuckets

VARIABLE part

MCThresholds == [k \in 1..4 |-> <<0, 1, 3, 6>>[k]]

MCInit ==
    /\ part \in {"counters", "request", "bio"}
    /\ Init /\ RequestInit /\ BioInit
    /\ part # "request" => bios = <<1>> /\ ~scsi /\ ~remapped
    /\ part # "bio" => ~packed

MCNext ==
    \/ part = "counters" /\ UNCHANGED <<part, requestVars, bioVars>> /\ Next
    \/ part = "request" /\ UNCHANGED <<part, vars, bioVars>> /\ RequestNext
    \/ part = "bio" /\ UNCHANGED <<part, vars, requestVars>> /\ BioNext

MCSpec == MCInit /\ [][MCNext]_<<part, vars, requestVars, bioVars>> /\ Fairness

\* Cgroups come and go where the disk stays, with a fault where one sample is
\* counted; disks come and go where one sample of one cgroup is counted.
MCBound ==
    \/ disk = [inst |-> 1, up |-> TRUE] /\ sessions <= 1 /\ samples + faults <= 2
    \/ created <= 1 /\ samples <= 1 /\ faults = 0 /\ \E c \in CPUs : probe[c] = NoProbe
=============================================================================
