---------------------------- MODULE MCIoHealthMaps ----------------------------
(***************************************************************************)
(* The two maps of bpf/io_health.c that follow the life of kernel objects: *)
(* the names of the NVMe controllers (NvmeNames) beside the freeze counters*)
(* of the disks (DiskFreeze).  They share no state, so the instance        *)
(* explores one of them at a time.                                         *)
(***************************************************************************)
EXTENDS NvmeNames, DiskFreeze, TLC

\* One component moves while the other is where it began.
NoDiskYet == \A d \in Devs : inst[d] = 0
NoCallYet ==
    /\ hooks + foreign + raised = 0 /\ unseen = {}
    /\ \A a \in Addrs : ctrlStage[a] # "born"

MapsInit == Init /\ FreezeInit
MapsNext ==
    \/ NoDiskYet /\ UNCHANGED freezeVars /\ Next
    \/ NoCallYet /\ UNCHANGED vars /\ FreezeNext
MapsSpec == MapsInit /\ [][MapsNext]_<<vars, freezeVars>>

MCSymmetry == Permutations(Addrs) \cup Permutations(Threads)
=============================================================================
