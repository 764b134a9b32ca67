------------------------------ MODULE MCBlkThrotl ------------------------------
(* An instance of BlkThrotl for TLC.                                       *)
EXTENDS BlkThrotl

CONSTANTS c1, b1, g1, t1

MCCPUs == {c1}
MCBios == {b1}
MCGroups == {g1}
MCTasks == {t1}
MCSerials == 1..2
MCDurations == {1}
=============================================================================
