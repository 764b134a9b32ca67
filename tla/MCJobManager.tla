----------------------------- MODULE MCJobManager -----------------------------
(* Instances of JobManager for TLC. *)
EXTENDS JobManager, TLC

\* The first two jobs share a host, every other job has one of its own.
FirstShared == [j \in 1 .. N |-> IF j = 1 THEN 2 ELSE j]

=============================================================================
