------------------------------ MODULE MCSlices ------------------------------
(***************************************************************************)
(* A bounded instance of the transport of slices (SliceTransport) and of   *)
(* their encoding (SlicePacking).  They share no state: a behaviour is one *)
(* of the part it begins with, and the other rests.                        *)
(***************************************************************************)
EXTENDS SliceTransport, SlicePacking

CONSTANTS p, q

VARIABLE part

MCInit == part \in {"transport", "packing"} /\ Init /\ SliceInit

MCNext ==
    \/ part = "transport" /\ UNCHANGED <<part, sliceVars>> /\ Next
    \/ part = "packing" /\ UNCHANGED <<part, vars>> /\ SliceNext

MCSpec == MCInit /\ [][MCNext]_<<part, vars, sliceVars>> /\ Fairness

\* Two CPUs where the CSS id is reused before the teardown, or where it is
\* not; one CPU otherwise.
MCBound ==
    \/ running[q] = Idle /\ batch[q] = <<>> /\ ring[q] = <<>>
    \/ gen[1] = 1
    \/ ended = "no" /\ ~stop /\ runner.phase \in {"idle", "drain"}
=============================================================================
