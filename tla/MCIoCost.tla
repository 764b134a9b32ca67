------------------------------- MODULE MCIoCost -------------------------------
(* An instance of IoCost for TLC.                                          *)
EXTENDS IoCost, TLC

CONSTANTS c1, c2, b1, b2, g1, g2

MCCPUs == {c1, c2}
MCBios == {b1, b2}
MCGroups == {g1, g2}
MCSerials == 1..2
MCDurations == {1}

\* Either the probes alone, on two CPUs with two bios and two groups and a
\* missed probe; or with Update, when one bio and one group are used again and
\* again.
MCProbesOnly ==
    /\ session \in {"closed", "attaching", "open"}
    /\ phase = "idle" /\ ~gap /\ previous = ZeroRows
MCOneOfEach ==
    /\ Len(waits) <= 2 /\ missed = 0
    /\ \A i, j \in 1..Len(waits) : waits[i].bio = waits[j].bio /\ waits[i].group = waits[j].group
    /\ \A g, h \in Groups : live[g] # None /\ live[h] # None => g = h
MCBound == MCProbesOnly \/ MCOneOfEach

MCSymmetry == Permutations(MCCPUs) \cup Permutations(MCBios) \cup Permutations(MCGroups)
=============================================================================
