--------------------------- MODULE MCSchedWaiting ---------------------------
(***************************************************************************)
(* Two CPUs and three lifetimes of task groups; the third takes over the   *)
(* CSS id and the address of the first.                                    *)
(***************************************************************************)
EXTENDS SchedWaiting, TLC

CONSTANTS p, q, g1, g2, g3

MCGroups == {g1, g2, g3}
MCCss == (g1 :> 1) @@ (g2 :> 2) @@ (g3 :> 1)
MCTwoGroups == {g1, g2}
MCTwoCss == (g1 :> 1) @@ (g2 :> 2)

\* CPU q is as it was at the start.
Unused ==
    /\ \A g \in Groups : nr[q][g] = 0
    /\ curr[q] = None /\ throttled[q] = {} /\ bitsEpoch[q] = 0 /\ doubt[q] = {}
    /\ transit = NoTask

\* The state space is that of three questions: two CPUs whose hooks and
\* migrations interleave with the publication, for one group; ids that are
\* reused between two publications; and tasks that move between groups.  The
\* last two begin when all programs are attached.
MCBound ==
    \/ life[g2] = "unborn" /\ life[g3] = "unborn" /\ moves = 0
    \/ Unused /\ moves = 0 /\ (life[g3] # "unborn" => attached = Hooks)
    \/ Unused /\ life[g3] = "unborn" /\ attached = Hooks
=============================================================================
