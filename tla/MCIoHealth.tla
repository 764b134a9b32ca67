------------------------------- MODULE MCIoHealth -------------------------------
(* Instances of IoHealth for TLC.                                          *)
EXTENDS IoHealth

\* Either the disk is replaced and the sessions and the worker end, with two
\* events, or one disk stays and raises three events over time.
MCBound ==
    \/ raised <= 2 /\ sessions + raised <= 3 /\ now = 0
    \/ sessions <= 1 /\ ~cancelled /\ \A d \in Devs : instance[d] <= 1 /\ stage[d] # "removing"
=============================================================================
