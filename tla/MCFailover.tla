------------------------------ MODULE MCFailover ------------------------------
(***************************************************************************)
(* Instances of Failover for TLC.                                          *)
(***************************************************************************)
EXTENDS Failover

\* Every binding starts with the same priority: node_code breaks the ties, and
\* switches spread the priorities out.
OnePriority == {10}

\* Two priorities, so that a standby may be listed before the primary.
TwoPriorities == {10, 30}
===============================================================================
