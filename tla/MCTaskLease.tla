----------------------------- MODULE MCTaskLease -----------------------------
(* TaskLease on two agents, one of which may die: a root that may become a   *)
(* lead, a human node and a delegated child.                                 *)
EXTENDS TaskLease

CONSTANTS root, human, child, a1, a2

MCTask == {root, human, child}
MCInit == {root, human}
MCHuman == {human}
MCAgent == {a1, a2}
MCAgent1 == {a1}
=============================================================================
