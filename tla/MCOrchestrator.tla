---------------------------- MODULE MCOrchestrator ----------------------------
(* Orchestrator on a fork and a join: two roots, a task that needs both and  *)
(* one that needs the second only, and a delegated child.                    *)
EXTENDS Orchestrator, TLC

CONSTANTS a, b, join, leaf, child, h1, h2

MCHandlers == {h1, h2}
MCHandler == {h1}
MCNone == {}

MCFork == {a, b, join, leaf}
MCForkDeps == [t \in MCFork |-> CASE t = join -> {a, b} [] t = leaf -> {b} [] OTHER -> {}]

MCJoin == {a, b, join}
MCJoinDeps == [t \in MCJoin |-> IF t = join THEN {a, b} ELSE {}]

MCLead == {a, b, child}
MCLeadDeps == [t \in MCLead |-> IF t = b THEN {a} ELSE {}]
MCChild == {child}
MCWaits == {a}

HandlerSymmetry == Permutations(MCHandlers)
=============================================================================
