---------------------------- MODULE MCScheduling ----------------------------
(* Two replicas, one agent with room for one lease, and three tasks, the     *)
(* first of which the agent has not the skills for.                          *)
EXTENDS Scheduling

CONSTANTS odd, t1, t2, a1, r1, r2

MCTask == {odd, t1, t2}
MCOrder == [t \in MCTask |-> CASE t = odd -> 1 [] t = t1 -> 2 [] OTHER -> 3]
MCFits == {t1, t2} \X {a1}
MCRoom == [a \in {a1} |-> 1]
=============================================================================
