---------------------------- MODULE MCReputation ----------------------------
(* A task that needs a skill the agent has a row for and one it has none     *)
(* for; the verdict about its artifact is appealed.                          *)
EXTENDS Reputation

CONSTANTS t1, go, ops, x1, p1, h1, h2, sweeper

MCNeeds == [t \in {t1} |-> {go, ops}]
MCProducer == [x \in {x1} |-> t1]
MCAgainst == [p \in {p1} |-> x1]
=============================================================================
