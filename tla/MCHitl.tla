-------------------------------- MODULE MCHitl --------------------------------
(* Hitl with a human node and an agent's task, and two scheduler loops.        *)
EXTENDS Hitl

CONSTANTS gate, work, o1, o2, h1

MCGate == {gate}
MCWork == {work}
MCBoth == {gate, work}
MCNone == {}
MCOpener == {o1}
MCReplicas == {o1, o2}
MCHandlers == {h1}
=============================================================================
