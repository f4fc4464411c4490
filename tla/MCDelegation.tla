---------------------------- MODULE MCDelegation ----------------------------
(* Delegation from one root, with requests that compete for the budget, the   *)
(* fan-out and the same id, a rework and a delegation by a child.             *)
EXTENDS Delegation, TLC

CONSTANTS lead, c1, c2, c3, k1, k2, k3, k4, k5, h1, h2, plan, out, a, b, doc

MCRoot == {lead}
MCChild == {c1, c2, c3}
MCKey == {k1, k2, k3, k4, k5}
MCUsage == {1, 3}
MCHandlers == {h1, h2}

\* The root may read one entry of plan and write all of out.
Seen(space, keys, mode) == [space |-> space, keys |-> keys, mode |-> mode]
Grant(class, artifacts, views) ==
  [class |-> class, tools |-> {}, artifacts |-> artifacts, views |-> views]
MCRootGrants == Grant("internal", {doc}, {Seen(plan, {a}, "ro"), Seen(out, {}, "rw")})

\* Within it: part of each view, with keys and mode left out here and there.
Part == Grant("", {doc}, {Seen(plan, {a, ""}, ""), Seen(out, {b}, "rw"), Seen(out, {}, "")})
\* Beyond it, though each is only a word away: all of plan, and a write to plan.
AllOfPlan == Grant("", {}, {Seen(plan, {""}, "ro")})
WritePlan == Grant("", {}, {Seen(plan, {a}, "rw")})

Ask(k, p, c, amount, rework) ==
  [key |-> k, parent |-> p, child |-> c, amount |-> amount, rework |-> rework, grants |-> Part]
With(r, g) == [r EXCEPT !.grants = g]

\* k1 comes twice, the second time with a new id, as when the caller retries.
MCRequest == {Ask(k1, lead, c1, 2, NoTask), Ask(k1, lead, c2, 2, NoTask),
              Ask(k2, lead, c2, 1, NoTask), Ask(k2, lead, c2, 0, NoTask),
              Ask(k3, lead, c3, 1, c1), Ask(k4, c1, c3, 2, NoTask),
              Ask(k5, lead, c2, 1, c3), Ask(k5, c3, c2, 1, NoTask),
              With(Ask(k4, c1, c3, 2, NoTask), AllOfPlan), With(Ask(k2, lead, c2, 1, NoTask), WritePlan)}

HandlerSymmetry == Permutations(MCHandlers)
=============================================================================
