------------------------------- MODULE MCWake -------------------------------
EXTENDS Wake

CONSTANTS plan, out, a, done, other, t1, s1, w1, h1, c1

Timer == [NoWake EXCEPT !.kind = "timer", !.at = 1, !.deadline = 2]
Event == [NoWake EXCEPT !.kind = "event", !.deadline = 2, !.types = {done}]
When(op, chains, from) ==
  [NoWake EXCEPT !.kind = "condition", !.deadline = 2,
                 !.cond = [op |-> op, chains |-> chains, from |-> from]]

\* For safety: a time, an event, and namespace plan together with board.out.a.
MCRequests == {Timer, Event, When("expr", {<<plan>>, <<out, a>>}, 0)}

\* For liveness: an event, an expression with an index known at run time, and one
\* that is about the time alone.
MCLiveRequests == {Event, When("expr", {<<Dynamic>>}, 0), When("expr", {}, 1)}
=============================================================================
