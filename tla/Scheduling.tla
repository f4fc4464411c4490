----------------------------- MODULE Scheduling -----------------------------
(***************************************************************************)
(* Placement of tasks on agents and the health of agents.  Every replica   *)
(* of the service runs ScheduleOnce (internal/core/scheduler.go) again and *)
(* again: it reads the ready tasks, then the agents with the leases each   *)
(* holds, and offers task after task on what it has read.  Agents register *)
(* and send heartbeats; the sweep suspects those that fall silent.         *)
(*                                                                         *)
(* Which of the eligible agents a strategy scores best is left open.  A    *)
(* lease is taken from the offer to its end, by completion, failure,       *)
(* expiry or cancellation (TaskLease has these).  A task's version is      *)
(* modelled by what it detects: `moved` collects the tasks that moved      *)
(* since a replica read them.  Time is the age of the last heartbeat.      *)
(***************************************************************************)
EXTENDS Naturals, FiniteSets

CONSTANTS Task, Agent, Replica,
          Human,     \* the tasks that are decided by a person
          Order,     \* their order in DequeueReady, smallest first: priority, deadline, id
          Fits,      \* the pairs <<task, agent>> whose skills match
          Room,      \* Agent.MaxConcurrency, 0 for any number
          Batch,     \* Config.ScheduleBatch
          Stale,     \* Config.HeartbeatStale
          NoOne

ASSUME SchedulingConstants ==
  /\ Human \subseteq Task /\ Fits \subseteq Task \X Agent
  /\ IsFiniteSet(Task) /\ IsFiniteSet(Replica)
  /\ Order \in [Task -> Nat] /\ \A t, u \in Task : Order[t] = Order[u] => t = u
  /\ Room \in [Agent -> Nat] /\ Batch \in Nat /\ Stale \in Nat
  /\ NoOne \notin Agent \cup Replica

VARIABLES state,    \* READY, LEASED, or OVER for every other state
          holder,   \* holder[t]: the agent with the active lease of t
          placer,   \* placer[t]: the replica that offered it
          health,   \* Agent.Health, ABSENT before the agent registers
          age,      \* time since Agent.LastHeartbeat, up to Stale + 1
          alive,    \* the agent's process runs
          pass,     \* what each replica's scheduler is doing
          sweep     \* agents the sweep is about to suspect

tasks == <<state, holder, placer>>
agents == <<health, age, alive>>
vars == <<tasks, agents, pass, sweep>>

Pass == [at : {"idle", "agents", "place"},
         queue : SUBSET Task,             \* tasks read and not yet dealt with
         moved : SUBSET Task,
         up : SUBSET Agent,               \* the healthy agents, as read
         running : [Agent -> Nat]]        \* the local view of their leases
Idle == [at |-> "idle", queue |-> {}, moved |-> {}, up |-> {}, running |-> [a \in Agent |-> 0]]

TypeOK ==
  /\ state \in [Task -> {"READY", "LEASED", "OVER"}]
  /\ holder \in [Task -> Agent \cup {NoOne}] /\ placer \in [Task -> Replica \cup {NoOne}]
  /\ \A t \in Task : state[t] = "LEASED" <=> holder[t] # NoOne
  /\ health \in [Agent -> {"ABSENT", "healthy", "suspect"}]
  /\ age \in [Agent -> 0..Stale + 1] /\ alive \in [Agent -> BOOLEAN]
  /\ pass \in [Replica -> Pass]
  /\ sweep \subseteq Agent

Init ==
  /\ state = [t \in Task |-> "READY"]
  /\ holder = [t \in Task |-> NoOne] /\ placer = [t \in Task |-> NoOne]
  /\ health = [a \in Agent |-> "ABSENT"]
  /\ age = [a \in Agent |-> 0] /\ alive = [a \in Agent |-> FALSE]
  /\ pass = [r \in Replica |-> Idle] /\ sweep = {}

HeldBy(a) == {t \in Task : holder[t] = a}

\* What the passes under way make of t's move.
Overtaken(t) ==
  [r \in Replica |-> IF pass[r].at = "idle" THEN pass[r]
                     ELSE [pass[r] EXCEPT !.moved = @ \cup {t}]]

Move(t, s, a, r) ==
  /\ state' = [state EXCEPT ![t] = s]
  /\ holder' = [holder EXCEPT ![t] = a] /\ placer' = [placer EXCEPT ![t] = r]

-----------------------------------------------------------------------------
(* ScheduleOnce.                                                           *)

Before(u, t) == Order[u] < Order[t]

\* The tasks a pass is given, and the one among them that comes first.
DequeueReady ==
  LET ready == {t \in Task : state[t] = "READY"}
  IN {t \in ready : Cardinality({u \in ready : Before(u, t)}) < Batch}

\* Fault: the tasks come in the opposite order.
First_reversed(queue) == CHOOSE t \in queue : \A u \in queue : ~ Before(t, u)

First(queue) == CHOOSE t \in queue : \A u \in queue : ~ Before(u, t)

\* The pass without the task it has dealt with.
Rest(p) == [p EXCEPT !.queue = @ \ {First(@)}]

\* A pass that has no task left is over.
OrDone(p) == IF p.queue = {} THEN Idle ELSE p

ReadTasks(r) ==
  /\ pass[r].at = "idle"
  /\ pass' = [pass EXCEPT ![r] = [Idle EXCEPT !.at = "agents", !.queue = DequeueReady]]
  /\ UNCHANGED <<tasks, agents, sweep>>

\* ListAgents, which counts the active leases of each agent.
ReadAgents(r) ==
  /\ pass[r].at = "agents"
  /\ pass' = [pass EXCEPT ![r] = OrDone(
                 [@ EXCEPT !.at = "place",
                           !.up = {a \in Agent : health[a] = "healthy"},
                           !.running = [a \in Agent |-> Cardinality(HeldBy(a))]])]
  /\ UNCHANGED <<tasks, agents, sweep>>

\* eligible, of an agent as the pass knows it.
Eligible(p, t) ==
  {a \in p.up : /\ Room[a] > 0 => p.running[a] < Room[a]
                /\ <<t, a>> \in Fits}

\* Fault: the pass keeps to the numbers it has read.
NextAfter_uncounted(p, a) == Rest(p)

\* The pass goes on to its next task, after an offer to a.
NextAfter(p, a) == [Rest(p) EXCEPT !.running[a] = @ + 1]

\* OfferLease to the agent the strategy picks; it succeeds if the task has not moved.
Offer(r) ==
  /\ pass[r].at = "place"
  /\ LET p == pass[r]
         t == First(p.queue)
     IN \E a \in Eligible(p, t) :
          /\ t \notin Human /\ t \notin p.moved
          /\ Move(t, "LEASED", a, r)
          /\ pass' = [Overtaken(t) EXCEPT ![r] = OrDone(NextAfter([p EXCEPT !.moved = @ \cup {t}], a))]
  /\ UNCHANGED <<agents, sweep>>

\* Fault: a task that nobody can take ends the pass.
Skip_break(r) ==
  /\ pass[r].at = "place"
  /\ LET p == pass[r]
         t == First(p.queue)
     IN IF t \in Human \/ Eligible(p, t) = {} THEN pass' = [pass EXCEPT ![r] = Idle]
        ELSE t \in p.moved /\ pass' = [pass EXCEPT ![r] = OrDone(Rest(p))]
  /\ UNCHANGED <<tasks, agents, sweep>>

\* A human node, a task nobody can take, or one that has moved: the next one.
Skip(r) ==
  /\ pass[r].at = "place"
  /\ LET p == pass[r]
         t == First(p.queue)
     IN t \in Human \/ Eligible(p, t) = {} \/ t \in p.moved
  /\ pass' = [pass EXCEPT ![r] = OrDone(Rest(@))]
  /\ UNCHANGED <<tasks, agents, sweep>>

-----------------------------------------------------------------------------
(* Leases end; tasks come back or are over.                                *)

EndLease(t, s) == Move(t, s, NoOne, NoOne)

\* The task is over, or ready for another lease.
LeaseEnds(t) ==
  /\ state[t] = "LEASED"
  /\ \E s \in {"READY", "OVER"} : EndLease(t, s)
  /\ pass' = Overtaken(t)
  /\ UNCHANGED <<agents, sweep>>

\* A ready task is cancelled, a human node opened for decision.
ReadyEnds(t) ==
  /\ state[t] = "READY"
  /\ Move(t, "OVER", NoOne, NoOne)
  /\ pass' = Overtaken(t)
  /\ UNCHANGED <<agents, sweep>>

-----------------------------------------------------------------------------
(* Agents.                                                                 *)

\* RegisterAgent, for the first time or after the agent's restart.
RegisterAgent(a) ==
  /\ ~alive[a]
  /\ alive' = [alive EXCEPT ![a] = TRUE]
  /\ health' = [health EXCEPT ![a] = "healthy"] /\ age' = [age EXCEPT ![a] = 0]
  /\ UNCHANGED <<tasks, pass, sweep>>

\* Fault: a heartbeat leaves a suspected agent suspect.
HeartbeatAgent_only(a) ==
  /\ alive[a] /\ (age[a] > 0 \/ health[a] = "suspect")
  /\ age' = [age EXCEPT ![a] = 0]
  /\ UNCHANGED <<tasks, health, alive, pass, sweep>>

HeartbeatAgent(a) ==
  /\ alive[a] /\ (age[a] > 0 \/ health[a] = "suspect")
  /\ age' = [age EXCEPT ![a] = 0]
  /\ health' = [health EXCEPT ![a] = IF @ = "suspect" THEN "healthy" ELSE @]
  /\ UNCHANGED <<tasks, alive, pass, sweep>>

AgentDies(a) ==
  /\ alive[a]
  /\ alive' = [alive EXCEPT ![a] = FALSE]
  /\ UNCHANGED <<tasks, health, age, pass, sweep>>

Tick ==
  /\ \E a \in Agent : age[a] <= Stale
  /\ age' = [a \in Agent |-> IF age[a] <= Stale THEN age[a] + 1 ELSE age[a]]
  /\ UNCHANGED <<tasks, health, alive, pass, sweep>>

\* Fault: an agent that holds a lease is taken to be at work.
Silent_idle == {a \in Agent : health[a] = "healthy" /\ age[a] > Stale /\ HeldBy(a) = {}}

\* SweepOnce: the silent agents among those it lists.
Silent == {a \in Agent : health[a] = "healthy" /\ age[a] > Stale}

ListSilent ==
  /\ sweep = {} /\ Silent # {}
  /\ sweep' = Silent
  /\ UNCHANGED <<tasks, agents, pass>>

\* MarkAgentHealth: whatever the agent has done since.
MarkAgentHealth(a) ==
  /\ a \in sweep
  /\ health' = [health EXCEPT ![a] = "suspect"] /\ sweep' = sweep \ {a}
  /\ UNCHANGED <<tasks, age, alive, pass>>

-----------------------------------------------------------------------------
Step(r) == ReadTasks(r) \/ ReadAgents(r) \/ Offer(r) \/ Skip(r)

Next ==
  \/ \E r \in Replica : Step(r)
  \/ \E t \in Task : LeaseEnds(t) \/ ReadyEnds(t)
  \/ \E a \in Agent : \/ RegisterAgent(a) \/ HeartbeatAgent(a) \/ AgentDies(a)
                      \/ MarkAgentHealth(a)
  \/ Tick \/ ListSilent

Spec == Init /\ [][Next]_vars

\* The loops of cmd/troopd run; an agent whose process runs sends its heartbeats; time passes.
FairSpec ==
  /\ Spec /\ WF_vars(Tick) /\ WF_vars(ListSilent)
  /\ \A r \in Replica : WF_vars(Step(r))
  /\ \A a \in Agent : WF_vars(MarkAgentHealth(a)) /\ WF_vars(HeartbeatAgent(a))

-----------------------------------------------------------------------------
(* Properties.                                                             *)

\* The leases an agent holds are counted once, before the offers.  Even so no replica
\* by itself ever gives an agent more than it has room for, across passes, lease ends
\* and restarts; replicas that read at the same time exceed it together, by at most
\* the agent's room each.
ReplicaKeepsToRoom ==
  \A a \in Agent : Room[a] > 0 =>
    /\ \A r \in Replica : Cardinality({t \in HeldBy(a) : placer[t] = r}) <= Room[a]
    /\ Cardinality(HeldBy(a)) <= Room[a] * Cardinality(Replica)

\* "A task of higher priority takes the room first": no pass offers an agent a task
\* while one that comes before it, that the pass found ready and that has not moved
\* since, could have had the agent.
PriorityTakesRoomFirst ==
  [][\A r \in Replica, t, u \in Task :
       /\ state[t] = "READY" /\ state'[t] = "LEASED" /\ placer'[t] = r
       /\ Before(u, t) /\ u \notin pass[r].moved \cup Human /\ state[u] = "READY"
       => holder'[t] \notin Eligible(pass[r], u)]_vars

\* A ready task does not wait for ever beside an agent that is healthy, has the skills
\* and has room, whatever else is in the queue, as long as the queue fits in a batch.
RoomIsUsed ==
  Batch >= Cardinality(Task) =>
    \A t \in Task \ Human, a \in Agent :
      ~ <>[](/\ state[t] = "READY" /\ health[a] = "healthy" /\ <<t, a>> \in Fits
             /\ Room[a] > 0 => Cardinality(HeldBy(a)) < Room[a])

\* An agent that has died is found out for good, and one that lives is suspected only
\* for a time, although the sweep suspects it on what it read before the heartbeat.
HealthIsFollowed ==
  \A a \in Agent : /\ <>[](~alive[a]) => <>[](health[a] # "healthy")
                   /\ <>[](alive[a]) => []<>(health[a] = "healthy")
=============================================================================
