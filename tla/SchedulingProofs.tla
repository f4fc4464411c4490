-------------------------- MODULE SchedulingProofs --------------------------
(***************************************************************************)
(* The safety of Scheduling for every set of tasks, agents and replicas:   *)
(* how far agents can be loaded beyond their room, and who takes the room  *)
(* first.                                                                  *)
(***************************************************************************)
EXTENDS Scheduling, Integers, FiniteSetTheorems, WellFoundedInduction, TLAPS

-----------------------------------------------------------------------------
(* The invariant.                                                          *)

\* The leases of agent a that replica r has offered.
By(r, a) == {t \in HeldBy(a) : placer[t] = r}

\* A lease has an agent and a replica that offered it, or neither.
Placed == \A t \in Task : holder[t] = NoOne <=> placer[t] = NoOne

Capped == \A r \in Replica, a \in Agent : Room[a] > 0 => Cardinality(By(r, a)) <= Room[a]

\* A pass with its tasks: whatever comes before one of them, is ready and has not moved,
\* is still to come or has been tried in vain.
Complete(p) ==
  \A t \in p.queue, u \in Task :
    Before(u, t) /\ u \notin p.moved \cup Human /\ state[u] = "READY" =>
      u \in p.queue \/ (p.at = "place" /\ Eligible(p, u) = {})

\* A pass never takes an agent to hold less than its replica itself has given it.
PassOk(r, p) ==
  /\ p \in Pass
  /\ p.at # "idle" => Complete(p)
  /\ p.at = "place" => /\ p.queue # {}
                       /\ \A a \in Agent : Cardinality(By(r, a)) <= p.running[a]

Passes == pass \in [Replica -> Pass] /\ \A r \in Replica : PassOk(r, pass[r])

IInv == TypeOK /\ Placed /\ Capped /\ Passes

-----------------------------------------------------------------------------
(* Sets of tasks, and their order.                                         *)

LEMMA Finite ==
  ASSUME NEW S \in SUBSET Task
  PROVE  /\ IsFiniteSet(S) /\ Cardinality(S) \in Nat
         /\ \A T \in SUBSET S : Cardinality(T) \in Nat /\ Cardinality(T) <= Cardinality(S)
<1>1. \A T \in SUBSET Task : IsFiniteSet(T) /\ Cardinality(T) \in Nat
  BY SchedulingConstants, FS_Subset, FS_CardinalityType
<1>2. \A T \in SUBSET S : Cardinality(T) <= Cardinality(S)
  BY <1>1, FS_Subset
<1> QED BY <1>1, <1>2

\* One more task.
LEMMA OneMore ==
  ASSUME NEW S \in SUBSET Task, NEW t \in Task, NEW T \in SUBSET (S \cup {t})
  PROVE  Cardinality(T) <= Cardinality(S) + 1
<1>1. Cardinality(T) <= Cardinality(S \cup {t}) /\ Cardinality(T) \in Nat
  BY Finite
<1>2. IsFiniteSet(S) /\ Cardinality(S) \in Nat
  BY Finite
<1>3. Cardinality(S \cup {t}) <= Cardinality(S) + 1
  BY <1>2, FS_AddElement
<1>4. Cardinality(S \cup {t}) \in Nat
  BY Finite
<1> QED BY <1>1, <1>2, <1>3, <1>4

\* A set of natural numbers that is not empty has a least element.
LEMMA Least ==
  ASSUME NEW S \in SUBSET Nat, S # {}
  PROVE  \E n \in S : \A m \in S : n <= m
<1>1. PICK n \in S : \A m \in S : ~ (<<m, n>> \in OpToRel(<, Nat))
  BY NatLessThanWellFounded, WFMin
<1>2. \A m \in Nat : m < n => <<m, n>> \in OpToRel(<, Nat)
  BY DEF OpToRel
<1>3. \A m \in S : ~ (m < n)
  BY <1>1, <1>2, Zenon
<1>4. \A m \in S : n <= m
  BY <1>3
<1> QED BY <1>4

\* What a pass takes next is one of its tasks, and none of them comes before it.
LEMMA FirstFacts ==
  ASSUME NEW queue \in SUBSET Task, queue # {}
  PROVE  First(queue) \in queue /\ \A u \in queue : ~ Before(u, First(queue))
<1> DEFINE S == {Order[t] : t \in queue}
<1>1. S \in SUBSET Nat /\ S # {}
  BY SchedulingConstants
<1>2. PICK n \in S : \A m \in S : n <= m
  <2> HIDE DEF S
  <2> QED BY <1>1, Least
<1>3. PICK t \in queue : n = Order[t]
  OBVIOUS
<1>4. \A u \in queue : ~ Before(u, t)
  BY <1>1, <1>2, <1>3 DEF Before
<1>5. \E s \in queue : \A u \in queue : ~ Before(u, s)
  BY <1>4
<1> QED BY <1>5 DEF First

\* What DequeueReady returns is ready, and leaves out nothing that comes before.
LEMMA DequeueFacts ==
  ASSUME NEW t \in DequeueReady
  PROVE  /\ t \in Task /\ state[t] = "READY"
         /\ \A u \in Task : state[u] = "READY" /\ Before(u, t) => u \in DequeueReady
<1> DEFINE ready == {u \in Task : state[u] = "READY"}
           Ahead(u) == {v \in ready : Before(v, u)}
<1>1. DequeueReady = {u \in ready : Cardinality(Ahead(u)) < Batch}
  BY DEF DequeueReady
<1>2. ASSUME NEW u \in Task, state[u] = "READY", Before(u, t) PROVE u \in DequeueReady
  <2>1. t \in Task /\ \A v \in Task : Order[v] \in Nat
    BY <1>1, SchedulingConstants
  <2>2. Ahead(u) \subseteq Ahead(t) /\ Ahead(t) \subseteq Task
    BY <1>2, <2>1 DEF Before
  <2>3. Cardinality(Ahead(u)) <= Cardinality(Ahead(t)) /\ Cardinality(Ahead(t)) \in Nat
        /\ Cardinality(Ahead(u)) \in Nat
    <3> HIDE DEF Ahead
    <3> QED BY <2>2, Finite
  <2>4. Cardinality(Ahead(t)) < Batch
    BY <1>1
  <2>5. Cardinality(Ahead(u)) < Batch
    <3> HIDE DEF Ahead
    <3> QED BY <2>3, <2>4, SchedulingConstants
  <2> QED BY <1>1, <1>2, <2>5
<1> QED BY <1>1, <1>2

-----------------------------------------------------------------------------
(* Steps that leave the tasks alone.                                       *)

LEMMA IdleOk ==
  ASSUME NEW r PROVE Idle \in Pass /\ PassOk(r, Idle)
BY DEF Idle, Pass, PassOk

\* A pass that is over or goes on.
LEMMA OrDoneOk ==
  ASSUME NEW r \in Replica, NEW p \in Pass, p.at # "idle" => Complete(p),
         p.at = "place" => \A a \in Agent : Cardinality(By(r, a)) <= p.running[a]
  PROVE  PassOk(r, OrDone(p))
<1>1. CASE p.queue = {}
  BY <1>1, IdleOk DEF OrDone
<1>2. CASE p.queue # {}
  BY <1>2 DEF OrDone, PassOk
<1> QED BY <1>1, <1>2

\* One replica takes a step, with the tasks as they are.
LEMMA PassStep ==
  ASSUME IInv, UNCHANGED <<tasks, agents, sweep>>,
         NEW r \in Replica, NEW p, PassOk(r, p), pass' = [pass EXCEPT ![r] = p]
  PROVE  IInv'
<1>1. pass' \in [Replica -> Pass] /\ \A q \in Replica : PassOk(q, pass'[q])
  BY DEF IInv, Passes, PassOk
<1>2. \A q, x : PassOk(q, x)' <=> PassOk(q, x)
  BY DEF PassOk, Complete, By, HeldBy, Eligible, tasks
<1>3. Passes'
  <2>1. ASSUME NEW q \in Replica PROVE PassOk(q, pass[q])'
    <3>1. PICK x : x = pass'[q]
      OBVIOUS
    <3>2. PassOk(q, x)'
      BY <1>1, <1>2, <3>1
    <3>3. PassOk(q, x)' <=> PassOk(q, pass[q])'
      BY <3>1, Zenon DEF PassOk
    <3> QED BY <3>2, <3>3
  <2> QED BY <1>1, <2>1 DEF Passes
<1>4. TypeOK'
  BY <1>1 DEF IInv, TypeOK, tasks, agents
<1>5. Placed' /\ Capped'
  BY DEF IInv, Placed, Capped, By, HeldBy, tasks
<1> QED BY <1>3, <1>4, <1>5 DEF IInv

LEMMA AReadTasks == ASSUME IInv, NEW r \in Replica, ReadTasks(r) PROVE IInv'
<1> DEFINE p == [Idle EXCEPT !.at = "agents", !.queue = DequeueReady]
<1>1. p \in Pass /\ p.at = "agents" /\ p.queue = DequeueReady
  BY DequeueFacts DEF Idle, Pass
<1>2. pass' = [pass EXCEPT ![r] = p] /\ UNCHANGED <<tasks, agents, sweep>>
  BY DEF ReadTasks
<1> HIDE DEF p
<1>3. Complete(p)
  BY <1>1, DequeueFacts DEF Complete
<1>4. PassOk(r, p)
  BY <1>1, <1>3 DEF PassOk
<1> QED BY <1>2, <1>4, PassStep

LEMMA AReadAgents == ASSUME IInv, NEW r \in Replica, ReadAgents(r) PROVE IInv'
<1> DEFINE p == [pass[r] EXCEPT !.at = "place",
                                !.up = {a \in Agent : health[a] = "healthy"},
                                !.running = [a \in Agent |-> Cardinality(HeldBy(a))]]
<1>1. /\ pass' = [pass EXCEPT ![r] = OrDone(p)] /\ UNCHANGED <<tasks, agents, sweep>>
      /\ pass[r].at = "agents" /\ pass[r] \in Pass /\ Complete(pass[r])
  BY DEF ReadAgents, IInv, Passes, PassOk
<1>2. \A a \in Agent : /\ Cardinality(HeldBy(a)) \in Nat
                       /\ \A q \in Replica : Cardinality(By(q, a)) <= Cardinality(HeldBy(a))
  <2>1. \A a \in Agent : HeldBy(a) \in SUBSET Task /\ \A q \in Replica : By(q, a) \in SUBSET HeldBy(a)
    BY DEF HeldBy, By
  <2> QED BY <2>1, Finite
<1>3. /\ p \in Pass /\ p.at = "place" /\ p.queue = pass[r].queue /\ p.moved = pass[r].moved
      /\ p.running = [a \in Agent |-> Cardinality(HeldBy(a))]
  BY <1>1, <1>2 DEF Pass
<1> HIDE DEF p
<1>4. Complete(p)
  BY <1>1, <1>3 DEF Complete
<1>5. PassOk(r, OrDone(p))
  BY <1>2, <1>3, <1>4, OrDoneOk
<1> QED BY <1>1, <1>5, PassStep

LEMMA ASkip == ASSUME IInv, NEW r \in Replica, Skip(r) PROVE IInv'
<1> DEFINE p == pass[r]
           t == First(p.queue)
           e == Rest(p)
<1>1. /\ pass' = [pass EXCEPT ![r] = OrDone(e)] /\ UNCHANGED <<tasks, agents, sweep>>
      /\ p.at = "place" /\ p \in Pass /\ Complete(p) /\ p.queue # {}
      /\ \A a \in Agent : Cardinality(By(r, a)) <= p.running[a]
      /\ t \in Human \/ Eligible(p, t) = {} \/ t \in p.moved
  BY DEF Skip, IInv, Passes, PassOk
<1>2. /\ e \in Pass /\ e.at = "place" /\ e.queue = p.queue \ {t} /\ e.moved = p.moved
      /\ e.running = p.running /\ e.up = p.up
  BY <1>1 DEF Pass, Rest
<1> HIDE DEF p, t, e
<1>3. \A u : Eligible(e, u) = Eligible(p, u)
  BY <1>2 DEF Eligible
<1>4. Complete(e)
  BY <1>1, <1>2, <1>3 DEF Complete
<1>5. PassOk(r, OrDone(e))
  BY <1>1, <1>2, <1>4, OrDoneOk
<1> QED BY <1>1, <1>5, PassStep

\* Agents come and go.
LEMMA AgentStep ==
  ASSUME IInv, UNCHANGED <<tasks, pass>>, TypeOK' PROVE IInv'
<1>1. Placed' /\ Capped'
  BY DEF IInv, Placed, Capped, By, HeldBy, tasks
<1>2. \A q, x : PassOk(q, x)' <=> PassOk(q, x)
  BY DEF PassOk, Complete, By, HeldBy, Eligible, tasks
<1>3. ASSUME NEW q \in Replica PROVE PassOk(q, pass[q])'
  <2>1. PICK x : x = pass[q]
    OBVIOUS
  <2>2. PassOk(q, x)'
    BY <1>2, <2>1 DEF IInv, Passes
  <2>3. PassOk(q, x)' <=> PassOk(q, pass[q])'
    BY <2>1, Zenon DEF PassOk
  <2> QED BY <2>2, <2>3
<1> QED BY <1>1, <1>3 DEF IInv, Passes

LEMMA AnAgent ==
  ASSUME IInv, NEW a \in Agent,
         RegisterAgent(a) \/ HeartbeatAgent(a) \/ AgentDies(a) \/ MarkAgentHealth(a)
  PROVE  IInv'
<1>1. TypeOK'
  <2>1. \/ health' = health
        \/ \E h \in {"healthy", "suspect"} : health' = [health EXCEPT ![a] = h]
    BY DEF RegisterAgent, HeartbeatAgent, AgentDies, MarkAgentHealth, IInv, TypeOK
  <2>2. /\ age' = age \/ age' = [age EXCEPT ![a] = 0]
        /\ alive' = alive \/ \E b \in BOOLEAN : alive' = [alive EXCEPT ![a] = b]
        /\ sweep' \subseteq sweep /\ UNCHANGED <<tasks, pass>>
    BY DEF RegisterAgent, HeartbeatAgent, AgentDies, MarkAgentHealth
  <2>3. health' \in [Agent -> {"ABSENT", "healthy", "suspect"}]
    BY <2>1 DEF IInv, TypeOK
  <2>4. age' \in [Agent -> 0..Stale + 1] /\ alive' \in [Agent -> BOOLEAN]
    BY <2>2, SchedulingConstants DEF IInv, TypeOK
  <2> QED BY <2>2, <2>3, <2>4 DEF IInv, TypeOK, tasks
<1>2. UNCHANGED <<tasks, pass>>
  BY DEF RegisterAgent, HeartbeatAgent, AgentDies, MarkAgentHealth
<1> QED BY <1>1, <1>2, AgentStep

LEMMA ATick == ASSUME IInv, Tick \/ ListSilent PROVE IInv'
<1>1. TypeOK'
  <2>1. \A a \in Agent : age[a] \in 0..Stale + 1 /\ Stale \in Nat
    BY SchedulingConstants DEF IInv, TypeOK
  <2>2. age' \in [Agent -> 0..Stale + 1]
    BY <2>1 DEF Tick, ListSilent, agents, IInv, TypeOK
  <2>3. sweep' \subseteq Agent
    BY DEF Tick, ListSilent, Silent, IInv, TypeOK
  <2> QED BY <2>2, <2>3 DEF Tick, ListSilent, agents, tasks, IInv, TypeOK
<1>2. UNCHANGED <<tasks, pass>>
  BY DEF Tick, ListSilent
<1> QED BY <1>1, <1>2, AgentStep

-----------------------------------------------------------------------------
(* Steps that move a task.                                                 *)

\* What the passes of others make of it.
LEMMA OthersStay ==
  ASSUME IInv, NEW t \in Task, NEW s, NEW a \in Agent \cup {NoOne}, NEW r \in Replica \cup {NoOne},
         Move(t, s, a, r),
         NEW q \in Replica \ {r}, NEW p, p = Overtaken(t)[q]
  PROVE  PassOk(q, p)'
<1>1. pass[q] \in Pass /\ PassOk(q, pass[q])
  BY DEF IInv, Passes
<1>2. CASE pass[q].at = "idle"
  <2>1. p = pass[q]
    BY <1>2 DEF Overtaken
  <2> QED BY <1>1, <1>2, <2>1 DEF PassOk
<1>3. CASE pass[q].at # "idle"
  <2>1. /\ p \in Pass /\ p.at = pass[q].at /\ p.queue = pass[q].queue /\ p.running = pass[q].running
        /\ p.moved = pass[q].moved \cup {t} /\ p.up = pass[q].up
    BY <1>1, <1>3 DEF Overtaken, Pass
  <2>2. \A u : Eligible(p, u) = Eligible(pass[q], u)
    BY <2>1 DEF Eligible
  <2>3. \A u \in Task \ {t} : state'[u] = state[u]
    BY DEF Move, IInv, TypeOK
  <2>4. Complete(pass[q]) /\ (p.at = "place" => p.queue # {})
    BY <1>1, <1>3, <2>1 DEF PassOk
  <2>5. Complete(p)'
    <3>1. \A v \in p.queue, u \in Task :
            Before(u, v) /\ u \notin p.moved \cup Human /\ state'[u] = "READY" =>
              u \in p.queue \/ (p.at = "place" /\ Eligible(p, u) = {})
      BY <2>1, <2>2, <2>3, <2>4 DEF Complete
    <3>2. \A u : Eligible(p, u)' = Eligible(p, u)
      BY DEF Eligible
    <3> QED BY <3>1, <3>2 DEF Complete
  <2>6. p.at = "place" => \A b \in Agent : Cardinality(By(q, b)') <= p.running[b]
    <3> SUFFICES ASSUME p.at = "place", NEW b \in Agent PROVE Cardinality(By(q, b)') <= p.running[b]
      OBVIOUS
    <3>1. By(q, b)' \subseteq By(q, b)
      BY DEF By, HeldBy, Move, IInv, TypeOK
    <3>2. Cardinality(By(q, b)') <= Cardinality(By(q, b)) /\ Cardinality(By(q, b)') \in Nat
          /\ Cardinality(By(q, b)) \in Nat
      <4>1. By(q, b) \in SUBSET Task
        BY DEF By, HeldBy
      <4> QED BY <3>1, <4>1, Finite
    <3>3. Cardinality(By(q, b)) <= pass[q].running[b] /\ pass[q].running[b] \in Nat
      BY <1>1, <2>1 DEF PassOk, Pass
    <3> QED BY <2>1, <3>2, <3>3
  <2> QED BY <2>1, <2>4, <2>5, <2>6 DEF PassOk
<1> QED BY <1>2, <1>3

\* The store as the move leaves it.
LEMMA MoveFacts ==
  ASSUME IInv, NEW t \in Task, NEW s \in {"READY", "LEASED", "OVER"},
         NEW a \in Agent \cup {NoOne}, NEW r \in Replica \cup {NoOne},
         s = "LEASED" <=> a # NoOne, a = NoOne <=> r = NoOne,
         Move(t, s, a, r), UNCHANGED <<agents, sweep>>, pass' \in [Replica -> Pass]
  PROVE  /\ TypeOK' /\ Placed'
         /\ \A u \in Task \ {t} : state'[u] = state[u] /\ holder'[u] = holder[u] /\ placer'[u] = placer[u]
         /\ state'[t] = s /\ holder'[t] = a /\ placer'[t] = r
         /\ \A q \in Replica, b \in Agent :
              By(q, b)' \subseteq By(q, b) \/ (q = r /\ b = a /\ By(q, b)' \subseteq By(q, b) \cup {t})
<1>1. /\ state' = [state EXCEPT ![t] = s] /\ holder' = [holder EXCEPT ![t] = a]
      /\ placer' = [placer EXCEPT ![t] = r] /\ TypeOK /\ Placed
  BY DEF Move, IInv
<1>2. /\ \A u \in Task \ {t} : state'[u] = state[u] /\ holder'[u] = holder[u] /\ placer'[u] = placer[u]
      /\ state'[t] = s /\ holder'[t] = a /\ placer'[t] = r
      /\ state' \in [Task -> {"READY", "LEASED", "OVER"}]
      /\ holder' \in [Task -> Agent \cup {NoOne}] /\ placer' \in [Task -> Replica \cup {NoOne}]
  BY <1>1 DEF TypeOK
<1>3. TypeOK'
  BY <1>1, <1>2 DEF TypeOK, agents
<1>4. Placed'
  BY <1>1, <1>2 DEF Placed
<1>5. \A q \in Replica, b \in Agent :
        By(q, b)' \subseteq By(q, b) \/ (q = r /\ b = a /\ By(q, b)' \subseteq By(q, b) \cup {t})
  BY <1>2 DEF By, HeldBy
<1> QED BY <1>2, <1>3, <1>4, <1>5

\* A lease ends, or a task that has none.
LEMMA AnEnd == ASSUME IInv, NEW t \in Task, LeaseEnds(t) \/ ReadyEnds(t) PROVE IInv'
<1>1. /\ pass' = Overtaken(t) /\ UNCHANGED <<agents, sweep>>
      /\ \E s \in {"READY", "OVER"} : Move(t, s, NoOne, NoOne)
  BY DEF LeaseEnds, ReadyEnds, EndLease
<1>2. PICK s \in {"READY", "OVER"} : Move(t, s, NoOne, NoOne)
  BY <1>1
<1>3. NoOne \notin Replica /\ NoOne \notin Agent
  BY SchedulingConstants
<1>4. ASSUME NEW q \in Replica, NEW p, p = pass'[q] PROVE PassOk(q, p)'
  <2>1. p = Overtaken(t)[q]
    BY <1>1, <1>4
  <2> QED BY <1>2, <1>3, <2>1, OthersStay
<1>5. Passes'
  <2>1. ASSUME NEW q \in Replica PROVE PassOk(q, pass[q])'
    <3>1. PICK x : x = pass'[q]
      OBVIOUS
    <3>2. PassOk(q, x)'
      BY <1>4, <3>1
    <3>3. PassOk(q, x)' <=> PassOk(q, pass[q])'
      BY <3>1, Zenon DEF PassOk
    <3> QED BY <3>2, <3>3
  <2>2. DOMAIN pass' = Replica /\ pass' = [q \in Replica |-> pass'[q]]
    BY <1>1 DEF Overtaken
  <2>3. \A q \in Replica : pass'[q] \in Pass
    BY <2>1 DEF PassOk, Pass
  <2> QED BY <2>1, <2>2, <2>3 DEF Passes
<1>6. /\ TypeOK' /\ Placed' /\ \A q \in Replica, b \in Agent : By(q, b)' \subseteq By(q, b)
  BY <1>1, <1>2, <1>3, <1>5, MoveFacts DEF Passes
<1>7. Capped'
  <2> SUFFICES ASSUME NEW q \in Replica, NEW b \in Agent, Room[b] > 0
               PROVE  Cardinality(By(q, b)') <= Room[b]
    BY DEF Capped
  <2>1. Cardinality(By(q, b)') <= Cardinality(By(q, b)) /\ Cardinality(By(q, b)') \in Nat
        /\ Cardinality(By(q, b)) \in Nat
    <3>1. By(q, b) \in SUBSET Task
      BY DEF By, HeldBy
    <3> QED BY <1>6, <3>1, Finite
  <2>2. Cardinality(By(q, b)) <= Room[b] /\ Room[b] \in Nat
    BY SchedulingConstants DEF IInv, Capped
  <2> QED BY <2>1, <2>2
<1> QED BY <1>5, <1>6, <1>7 DEF IInv

LEMMA AnOffer == ASSUME IInv, NEW r \in Replica, Offer(r) PROVE IInv'
<1> DEFINE p == pass[r]
           t == First(p.queue)
           over(x) == NextAfter([p EXCEPT !.moved = @ \cup {t}], x)
<1>1. /\ p.at = "place" /\ p \in Pass /\ Complete(p) /\ p.queue # {} /\ p.queue \subseteq Task
      /\ \A b \in Agent : Cardinality(By(r, b)) <= p.running[b]
  BY DEF Offer, IInv, Passes, PassOk, Pass
<1>2. t \in p.queue /\ t \in Task
  BY <1>1, FirstFacts
<1>3. PICK a \in Eligible(p, t) :
        /\ t \notin Human /\ t \notin p.moved /\ Move(t, "LEASED", a, r)
        /\ pass' = [Overtaken(t) EXCEPT ![r] = OrDone(over(a))]
  BY DEF Offer
<1>4. a \in Agent /\ (Room[a] > 0 => p.running[a] < Room[a])
  BY <1>1, <1>3 DEF Eligible, Pass
<1>5. a # NoOne /\ r # NoOne
  BY <1>4, SchedulingConstants
<1> DEFINE e == over(a)
<1>6. /\ e \in Pass /\ e.at = "place" /\ e.queue = p.queue \ {t} /\ e.moved = p.moved \cup {t}
      /\ e.up = p.up /\ e.running = [p.running EXCEPT ![a] = @ + 1]
  <2> DEFINE m == [p EXCEPT !.moved = @ \cup {t}]
  <2>1. m \in Pass /\ m.at = "place" /\ m.queue = p.queue /\ m.moved = p.moved \cup {t}
        /\ m.up = p.up /\ m.running = p.running
    BY <1>1, <1>2 DEF Pass
  <2>2. e = NextAfter(m, a)
    OBVIOUS
  <2> HIDE DEF m, e, over, p
  <2>3. /\ Rest(m) \in Pass /\ Rest(m).at = "place" /\ Rest(m).queue = p.queue \ {t}
        /\ Rest(m).moved = p.moved \cup {t} /\ Rest(m).up = p.up /\ Rest(m).running = p.running
    BY <2>1 DEF Rest, Pass
  <2>4. [p.running EXCEPT ![a] = @ + 1] \in [Agent -> Nat]
    BY <1>1, <1>4 DEF Pass
  <2>5. e = [Rest(m) EXCEPT !.running = [p.running EXCEPT ![a] = @ + 1]]
    BY <2>2, <2>3 DEF NextAfter
  <2> QED BY <2>3, <2>4, <2>5 DEF Pass
<1> HIDE DEF over, e
<1>7. /\ pass'[r] = OrDone(e) /\ OrDone(e) \in {e, Idle} /\ OrDone(e) \in Pass
      /\ (OrDone(e) = e => e.queue # {} \/ e = Idle)
      /\ \A q \in Replica \ {r} : pass'[q] = Overtaken(t)[q]
      /\ DOMAIN pass' = Replica /\ pass' = [q \in Replica |-> pass'[q]]
  <2>1. pass' = [Overtaken(t) EXCEPT ![r] = OrDone(e)] /\ DOMAIN Overtaken(t) = Replica
    BY <1>3 DEF Overtaken, e
  <2>2. OrDone(e) \in {e, Idle} /\ (OrDone(e) = e => e.queue # {} \/ e = Idle)
    BY DEF OrDone
  <2> QED BY <1>6, <2>1, <2>2, IdleOk
<1>8. ASSUME NEW q \in Replica \ {r}, NEW x, x = pass'[q] PROVE PassOk(q, x)'
  <2>1. x = Overtaken(t)[q]
    BY <1>7, <1>8
  <2> HIDE DEF t
  <2> QED BY <1>2, <1>3, <1>4, <2>1, OthersStay
<1>9. pass' \in [Replica -> Pass]
  <2>1. \A q \in Replica : pass'[q] \in Pass
    <3> TAKE q \in Replica
    <3>1. CASE q = r
      BY <1>7, <3>1
    <3>2. CASE q # r
      <4>1. PICK x : x = pass'[q]
        OBVIOUS
      <4>2. PassOk(q, x)'
        BY <1>8, <3>2, <4>1
      <4> QED BY <4>1, <4>2 DEF PassOk, Pass
    <3> QED BY <3>1, <3>2
  <2> QED BY <1>7, <2>1
<1>10. /\ TypeOK' /\ Placed'
       /\ \A u \in Task \ {t} : state'[u] = state[u]
       /\ \A q \in Replica, b \in Agent :
            By(q, b)' \subseteq By(q, b) \/ (q = r /\ b = a /\ By(q, b)' \subseteq By(q, b) \cup {t})
  <2>1. UNCHANGED <<agents, sweep>>
    BY DEF Offer
  <2> HIDE DEF t
  <2> QED BY <1>2, <1>3, <1>4, <1>5, <1>9, <2>1, MoveFacts
<1>11. \A q \in Replica, b \in Agent :
         /\ By(q, b) \in SUBSET Task /\ Cardinality(By(q, b)) \in Nat /\ Cardinality(By(q, b)') \in Nat
         /\ Cardinality(By(q, b)') <= Cardinality(By(q, b)) \/ (q = r /\ b = a)
         /\ Cardinality(By(q, b)') <= Cardinality(By(q, b)) + 1
  <2> HIDE DEF t
  <2> TAKE q \in Replica, b \in Agent
  <2>1. By(q, b) \in SUBSET Task /\ By(q, b)' \in SUBSET (By(q, b) \cup {t})
    BY <1>10 DEF By, HeldBy
  <2>2. Cardinality(By(q, b)) \in Nat /\ Cardinality(By(q, b)') \in Nat
    BY <1>2, <2>1, Finite
  <2>3. Cardinality(By(q, b)') <= Cardinality(By(q, b)) + 1
    BY <1>2, <2>1, OneMore
  <2>4. Cardinality(By(q, b)') <= Cardinality(By(q, b)) \/ (q = r /\ b = a)
    BY <1>10, <2>1, Finite
  <2> QED BY <2>1, <2>2, <2>3, <2>4
<1>12. \A b \in Agent : Cardinality(By(r, b)') <= e.running[b]
  <2> TAKE b \in Agent
  <2>1. /\ Cardinality(By(r, b)) <= p.running[b] /\ p.running \in [Agent -> Nat]
    BY <1>1 DEF Pass
  <2>2. CASE b = a
    <3>1. e.running[b] = p.running[b] + 1 /\ p.running[b] \in Nat
      BY <1>6, <2>1, <2>2
    <3> HIDE DEF p
    <3> QED BY <1>11, <2>1, <3>1
  <2>3. CASE b # a
    <3>1. e.running[b] = p.running[b] /\ p.running[b] \in Nat
      BY <1>6, <2>1, <2>3
    <3> HIDE DEF p
    <3> QED BY <1>11, <2>1, <2>3, <3>1
  <2> QED BY <2>2, <2>3
<1>13. Capped'
  <2> SUFFICES ASSUME NEW q \in Replica, NEW b \in Agent, Room[b] > 0
               PROVE  Cardinality(By(q, b)') <= Room[b]
    BY DEF Capped
  <2>1. Room[b] \in Nat /\ Cardinality(By(q, b)) <= Room[b]
    BY SchedulingConstants DEF IInv, Capped
  <2>2. CASE q = r /\ b = a
    <3>1. Cardinality(By(q, b)) <= p.running[b] /\ p.running[b] < Room[b] /\ p.running[b] \in Nat
      BY <1>1, <1>4, <2>2 DEF Pass
    <3> HIDE DEF p
    <3> QED BY <1>11, <2>1, <3>1
  <2>3. CASE ~ (q = r /\ b = a)
    BY <1>11, <2>1, <2>3
  <2> QED BY <2>2, <2>3
<1>14. PICK x : x = e
  OBVIOUS
<1>15. Complete(x)'
  <2>1. ASSUME NEW v \in x.queue, NEW u \in Task, Before(u, v), u \notin x.moved \cup Human,
               state'[u] = "READY"
        PROVE  u \in x.queue \/ Eligible(x, u) = {}
    <3>1. v \in p.queue /\ u # t /\ u \notin p.moved \cup Human /\ state[u] = "READY"
      BY <1>6, <1>10, <1>14, <2>1
    <3>2. u \in p.queue \/ Eligible(p, u) = {}
      BY <1>1, <2>1, <3>1 DEF Complete
    <3>3. ASSUME NEW b \in Eligible(x, u) PROVE b \in Eligible(p, u)
      <4>1. p.up \subseteq Agent /\ p.running \in [Agent -> Nat]
        BY <1>1 DEF Pass
      <4>2. /\ b \in p.up /\ b \in Agent /\ <<u, b>> \in Fits /\ Room[b] \in Nat
            /\ Room[b] > 0 => x.running[b] < Room[b]
        BY <1>6, <1>14, <3>3, <4>1, SchedulingConstants DEF Eligible
      <4>3. p.running[b] \in Nat /\ x.running[b] \in {p.running[b], p.running[b] + 1}
        BY <1>6, <1>14, <4>1, <4>2
      <4>4. Room[b] > 0 => p.running[b] < Room[b]
        <5> HIDE DEF p
        <5> QED BY <4>2, <4>3
      <4> QED BY <4>2, <4>4 DEF Eligible
    <3> QED BY <1>6, <1>14, <3>1, <3>2, <3>3
  <2>2. \A u : Eligible(x, u)' = Eligible(x, u)
    BY DEF Eligible
  <2> QED BY <1>6, <1>14, <2>1, <2>2 DEF Complete
<1>16. ASSUME NEW y, y = pass'[r] PROVE PassOk(r, y)'
  <2>1. CASE y = Idle
    BY <2>1 DEF PassOk, Idle, Pass
  <2>2. CASE y = x /\ x.queue # {}
    <3>1. y \in Pass /\ y.at = "place" /\ y.queue # {} /\ \A b \in Agent : Cardinality(By(r, b)') <= y.running[b]
      BY <1>6, <1>12, <1>14, <2>2
    <3>2. Complete(y)'
      BY <1>15, <2>2
    <3> QED BY <3>1, <3>2 DEF PassOk
  <2> QED BY <1>7, <1>14, <1>16, <2>1, <2>2
<1>17. Passes'
  <2>1. ASSUME NEW q \in Replica PROVE PassOk(q, pass[q])'
    <3>1. PICK y : y = pass'[q]
      OBVIOUS
    <3>2. PassOk(q, y)'
      BY <1>8, <1>16, <3>1
    <3>3. PassOk(q, y)' <=> PassOk(q, pass[q])'
      BY <3>1, Zenon DEF PassOk
    <3> QED BY <3>2, <3>3
  <2> QED BY <1>9, <2>1 DEF Passes
<1> QED BY <1>10, <1>13, <1>17 DEF IInv

-----------------------------------------------------------------------------
(* The theorems.                                                           *)

LEMMA Initially == ASSUME Init PROVE IInv
<1>1. TypeOK
  BY SchedulingConstants, IdleOk DEF Init, TypeOK
<1>2. Placed
  BY DEF Init, Placed
<1>3. Capped
  <2>1. ASSUME NEW r \in Replica, NEW a \in Agent, Room[a] > 0
        PROVE  Cardinality(By(r, a)) <= Room[a]
    <3>1. By(r, a) = {}
      BY SchedulingConstants DEF Init, By, HeldBy
    <3>2. Cardinality(By(r, a)) = 0
      BY <3>1, FS_EmptySet
    <3> QED BY <2>1, <3>2, SchedulingConstants
  <2> QED BY <2>1 DEF Capped
<1>4. Passes
  BY IdleOk DEF Init, Passes
<1> QED BY <1>1, <1>2, <1>3, <1>4 DEF IInv

LEMMA Inductive == ASSUME IInv, [Next]_vars PROVE IInv'
<1>1. CASE \E r \in Replica : Step(r)
  BY <1>1, AReadTasks, AReadAgents, AnOffer, ASkip DEF Step
<1>2. CASE \E t \in Task : LeaseEnds(t) \/ ReadyEnds(t)
  BY <1>2, AnEnd
<1>3. CASE \E a \in Agent : RegisterAgent(a) \/ HeartbeatAgent(a) \/ AgentDies(a) \/ MarkAgentHealth(a)
  BY <1>3, AnAgent
<1>4. CASE Tick \/ ListSilent
  BY <1>4, ATick
<1>5. CASE UNCHANGED vars
  <2>1. TypeOK' /\ UNCHANGED <<tasks, pass>>
    BY <1>5 DEF IInv, TypeOK, vars, tasks, agents
  <2> QED BY <2>1, AgentStep
<1> QED BY <1>1, <1>2, <1>3, <1>4, <1>5 DEF Next

\* The inductive invariant holds in every behaviour.
THEOREM Invariance == Spec => []IInv
BY Initially, Inductive, PTL DEF Spec

\* Every variable keeps its type, and a task has a holder exactly while it is leased
\* (OfferLease, releaseLease).
THEOREM TypeCorrect == Spec => []TypeOK
BY Invariance, PTL DEF IInv

\* Some replicas of the service have given an agent no more than its room each.
LEMMA Shares ==
  ASSUME IInv, NEW a \in Agent, Room[a] > 0, NEW R \in SUBSET Replica
  PROVE  Cardinality({t \in HeldBy(a) : placer[t] \in R}) <= Room[a] * Cardinality(R)
<1> DEFINE Part(S) == {t \in HeldBy(a) : placer[t] \in S}
           Bounded(S) == Cardinality(Part(S)) <= Room[a] * Cardinality(S)
           Bad == {n \in Nat : \E S \in SUBSET Replica : Cardinality(S) = n /\ ~ Bounded(S)}
<1>1. \A S : Part(S) \in SUBSET Task /\ Cardinality(Part(S)) \in Nat
  <2>1. \A S : Part(S) \in SUBSET Task
    BY DEF HeldBy
  <2> HIDE DEF Part
  <2> QED BY <2>1, Finite
<1>2. \A S \in SUBSET Replica : IsFiniteSet(S) /\ Cardinality(S) \in Nat
  BY SchedulingConstants, FS_Subset, FS_CardinalityType
<1>3. Room[a] \in Nat
  BY SchedulingConstants
<1>4. SUFFICES ASSUME Bad # {} PROVE FALSE
  <2>1. ~ Bounded(R) => Cardinality(R) \in Bad
    BY <1>2
  <2> HIDE DEF Bad
  <2> QED BY <1>4, <2>1
<1>5. PICK n \in Bad : \A m \in Bad : n <= m
  <2>1. Bad \in SUBSET Nat
    OBVIOUS
  <2> HIDE DEF Bad
  <2> QED BY <1>4, <2>1, Least
<1>6. PICK S \in SUBSET Replica : Cardinality(S) = n /\ ~ Bounded(S)
  OBVIOUS
<1> HIDE DEF Part
<1>7. CASE S = {}
  <2>1. Part(S) = {}
    BY <1>7 DEF Part
  <2>2. Cardinality(Part(S)) = 0 /\ Cardinality(S) = 0
    <3>1. Cardinality({}) = 0
      BY FS_EmptySet
    <3> QED BY <1>7, <2>1, <3>1
  <2>3. Room[a] * 0 = 0
    BY <1>3
  <2> QED BY <1>6, <2>2, <2>3
<1>8. CASE S # {}
  <2>1. PICK r \in S : TRUE
    BY <1>8
  <2> DEFINE T == S \ {r}
  <2>2. T \in SUBSET Replica /\ Cardinality(T) = n - 1 /\ n \in Nat /\ n - 1 \in Nat
    <3>1. IsFiniteSet(S) /\ Cardinality(S) = n /\ n \in Nat /\ r \in S
      BY <1>2, <1>6, <2>1
    <3>2. Cardinality(T) = n - 1
      BY <3>1, FS_RemoveElement
    <3>3. T \in SUBSET Replica
      OBVIOUS
    <3>4. Cardinality(T) \in Nat
      BY <1>2, <3>3
    <3> QED BY <3>1, <3>2, <3>3, <3>4
  <2>3. Bounded(T)
    <3>1. n - 1 \notin Bad
      BY <1>5, <2>2
    <3> HIDE DEF T, Bounded
    <3> QED BY <2>2, <3>1
  <2>4. Cardinality(Part(T)) <= Room[a] * (n - 1)
    BY <2>2, <2>3
  <2>5. Cardinality(By(r, a)) <= Room[a] /\ Cardinality(By(r, a)) \in Nat /\ By(r, a) \in SUBSET Task
    <3>1. By(r, a) \in SUBSET Task
      BY DEF By, HeldBy
    <3> QED BY <2>1, <3>1, Finite DEF IInv, Capped
  <2>6. Part(S) = Part(T) \cup By(r, a)
    BY <2>1 DEF Part, By
  <2>7. Cardinality(Part(S)) <= Cardinality(Part(T)) + Cardinality(By(r, a))
    <3>1. IsFiniteSet(Part(T)) /\ IsFiniteSet(By(r, a)) /\ Part(T) \cap By(r, a) \in SUBSET Task
      BY <1>1, <2>5, Finite
    <3>2. Cardinality(Part(S)) = Cardinality(Part(T)) + Cardinality(By(r, a))
                                 - Cardinality(Part(T) \cap By(r, a))
      BY <2>6, <3>1, FS_Union
    <3>3. Cardinality(Part(T) \cap By(r, a)) \in Nat
      BY <3>1, Finite
    <3> HIDE DEF T
    <3> QED BY <1>1, <2>5, <3>2, <3>3
  <2>8. Room[a] * n = Room[a] * (n - 1) + Room[a] /\ Room[a] * (n - 1) \in Nat
    BY <1>3, <2>2
  <2>9. Cardinality(Part(S)) <= Room[a] * n
    <3> HIDE DEF T
    <3> QED BY <1>1, <1>3, <2>4, <2>5, <2>7, <2>8
  <2> QED BY <1>6, <2>9
<1> QED BY <1>7, <1>8

\* No replica by itself gives an agent more than it has room for, across passes, lease
\* ends and restarts (the local count of ScheduleOnce); replicas that read at the same
\* time exceed it together, by at most the agent's room each.
THEOREM ReplicasKeepToRoom == Spec => []ReplicaKeepsToRoom
<1>1. ASSUME IInv PROVE ReplicaKeepsToRoom
  <2> SUFFICES ASSUME NEW a \in Agent, Room[a] > 0
               PROVE  /\ \A r \in Replica : Cardinality({t \in HeldBy(a) : placer[t] = r}) <= Room[a]
                      /\ Cardinality(HeldBy(a)) <= Room[a] * Cardinality(Replica)
    BY DEF ReplicaKeepsToRoom
  <2>1. \A r \in Replica : Cardinality({t \in HeldBy(a) : placer[t] = r}) <= Room[a]
    BY <1>1 DEF IInv, Capped, By
  <2>2. HeldBy(a) = {t \in HeldBy(a) : placer[t] \in Replica}
    <3>1. a # NoOne
      BY SchedulingConstants
    <3> QED BY <1>1, <3>1 DEF IInv, TypeOK, Placed, HeldBy
  <2>3. Cardinality({t \in HeldBy(a) : placer[t] \in Replica}) <= Room[a] * Cardinality(Replica)
    BY <1>1, Shares
  <2> QED BY <2>1, <2>2, <2>3
<1> QED BY <1>1, Invariance, PTL

\* The task that an offer takes is the first of the pass, and the pass has tried in vain
\* whatever comes before it.
LEMMA OfferedFirst ==
  ASSUME IInv, NEW r \in Replica, NEW t \in Task, NEW u \in Task, Offer(r),
         state[t] = "READY", state'[t] = "LEASED",
         Before(u, t), u \notin pass[r].moved \cup Human, state[u] = "READY"
  PROVE  placer'[t] = r /\ Eligible(pass[r], u) = {}
<1> DEFINE p == pass[r]
           f == First(p.queue)
<1>1. p.at = "place" /\ p \in Pass /\ Complete(p) /\ p.queue # {} /\ p.queue \subseteq Task
  BY DEF Offer, IInv, Passes, PassOk, Pass
<1>2. PICK a : Move(f, "LEASED", a, r)
  BY DEF Offer
<1>3. f \in p.queue /\ \A v \in p.queue : ~ Before(v, f)
  BY <1>1, FirstFacts
<1> HIDE DEF f
<1>4. t = f /\ placer'[f] = r
  BY <1>1, <1>2, <1>3 DEF Move, IInv, TypeOK
<1>5. u \notin p.queue
  BY <1>3, <1>4
<1> QED BY <1>1, <1>3, <1>4, <1>5 DEF Complete

\* "A task of higher priority takes the room first": no pass offers an agent a task
\* while one that comes before it, that the pass found ready and that has not moved
\* since, could have had the agent (the order of DequeueReady and of the loop of
\* ScheduleOnce).
THEOREM PriorityIsKept == Spec => PriorityTakesRoomFirst
<1> DEFINE Kept ==
      \A r \in Replica, t, u \in Task :
       /\ state[t] = "READY" /\ state'[t] = "LEASED" /\ placer'[t] = r
       /\ Before(u, t) /\ u \notin pass[r].moved \cup Human /\ state[u] = "READY"
       => holder'[t] \notin Eligible(pass[r], u)
<1>1. ASSUME IInv, [Next]_vars PROVE Kept
  <2> SUFFICES ASSUME NEW r \in Replica, NEW t \in Task, NEW u \in Task,
                      state[t] = "READY", state'[t] = "LEASED", placer'[t] = r,
                      Before(u, t), u \notin pass[r].moved \cup Human, state[u] = "READY"
               PROVE  holder'[t] \notin Eligible(pass[r], u)
    OBVIOUS
  <2>1. \A q \in Replica : ~ ReadTasks(q) /\ ~ ReadAgents(q) /\ ~ Skip(q)
    BY DEF ReadTasks, ReadAgents, Skip, tasks
  <2>2. ASSUME NEW v \in Task PROVE ~ LeaseEnds(v) /\ ~ ReadyEnds(v)
    BY <1>1 DEF LeaseEnds, ReadyEnds, EndLease, Move, IInv, TypeOK
  <2>3. /\ ~ Tick /\ ~ ListSilent /\ ~ UNCHANGED vars
        /\ \A a \in Agent : /\ ~ RegisterAgent(a) /\ ~ HeartbeatAgent(a) /\ ~ AgentDies(a)
                            /\ ~ MarkAgentHealth(a)
    BY DEF Tick, ListSilent, RegisterAgent, HeartbeatAgent, AgentDies, MarkAgentHealth, vars, tasks
  <2>4. PICK q \in Replica : Offer(q)
    BY <1>1, <2>1, <2>2, <2>3 DEF Next, Step
  <2>5. q = r
    <3>1. PICK a : Move(First(pass[q].queue), "LEASED", a, q)
      BY <2>4 DEF Offer
    <3> QED BY <1>1, <3>1 DEF Move, IInv, TypeOK
  <2>6. Eligible(pass[r], u) = {}
    BY <1>1, <2>4, <2>5, OfferedFirst
  <2> QED BY <2>6
<1>2. IInv /\ [Next]_vars => [Kept]_vars
  BY <1>1
<1> QED BY <1>2, Invariance, PTL DEF Spec, PriorityTakesRoomFirst
=============================================================================
