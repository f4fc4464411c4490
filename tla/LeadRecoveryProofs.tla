------------------------- MODULE LeadRecoveryProofs -------------------------
(***************************************************************************)
(* Proofs about LeadRecovery, for any number of agents, children, leases,  *)
(* snapshots and calls under way: no result is lost to a lead, a successor *)
(* works on its predecessors' plan, and the plan only grows.               *)
(***************************************************************************)
EXTENDS LeadRecovery, TLAPS

Ingested == {c \in Child : inbox[c] = "ingested"}
Arrived == {c \in Child : inbox[c] # "none"}
Saves == {m \in calls : m.op = "save"}
Ingests == {m \in calls : m.op = "ingest"}

\* Results arrive when children finish; an agent without a process has read nothing.
Basics ==
  /\ \A c \in Child : child[c] = "done" <=> inbox[c] # "none"
  /\ \A a \in Agent : ~agent[a].up => agent[a].at = "plan"

\* Nobody claims a result that nobody took out of the inbox, and nobody knows of one
\* that has not arrived.
Sourced ==
  /\ plan.covers \subseteq Ingested
  /\ \A a \in Agent : agent[a].covers \subseteq Ingested /\ agent[a].known \subseteq Arrived
  /\ \A m \in Saves : m.covers \subseteq Ingested
  /\ \A m \in Ingests : m.item \in Arrived

\* Who has read a version of the plan, or sends a save that expects it, has all of it.
Current(version, covers) ==
  /\ version <= plan.version
  /\ version = plan.version => plan.covers \subseteq covers
Versions ==
  /\ plan.version = 0 => plan.covers = {}
  /\ \A a \in Agent : Current(agent[a].version, agent[a].covers)
  /\ \A m \in Saves : Current(m.expected, m.covers)

\* An agent that has read its context knows what its own calls under way are about,
\* those of its earlier processes included.
OwnCalls ==
  /\ \A m \in Saves : Ready(m.from) => m.covers \subseteq agent[m.from].covers
  /\ \A m \in Ingests : Ready(m.from) => m.item \in agent[m.from].known

\* NoResultIsForgotten and SuccessorOwnsThePlan, the latter from the first read on.
Taken ==
  \A a \in Agent : Ready(a) /\ Holds(a, agent[a].token) => Ingested \subseteq agent[a].known
Succeeded ==
  \A a \in Agent :
    agent[a].at # "plan" /\ Holds(a, agent[a].token) /\ plan.by < lead.token
      => agent[a].version = plan.version

IInv == TypeOK /\ Basics /\ Sourced /\ Versions /\ OwnCalls /\ Taken /\ Succeeded

-----------------------------------------------------------------------------
(* Auxiliary facts: the actions, field by field.                           *)

\* The bounds, one by one.
LEMMA BoundsAreNaturals == LeaseTTL \in Nat /\ MaxEpoch \in Nat /\ LeaseTTL > 0
  <1>1. MaxEpoch \in {MaxEpoch, MaxVersion, MaxCalls}
    OBVIOUS
  <1> QED
    BY <1>1, LeadBounds

\* The fields of a call and their types.
LEMMA CallFields ==
  ASSUME TypeOK, NEW m \in calls
  PROVE  /\ m.op \in {"save", "ingest"} /\ m.from \in Agent /\ m.token \in Nat
         /\ m.op = "save" => m.covers \in SUBSET Child /\ m.expected \in Nat
         /\ m.op = "ingest" => m.item \in Child
  BY DEF TypeOK, Call

\* The memory of agent a changes to r.
Memory(a, r) == agent' = [agent EXCEPT ![a] = r]

\* One agent changes what it knows; the others know what they knew.
LEMMA MemoryType ==
  ASSUME agent \in [Agent -> Local], NEW a \in Agent, NEW r \in Local, Memory(a, r)
  PROVE  agent' \in [Agent -> Local] /\ agent'[a] = r /\ \A b \in Agent \ {a} : agent'[b] = agent[b]
  BY DEF Memory

\* Every agent remembers what it did before, but for a.
Others(a) == agent' \in [Agent -> Local] /\ \A b \in Agent \ {a} : agent'[b] = agent[b]

\* A new lead knows its token and nothing else.
LEMMA StartEffect ==
  ASSUME TypeOK, NEW a \in Agent, Start(a)
  PROVE  /\ Others(a) /\ UNCHANGED <<child, inbox, plan, calls>>
         /\ lead.state = "READY" /\ lead.token < MaxEpoch
         /\ lead' = [state |-> "RUNNING", holder |-> a, token |-> lead.token + 1, left |-> LeaseTTL]
         /\ agent'[a].at = "plan" /\ agent'[a].up
         /\ agent'[a].covers = {} /\ agent'[a].known = {} /\ agent'[a].version = 0
  <1> DEFINE r == [Down EXCEPT !.up = TRUE, !.token = lead.token + 1]
  <1>1. lead.token + 1 \in Nat
    BY BoundsAreNaturals DEF TypeOK
  <1>2. /\ r \in Local /\ r.at = "plan" /\ r.up
        /\ r.covers = {} /\ r.known = {} /\ r.version = 0
    BY <1>1 DEF Local, Down
  <1>3. Memory(a, r) /\ agent \in [Agent -> Local]
    BY DEF Start, Memory, TypeOK
  <1> HIDE DEF r
  <1>4. Others(a) /\ agent'[a] = r
    BY <1>2, <1>3, MemoryType DEF Others
  <1>5. /\ UNCHANGED <<child, inbox, plan, calls>> /\ lead.state = "READY" /\ lead.token < MaxEpoch
        /\ lead' = [state |-> "RUNNING", holder |-> a, token |-> lead.token + 1, left |-> LeaseTTL]
    BY DEF Start
  <1> QED
    BY <1>2, <1>4, <1>5

\* The first half of GetLeadContext: the snapshot.
LEMMA ReadPlanEffect ==
  ASSUME TypeOK, NEW a \in Agent, ReadPlan(a)
  PROVE  /\ Others(a) /\ UNCHANGED <<lead, child, inbox, plan, calls>>
         /\ agent[a].up /\ agent'[a].up /\ agent'[a].token = agent[a].token
         /\ agent'[a].at = "inbox" /\ agent'[a].version = plan.version
         /\ agent'[a].covers = agent[a].covers \cup plan.covers
         /\ agent'[a].known = agent[a].known \cup plan.covers
  <1> DEFINE r == [agent[a] EXCEPT !.at = "inbox", !.version = plan.version,
                             !.covers = @ \cup plan.covers, !.known = @ \cup plan.covers]
  <1>1. agent[a] \in Local /\ plan \in Plan
    BY DEF TypeOK
  <1>2. /\ r \in Local /\ r.up = agent[a].up /\ r.token = agent[a].token
        /\ r.at = "inbox" /\ r.version = plan.version
        /\ r.covers = agent[a].covers \cup plan.covers /\ r.known = agent[a].known \cup plan.covers
    BY <1>1 DEF Local, Plan
  <1>3. Memory(a, r)
    BY DEF ReadPlan, Memory
  <1> HIDE DEF r
  <1> QED
    BY <1>2, <1>3, MemoryType DEF ReadPlan, Others, TypeOK

\* The second half of GetLeadContext: the inbox.
LEMMA ReadInboxEffect ==
  ASSUME TypeOK, NEW a \in Agent, ReadInbox(a)
  PROVE  /\ Others(a) /\ UNCHANGED <<lead, child, inbox, plan, calls>>
         /\ agent[a].up /\ agent[a].at = "inbox" /\ agent'[a].up /\ agent'[a].at = "ready"
         /\ agent'[a].token = agent[a].token /\ agent'[a].version = agent[a].version
         /\ agent'[a].covers = agent[a].covers \cup Ingested
         /\ agent'[a].known = agent[a].known \cup Arrived
  <1> DEFINE r == [agent[a] EXCEPT !.at = "ready", !.known = @ \cup Arrived, !.covers = @ \cup Ingested]
  <1>1. agent[a] \in Local /\ Arrived \subseteq Child /\ Ingested \subseteq Child
    BY DEF TypeOK, Arrived, Ingested
  <1>2. /\ r \in Local /\ r.up = agent[a].up /\ r.token = agent[a].token
        /\ r.at = "ready" /\ r.version = agent[a].version
        /\ r.covers = agent[a].covers \cup Ingested /\ r.known = agent[a].known \cup Arrived
    BY <1>1 DEF Local
  <1>3. Memory(a, r)
    BY DEF ReadInbox, Memory, Arrived, Ingested
  <1> HIDE DEF r
  <1> QED
    BY <1>2, <1>3, MemoryType DEF ReadInbox, Others, TypeOK

\* Reading again and restarting keep everything but `at' and `up'; a crash keeps the token.
LEMMA ForgetEffect ==
  ASSUME TypeOK, Basics, NEW a \in Agent, ReadAgain(a) \/ AgentCrash(a) \/ AgentRestart(a)
  PROVE  /\ Others(a) /\ UNCHANGED <<lead, child, inbox, plan, calls>>
         /\ agent'[a].at = "plan" /\ agent'[a].token = agent[a].token
         /\ \/ /\ agent'[a].covers = agent[a].covers /\ agent'[a].known = agent[a].known
               /\ agent'[a].version = agent[a].version
            \/ agent'[a].covers = {} /\ agent'[a].known = {} /\ agent'[a].version = 0
  <1>1. agent[a] \in Local
    BY DEF TypeOK
  <1>2. CASE ReadAgain(a)
    <2> DEFINE r == [agent[a] EXCEPT !.at = "plan"]
    <2>1. /\ r \in Local /\ r.at = "plan" /\ r.token = agent[a].token
          /\ r.covers = agent[a].covers /\ r.known = agent[a].known /\ r.version = agent[a].version
      BY <1>1 DEF Local
    <2>2. Memory(a, r)
      BY <1>2 DEF ReadAgain, Memory
    <2> HIDE DEF r
    <2> QED
      BY <1>2, <2>1, <2>2, MemoryType DEF ReadAgain, Others, TypeOK
  <1>3. CASE AgentCrash(a)
    <2> DEFINE r == [Down EXCEPT !.token = agent[a].token]
    <2>1. /\ r \in Local /\ r.at = "plan" /\ r.token = agent[a].token
          /\ r.covers = {} /\ r.known = {} /\ r.version = 0
      BY <1>1 DEF Local, Down
    <2>2. Memory(a, r)
      BY <1>3 DEF AgentCrash, Memory
    <2> HIDE DEF r
    <2> QED
      BY <1>3, <2>1, <2>2, MemoryType DEF AgentCrash, Others, TypeOK
  <1>4. CASE AgentRestart(a)
    <2> DEFINE r == [agent[a] EXCEPT !.up = TRUE]
    <2>1. /\ r \in Local /\ r.at = agent[a].at /\ r.token = agent[a].token
          /\ r.covers = agent[a].covers /\ r.known = agent[a].known /\ r.version = agent[a].version
      BY <1>1 DEF Local
    <2>2. Memory(a, r) /\ agent \in [Agent -> Local]
      BY <1>4 DEF AgentRestart, Memory, TypeOK
    <2> HIDE DEF r
    <2>3. Others(a) /\ agent'[a] = r
      BY <2>1, <2>2, MemoryType DEF Others
    <2>4. agent[a].at = "plan" /\ UNCHANGED <<lead, child, inbox, plan, calls>>
      BY <1>4 DEF AgentRestart, Basics
    <2> QED
      BY <2>1, <2>3, <2>4
  <1> QED
    BY <1>2, <1>3, <1>4

\* What a save that is let through does (SaveLeadSnapshot), and what any save leaves alone.
LEMMA SaveEffect ==
  ASSUME TypeOK, NEW m \in calls, SaveLeadSnapshot(m)
  PROVE  /\ m \in Saves /\ m.from \in Agent /\ UNCHANGED <<child, inbox>> /\ calls' \subseteq calls
         /\ Others(m.from) /\ m.covers \in SUBSET Child /\ m.token \in Nat
         /\ agent'[m.from].up = agent[m.from].up /\ agent'[m.from].at = agent[m.from].at
         /\ agent'[m.from].covers = agent[m.from].covers
         /\ agent'[m.from].known = agent[m.from].known
         /\ agent'[m.from].token = agent[m.from].token
         /\ \/ UNCHANGED <<lead, plan, agent>>
            \/ /\ Owned(m) /\ plan.version = m.expected
               /\ plan' = [version |-> plan.version + 1, covers |-> m.covers, by |-> m.token]
               /\ lead' = [lead EXCEPT !.left = LeaseTTL]
               /\ \/ UNCHANGED agent
                  \/ Ready(m.from) /\ agent'[m.from].version = plan.version + 1
  <1>1. m \in Saves /\ m.from \in Agent /\ m.covers \in SUBSET Child /\ m.token \in Nat
    BY CallFields DEF SaveLeadSnapshot, Saves
  <1>2. UNCHANGED <<child, inbox>> /\ calls' \subseteq calls
    BY DEF SaveLeadSnapshot, Done
  <1>3. agent[m.from] \in Local /\ plan.version + 1 \in Nat
    BY <1>1 DEF TypeOK, Plan
  <1>4. CASE UNCHANGED agent
    BY <1>1, <1>2, <1>4 DEF SaveLeadSnapshot, Store, Others, TypeOK
  <1>5. CASE agent' # agent
    <2> DEFINE r == [agent[m.from] EXCEPT !.version = plan.version + 1]
    <2>1. /\ r \in Local /\ r.up = agent[m.from].up /\ r.at = agent[m.from].at
          /\ r.covers = agent[m.from].covers /\ r.known = agent[m.from].known
          /\ r.token = agent[m.from].token /\ r.version = plan.version + 1
      BY <1>3 DEF Local
    <2>2. /\ Memory(m.from, r) /\ Ready(m.from) /\ Owned(m) /\ plan.version = m.expected
          /\ plan' = [version |-> plan.version + 1, covers |-> m.covers, by |-> m.token]
          /\ lead' = [lead EXCEPT !.left = LeaseTTL]
      BY <1>5 DEF SaveLeadSnapshot, Store, Memory
    <2> HIDE DEF r
    <2> QED
      BY <1>1, <1>2, <2>1, <2>2, MemoryType DEF Others, TypeOK
  <1> QED
    BY <1>4, <1>5

\* What the delivery of an ingestion does (IngestLeadInbox).
LEMMA IngestEffect ==
  ASSUME TypeOK, NEW m \in calls, IngestLeadInbox(m)
  PROVE  /\ m \in Ingests /\ m.from \in Agent /\ m.item \in Child
         /\ UNCHANGED <<lead, child, plan>> /\ calls' \subseteq calls
         /\ Others(m.from)
         /\ agent'[m.from].up = agent[m.from].up /\ agent'[m.from].at = agent[m.from].at
         /\ agent'[m.from].version = agent[m.from].version
         /\ agent'[m.from].known = agent[m.from].known
         /\ agent'[m.from].token = agent[m.from].token
         /\ \/ UNCHANGED <<inbox, agent>>
            \/ /\ Owned(m) /\ inbox[m.item] = "pending"
               /\ inbox' = [inbox EXCEPT ![m.item] = "ingested"]
               /\ \/ UNCHANGED agent
                  \/ /\ Ready(m.from)
                     /\ agent'[m.from].covers = agent[m.from].covers \cup {m.item}
  <1>1. m \in Ingests /\ m.from \in Agent /\ m.item \in Child
    BY CallFields DEF IngestLeadInbox, Ingests
  <1>2. UNCHANGED <<lead, child, plan>> /\ calls' \subseteq calls
    BY DEF IngestLeadInbox, Done
  <1>3. agent[m.from] \in Local
    BY <1>1 DEF TypeOK
  <1>4. CASE UNCHANGED agent
    BY <1>1, <1>2, <1>4 DEF IngestLeadInbox, Others, TypeOK
  <1>5. CASE agent' # agent
    <2> DEFINE r == [agent[m.from] EXCEPT !.covers = @ \cup {m.item}]
    <2>1. /\ r \in Local /\ r.up = agent[m.from].up /\ r.at = agent[m.from].at
          /\ r.version = agent[m.from].version /\ r.known = agent[m.from].known
          /\ r.token = agent[m.from].token /\ r.covers = agent[m.from].covers \cup {m.item}
      BY <1>1, <1>3 DEF Local
    <2>2. /\ Memory(m.from, r) /\ Ready(m.from) /\ Owned(m) /\ inbox[m.item] = "pending"
          /\ inbox' = [inbox EXCEPT ![m.item] = "ingested"]
      BY <1>5 DEF IngestLeadInbox, Memory
    <2> HIDE DEF r
    <2> QED
      BY <1>1, <1>2, <2>1, <2>2, MemoryType DEF Others, TypeOK
  <1> QED
    BY <1>4, <1>5

-----------------------------------------------------------------------------
(* Types and the initial states.                                           *)

\* The initial states satisfy the invariant.
LEMMA InitIInv == Init => IInv
  <1> SUFFICES ASSUME Init PROVE IInv
    OBVIOUS
  <1> USE BoundsAreNaturals, LeadNobody DEF Init, Down
  <1>1. TypeOK
    BY DEF TypeOK, Plan, Local, Call
  <1>2. Basics /\ Sourced
    BY DEF Basics, Sourced, Ingested, Arrived, Saves, Ingests
  <1>3. Versions /\ OwnCalls
    BY DEF Versions, Current, OwnCalls, Saves, Ingests
  <1>4. Taken /\ Succeeded
    BY DEF Taken, Succeeded, Ready, Holds
  <1> QED
    BY <1>1, <1>2, <1>3, <1>4 DEF IInv

LeadType ==
  /\ lead \in [state : {"READY", "RUNNING", "OVER"}, holder : Agent \cup {None},
               token : 0..MaxEpoch, left : 0..LeaseTTL]
  /\ lead.state = "RUNNING" <=> lead.holder # None

\* The lease moves on, is taken away or is renewed, and nothing else changes.
LEMMA LeaseEffect ==
  ASSUME LeadType, Tick \/ TakeoverStaleLeads \/ EndLead \/ (\E a \in Agent : Progress(a))
                   \/ lead' = [lead EXCEPT !.left = LeaseTTL]
  PROVE  /\ LeadType' /\ lead'.token = lead.token
         /\ lead'.state = "RUNNING" => lead.state = "RUNNING" /\ lead'.holder = lead.holder
  <1> USE BoundsAreNaturals, LeadNobody DEF LeadType
  <1>1. CASE lead' = [lead EXCEPT !.left = LeaseTTL]
    BY <1>1
  <1>2. CASE Tick
    <2>1. lead.left - 1 \in 0..LeaseTTL
      BY <1>2 DEF Tick
    <2> QED
      BY <1>2, <2>1 DEF Tick
  <1>3. CASE TakeoverStaleLeads
    BY <1>3 DEF TakeoverStaleLeads
  <1>4. CASE EndLead
    <2>1. lead'.state = "OVER" /\ lead'.holder = None /\ lead'.left = 0 /\ lead'.token = lead.token
      BY <1>4 DEF EndLead
    <2>2. lead' \in [state : {"READY", "RUNNING", "OVER"}, holder : Agent \cup {None},
                    token : 0..MaxEpoch, left : 0..LeaseTTL]
      <3>1. 0 \in 0..LeaseTTL
        OBVIOUS
      <3> QED
        BY <1>4, <3>1 DEF EndLead
    <2> QED
      BY <2>1, <2>2
  <1> QED
    BY <1>1, <1>2, <1>3, <1>4 DEF Progress

\* Every step keeps the types.
LEMMA TypeStep == TypeOK /\ Basics /\ [Next]_vars => TypeOK'
  <1> SUFFICES ASSUME TypeOK, Basics, [Next]_vars PROVE TypeOK'
    OBVIOUS
  <1>0. LeadType
    BY DEF TypeOK, LeadType
  <1>1. CASE UNCHANGED vars
    BY <1>1 DEF vars, TypeOK
  <1>2. CASE Tick \/ TakeoverStaleLeads \/ EndLead \/ (\E a \in Agent : Progress(a))
    <2>1. UNCHANGED <<child, inbox, plan, agent, calls>>
      BY <1>2 DEF Tick, TakeoverStaleLeads, EndLead, Progress
    <2> QED
      BY <1>0, <1>2, <2>1, LeaseEffect DEF TypeOK, LeadType
  <1>3. ASSUME NEW c \in Child, CompleteChild(c) PROVE TypeOK'
    BY <1>3 DEF CompleteChild, TypeOK
  <1>4. ASSUME NEW a \in Agent, Start(a) PROVE TypeOK'
    <2>1. LeadType'
      <3>1. lead.token + 1 \in 0..MaxEpoch
        BY <1>4, BoundsAreNaturals, StartEffect DEF TypeOK
      <3> QED
        BY <1>4, <3>1, BoundsAreNaturals, LeadNobody, StartEffect DEF LeadType
    <2> QED
      BY <1>4, <2>1, StartEffect DEF TypeOK, LeadType, Others
  <1>5. ASSUME NEW a \in Agent, ReadPlan(a) \/ ReadInbox(a) PROVE TypeOK'
    BY <1>5, ReadPlanEffect, ReadInboxEffect DEF TypeOK, Others
  <1>6. ASSUME NEW a \in Agent, ReadAgain(a) \/ AgentCrash(a) \/ AgentRestart(a) PROVE TypeOK'
    BY <1>6, ForgetEffect DEF TypeOK, Others
  <1>7. ASSUME NEW a \in Agent, SendSave(a) PROVE TypeOK'
    BY <1>7 DEF SendSave, Send, Call, Local, TypeOK
  <1>8. ASSUME NEW a \in Agent, NEW c \in Child, Delegate(a, c) \/ SendIngest(a, c) PROVE TypeOK'
    BY <1>8 DEF Delegate, SendIngest, Send, Call, Local, TypeOK
  <1>9. ASSUME NEW m \in calls, IngestLeadInbox(m) PROVE TypeOK'
    BY <1>9, IngestEffect DEF TypeOK, Others
  <1>10. ASSUME NEW m \in calls, SaveLeadSnapshot(m) PROVE TypeOK'
    <2>1. LeadType'
      BY <1>0, <1>10, LeaseEffect, SaveEffect DEF LeadType
    <2>2. plan' \in Plan
      BY <1>10, SaveEffect DEF Plan, TypeOK
    <2> QED
      BY <1>10, <2>1, <2>2, SaveEffect DEF TypeOK, LeadType, Others
  <1>11. ASSUME NEW m \in calls, Lose(m) PROVE TypeOK'
    BY <1>11 DEF Lose, TypeOK
  <1> QED
    BY <1>1, <1>2, <1>3, <1>4, <1>5, <1>6, <1>7, <1>8, <1>9, <1>10, <1>11 DEF Next

-----------------------------------------------------------------------------
(* Results, from the inbox to the agents.                                  *)

\* A child is done exactly when its result has arrived.
LEMMA BasicsStep == IInv /\ [Next]_vars => Basics'
  <1> SUFFICES ASSUME TypeOK, Basics, [Next]_vars PROVE Basics'
    BY DEF IInv
  <1> USE DEF Basics
  <1>1. CASE UNCHANGED <<child, inbox, agent>>
    BY <1>1
  <1>2. ASSUME NEW c \in Child, CompleteChild(c) PROVE Basics'
    BY <1>2 DEF CompleteChild, TypeOK
  <1>4. ASSUME NEW a \in Agent, NEW c \in Child, Delegate(a, c) PROVE Basics'
    BY <1>4 DEF Delegate, TypeOK
  <1>5. ASSUME NEW a \in Agent, Start(a) \/ ReadPlan(a) \/ ReadInbox(a) PROVE Basics'
    BY <1>5, StartEffect, ReadPlanEffect, ReadInboxEffect DEF Others
  <1>6. ASSUME NEW a \in Agent, ReadAgain(a) \/ AgentCrash(a) \/ AgentRestart(a) PROVE Basics'
    BY <1>6, ForgetEffect DEF Others
  <1>7. ASSUME NEW m \in calls, IngestLeadInbox(m) PROVE Basics'
    BY <1>7, IngestEffect DEF Others, TypeOK
  <1>8. ASSUME NEW m \in calls, SaveLeadSnapshot(m) PROVE Basics'
    BY <1>8, SaveEffect DEF Others
  <1> QED
    BY <1>1, <1>2, <1>4, <1>5, <1>6, <1>7, <1>8
       DEF Next, vars, Tick, TakeoverStaleLeads, EndLead, Progress, SendSave, SendIngest, Lose

\* What has arrived stays, and what was taken out stays taken out.
LEMMA InboxGrows == IInv /\ [Next]_vars => Ingested \subseteq Ingested' /\ Arrived \subseteq Arrived'
  <1> SUFFICES ASSUME TypeOK, Basics, [Next]_vars
               PROVE  Ingested \subseteq Ingested' /\ Arrived \subseteq Arrived'
    BY DEF IInv
  <1> USE DEF TypeOK, Ingested, Arrived
  <1>1. ASSUME NEW c \in Child, CompleteChild(c)
        PROVE  Ingested \subseteq Ingested' /\ Arrived \subseteq Arrived'
    BY <1>1 DEF CompleteChild, Basics
  <1>2. ASSUME NEW m \in calls, IngestLeadInbox(m)
        PROVE  Ingested \subseteq Ingested' /\ Arrived \subseteq Arrived'
    BY <1>2, IngestEffect
  <1>3. CASE UNCHANGED inbox
    BY <1>3
  <1> QED
    BY <1>1, <1>2, <1>3 DEF Next, vars, Tick, TakeoverStaleLeads, EndLead, Start, Progress, SendSave,
       ReadPlan, ReadInbox, ReadAgain, AgentCrash, AgentRestart, Delegate, SendIngest,
       SaveLeadSnapshot, Lose

\* Results come from the inbox, whatever way they reach an agent or the plan.
LEMMA SourcedStep == IInv /\ [Next]_vars => Sourced'
  <1> SUFFICES ASSUME TypeOK, Basics, Sourced, IInv, [Next]_vars PROVE Sourced'
    BY DEF IInv
  <1>0. Ingested \subseteq Ingested' /\ Arrived \subseteq Arrived' /\ Ingested \subseteq Arrived
    BY InboxGrows DEF Ingested, Arrived
  <1> USE <1>0 DEF Sourced, Saves, Ingests
  <1>1. CASE UNCHANGED <<plan, agent, calls>>
    BY <1>1
  <1>2. ASSUME NEW a \in Agent, Start(a) PROVE Sourced'
    BY <1>2, StartEffect DEF Others
  <1>3. ASSUME NEW a \in Agent, ReadAgain(a) \/ AgentCrash(a) \/ AgentRestart(a) PROVE Sourced'
    BY <1>3, ForgetEffect DEF Others
  <1>4. ASSUME NEW a \in Agent, ReadPlan(a) PROVE Sourced'
    BY <1>4, ReadPlanEffect DEF Others
  <1>5. ASSUME NEW a \in Agent, ReadInbox(a) PROVE Sourced'
    BY <1>5, ReadInboxEffect DEF Others
  <1>6. ASSUME NEW a \in Agent, SendSave(a) PROVE Sourced'
    BY <1>6 DEF SendSave, Send
  <1>7. ASSUME NEW a \in Agent, NEW c \in Child, SendIngest(a, c) PROVE Sourced'
    BY <1>7 DEF SendIngest, Send
  <1>8. ASSUME NEW m \in calls, IngestLeadInbox(m) PROVE Sourced'
    <2>1. agent'[m.from].covers \subseteq Ingested'
      <3>1. CASE UNCHANGED agent
        BY <1>8, <3>1, IngestEffect
      <3>2. CASE /\ inbox' = [inbox EXCEPT ![m.item] = "ingested"]
                 /\ agent'[m.from].covers = agent[m.from].covers \cup {m.item}
        <4>1. m.item \in Ingested'
          BY <1>8, <3>2, IngestEffect DEF Ingested, TypeOK
        <4> QED
          BY <1>8, <3>2, <4>1, IngestEffect
      <3> QED
        BY <1>8, <3>1, <3>2, IngestEffect
    <2> QED
      BY <1>8, <2>1, IngestEffect DEF Others
  <1>9. ASSUME NEW m \in calls, SaveLeadSnapshot(m) PROVE Sourced'
    <2>1. plan'.covers \subseteq Ingested'
      BY <1>9, SaveEffect
    <2> QED
      BY <1>9, <2>1, SaveEffect DEF Others
  <1>10. ASSUME NEW m \in calls, Lose(m) PROVE Sourced'
    BY <1>10 DEF Lose
  <1> QED
    BY <1>1, <1>2, <1>3, <1>4, <1>5, <1>6, <1>7, <1>8, <1>9, <1>10
       DEF Next, vars, Tick, TakeoverStaleLeads, EndLead, CompleteChild, Progress, Delegate

-----------------------------------------------------------------------------
(* Versions of the plan.                                                   *)

\* A version of the plan, once replaced, is never the current one again.
LEMMA VersionsStep == IInv /\ [Next]_vars => Versions'
  <1> SUFFICES ASSUME TypeOK, Basics, Versions, OwnCalls, [Next]_vars PROVE Versions'
    BY DEF IInv
  <1>0. /\ plan.version \in Nat
        /\ \A a \in Agent : agent[a].version \in Nat
        /\ \A m \in Saves : m.expected \in Nat /\ m.from \in Agent
    BY CallFields DEF TypeOK, Plan, Local, Saves
  <1> USE DEF Versions, Current
  <1>1. CASE UNCHANGED <<plan, agent, calls>>
    BY <1>1 DEF Saves
  <1>2. ASSUME NEW a \in Agent, Start(a) PROVE Versions'
    BY <1>0, <1>2, StartEffect DEF Others, Saves
  <1>3. ASSUME NEW a \in Agent, ReadAgain(a) \/ AgentCrash(a) \/ AgentRestart(a) PROVE Versions'
    BY <1>0, <1>3, ForgetEffect DEF Others, Saves
  <1>4. ASSUME NEW a \in Agent, ReadPlan(a) PROVE Versions'
    BY <1>0, <1>4, ReadPlanEffect DEF Others, Saves
  <1>5. ASSUME NEW a \in Agent, ReadInbox(a) PROVE Versions'
    BY <1>5, ReadInboxEffect DEF Others, Saves
  <1>6. ASSUME NEW a \in Agent, SendSave(a) PROVE Versions'
    BY <1>6 DEF SendSave, Send, Saves
  <1>7. ASSUME NEW a \in Agent, NEW c \in Child, SendIngest(a, c) PROVE Versions'
    BY <1>7 DEF SendIngest, Send, Saves
  <1>8. ASSUME NEW m \in calls, IngestLeadInbox(m) PROVE Versions'
    <2>1. agent[m.from].covers \subseteq agent'[m.from].covers
      BY <1>8, IngestEffect
    <2> QED
      BY <1>8, <2>1, IngestEffect DEF Others, Saves
  <1>9. ASSUME NEW m \in calls, SaveLeadSnapshot(m) PROVE Versions'
    <2>1. CASE UNCHANGED <<plan, agent>>
      BY <1>9, <2>1, SaveEffect DEF Saves
    <2>2. CASE /\ plan' = [version |-> plan.version + 1, covers |-> m.covers, by |-> m.token]
               /\ UNCHANGED agent \/ (Ready(m.from) /\ agent'[m.from].version = plan.version + 1)
      <3>1. plan'.version = plan.version + 1 /\ plan'.covers = m.covers
        BY <2>2
      <3>2. \A a \in Agent \ {m.from} : Current(agent[a].version, agent[a].covers)'
        BY <1>0, <1>9, <3>1, SaveEffect DEF Others
      <3>3. Current(agent[m.from].version, agent[m.from].covers)'
        <4>1. CASE UNCHANGED agent
          BY <1>0, <1>9, <3>1, <4>1, SaveEffect
        <4>2. CASE Ready(m.from) /\ agent'[m.from].version = plan.version + 1
          BY <1>0, <1>9, <3>1, <4>2, SaveEffect DEF OwnCalls
        <4> QED
          BY <2>2, <4>1, <4>2
      <3>4. \A k \in Saves' : Current(k.expected, k.covers)'
        BY <1>0, <1>9, <3>1, SaveEffect DEF Saves
      <3> QED
        BY <1>0, <3>1, <3>2, <3>3, <3>4
    <2> QED
      BY <1>9, <2>1, <2>2, SaveEffect
  <1>10. ASSUME NEW m \in calls, Lose(m) PROVE Versions'
    BY <1>10 DEF Lose, Saves
  <1> QED
    BY <1>1, <1>2, <1>3, <1>4, <1>5, <1>6, <1>7, <1>8, <1>9, <1>10
       DEF Next, vars, Tick, TakeoverStaleLeads, EndLead, CompleteChild, Progress, Delegate

\* No step takes a result out of the plan: a save that is let through was made by
\* someone who had all of the version it replaces.
LEMMA PlanGrowsStep == IInv /\ [Next]_vars => plan.covers \subseteq plan'.covers
  <1> SUFFICES ASSUME TypeOK, Versions, Basics, [Next]_vars PROVE plan.covers \subseteq plan'.covers
    BY DEF IInv
  <1>1. CASE UNCHANGED plan
    BY <1>1
  <1>2. ASSUME NEW m \in calls, SaveLeadSnapshot(m) PROVE plan.covers \subseteq plan'.covers
    BY <1>2, SaveEffect DEF Versions, Current
  <1> QED
    BY <1>1, <1>2
       DEF Next, vars, Tick, TakeoverStaleLeads, EndLead, CompleteChild, Start, Progress, SendSave,
           ReadPlan, ReadInbox, ReadAgain, AgentCrash, AgentRestart, Delegate, SendIngest,
           IngestLeadInbox, Lose

-----------------------------------------------------------------------------
(* Calls under way, and what the holder of the lease knows.                *)

\* Reading the inbox again teaches an agent what its earlier calls were about.
LEMMA OwnCallsStep == IInv /\ [Next]_vars => OwnCalls'
  <1> SUFFICES ASSUME TypeOK, Basics, Sourced, OwnCalls, [Next]_vars PROVE OwnCalls'
    BY DEF IInv
  <1>0. \A m \in calls : m.from \in Agent
    BY CallFields
  <1> USE <1>0 DEF OwnCalls, Ready, Saves, Ingests
  <1>1. CASE UNCHANGED <<agent, calls>>
    BY <1>1
  <1>2. ASSUME NEW a \in Agent, Start(a) PROVE OwnCalls'
    BY <1>2, StartEffect DEF Others
  <1>3. ASSUME NEW a \in Agent, ReadAgain(a) \/ AgentCrash(a) \/ AgentRestart(a) PROVE OwnCalls'
    BY <1>3, ForgetEffect DEF Others
  <1>4. ASSUME NEW a \in Agent, ReadPlan(a) PROVE OwnCalls'
    BY <1>4, ReadPlanEffect DEF Others
  <1>5. ASSUME NEW a \in Agent, ReadInbox(a) PROVE OwnCalls'
    BY <1>5, ReadInboxEffect DEF Others, Sourced
  <1>6. ASSUME NEW a \in Agent, SendSave(a) PROVE OwnCalls'
    BY <1>6 DEF SendSave, Send
  <1>7. ASSUME NEW a \in Agent, NEW c \in Child, SendIngest(a, c) PROVE OwnCalls'
    BY <1>7 DEF SendIngest, Send
  <1>8. ASSUME NEW m \in calls, IngestLeadInbox(m) PROVE OwnCalls'
    <2>1. agent[m.from].covers \subseteq agent'[m.from].covers
      BY <1>8, IngestEffect
    <2> QED
      BY <1>8, <2>1, IngestEffect DEF Others
  <1>9. ASSUME NEW m \in calls, SaveLeadSnapshot(m) PROVE OwnCalls'
    BY <1>9, SaveEffect DEF Others
  <1>10. ASSUME NEW m \in calls, Lose(m) PROVE OwnCalls'
    BY <1>10 DEF Lose
  <1> QED
    BY <1>1, <1>2, <1>3, <1>4, <1>5, <1>6, <1>7, <1>8, <1>9, <1>10
       DEF Next, vars, Tick, TakeoverStaleLeads, EndLead, CompleteChild, Progress, Delegate

\* Whoever holds the lead after the lease has moved on held it before.
LEMMA HolderStays ==
  ASSUME TypeOK, NEW a \in Agent, NEW t,
         Tick \/ TakeoverStaleLeads \/ EndLead \/ (\E b \in Agent : Progress(b))
         \/ lead' = [lead EXCEPT !.left = LeaseTTL],
         lead'.state = "RUNNING" /\ lead'.holder = a /\ lead'.token = t
  PROVE  Holds(a, t) /\ lead'.token = lead.token
  <1>1. LeadType
    BY DEF TypeOK, LeadType
  <1> QED
    BY <1>1, LeaseEffect DEF Holds

\* Only the holder of the lease takes results out, and only those it knows.
LEMMA TakenStep == IInv /\ [Next]_vars => Taken'
  <1> SUFFICES ASSUME TypeOK, Basics, OwnCalls, Taken, [Next]_vars,
                      NEW a \in Agent, Ready(a)', Holds(a, agent[a].token)'
               PROVE  (Ingested \subseteq agent[a].known)'
    BY DEF IInv, Taken
  <1> USE DEF Ready, Holds
  <1>1. CASE UNCHANGED <<lead, agent, inbox>>
    BY <1>1 DEF Taken, Ingested
  <1>2. CASE Tick \/ TakeoverStaleLeads \/ EndLead \/ (\E b \in Agent : Progress(b))
    <2>1. UNCHANGED <<agent, inbox>>
      BY <1>2 DEF Tick, TakeoverStaleLeads, EndLead, Progress
    <2>2. Holds(a, agent[a].token)
      BY <1>2, <2>1, HolderStays
    <2> QED
      BY <2>1, <2>2 DEF Taken, Ingested
  <1>3. ASSUME NEW c \in Child, CompleteChild(c) PROVE (Ingested \subseteq agent[a].known)'
    BY <1>3 DEF CompleteChild, Basics, TypeOK, Taken, Ingested
  <1>4. ASSUME NEW b \in Agent, Start(b) PROVE (Ingested \subseteq agent[a].known)'
    BY <1>4, StartEffect
  <1>5. ASSUME NEW b \in Agent, ReadPlan(b) PROVE (Ingested \subseteq agent[a].known)'
    BY <1>5, ReadPlanEffect DEF Others, Taken, Ingested
  <1>6. ASSUME NEW b \in Agent, ReadInbox(b) PROVE (Ingested \subseteq agent[a].known)'
    BY <1>6, ReadInboxEffect DEF Others, Taken, Ingested, Arrived
  <1>7. ASSUME NEW b \in Agent, ReadAgain(b) \/ AgentCrash(b) \/ AgentRestart(b)
        PROVE  (Ingested \subseteq agent[a].known)'
    BY <1>7, ForgetEffect DEF Others, Taken, Ingested
  <1>8. ASSUME NEW m \in calls, IngestLeadInbox(m) PROVE (Ingested \subseteq agent[a].known)'
    <2>1. /\ agent'[a].known = agent[a].known /\ agent'[a].token = agent[a].token
          /\ Ready(a) /\ Holds(a, agent[a].token)
      BY <1>8, IngestEffect DEF Others
    <2>2. CASE UNCHANGED inbox
      BY <2>1, <2>2 DEF Taken, Ingested
    <2>3. CASE Owned(m) /\ inbox' = [inbox EXCEPT ![m.item] = "ingested"]
      <3>1. m \in Ingests /\ m.from = a
        BY <1>8, <2>1, <2>3, IngestEffect DEF Owned
      <3>2. m.item \in agent[a].known
        BY <2>1, <3>1 DEF OwnCalls
      <3>3. Ingested' \subseteq Ingested \cup {m.item}
        BY <2>3 DEF Ingested, TypeOK
      <3> QED
        BY <2>1, <3>2, <3>3 DEF Taken
    <2> QED
      BY <1>8, <2>2, <2>3, IngestEffect
  <1>9. ASSUME NEW m \in calls, SaveLeadSnapshot(m) PROVE (Ingested \subseteq agent[a].known)'
    <2>1. /\ agent'[a].known = agent[a].known /\ agent'[a].token = agent[a].token
          /\ Ready(a) /\ UNCHANGED inbox
      BY <1>9, SaveEffect DEF Others
    <2>2. Holds(a, agent[a].token)
      BY <1>9, <2>1, HolderStays, SaveEffect
    <2> QED
      BY <2>1, <2>2 DEF Taken, Ingested
  <1> QED
    BY <1>1, <1>2, <1>3, <1>4, <1>5, <1>6, <1>7, <1>8, <1>9
       DEF Next, vars, SendSave, SendIngest, Delegate, Lose

\* Only the holder of the lease writes the plan.
LEMMA SucceededStep == IInv /\ [Next]_vars => Succeeded'
  <1> SUFFICES ASSUME TypeOK, Basics, Succeeded, [Next]_vars, NEW a \in Agent,
                      (agent[a].at # "plan" /\ Holds(a, agent[a].token) /\ plan.by < lead.token)'
               PROVE  (agent[a].version = plan.version)'
    BY DEF IInv, Succeeded
  <1> USE DEF Holds
  <1>1. CASE UNCHANGED <<lead, agent, plan>>
    BY <1>1 DEF Succeeded
  <1>2. CASE Tick \/ TakeoverStaleLeads \/ EndLead \/ (\E b \in Agent : Progress(b))
    <2>1. UNCHANGED <<agent, plan>>
      BY <1>2 DEF Tick, TakeoverStaleLeads, EndLead, Progress
    <2>2. Holds(a, agent[a].token) /\ lead'.token = lead.token
      BY <1>2, <2>1, HolderStays
    <2> QED
      BY <2>1, <2>2 DEF Succeeded
  <1>3. ASSUME NEW b \in Agent, Start(b) PROVE (agent[a].version = plan.version)'
    BY <1>3, StartEffect
  <1>4. ASSUME NEW b \in Agent, ReadPlan(b) PROVE (agent[a].version = plan.version)'
    BY <1>4, ReadPlanEffect DEF Others, Succeeded
  <1>5. ASSUME NEW b \in Agent, ReadInbox(b) PROVE (agent[a].version = plan.version)'
    BY <1>5, ReadInboxEffect DEF Others, Succeeded
  <1>6. ASSUME NEW b \in Agent, ReadAgain(b) \/ AgentCrash(b) \/ AgentRestart(b)
        PROVE  (agent[a].version = plan.version)'
    BY <1>6, ForgetEffect DEF Others, Succeeded
  <1>7. ASSUME NEW m \in calls, IngestLeadInbox(m) PROVE (agent[a].version = plan.version)'
    BY <1>7, IngestEffect DEF Others, Succeeded
  <1>8. ASSUME NEW m \in calls, SaveLeadSnapshot(m) PROVE (agent[a].version = plan.version)'
    <2>1. CASE UNCHANGED <<lead, plan, agent>>
      BY <2>1 DEF Succeeded
    <2>2. CASE /\ Owned(m) /\ lead' = [lead EXCEPT !.left = LeaseTTL]
               /\ plan' = [version |-> plan.version + 1, covers |-> m.covers, by |-> m.token]
      <3>1. plan'.by = lead.token /\ lead'.token = lead.token /\ lead.token \in Nat
        BY <2>2, BoundsAreNaturals DEF Owned, TypeOK
      <3> QED
        BY <3>1
    <2> QED
      BY <1>8, <2>1, <2>2, SaveEffect
  <1> QED
    BY <1>1, <1>2, <1>3, <1>4, <1>5, <1>6, <1>7, <1>8
       DEF Next, vars, SendSave, SendIngest, Delegate, CompleteChild, Lose

-----------------------------------------------------------------------------
(* The theorems.                                                           *)

\* IInv is an invariant of the specification.
LEMMA Invariance == Spec => []IInv
  <1>1. IInv /\ [Next]_vars => IInv'
    <2> SUFFICES ASSUME IInv, [Next]_vars PROVE IInv'
      OBVIOUS
    <2>1. TypeOK'
      BY TypeStep DEF IInv
    <2>2. Basics' /\ Sourced' /\ Versions'
      BY BasicsStep, SourcedStep, VersionsStep
    <2>3. OwnCalls' /\ Taken' /\ Succeeded'
      BY OwnCallsStep, TakenStep, SucceededStep
    <2> QED
      BY <2>1, <2>2, <2>3 DEF IInv
  <1> QED
    BY <1>1, InitIInv, PTL DEF Spec

\* No result of a finished child is lost to the lead, and an agent that has read its
\* context knows every result that was taken out of the inbox before (CompleteSubtask,
\* GetLeadContext, IngestLeadInbox).
THEOREM ResultsAreNeverForgotten == Spec => []NoResultIsForgotten
  <1>1. IInv => NoResultIsForgotten
    BY DEF IInv, Basics, Taken, NoResultIsForgotten, Ingested
  <1> QED
    BY <1>1, Invariance, PTL

\* Once a new lead has read the plan, none of its predecessors writes another
\* (SaveLeadSnapshot's fencing).
THEOREM SuccessorsOwnThePlan == Spec => []SuccessorOwnsThePlan
  <1>1. IInv => SuccessorOwnsThePlan
    BY DEF IInv, Succeeded, SuccessorOwnsThePlan, Ready
  <1> QED
    BY <1>1, Invariance, PTL

\* A result in the saved plan stays in it, whatever calls are late, repeated or lost
\* and whoever leads (the version compared by SaveLeadSnapshot).
THEOREM PlansOnlyGrow == Spec => PlanOnlyGrows
  <1>1. IInv /\ [Next]_vars => [plan.covers \subseteq plan'.covers]_vars
    BY PlanGrowsStep
  <1> QED
    BY <1>1, Invariance, PTL DEF Spec, PlanOnlyGrows
=============================================================================
