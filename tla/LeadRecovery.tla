---------------------------- MODULE LeadRecovery ----------------------------
(***************************************************************************)
(* A lead task, its plan and its inbox (internal/core/lead.go and the lead *)
(* operations of the store).  The agent that runs a lead delegates work,   *)
(* takes the results of finished children out of the lead's inbox into its *)
(* plan, and saves the plan as a versioned snapshot, which also renews its *)
(* lease.  When it falls silent the sweep fences the lease and the task is *)
(* offered again; the next agent starts from the snapshot and the inbox.   *)
(*                                                                         *)
(* The old agent may still be alive, and its calls, like those of any      *)
(* agent, may arrive late, twice or never.  Plans are abstracted to the    *)
(* set of children whose results they contain.  One lead is modelled; the  *)
(* offer protocol is TaskLease's, delegation's checks are Delegation's,    *)
(* the health of agents is Scheduling's.                                   *)
(***************************************************************************)
EXTENDS Naturals, FiniteSets

CONSTANTS Agent, Child,
          LeaseTTL,   \* ticks a lease lasts (LeadHeartbeatTTL)
          MaxEpoch,   \* bound: leases given out
          MaxVersion, \* bound: versions of the snapshot
          MaxCalls,   \* bound: calls under way at one time
          None

ASSUME LeadBounds == LeaseTTL \in Nat \ {0} /\ {MaxEpoch, MaxVersion, MaxCalls} \subseteq Nat
ASSUME LeadNobody == None \notin Agent

VARIABLES lead,  \* state, lease holder, its fencing token, time left on the lease
          child, \* "none", "running" or "done"
          inbox, \* the item for each child's result
          plan,  \* board entry lead-plan: version (0 without an entry), content
          agent, \* what each agent knows
          calls  \* under way to the store

vars == <<lead, child, inbox, plan, agent, calls>>

\* by: the fencing token of the writer; nothing in the code reads it.
Plan == [version : Nat, covers : SUBSET Child, by : Nat]

\* known: the children whose results the agent has seen in the inbox or the plan;
\* at: which part of GetLeadContext comes next; version: of the plan it read.
Local == [up : BOOLEAN, token : Nat, at : {"plan", "inbox", "ready"},
          known : SUBSET Child, covers : SUBSET Child, version : Nat]
Down == [up |-> FALSE, token |-> 0, at |-> "plan", known |-> {}, covers |-> {}, version |-> 0]

Call == [op : {"save"}, from : Agent, token : Nat, covers : SUBSET Child, expected : Nat]
        \cup [op : {"ingest"}, from : Agent, token : Nat, item : Child]

TypeOK ==
  /\ lead \in [state : {"READY", "RUNNING", "OVER"}, holder : Agent \cup {None},
               token : 0..MaxEpoch, left : 0..LeaseTTL]
  /\ lead.state = "RUNNING" <=> lead.holder # None
  /\ child \in [Child -> {"none", "running", "done"}]
  /\ inbox \in [Child -> {"none", "pending", "ingested"}]
  /\ plan \in Plan
  /\ agent \in [Agent -> Local]
  /\ calls \subseteq Call

Init ==
  /\ lead = [state |-> "READY", holder |-> None, token |-> 0, left |-> 0]
  /\ child = [c \in Child |-> "none"] /\ inbox = [c \in Child |-> "none"]
  /\ plan = [version |-> 0, covers |-> {}, by |-> 0]
  /\ agent = [a \in Agent |-> Down]
  /\ calls = {}

Holds(a, token) == lead.state = "RUNNING" /\ lead.holder = a /\ lead.token = token
Ready(a) == agent[a].up /\ agent[a].at = "ready"

-----------------------------------------------------------------------------
(* The lead's lease.                                                       *)

\* The offer of the READY task, accepted and started; a new fencing token.
Start(a) ==
  /\ lead.state = "READY" /\ lead.token < MaxEpoch
  /\ lead' = [state |-> "RUNNING", holder |-> a, token |-> lead.token + 1, left |-> LeaseTTL]
  /\ agent' = [agent EXCEPT ![a] = [Down EXCEPT !.up = TRUE, !.token = lead.token + 1]]
  /\ UNCHANGED <<child, inbox, plan, calls>>

\* Progress renews the lease of whoever still holds it.
Progress(a) ==
  /\ agent[a].up /\ Holds(a, agent[a].token)
  /\ lead' = [lead EXCEPT !.left = LeaseTTL] /\ UNCHANGED <<child, inbox, plan, agent, calls>>

Tick ==
  /\ lead.left > 0
  /\ lead' = [lead EXCEPT !.left = @ - 1] /\ UNCHANGED <<child, inbox, plan, agent, calls>>

\* A RUNNING task with children or a snapshot is a lead.
IsLead == plan.version > 0 \/ \E c \in Child : child[c] # "none"

\* TakeoverStaleLeads: the lease is fenced, the children are left alone.
TakeoverStaleLeads ==
  /\ lead.state = "RUNNING" /\ lead.left = 0 /\ IsLead
  /\ lead' = [lead EXCEPT !.state = "READY", !.holder = None]
  /\ UNCHANGED <<child, inbox, plan, agent, calls>>

\* The lead completes or fails, or is cancelled.
EndLead ==
  /\ lead.state \in {"READY", "RUNNING"}
  /\ lead' = [lead EXCEPT !.state = "OVER", !.holder = None, !.left = 0]
  /\ UNCHANGED <<child, inbox, plan, agent, calls>>

-----------------------------------------------------------------------------
(* The children.                                                           *)

Delegate(a, c) ==
  /\ Ready(a) /\ Holds(a, agent[a].token) /\ child[c] = "none"
  /\ child' = [child EXCEPT ![c] = "running"] /\ UNCHANGED <<lead, inbox, plan, agent, calls>>

\* Fault: a result is enqueued only for a lead that runs.
CompleteChild_ifRunning(c) ==
  /\ child[c] = "running"
  /\ child' = [child EXCEPT ![c] = "done"]
  /\ inbox' = IF lead.state = "RUNNING" THEN [inbox EXCEPT ![c] = "pending"] ELSE inbox
  /\ UNCHANGED <<lead, plan, agent, calls>>

\* CompleteSubtask of a child: its result goes to the inbox in the same transaction,
\* whatever has become of the lead.
CompleteChild(c) ==
  /\ child[c] = "running"
  /\ child' = [child EXCEPT ![c] = "done"] /\ inbox' = [inbox EXCEPT ![c] = "pending"]
  /\ UNCHANGED <<lead, plan, agent, calls>>

-----------------------------------------------------------------------------
(* What agents do.                                                         *)

\* GetLeadContext: the snapshot first,
ReadPlan(a) ==
  /\ agent[a].up /\ agent[a].at = "plan"
  /\ agent' = [agent EXCEPT ![a].at = "inbox", ![a].version = plan.version,
                            ![a].covers = @ \cup plan.covers, ![a].known = @ \cup plan.covers]
  /\ UNCHANGED <<lead, child, inbox, plan, calls>>

\* Fault: only what is still pending is given to the agent.
ReadInbox_pending(a) ==
  /\ agent[a].up /\ agent[a].at = "inbox"
  /\ agent' = [agent EXCEPT ![a].at = "ready", ![a].known = @ \cup {c \in Child : inbox[c] = "pending"}]
  /\ UNCHANGED <<lead, child, inbox, plan, calls>>

\* then the whole inbox, with what is ingested already.
ReadInbox(a) ==
  /\ agent[a].up /\ agent[a].at = "inbox"
  /\ agent' = [agent EXCEPT ![a].at = "ready", ![a].known = @ \cup {c \in Child : inbox[c] # "none"},
                            ![a].covers = @ \cup {c \in Child : inbox[c] = "ingested"}]
  /\ UNCHANGED <<lead, child, inbox, plan, calls>>

\* After an error or a late answer the agent reads everything again.
ReadAgain(a) ==
  /\ Ready(a)
  /\ agent' = [agent EXCEPT ![a].at = "plan"] /\ UNCHANGED <<lead, child, inbox, plan, calls>>

\* The process dies; it may come back with its token but without its memory.
AgentCrash(a) ==
  /\ agent[a].up
  /\ agent' = [agent EXCEPT ![a] = [Down EXCEPT !.token = agent[a].token]]
  /\ UNCHANGED <<lead, child, inbox, plan, calls>>

AgentRestart(a) ==
  /\ ~agent[a].up /\ agent[a].token > 0
  /\ agent' = [agent EXCEPT ![a].up = TRUE] /\ UNCHANGED <<lead, child, inbox, plan, calls>>

Send(call) == Cardinality(calls) < MaxCalls /\ calls' = calls \cup {call}

SendIngest(a, c) ==
  /\ Ready(a) /\ c \in agent[a].known \ agent[a].covers
  /\ Send([op |-> "ingest", from |-> a, token |-> agent[a].token, item |-> c])
  /\ UNCHANGED <<lead, child, inbox, plan, agent>>

SendSave(a) ==
  /\ Ready(a)
  /\ Send([op |-> "save", from |-> a, token |-> agent[a].token,
           covers |-> agent[a].covers, expected |-> agent[a].version])
  /\ UNCHANGED <<lead, child, inbox, plan, agent>>

-----------------------------------------------------------------------------
(* What the store does with their calls.                                   *)

\* A call that was carried out may still be repeated.
Done(m) == calls' \in {calls, calls \ {m}}

\* loadOwnedActiveLease and the check of the state.
Owned(m) == Holds(m.from, m.token) /\ lead.left > 0

\* IngestLeadInbox: the lease is checked, then the item.  The answer may be lost.
IngestLeadInbox(m) ==
  /\ m.op = "ingest"
  /\ LET ok == Owned(m) /\ inbox[m.item] = "pending" IN
     /\ inbox' = IF ok THEN [inbox EXCEPT ![m.item] = "ingested"] ELSE inbox
     /\ \/ UNCHANGED agent
        \/ ok /\ Ready(m.from) /\ agent' = [agent EXCEPT ![m.from].covers = @ \cup {m.item}]
  /\ Done(m) /\ UNCHANGED <<lead, child, plan>>

\* What a save does once it is let through; its answer may be lost too.
Store(m) ==
  /\ plan.version < MaxVersion
  /\ plan' = [version |-> plan.version + 1, covers |-> m.covers, by |-> m.token]
  /\ lead' = [lead EXCEPT !.left = LeaseTTL]
  /\ \/ UNCHANGED agent
     \/ /\ Ready(m.from) /\ agent[m.from].version = m.expected
        /\ agent' = [agent EXCEPT ![m.from].version = plan.version + 1]

\* Fault: neither the lease nor who holds it is checked.
SaveLeadSnapshot_unfenced(m) ==
  /\ m.op = "save"
  /\ IF lead.state = "RUNNING" /\ plan.version = m.expected THEN Store(m) ELSE UNCHANGED <<lead, plan, agent>>
  /\ Done(m) /\ UNCHANGED <<child, inbox>>

\* Fault: the version is not compared.
SaveLeadSnapshot_overwrite(m) ==
  /\ m.op = "save"
  /\ IF Owned(m) THEN Store(m) ELSE UNCHANGED <<lead, plan, agent>>
  /\ Done(m) /\ UNCHANGED <<child, inbox>>

\* Fault: the lease is renewed before the version is compared.
SaveLeadSnapshot_renew(m) ==
  /\ m.op = "save"
  /\ CASE Owned(m) /\ plan.version = m.expected -> Store(m)
       [] Owned(m) /\ plan.version # m.expected ->
            lead' = [lead EXCEPT !.left = LeaseTTL] /\ UNCHANGED <<plan, agent>>
       [] OTHER -> UNCHANGED <<lead, plan, agent>>
  /\ Done(m) /\ UNCHANGED <<child, inbox>>

\* SaveLeadSnapshot: the lease, then the version; a conflict renews nothing.
SaveLeadSnapshot(m) ==
  /\ m.op = "save"
  /\ IF Owned(m) /\ plan.version = m.expected THEN Store(m) ELSE UNCHANGED <<lead, plan, agent>>
  /\ Done(m) /\ UNCHANGED <<child, inbox>>

Lose(m) == calls' = calls \ {m} /\ UNCHANGED <<lead, child, inbox, plan, agent>>

Next ==
  \/ Tick \/ TakeoverStaleLeads \/ EndLead
  \/ \E c \in Child : CompleteChild(c)
  \/ \E a \in Agent : \/ Start(a) \/ Progress(a) \/ SendSave(a)
                      \/ ReadPlan(a) \/ ReadInbox(a) \/ ReadAgain(a)
                      \/ AgentCrash(a) \/ AgentRestart(a)
                      \/ \E c \in Child : Delegate(a, c) \/ SendIngest(a, c)
  \/ \E m \in calls : IngestLeadInbox(m) \/ SaveLeadSnapshot(m) \/ Lose(m)

Spec == Init /\ [][Next]_vars

-----------------------------------------------------------------------------
(* Properties.                                                             *)

\* No result of a finished child is lost to the lead: it is in the inbox or the plan,
\* whoever ran the lead, or nobody, when the child finished (CompleteSubtask); and the
\* agent that has read its context knows every one that was ever taken out of the inbox,
\* by itself or by a predecessor that died before it saved its plan (GetLeadContext
\* returns ingested items too; ingesting is fenced).
NoResultIsForgotten ==
  \A c \in Child : child[c] = "done" =>
    /\ inbox[c] # "none" \/ c \in plan.covers
    /\ \A a \in Agent : Ready(a) /\ Holds(a, agent[a].token) /\ inbox[c] = "ingested"
                          => c \in agent[a].known

\* A lead works on the snapshot its predecessors left: none of them, alive or not,
\* writes another after the new lead has read it (the fencing of SaveLeadSnapshot).
SuccessorOwnsThePlan ==
  \A a \in Agent :
    Ready(a) /\ Holds(a, agent[a].token) /\ plan.by < lead.token => agent[a].version = plan.version

\* A result that is in the saved plan stays in it, over retries, late calls and
\* changes of the lead (the version compared by SaveLeadSnapshot).
PlanOnlyGrows == [][plan.covers \subseteq plan'.covers]_vars

-----------------------------------------------------------------------------
(* Fairness: time passes and the sweep is repeated.  Agents promise nothing. *)

FairSpec == Spec /\ WF_vars(Tick) /\ WF_vars(TakeoverStaleLeads)

\* A lead whose agent is dead is taken over, however many of its old calls are still
\* delivered: a refused snapshot does not keep it alive (SaveLeadSnapshot).
DeadLeadIsReplaced ==
  []<>~(lead.state = "RUNNING" /\ IsLead /\ ~agent[lead.holder].up)
=============================================================================
