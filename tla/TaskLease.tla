------------------------------ MODULE TaskLease ------------------------------
(***************************************************************************)
(* Subtasks, leases and fencing tokens: the transactions of the store      *)
(* (internal/store/pg/pg.go; internal/store/memory/memory.go gives each    *)
(* the same effect under one mutex) and the calls of the service that      *)
(* reach them.  A transaction locks the subtask's row and is one action.   *)
(*                                                                         *)
(* A lease and its fencing token share a number, drawn from fencing_seq.   *)
(* Time is the set `overdue` of leases whose expires_at has passed.  The   *)
(* version check of a call says that its view of the subtask is current:   *)
(* a call with an older view changes nothing and is no step here.  What a  *)
(* service thread does between two transactions is `handler`; the control  *)
(* plane may stop there.  Dependencies and mission status are the business *)
(* of Orchestrator, decisions of Hitl, budget holds of Delegation.         *)
(*                                                                         *)
(* A definition under "Fault:" is a plausible bug put beside the           *)
(* definition it would replace; only the mutation runs use it.             *)
(***************************************************************************)
EXTENDS MissionFSM, Naturals

CONSTANTS Task,         \* every task that can ever exist
          InitTask,     \* those stored with the mission; the others are delegated
          HumanTask,    \* human_approval and human_decision nodes
          Agent,
          Unreliable,   \* the agents that may stop calling
          NoTask, NoAgent,
          MaxLease,     \* bound: leases offered in a behaviour
          MaxAttempts   \* RetryPolicy.MaxAttempts

ASSUME TasksAssumption ==
  /\ InitTask \subseteq Task
  /\ HumanTask \subseteq InitTask    \* intentDelegate only creates agent tasks
  /\ Unreliable \subseteq Agent
  /\ NoTask \notin Task
  /\ NoAgent \notin Agent
ASSUME BoundsAssumption == MaxLease \in Nat /\ MaxAttempts \in Nat

Lease == 1..MaxLease
LeaseState == {"NONE", "ACTIVE", "RELEASED", "EXPIRED", "FENCED"}

VARIABLES state,       \* Subtask.State, or "ABSENT" before SpawnSubtask
          parent,      \* Subtask.ParentID
          snapshot,    \* the tasks with a lead-plan entry on the board
          attempt,     \* Subtask.Attempt
          leaseOf,     \* Subtask.LeaseID, 0 when empty
          fencing,     \* fencing_seq
          leaseState, leaseTask, leaseAgent,  \* the leases table
          overdue,     \* the leases whose expires_at is not after now
          handler,     \* what a service thread still has to do with the task
          alive,       \* the agents still calling
          resultBy,    \* history: the lease under which ResultRef was written
          savedBy      \* history: the lease under which Checkpoint was written

subVars   == <<state, parent, snapshot, attempt, leaseOf>>
leaseVars == <<fencing, leaseState, leaseTask, leaseAgent, overdue>>
history   == <<resultBy, savedBy>>
vars      == <<subVars, leaseVars, handler, alive, history>>

TypeOK ==
  /\ state \in [Task -> State \cup {"ABSENT"}]
  /\ parent \in [Task -> Task \cup {NoTask}]
  /\ snapshot \subseteq Task
  /\ attempt \in [Task -> 0..MaxAttempts]
  /\ leaseOf \in [Task -> Lease \cup {0}]
  /\ fencing \in 0..MaxLease
  /\ leaseState \in [Lease -> LeaseState]
  /\ leaseTask \in [Lease -> Task \cup {NoTask}]
  /\ leaseAgent \in [Lease -> Agent \cup {NoAgent}]
  /\ overdue \subseteq Lease
  /\ handler \in [Task -> {"none", "retry", "finish"}]
  /\ alive \subseteq Agent
  /\ resultBy \in [Task -> Lease \cup {0}]
  /\ savedBy \in [Task -> Lease \cup {0}]

Init ==
  /\ state = [t \in Task |-> IF t \in InitTask THEN "PENDING" ELSE "ABSENT"]
  /\ parent = [t \in Task |-> NoTask]
  /\ snapshot = {}
  /\ attempt = [t \in Task |-> 0]
  /\ leaseOf = [t \in Task |-> 0]
  /\ fencing = 0
  /\ leaseState = [n \in Lease |-> "NONE"]
  /\ leaseTask = [n \in Lease |-> NoTask]
  /\ leaseAgent = [n \in Lease |-> NoAgent]
  /\ overdue = {}
  /\ handler = [t \in Task |-> "none"]
  /\ alive = Agent
  /\ resultBy = [t \in Task |-> 0]
  /\ savedBy = [t \in Task |-> 0]

-----------------------------------------------------------------------------
(* Shared steps of the transactions.                                       *)

Moves(t, ev) ==
  \E to \in State : Applies(state[t], ev, to) /\ state' = [state EXCEPT ![t] = to]

\* Fault: the check takes any token that was issued for the task.
Fenced_anyToken(t, n) == leaseTask[n] = t

\* loadActiveLease: the token names the lease the task points at, still ACTIVE.
Fenced(t, n) == leaseOf[t] = n /\ leaseState[n] = "ACTIVE"

\* authorizeSubtaskLeaseOwner, then loadActiveLease: the caller owns lease n.
Calls(t, n) == Fenced(t, n) /\ leaseAgent[n] \in alive

\* loadOwnedActiveLease, the stricter check of a lead's operations.
CallsInTime(t, n) == Calls(t, n) /\ n \notin overdue

Release(n) ==
  /\ leaseState' = [leaseState EXCEPT ![n] = "RELEASED"]
  /\ overdue' = overdue \ {n}
  /\ UNCHANGED <<fencing, leaseTask, leaseAgent>>

Unassign(t) == leaseOf' = [leaseOf EXCEPT ![t] = 0]

IsLead(t) == t \in snapshot \/ \E c \in Task : parent[c] = t

-----------------------------------------------------------------------------
(* Placement.                                                              *)

\* activateMissionRoots, propagate: the dependencies of t have succeeded.
Activate(t) ==
  /\ Moves(t, "deps_satisfied")
  /\ UNCHANGED <<parent, snapshot, attempt, leaseOf, leaseVars, handler, alive, history>>

\* Fault: human nodes are offered too.
OfferLease_toHuman(t, a) ==
  /\ fencing < MaxLease
  /\ Moves(t, "lease_offered")
  /\ fencing' = fencing + 1
  /\ leaseState' = [leaseState EXCEPT ![fencing + 1] = "ACTIVE"]
  /\ leaseTask' = [leaseTask EXCEPT ![fencing + 1] = t]
  /\ leaseAgent' = [leaseAgent EXCEPT ![fencing + 1] = a]
  /\ leaseOf' = [leaseOf EXCEPT ![t] = fencing + 1]
  /\ UNCHANGED <<parent, snapshot, attempt, overdue, handler, alive, history>>

\* ScheduleOnce: OfferLease for a READY task that is not a human node.  The
\* INSERT fails on the partial unique index when the task has an ACTIVE lease.
OfferLease(t, a) ==
  /\ t \notin HumanTask /\ fencing < MaxLease
  /\ ~ \E n \in Lease : leaseTask[n] = t /\ leaseState[n] = "ACTIVE"
  /\ Moves(t, "lease_offered")
  /\ fencing' = fencing + 1
  /\ leaseState' = [leaseState EXCEPT ![fencing + 1] = "ACTIVE"]
  /\ leaseTask' = [leaseTask EXCEPT ![fencing + 1] = t]
  /\ leaseAgent' = [leaseAgent EXCEPT ![fencing + 1] = a]
  /\ leaseOf' = [leaseOf EXCEPT ![t] = fencing + 1]
  /\ UNCHANGED <<parent, snapshot, attempt, overdue, handler, alive, history>>

AcceptLease(t, n) ==
  /\ Calls(t, n)
  /\ Moves(t, "lease_accepted")
  /\ UNCHANGED <<parent, snapshot, attempt, leaseOf, leaseVars, handler, alive, history>>

StartSubtask(t, n) ==
  /\ Calls(t, n)
  /\ Moves(t, "started")
  /\ UNCHANGED <<parent, snapshot, attempt, leaseOf, leaseVars, handler, alive, history>>

\* Progress: only the lease row is looked at.
RenewLease(n) ==
  /\ leaseState[n] = "ACTIVE" /\ leaseAgent[n] \in alive
  /\ n \in overdue
  /\ overdue' = overdue \ {n}
  /\ UNCHANGED <<subVars, fencing, leaseState, leaseTask, leaseAgent, handler, alive, history>>

-----------------------------------------------------------------------------
(* Execution callbacks.                                                    *)

\* Fault: the completion forgets to release the lease.
CompleteSubtask_keepsLease(t, n) ==
  /\ Calls(t, n)
  /\ Moves(t, "succeeded")
  /\ resultBy' = [resultBy EXCEPT ![t] = n]
  /\ UNCHANGED <<parent, snapshot, attempt, leaseOf, leaseVars, handler, alive, savedBy>>

\* CompleteSubtaskWithUsage.  The task keeps its LeaseID.
CompleteSubtask(t, n) ==
  /\ Calls(t, n)
  /\ Moves(t, "succeeded")
  /\ resultBy' = [resultBy EXCEPT ![t] = n]
  /\ Release(n)
  /\ UNCHANGED <<parent, snapshot, attempt, leaseOf, handler, alive, savedBy>>

\* Fault: one attempt too many.
FailSubtask_offByOne(t, n) ==
  /\ Calls(t, n)
  /\ Moves(t, "failed")
  /\ Release(n)
  /\ handler' = [handler EXCEPT ![t] = IF attempt[t] <= MaxAttempts THEN "retry" ELSE "none"]
  /\ UNCHANGED <<parent, snapshot, attempt, leaseOf, alive, history>>

\* FailSubtask's first transaction; the thread goes on to retry if it may.
FailSubtask(t, n) ==
  /\ Calls(t, n)
  /\ Moves(t, "failed")
  /\ Release(n)
  /\ handler' = [handler EXCEPT ![t] = IF attempt[t] < MaxAttempts THEN "retry" ELSE "none"]
  /\ UNCHANGED <<parent, snapshot, attempt, leaseOf, alive, history>>

\* FailSubtask's second transaction.
RetrySubtask(t) ==
  /\ handler[t] = "retry"
  /\ Moves(t, "retried")
  /\ attempt' = [attempt EXCEPT ![t] = attempt[t] + 1]
  /\ Unassign(t)
  /\ handler' = [handler EXCEPT ![t] = "none"]
  /\ UNCHANGED <<parent, snapshot, leaseVars, alive, history>>

\* Fault: the lease is compared by id only, and the task's state not at all.
SaveCheckpoint_anyState(t, n) ==
  /\ leaseOf[t] = n /\ leaseAgent[n] \in alive
  /\ savedBy' = [savedBy EXCEPT ![t] = n]
  /\ UNCHANGED <<subVars, leaseVars, handler, alive, resultBy>>

SaveCheckpoint(t, n) ==
  /\ Calls(t, n)
  /\ state[t] \in {"RUNNING", "BLOCKED"}
  /\ savedBy' = [savedBy EXCEPT ![t] = n]
  /\ UNCHANGED <<subVars, leaseVars, handler, alive, resultBy>>

\* Fault: the suspended task lets go of its lease, the lease stays ACTIVE.
SuspendSubtask_keepsLease(t, n, withCheckpoint) ==
  /\ Calls(t, n)
  /\ Moves(t, "suspended")
  /\ savedBy' = IF withCheckpoint THEN [savedBy EXCEPT ![t] = n] ELSE savedBy
  /\ Unassign(t)
  /\ UNCHANGED <<parent, snapshot, attempt, leaseVars, handler, alive, resultBy>>

\* SuspendSubtask, with a checkpoint or without.
SuspendSubtask(t, n, withCheckpoint) ==
  /\ Calls(t, n)
  /\ Moves(t, "suspended")
  /\ savedBy' = IF withCheckpoint THEN [savedBy EXCEPT ![t] = n] ELSE savedBy
  /\ Release(n)
  /\ Unassign(t)
  /\ UNCHANGED <<parent, snapshot, attempt, handler, alive, resultBy>>

\* WakeSubtask: a trigger, an event, a condition or a manual call.
WakeSubtask(t) ==
  /\ Moves(t, "woken")
  /\ UNCHANGED <<parent, snapshot, attempt, leaseOf, leaseVars, handler, alive, history>>

\* ExpireWakes fails a waiting task without consulting the table.
ExpireWake(t) ==
  /\ state[t] = "WAITING"
  /\ state' = [state EXCEPT ![t] = "FAILED"]
  /\ UNCHANGED <<parent, snapshot, attempt, leaseOf, leaseVars, handler, alive, history>>

-----------------------------------------------------------------------------
(* Human decisions: CreateDecisionAndBlock and applyDecisionOutcome.       *)

\* RequestDecision: the agent keeps its lease.
RequestDecision(t, n) ==
  /\ Calls(t, n)
  /\ Moves(t, "blocked")
  /\ UNCHANGED <<parent, snapshot, attempt, leaseOf, leaseVars, handler, alive, history>>

\* OpenHumanDecisions: a human node has no token to check.
OpenHumanDecision(t) ==
  /\ t \in HumanTask /\ state[t] = "READY"
  /\ Moves(t, "blocked")
  /\ UNCHANGED <<parent, snapshot, attempt, leaseOf, leaseVars, handler, alive, history>>

\* A human node is approved into RUNNING and completed by a second transaction.
ApproveDecision(t) ==
  /\ Moves(t, "decision_approved")
  /\ handler' = [handler EXCEPT ![t] = IF t \in HumanTask THEN "finish" ELSE handler[t]]
  /\ UNCHANGED <<parent, snapshot, attempt, leaseOf, leaseVars, alive, history>>

FinishHumanTask(t) ==
  /\ handler[t] = "finish"
  /\ Moves(t, "succeeded")
  /\ handler' = [handler EXCEPT ![t] = "none"]
  /\ UNCHANGED <<parent, snapshot, attempt, leaseOf, leaseVars, alive, history>>

\* TransitionSubtask(decision_rejected) leaves the lease row as it is.
RejectDecision(t) ==
  /\ Moves(t, "decision_rejected")
  /\ UNCHANGED <<parent, snapshot, attempt, leaseOf, leaseVars, handler, alive, history>>

-----------------------------------------------------------------------------
(* Leads.                                                                  *)

\* SpawnSubtask creates the child READY; the parent's row is not written.
SpawnSubtask(t, n, c) ==
  /\ CallsInTime(t, n) /\ state[t] = "RUNNING"
  /\ state[c] = "ABSENT"
  /\ state' = [state EXCEPT ![c] = "READY"]
  /\ parent' = [parent EXCEPT ![c] = t]
  /\ UNCHANGED <<snapshot, attempt, leaseOf, leaseVars, handler, alive, history>>

\* SaveLeadSnapshot renews the lease; the entry's own CAS is LeadRecovery's.
SaveLeadSnapshot(t, n) ==
  /\ CallsInTime(t, n) /\ state[t] = "RUNNING"
  /\ snapshot' = snapshot \cup {t}
  /\ UNCHANGED <<state, parent, attempt, leaseOf, leaseVars, handler, alive, history>>

-----------------------------------------------------------------------------
(* Time, the sweeper, cancellation and crashes.                            *)

LeaseTimeout(n) ==
  /\ leaseState[n] = "ACTIVE" /\ n \notin overdue
  /\ overdue' = overdue \cup {n}
  /\ UNCHANGED <<subVars, fencing, leaseState, leaseTask, leaseAgent, handler, alive, history>>

\* Fault: accepted tasks are left out of the selection.
ExpiredLeases_offeredOnly ==
  {n \in overdue : leaseState[n] = "ACTIVE" /\ state[leaseTask[n]] = "OFFERED"}

\* ExpireLeases selects leases, and from them the tasks to put back.
ExpiredLeases ==
  {n \in overdue : leaseState[n] = "ACTIVE" /\ state[leaseTask[n]] \in {"OFFERED", "LEASED"}}

Reclaimed(leases) == {leaseTask[n] : n \in leases}

\* The selected tasks go back to READY and their leases to `to`.
PutBack(tasks, leases, to) ==
  /\ state' = [t \in Task |-> IF t \in tasks THEN "READY" ELSE state[t]]
  /\ leaseOf' = [t \in Task |-> IF t \in tasks THEN 0 ELSE leaseOf[t]]
  /\ leaseState' = [n \in Lease |-> IF n \in leases THEN to ELSE leaseState[n]]
  /\ overdue' = overdue \ leases
  /\ UNCHANGED <<parent, snapshot, attempt, fencing, leaseTask, leaseAgent, handler, alive, history>>

\* Fault: the lease expires whatever its task is doing, the task stays put.
ExpireLeases_leaseOnly ==
  /\ overdue # {}
  /\ PutBack(Reclaimed(ExpiredLeases), overdue, "EXPIRED")

ExpireLeases ==
  /\ ExpiredLeases # {}
  /\ PutBack(Reclaimed(ExpiredLeases), ExpiredLeases, "EXPIRED")

\* Fault: only leads that saved a plan are looked at.
StaleLeads_snapshotOnly ==
  {t \in Task : /\ state[t] = "RUNNING" /\ t \in snapshot
                /\ leaseOf[t] \in overdue /\ leaseState[leaseOf[t]] = "ACTIVE"}

StaleLeads ==
  {t \in Task : /\ state[t] = "RUNNING" /\ IsLead(t)
                /\ leaseOf[t] \in overdue /\ leaseState[leaseOf[t]] = "ACTIVE"}

TakeoverStaleLeads ==
  /\ StaleLeads # {}
  /\ PutBack(StaleLeads, {leaseOf[t] : t \in StaleLeads}, "FENCED")

\* Fault: the lease of a cancelled task is not released.
CancelSubtask_keepsLease(t) ==
  /\ state[t] \notin Terminal
  /\ Moves(t, "cancelled")
  /\ Unassign(t)
  /\ handler' = [handler EXCEPT ![t] = "none"]
  /\ UNCHANGED <<parent, snapshot, attempt, leaseVars, alive, history>>

\* CancelSubtask, for the tasks CancelMission and cancelUnreachable choose.
CancelSubtask(t) ==
  /\ state[t] \notin Terminal
  /\ Moves(t, "cancelled")
  /\ Unassign(t)
  /\ IF leaseOf[t] # 0 THEN Release(leaseOf[t]) ELSE UNCHANGED leaseVars
  /\ handler' = [handler EXCEPT ![t] = "none"]
  /\ UNCHANGED <<parent, snapshot, attempt, alive, history>>

AgentCrash(a) ==
  /\ a \in alive \cap Unreliable
  /\ alive' = alive \ {a}
  /\ UNCHANGED <<subVars, leaseVars, handler, history>>

\* The process stops between two transactions of a handler.
ControlPlaneCrash ==
  /\ \E t \in Task : handler[t] # "none"
  /\ handler' = [t \in Task |-> "none"]
  /\ UNCHANGED <<subVars, leaseVars, alive, history>>

-----------------------------------------------------------------------------
AgentStep(t, n) ==
  \/ AcceptLease(t, n) \/ StartSubtask(t, n)
  \/ CompleteSubtask(t, n) \/ FailSubtask(t, n) \/ SaveCheckpoint(t, n)
  \/ \E withCheckpoint \in BOOLEAN : SuspendSubtask(t, n, withCheckpoint)
  \/ RequestDecision(t, n) \/ SaveLeadSnapshot(t, n)
  \/ \E c \in Task : SpawnSubtask(t, n, c)

ServiceStep(t) ==
  \/ Activate(t) \/ \E a \in Agent : OfferLease(t, a)
  \/ RetrySubtask(t) \/ WakeSubtask(t) \/ ExpireWake(t)
  \/ OpenHumanDecision(t) \/ ApproveDecision(t) \/ FinishHumanTask(t) \/ RejectDecision(t)
  \/ CancelSubtask(t)

Next ==
  \/ \E t \in Task : ServiceStep(t) \/ \E n \in Lease : AgentStep(t, n)
  \/ \E n \in Lease : RenewLease(n) \/ LeaseTimeout(n)
  \/ ExpireLeases \/ TakeoverStaleLeads
  \/ \E a \in Agent : AgentCrash(a)
  \/ ControlPlaneCrash

Spec == Init /\ [][Next]_vars

-----------------------------------------------------------------------------
(* Properties.                                                             *)

ActiveLeases(t) == {n \in Lease : leaseTask[n] = t /\ leaseState[n] = "ACTIVE"}
IssuedLeases(t) == {n \in Lease : leaseTask[n] = t}

\* A lease that is ACTIVE is the one its task points at, and the youngest the
\* task was ever offered under: so a task has one ACTIVE lease at most and the
\* offer never meets the unique index (pg.go OfferLease, "唯一部分索引").
ActiveLeaseIsCurrent ==
  \A t \in Task : \A n \in ActiveLeases(t) :
    leaseOf[t] = n /\ \A m \in IssuedLeases(t) : m <= n

\* A task that is offered, accepted, or run or blocked by an agent has an
\* ACTIVE lease; one that waits for the scheduler, for a trigger or for its
\* dependencies, or is cancelled, points at none; a human node never does.
\* Of all other tasks only a FAILED one may be left with an ACTIVE lease (that
\* of an agent whose decision was rejected), never one about to be retried.
Backed(t) ==
  /\ state[t] \in {"OFFERED", "LEASED"} => ActiveLeases(t) # {}
  /\ state[t] \in {"RUNNING", "BLOCKED"} /\ t \notin HumanTask => ActiveLeases(t) # {}
  /\ state[t] \in {"ABSENT", "PENDING", "READY", "WAITING", "CANCELLED"} => leaseOf[t] = 0
  /\ t \in HumanTask => leaseOf[t] = 0
  /\ ActiveLeases(t) # {} =>
       /\ t \notin HumanTask
       /\ state[t] \in {"OFFERED", "LEASED", "RUNNING", "BLOCKED", "FAILED"}
       /\ handler[t] # "retry"
ExecutionIsLeased == \A t \in Task : Backed(t)

\* No agent is left holding a task that has succeeded or was cancelled, nor
\* one whose failure the retry is about to undo.
EndReleasesLease ==
  \A t \in Task : state[t] \in {"SUCCEEDED", "CANCELLED"} \/ handler[t] = "retry"
                  => ActiveLeases(t) = {}

\* The result a task keeps came from the youngest lease it was ever offered
\* under: a fenced or expired execution never delivers (design 4.3).
ResultFromYoungestLease ==
  \A t \in Task : resultBy[t] # 0 =>
    /\ state[t] = "SUCCEEDED"
    /\ leaseTask[resultBy[t]] = t
    /\ \A m \in IssuedLeases(t) : m <= resultBy[t]

\* A checkpoint is never overwritten by an execution older than its writer's:
\* what an agent resumes from is the latest progress, over any number of
\* expiries, takeovers, suspensions and retries.
CheckpointNeverOlder == [][\A t \in Task : savedBy'[t] >= savedBy[t]]_vars

\* Once a result is stored no call changes the task, its result or checkpoint.
ResultIsFinal ==
  [][\A t \in Task : resultBy[t] # 0 =>
       /\ resultBy'[t] = resultBy[t]
       /\ savedBy'[t] = savedBy[t]
       /\ state'[t] = state[t]]_vars

\* The owner of a task is its ACTIVE lease; grants are fencing tokens.
Owner(t) == IF leaseOf[t] # 0 /\ leaseState[leaseOf[t]] = "ACTIVE" THEN leaseOf[t] ELSE 0

Exclusive == INSTANCE ExclusiveExecution
               WITH MaxGrant <- MaxLease, owner <- [t \in Task |-> Owner(t)],
                    granted <- fencing, result <- resultBy, checkpoint <- savedBy

\* Leases and fencing implement exclusive, numbered ownership.
ImplementsExclusiveExecution == Exclusive!Spec

-----------------------------------------------------------------------------
(* Liveness.  The sweeper's goroutine runs for ever and clocks go forward; *)
(* nothing is assumed of agents, people or the scheduler.                  *)

FairSpec ==
  /\ Spec
  /\ WF_vars(ExpireLeases)
  /\ WF_vars(TakeoverStaleLeads)
  /\ \A n \in Lease : WF_vars(LeaseTimeout(n))

HeldByDeadAgent(n, states) ==
  /\ leaseState[n] = "ACTIVE" /\ leaseAgent[n] \notin alive
  /\ state[leaseTask[n]] \in states

\* What is given back when its agent is gone, unless it ends or is cancelled first: a task
\* that was offered or accepted (ExpireLeases), and a lead that runs (TakeoverStaleLeads).
AbandonedLeaseIsReclaimed ==
  \A n \in Lease :
    (\/ HeldByDeadAgent(n, {"OFFERED", "LEASED"})
     \/ HeldByDeadAgent(n, {"RUNNING"}) /\ IsLead(leaseTask[n])) ~> leaseState[n] # "ACTIVE"

\* "lease timed out -> back to READY" (statemachine.go, EvLeaseExpired) for a
\* running task of any kind whose agent is gone.
AbandonedRunIsReclaimed ==
  \A n \in Lease : HeldByDeadAgent(n, {"RUNNING"}) ~> leaseState[n] # "ACTIVE"
=============================================================================
