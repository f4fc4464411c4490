--------------------------- MODULE TaskLeaseProofs ---------------------------
(***************************************************************************)
(* The safety of TaskLease for every set of tasks, agents and leases: the  *)
(* inductive invariant IInv, and the properties that follow from it.       *)
(***************************************************************************)
EXTENDS TaskLease, TLAPS

-----------------------------------------------------------------------------
(* The invariant.  TLC finds each safety property true, and none of them   *)
(* inductive: a lease that is ACTIVE says something of its task only       *)
(* because the task points back at it.                                     *)

\* Issued leases are those up to fencing_seq; an ACTIVE one is pointed at.
LeaseTable ==
  \A n \in Lease :
    /\ n <= fencing <=> leaseState[n] # "NONE"
    /\ n <= fencing => leaseTask[n] \in Task
    /\ n > fencing => leaseTask[n] = NoTask
    /\ leaseState[n] = "ACTIVE" => leaseOf[leaseTask[n]] = n

\* A task points at the last lease it was offered under.
Pointers ==
  \A t \in Task : leaseOf[t] # 0 =>
    /\ leaseTask[leaseOf[t]] = t
    /\ \A m \in Lease : leaseTask[m] = t => m <= leaseOf[t]

Holds(t) == leaseOf[t] # 0 /\ leaseState[leaseOf[t]] = "ACTIVE"

\* What the state of a task says about the lease it points at.
Assigned ==
  \A t \in Task :
    /\ state[t] \in {"OFFERED", "LEASED"} => Holds(t)
    /\ state[t] \in {"RUNNING", "BLOCKED"} /\ t \notin HumanTask => Holds(t)
    /\ state[t] \in {"ABSENT", "PENDING", "READY", "WAITING", "CANCELLED"} => leaseOf[t] = 0
    /\ t \in HumanTask => leaseOf[t] = 0
    /\ state[t] = "SUCCEEDED" => ~ Holds(t)

\* What the service thread that serves a task may assume of it.
Handlers ==
  \A t \in Task :
    /\ handler[t] = "retry" => state[t] = "FAILED" /\ ~ Holds(t) /\ attempt[t] < MaxAttempts
    /\ handler[t] = "finish" => t \in HumanTask

Results ==
  \A t \in Task : resultBy[t] # 0 => state[t] = "SUCCEEDED" /\ leaseOf[t] = resultBy[t]

Checkpoints == \A t \in Task : savedBy[t] # 0 => leaseTask[savedBy[t]] = t

Clocks == \A n \in overdue : leaseState[n] = "ACTIVE"

IInv == /\ TypeOK /\ LeaseTable /\ Pointers /\ Assigned
        /\ Handlers /\ Results /\ Checkpoints /\ Clocks

-----------------------------------------------------------------------------
(* The rows of the transition table, one per event the actions use.        *)

\* What a legal event does to the state of its task (statemachine.go, Apply).
LEMMA TableRows ==
  ASSUME NEW t \in Task, state \in [Task -> State \cup {"ABSENT"}]
  PROVE
    /\ Moves(t, "deps_satisfied") =>
         state[t] = "PENDING" /\ state' = [state EXCEPT ![t] = "READY"]
    /\ Moves(t, "lease_offered") =>
         state[t] = "READY" /\ state' = [state EXCEPT ![t] = "OFFERED"]
    /\ Moves(t, "lease_accepted") =>
         state[t] = "OFFERED" /\ state' = [state EXCEPT ![t] = "LEASED"]
    /\ Moves(t, "started") =>
         state[t] = "LEASED" /\ state' = [state EXCEPT ![t] = "RUNNING"]
    /\ Moves(t, "succeeded") =>
         state[t] = "RUNNING" /\ state' = [state EXCEPT ![t] = "SUCCEEDED"]
    /\ Moves(t, "failed") =>
         state[t] = "RUNNING" /\ state' = [state EXCEPT ![t] = "FAILED"]
    /\ Moves(t, "retried") =>
         state[t] = "FAILED" /\ state' = [state EXCEPT ![t] = "READY"]
    /\ Moves(t, "suspended") =>
         state[t] \in {"READY", "RUNNING"} /\ state' = [state EXCEPT ![t] = "WAITING"]
    /\ Moves(t, "woken") =>
         state[t] = "WAITING" /\ state' = [state EXCEPT ![t] = "READY"]
    /\ Moves(t, "blocked") =>
         state[t] \in {"READY", "RUNNING"} /\ state' = [state EXCEPT ![t] = "BLOCKED"]
    /\ Moves(t, "decision_approved") =>
         state[t] = "BLOCKED" /\ state' = [state EXCEPT ![t] = "RUNNING"]
    /\ Moves(t, "decision_rejected") =>
         state[t] = "BLOCKED" /\ state' = [state EXCEPT ![t] = "FAILED"]
    /\ Moves(t, "cancelled") =>
         state[t] \in State /\ state' = [state EXCEPT ![t] = "CANCELLED"]
  BY DEF Moves, Applies, Transitions, State

-----------------------------------------------------------------------------
(* The initial states.                                                     *)

LEMMA InitIInv == Init => IInv
  <1> SUFFICES ASSUME Init PROVE IInv
    OBVIOUS
  <1> USE TasksAssumption, BoundsAssumption DEF Init, Lease
  <1>1. TypeOK
    BY DEF TypeOK, State, LeaseState
  <1>2. LeaseTable
    BY DEF LeaseTable
  <1>3. Pointers /\ Assigned
    BY DEF Pointers, Assigned, Holds
  <1>4. Handlers /\ Results /\ Checkpoints /\ Clocks
    BY DEF Handlers, Results, Checkpoints, Clocks
  <1> QED
    BY <1>1, <1>2, <1>3, <1>4 DEF IInv

-----------------------------------------------------------------------------
(* Every step keeps the types.                                             *)

LEMMA TypeStep == IInv /\ [Next]_vars => TypeOK'
  <1> SUFFICES ASSUME TypeOK, Handlers, [Next]_vars PROVE TypeOK'
    BY DEF IInv
  <1> USE TasksAssumption, BoundsAssumption DEF TypeOK
  <1>1. ASSUME NEW t \in Task, ServiceStep(t) PROVE TypeOK'
    <2> USE <1>1 DEF leaseVars, history
    <2>1. CASE Activate(t)
      BY <2>1, TableRows DEF Activate, State
    <2>2. ASSUME NEW a \in Agent, OfferLease(t, a) PROVE TypeOK'
      BY <2>2, TableRows DEF OfferLease, State, Lease, LeaseState
    <2>3. CASE RetrySubtask(t)
      BY <2>3, TableRows DEF RetrySubtask, Unassign, State, Handlers
    <2>4. CASE WakeSubtask(t) \/ ExpireWake(t)
      BY <2>4, TableRows DEF WakeSubtask, ExpireWake, State
    <2>5. CASE OpenHumanDecision(t) \/ ApproveDecision(t)
      BY <2>5, TableRows DEF OpenHumanDecision, ApproveDecision, State
    <2>6. CASE FinishHumanTask(t) \/ RejectDecision(t)
      BY <2>6, TableRows DEF FinishHumanTask, RejectDecision, State
    <2>7. CASE CancelSubtask(t)
      BY <2>7, TableRows DEF CancelSubtask, Unassign, Release, State, LeaseState
    <2> QED
      BY <2>1, <2>2, <2>3, <2>4, <2>5, <2>6, <2>7 DEF ServiceStep
  <1>2. ASSUME NEW t \in Task, NEW n \in Lease, AgentStep(t, n) PROVE TypeOK'
    <2> USE <1>2 DEF leaseVars, subVars, history
    <2>1. CASE AcceptLease(t, n) \/ StartSubtask(t, n)
      BY <2>1, TableRows DEF AcceptLease, StartSubtask, State
    <2>2. CASE CompleteSubtask(t, n)
      BY <2>2, TableRows DEF CompleteSubtask, Release, State, LeaseState
    <2>3. CASE FailSubtask(t, n)
      BY <2>3, TableRows DEF FailSubtask, Release, State, LeaseState
    <2>4. CASE SaveCheckpoint(t, n)
      BY <2>4 DEF SaveCheckpoint
    <2>5. ASSUME NEW withCheckpoint \in BOOLEAN, SuspendSubtask(t, n, withCheckpoint)
          PROVE  TypeOK'
      BY <2>5, TableRows DEF SuspendSubtask, Release, Unassign, State, LeaseState
    <2>6. CASE RequestDecision(t, n)
      BY <2>6, TableRows DEF RequestDecision, State
    <2>7. CASE SaveLeadSnapshot(t, n)
      BY <2>7 DEF SaveLeadSnapshot
    <2>8. ASSUME NEW c \in Task, SpawnSubtask(t, n, c) PROVE TypeOK'
      BY <2>8 DEF SpawnSubtask, State
    <2> QED
      BY <2>1, <2>2, <2>3, <2>4, <2>5, <2>6, <2>7, <2>8 DEF AgentStep
  <1>3. ASSUME NEW n \in Lease, RenewLease(n) \/ LeaseTimeout(n) PROVE TypeOK'
    BY <1>3 DEF RenewLease, LeaseTimeout, subVars, history
  <1>4. CASE ExpireLeases \/ TakeoverStaleLeads
    BY <1>4 DEF ExpireLeases, TakeoverStaleLeads, PutBack, State, LeaseState, history
  <1>5. CASE (\E a \in Agent : AgentCrash(a)) \/ ControlPlaneCrash
    BY <1>5 DEF AgentCrash, ControlPlaneCrash, subVars, leaseVars, history
  <1>6. CASE UNCHANGED vars
    BY <1>6 DEF vars, subVars, leaseVars, history
  <1> QED
    BY <1>1, <1>2, <1>3, <1>4, <1>5, <1>6 DEF Next
-----------------------------------------------------------------------------
(* Every step keeps the invariant.                                         *)

Rest == LeaseTable /\ Pointers /\ Assigned /\ Handlers /\ Results /\ Checkpoints /\ Clocks

\* A step that moves one task and leaves the leases alone keeps the invariant
\* when the new state fits the lease the task points at.
LEMMA MoveKeeps ==
  ASSUME IInv, NEW t \in Task, NEW to \in State,
         state' = [state EXCEPT ![t] = to],
         state[t] \notin {"SUCCEEDED", "FAILED"},
         to \in {"OFFERED", "LEASED"} => Holds(t),
         to \in {"RUNNING", "BLOCKED"} /\ t \notin HumanTask => Holds(t),
         to \in {"READY", "WAITING"} => leaseOf[t] = 0,
         to \in {"RUNNING", "BLOCKED", "FAILED", "OFFERED", "LEASED", "READY", "WAITING"},
         handler' = handler \/ (t \in HumanTask /\ handler' = [handler EXCEPT ![t] = "finish"]),
         UNCHANGED <<attempt, leaseOf, leaseVars, history>>
  PROVE  Rest'
  <1> USE DEF IInv, leaseVars, history
  <1>1. LeaseTable' /\ Pointers' /\ Checkpoints' /\ Clocks'
    BY DEF LeaseTable, Pointers, Checkpoints, Clocks
  <1>2. Assigned'
    BY DEF Assigned, Holds, TypeOK
  <1>3. Handlers' /\ Results'
    BY DEF Handlers, Results, Holds, TypeOK
  <1> QED
    BY <1>1, <1>2, <1>3 DEF Rest

\* So does a step that releases the lease of a task and moves or unassigns it.
LEMMA ReleaseKeeps ==
  ASSUME IInv, NEW t \in Task, NEW n \in Lease, NEW to \in State,
         leaseOf[t] = n, leaseState[n] # "NONE",
         state[t] \notin {"SUCCEEDED", "FAILED"},
         state' = [state EXCEPT ![t] = to],
         Release(n),
         \/ to \in {"WAITING", "CANCELLED"} /\ leaseOf' = [leaseOf EXCEPT ![t] = 0]
         \/ to \in {"SUCCEEDED", "FAILED"} /\ leaseOf' = leaseOf,
         \/ handler' = handler
         \/ handler' = [handler EXCEPT ![t] = "none"]
         \/ to = "FAILED" /\ attempt[t] < MaxAttempts /\ handler' = [handler EXCEPT ![t] = "retry"],
         resultBy' = resultBy \/ (to = "SUCCEEDED" /\ resultBy' = [resultBy EXCEPT ![t] = n]),
         savedBy' = savedBy \/ savedBy' = [savedBy EXCEPT ![t] = n],
         UNCHANGED attempt
  PROVE  Rest'
  <1> USE DEF IInv, Release
  <1>a. n # 0 /\ t \notin HumanTask /\ leaseTask[n] = t
    BY BoundsAssumption DEF Lease, Assigned, Pointers
  <1>1. LeaseTable'
    BY <1>a DEF LeaseTable, Pointers, TypeOK
  <1>2. Pointers' /\ Checkpoints' /\ Clocks'
    BY <1>a DEF Pointers, Checkpoints, Clocks, TypeOK
  <1>3. Assigned'
    BY <1>a DEF Assigned, Holds, Pointers, TypeOK
  <1>4. Handlers'
    BY <1>a DEF Handlers, Holds, Pointers, TypeOK
  <1>5. Results'
    BY <1>a DEF Results, TypeOK
  <1> QED
    BY <1>1, <1>2, <1>3, <1>4, <1>5 DEF Rest

LEMMA OfferKeeps ==
  ASSUME IInv, NEW t \in Task, NEW a \in Agent, OfferLease(t, a)
  PROVE  Rest'
  <1> USE TableRows, TasksAssumption, BoundsAssumption DEF IInv, OfferLease, TypeOK, Lease, history
  <1>1. LeaseTable'
    BY DEF LeaseTable, Pointers, Assigned
  <1>2. Pointers' /\ Checkpoints' /\ Clocks'
    BY DEF LeaseTable, Pointers, Checkpoints, Clocks
  <1>3. Assigned'
    BY DEF LeaseTable, Assigned, Holds, Pointers
  <1>4. Handlers' /\ Results'
    BY DEF LeaseTable, Handlers, Holds, Pointers, Results
  <1> QED
    BY <1>1, <1>2, <1>3, <1>4 DEF Rest

LEMMA ServiceStepKeeps ==
  ASSUME IInv, NEW t \in Task, ServiceStep(t)
  PROVE  Rest'
  <1>0. TypeOK /\ Assigned /\ Handlers
    BY DEF IInv
  <1>1. CASE Activate(t)
    BY <1>0, <1>1, TableRows, MoveKeeps DEF Activate, TypeOK, Assigned, State
  <1>2. ASSUME NEW a \in Agent, OfferLease(t, a) PROVE Rest'
    BY <1>2, OfferKeeps
  <1>3. CASE RetrySubtask(t)
    <2> USE <1>3, TableRows DEF IInv, RetrySubtask, Unassign, TypeOK, leaseVars, history
    <2>1. LeaseTable' /\ Pointers' /\ Checkpoints' /\ Clocks'
      BY DEF LeaseTable, Pointers, Handlers, Holds, Checkpoints, Clocks
    <2>2. Assigned' /\ Handlers' /\ Results'
      BY DEF Assigned, Handlers, Holds, Results
    <2> QED
      BY <2>1, <2>2 DEF Rest
  <1>4. CASE WakeSubtask(t)
    BY <1>0, <1>4, TableRows, MoveKeeps DEF WakeSubtask, TypeOK, Assigned, State
  <1>5. CASE ExpireWake(t)
    BY <1>0, <1>5, MoveKeeps DEF ExpireWake, TypeOK, Assigned, State
  <1>6. CASE OpenHumanDecision(t)
    BY <1>0, <1>6, TableRows, MoveKeeps DEF OpenHumanDecision, TypeOK, Assigned, State
  <1>7. CASE ApproveDecision(t)
    <2>1. handler' = handler \/ (t \in HumanTask /\ handler' = [handler EXCEPT ![t] = "finish"])
      BY <1>0, <1>7 DEF ApproveDecision, TypeOK
    <2> QED
      BY <1>0, <1>7, <2>1, TableRows, MoveKeeps DEF ApproveDecision, TypeOK, Assigned, State
  <1>8. CASE FinishHumanTask(t)
    <2> USE <1>8, TableRows DEF IInv, FinishHumanTask, TypeOK, leaseVars, history
    <2>1. LeaseTable' /\ Pointers' /\ Checkpoints' /\ Clocks'
      BY DEF LeaseTable, Pointers, Checkpoints, Clocks
    <2>2. Assigned' /\ Handlers' /\ Results'
      BY DEF Assigned, Handlers, Holds, Results
    <2> QED
      BY <2>1, <2>2 DEF Rest
  <1>9. CASE RejectDecision(t)
    BY <1>0, <1>9, TableRows, MoveKeeps DEF RejectDecision, TypeOK, Assigned, State
  <1>10. CASE CancelSubtask(t)
    <2>1. state[t] \notin Terminal /\ state' = [state EXCEPT ![t] = "CANCELLED"]
      BY <1>0, <1>10, TableRows DEF CancelSubtask, TypeOK
    <2>2. CASE leaseOf[t] = 0
      <3> USE <1>10, <2>1, <2>2 DEF IInv, CancelSubtask, Unassign, TypeOK, leaseVars, history, Terminal
      <3>1. LeaseTable' /\ Pointers' /\ Checkpoints' /\ Clocks'
        BY DEF LeaseTable, Pointers, Checkpoints, Clocks
      <3>2. Assigned' /\ Handlers' /\ Results'
        BY DEF Assigned, Handlers, Holds, Results
      <3> QED
        BY <3>1, <3>2 DEF Rest
    <2>3. CASE leaseOf[t] # 0
      <3>1. leaseOf[t] \in Lease /\ leaseState[leaseOf[t]] # "NONE"
        BY <2>3, TasksAssumption, BoundsAssumption DEF IInv, TypeOK, Pointers, LeaseTable, Lease
      <3> QED
        BY <1>10, <2>1, <2>3, <3>1, ReleaseKeeps
        DEF CancelSubtask, Unassign, Terminal, State, history
    <2> QED
      BY <2>2, <2>3
  <1> QED
    BY <1>1, <1>2, <1>3, <1>4, <1>5, <1>6, <1>7, <1>8, <1>9, <1>10 DEF ServiceStep

LEMMA AgentStepKeeps ==
  ASSUME IInv, NEW t \in Task, NEW n \in Lease, AgentStep(t, n)
  PROVE  Rest'
  <1>0. /\ TypeOK /\ Assigned
        /\ Fenced(t, n) => /\ leaseOf[t] = n /\ Holds(t) /\ leaseState[n] # "NONE"
                           /\ t \notin HumanTask
    BY BoundsAssumption DEF IInv, Fenced, Holds, Lease, Assigned
  <1>1. CASE AcceptLease(t, n)
    BY <1>0, <1>1, TableRows, MoveKeeps DEF AcceptLease, Calls, TypeOK, State
  <1>2. CASE StartSubtask(t, n)
    BY <1>0, <1>2, TableRows, MoveKeeps DEF StartSubtask, Calls, TypeOK, State
  <1>3. CASE CompleteSubtask(t, n)
    BY <1>0, <1>3, TableRows, ReleaseKeeps DEF CompleteSubtask, Calls, TypeOK, State, history
  <1>4. CASE FailSubtask(t, n)
    <2>1. \/ attempt[t] < MaxAttempts /\ handler' = [handler EXCEPT ![t] = "retry"]
          \/ handler' = [handler EXCEPT ![t] = "none"]
      BY <1>4 DEF FailSubtask
    <2> QED
      BY <1>0, <1>4, <2>1, TableRows, ReleaseKeeps DEF FailSubtask, Calls, TypeOK, State, history
  <1>5. CASE SaveCheckpoint(t, n)
    <2> USE <1>0, <1>5 DEF IInv, SaveCheckpoint, Calls, subVars, leaseVars
    <2>1. LeaseTable' /\ Pointers' /\ Assigned' /\ Handlers' /\ Results' /\ Clocks'
      BY DEF LeaseTable, Pointers, Assigned, Holds, Handlers, Results, Clocks
    <2>2. Checkpoints'
      BY BoundsAssumption DEF Checkpoints, Pointers, TypeOK, Lease
    <2> QED
      BY <2>1, <2>2 DEF Rest
  <1>6. ASSUME NEW withCheckpoint \in BOOLEAN, SuspendSubtask(t, n, withCheckpoint)
        PROVE  Rest'
    <2>1. savedBy' = savedBy \/ savedBy' = [savedBy EXCEPT ![t] = n]
      BY <1>6 DEF SuspendSubtask
    <2>2. state[t] \in {"READY", "RUNNING"} /\ state' = [state EXCEPT ![t] = "WAITING"]
      BY <1>0, <1>6, TableRows DEF SuspendSubtask, TypeOK
    <2> QED
      BY <1>0, <1>6, <2>1, <2>2, ReleaseKeeps DEF SuspendSubtask, Unassign, Calls, State
  <1>7. CASE RequestDecision(t, n)
    BY <1>0, <1>7, TableRows, MoveKeeps DEF RequestDecision, Calls, TypeOK, State
  <1>8. CASE SaveLeadSnapshot(t, n)
    BY <1>8 DEF SaveLeadSnapshot, leaseVars, history, IInv, Rest, LeaseTable, Pointers,
                Assigned, Holds, Handlers, Results, Checkpoints, Clocks
  <1>9. ASSUME NEW c \in Task, SpawnSubtask(t, n, c) PROVE Rest'
    BY <1>9, MoveKeeps DEF SpawnSubtask, State, IInv, Assigned
  <1> QED
    BY <1>1, <1>2, <1>3, <1>4, <1>5, <1>6, <1>7, <1>8, <1>9 DEF AgentStep

\* PutBack, for tasks and leases that belong to each other.
LEMMA PutBackKeeps ==
  ASSUME IInv, NEW tasks \in SUBSET Task, NEW leases \in SUBSET Lease, NEW to \in {"EXPIRED", "FENCED"},
         \A n \in leases : leaseState[n] = "ACTIVE" /\ leaseTask[n] \in tasks,
         \A t \in tasks : leaseOf[t] \in leases,
         PutBack(tasks, leases, to)
  PROVE  Rest'
  BY TasksAssumption, BoundsAssumption
  DEF IInv, Rest, TypeOK, LeaseTable, Pointers, Assigned, Holds, Handlers, Results,
      Checkpoints, Clocks, Lease, PutBack, history

LEMMA InvStep == IInv /\ [Next]_vars => IInv'
  <1> SUFFICES ASSUME IInv, [Next]_vars PROVE IInv'
    OBVIOUS
  <1>1. TypeOK'
    BY TypeStep
  <1>2. Rest'
    <2>1. ASSUME NEW t \in Task, ServiceStep(t) PROVE Rest'
      BY <2>1, ServiceStepKeeps
    <2>2. ASSUME NEW t \in Task, NEW n \in Lease, AgentStep(t, n) PROVE Rest'
      BY <2>2, AgentStepKeeps
    <2>3. ASSUME NEW n \in Lease, RenewLease(n) \/ LeaseTimeout(n) PROVE Rest'
      BY <2>3 DEF RenewLease, LeaseTimeout, subVars, history, IInv, Rest, LeaseTable, Pointers,
                  Assigned, Holds, Handlers, Results, Checkpoints, Clocks
    <2>4. CASE ExpireLeases
      <3>1. \A n \in ExpiredLeases : n \in Lease /\ leaseState[n] = "ACTIVE" /\ leaseTask[n] \in Task
                                     /\ leaseOf[leaseTask[n]] = n
        BY BoundsAssumption DEF ExpiredLeases, IInv, TypeOK, LeaseTable, Lease
      <3>2. PutBack(Reclaimed(ExpiredLeases), ExpiredLeases, "EXPIRED")
        BY <2>4 DEF ExpireLeases
      <3> QED
        BY <3>1, <3>2, PutBackKeeps DEF Reclaimed
    <2>5. CASE TakeoverStaleLeads
      <3> DEFINE L == {leaseOf[t] : t \in StaleLeads}
      <3>1. \A t \in StaleLeads : /\ t \in Task /\ leaseOf[t] \in Lease
                                  /\ leaseState[leaseOf[t]] = "ACTIVE" /\ leaseTask[leaseOf[t]] = t
        BY BoundsAssumption DEF StaleLeads, IInv, TypeOK, LeaseTable, Pointers, Lease
      <3>2. PutBack(StaleLeads, L, "FENCED")
        BY <2>5 DEF TakeoverStaleLeads
      <3> QED
        BY <3>1, <3>2, PutBackKeeps
    <2>6. CASE (\E a \in Agent : AgentCrash(a)) \/ ControlPlaneCrash
      BY <2>6 DEF AgentCrash, ControlPlaneCrash, subVars, leaseVars, history, IInv, Rest, LeaseTable,
                  Pointers, Assigned, Holds, Handlers, Results, Checkpoints, Clocks
    <2>7. CASE UNCHANGED vars
      BY <2>7 DEF vars, subVars, leaseVars, history, IInv, Rest, LeaseTable,
                  Pointers, Assigned, Holds, Handlers, Results, Checkpoints, Clocks
    <2> QED
      BY <2>1, <2>2, <2>3, <2>4, <2>5, <2>6, <2>7 DEF Next
  <1> QED
    BY <1>1, <1>2 DEF IInv, Rest

-----------------------------------------------------------------------------
(* Theorems.                                                               *)

\* IInv holds in every reachable state.
THEOREM Invariance == Spec => []IInv
  BY InitIInv, InvStep, PTL DEF Spec

\* Every value the store keeps has its type: no lease number beyond
\* fencing_seq's bound, no attempt beyond RetryPolicy.MaxAttempts.
THEOREM TypeCorrect == Spec => []TypeOK
  <1>1. IInv => TypeOK
    BY DEF IInv
  <1> QED
    BY <1>1, Invariance, PTL

\* At most one ACTIVE lease per task, the one the task points at and its
\* youngest.
THEOREM OneActiveLease == Spec => []ActiveLeaseIsCurrent
  <1>1. IInv => ActiveLeaseIsCurrent
    <2> SUFFICES ASSUME IInv, NEW t \in Task, NEW n \in ActiveLeases(t)
                 PROVE  leaseOf[t] = n /\ \A m \in IssuedLeases(t) : m <= n
      BY DEF ActiveLeaseIsCurrent
    <2>1. n \in Lease /\ leaseOf[t] = n /\ n # 0
      BY BoundsAssumption DEF ActiveLeases, IInv, LeaseTable, Lease
    <2> QED
      BY <2>1 DEF IssuedLeases, IInv, Pointers
  <1> QED
    BY <1>1, Invariance, PTL

LEMMA HolderIsActive ==
  ASSUME IInv, NEW t \in Task
  PROVE  Holds(t) <=> ActiveLeases(t) # {}
  BY TasksAssumption, BoundsAssumption
  DEF IInv, TypeOK, LeaseTable, Pointers, Holds, ActiveLeases, Lease

\* Whatever an agent is offered or executes it has under an ACTIVE lease, and
\* an ACTIVE lease is that of such a task, or of one that FAILED and is not
\* about to be retried (RejectDecision leaves the lease as it is).
THEOREM LeasedExecution == Spec => []ExecutionIsLeased
  <1>1. IInv => ExecutionIsLeased
    <2> SUFFICES ASSUME IInv, NEW t \in Task
                 PROVE  Backed(t)
      BY DEF ExecutionIsLeased
    <2>1. Holds(t) <=> ActiveLeases(t) # {}
      BY HolderIsActive
    <2>2. Holds(t) => /\ t \notin HumanTask
                      /\ state[t] \in {"OFFERED", "LEASED", "RUNNING", "BLOCKED", "FAILED"}
                      /\ handler[t] # "retry"
      BY DEF IInv, TypeOK, State, Assigned, Handlers, Holds
    <2> QED
      BY <2>1, <2>2 DEF Backed, IInv, Assigned
  <1> QED
    BY <1>1, Invariance, PTL

\* A task that has succeeded, was cancelled or is about to be retried holds
\* no agent's slot.
THEOREM EndedTasksReleased == Spec => []EndReleasesLease
  <1>1. IInv => EndReleasesLease
    BY HolderIsActive DEF EndReleasesLease, IInv, Assigned, Handlers, Holds
  <1> QED
    BY <1>1, Invariance, PTL

\* No result of a fenced, expired or superseded execution is ever stored.
THEOREM OnlyYoungestDelivers == Spec => []ResultFromYoungestLease
  <1>1. IInv => ResultFromYoungestLease
    BY DEF ResultFromYoungestLease, IssuedLeases, IInv, Results, Pointers
  <1> QED
    BY <1>1, Invariance, PTL

-----------------------------------------------------------------------------
(* Checkpoints and results over time.                                      *)

\* Only the holder of a task's lease writes its checkpoint.
LEMMA WhoSaves ==
  ASSUME TypeOK, [Next]_vars
  PROVE  \/ savedBy' = savedBy
         \/ \E t \in Task, n \in Lease : Fenced(t, n) /\ savedBy' = [savedBy EXCEPT ![t] = n]
  <1> USE DEF history
  <1>1. ASSUME NEW t \in Task, ServiceStep(t) PROVE savedBy' = savedBy
    BY <1>1 DEF ServiceStep, Activate, OfferLease, RetrySubtask, WakeSubtask, ExpireWake,
        OpenHumanDecision, ApproveDecision, FinishHumanTask, RejectDecision, CancelSubtask
  <1>2. ASSUME NEW t \in Task, NEW n \in Lease, AgentStep(t, n)
        PROVE  savedBy' = savedBy \/ (Fenced(t, n) /\ savedBy' = [savedBy EXCEPT ![t] = n])
    BY <1>2 DEF AgentStep, AcceptLease, StartSubtask, CompleteSubtask, FailSubtask,
        SaveCheckpoint, SuspendSubtask, RequestDecision, SaveLeadSnapshot, SpawnSubtask, Calls
  <1> QED
    BY <1>1, <1>2 DEF Next, vars, RenewLease, LeaseTimeout, ExpireLeases, TakeoverStaleLeads,
        PutBack, AgentCrash, ControlPlaneCrash

\* What an agent resumes from is never older than what it was.
THEOREM CheckpointsAdvance == Spec => CheckpointNeverOlder
  <1>1. IInv /\ [Next]_vars => [\A t \in Task : savedBy'[t] >= savedBy[t]]_vars
    <2> SUFFICES ASSUME IInv, [Next]_vars, NEW t \in Task PROVE savedBy'[t] >= savedBy[t]
      OBVIOUS
    <2>1. savedBy[t] \in Nat
      BY BoundsAssumption DEF IInv, TypeOK, Lease
    <2>2. CASE savedBy' = savedBy
      BY <2>1, <2>2
    <2>3. ASSUME NEW u \in Task, NEW n \in Lease, Fenced(u, n), savedBy' = [savedBy EXCEPT ![u] = n]
          PROVE  savedBy'[t] >= savedBy[t]
      <3>1. n \in Nat \ {0} /\ leaseOf[u] = n /\ savedBy[u] \in Lease \cup {0}
        BY <2>3, BoundsAssumption DEF IInv, TypeOK, Lease, Fenced
      <3>2. CASE savedBy[u] = 0
        BY <2>1, <2>3, <3>1, <3>2 DEF IInv, TypeOK
      <3>3. CASE savedBy[u] # 0
        <4>1. leaseTask[savedBy[u]] = u /\ savedBy[u] \in Lease
          BY <3>1, <3>3 DEF IInv, Checkpoints
        <4>2. savedBy[u] <= n
          BY <3>1, <4>1 DEF IInv, Pointers
        <4> QED
          BY <2>1, <2>3, <4>2 DEF IInv, TypeOK
      <3> QED
        BY <3>2, <3>3
    <2> QED
      BY <2>2, <2>3, WhoSaves DEF IInv
  <1> QED
    BY <1>1, Invariance, PTL DEF Spec, CheckpointNeverOlder

\* No call reaches a task that has succeeded.
LEMMA SucceededStays ==
  ASSUME IInv, [Next]_vars, NEW t \in Task, state[t] = "SUCCEEDED"
  PROVE  state'[t] = "SUCCEEDED"
  <1> USE DEF IInv, TypeOK
  <1>1. ASSUME NEW u \in Task, ServiceStep(u) PROVE state'[t] = "SUCCEEDED"
    <2> USE <1>1, TableRows
    <2>1. CASE Activate(u) \/ (\E a \in Agent : OfferLease(u, a)) \/ RetrySubtask(u)
      BY <2>1 DEF Activate, OfferLease, RetrySubtask
    <2>2. CASE WakeSubtask(u) \/ ExpireWake(u) \/ OpenHumanDecision(u) \/ ApproveDecision(u)
      BY <2>2 DEF WakeSubtask, ExpireWake, OpenHumanDecision, ApproveDecision
    <2>3. CASE FinishHumanTask(u) \/ RejectDecision(u) \/ CancelSubtask(u)
      BY <2>3 DEF FinishHumanTask, RejectDecision, CancelSubtask, Terminal
    <2> QED
      BY <2>1, <2>2, <2>3 DEF ServiceStep
  <1>2. ASSUME NEW u \in Task, NEW n \in Lease, AgentStep(u, n) PROVE state'[t] = "SUCCEEDED"
    <2> USE <1>2, TableRows DEF subVars
    <2>1. CASE AcceptLease(u, n) \/ StartSubtask(u, n) \/ CompleteSubtask(u, n)
      BY <2>1 DEF AcceptLease, StartSubtask, CompleteSubtask
    <2>2. CASE FailSubtask(u, n) \/ SaveCheckpoint(u, n) \/ RequestDecision(u, n)
      BY <2>2 DEF FailSubtask, SaveCheckpoint, RequestDecision
    <2>3. CASE \E withCheckpoint \in BOOLEAN : SuspendSubtask(u, n, withCheckpoint)
      BY <2>3 DEF SuspendSubtask
    <2>4. CASE SaveLeadSnapshot(u, n) \/ \E c \in Task : SpawnSubtask(u, n, c)
      BY <2>4 DEF SaveLeadSnapshot, SpawnSubtask
    <2> QED
      BY <2>1, <2>2, <2>3, <2>4 DEF AgentStep
  <1>3. CASE ExpireLeases
    BY <1>3, BoundsAssumption
    DEF ExpireLeases, PutBack, Reclaimed, ExpiredLeases
  <1>4. CASE TakeoverStaleLeads
    BY <1>4 DEF TakeoverStaleLeads, PutBack, StaleLeads
  <1> QED
    BY <1>1, <1>2, <1>3, <1>4 DEF Next, vars, subVars, RenewLease, LeaseTimeout, AgentCrash,
        ControlPlaneCrash

\* Only the completion under the task's lease writes a result.
LEMMA WhoDelivers ==
  ASSUME [Next]_vars
  PROVE  resultBy' = resultBy \/ \E t \in Task, n \in Lease : CompleteSubtask(t, n)
  <1> USE DEF history
  <1>1. ASSUME NEW t \in Task, ServiceStep(t) PROVE resultBy' = resultBy
    BY <1>1 DEF ServiceStep, Activate, OfferLease, RetrySubtask, WakeSubtask, ExpireWake,
        OpenHumanDecision, ApproveDecision, FinishHumanTask, RejectDecision, CancelSubtask
  <1>2. ASSUME NEW t \in Task, NEW n \in Lease, AgentStep(t, n)
        PROVE  resultBy' = resultBy \/ CompleteSubtask(t, n)
    BY <1>2 DEF AgentStep, AcceptLease, StartSubtask, FailSubtask,
        SaveCheckpoint, SuspendSubtask, RequestDecision, SaveLeadSnapshot, SpawnSubtask
  <1> QED
    BY <1>1, <1>2 DEF Next, vars, RenewLease, LeaseTimeout, ExpireLeases, TakeoverStaleLeads,
        PutBack, AgentCrash, ControlPlaneCrash

\* A stored result, with the checkpoint and state beside it, is there to stay.
THEOREM ResultsAreFinal == Spec => ResultIsFinal
  <1> DEFINE Final(t) == resultBy[t] # 0 =>
                           /\ resultBy'[t] = resultBy[t]
                           /\ savedBy'[t] = savedBy[t]
                           /\ state'[t] = state[t]
  <1>1. IInv /\ [Next]_vars => [\A t \in Task : Final(t)]_vars
    <2> SUFFICES ASSUME IInv, [Next]_vars, NEW t \in Task, resultBy[t] # 0
                 PROVE  /\ resultBy'[t] = resultBy[t]
                        /\ savedBy'[t] = savedBy[t]
                        /\ state'[t] = state[t]
      OBVIOUS
    <2>1. state[t] = "SUCCEEDED" /\ ~ Holds(t) /\ leaseOf[t] # 0
      BY DEF IInv, Results, Assigned
    <2>2. state'[t] = state[t]
      BY <2>1, SucceededStays
    <2>3. savedBy'[t] = savedBy[t]
      <3>1. ASSUME NEW u \in Task, NEW n \in Lease, Fenced(u, n) PROVE u # t
        BY <2>1, <3>1 DEF Fenced, Holds
      <3> QED
        BY <3>1, WhoSaves DEF IInv, TypeOK
    <2>4. resultBy'[t] = resultBy[t]
      <3>1. ASSUME NEW u \in Task, NEW n \in Lease, CompleteSubtask(u, n) PROVE u # t
        BY <2>1, <3>1 DEF CompleteSubtask, Calls, Fenced, Holds
      <3> QED
        BY <3>1, WhoDelivers DEF CompleteSubtask, IInv, TypeOK
    <2> QED
      BY <2>2, <2>3, <2>4
  <1> QED
    BY <1>1, Invariance, PTL DEF Spec, ResultIsFinal

-----------------------------------------------------------------------------
(* Refinement: the lease table implements exclusive, numbered ownership.   *)

ownerOf == [t \in Task |-> Owner(t)]

\* A step that leaves every task's pointer and lease states alone is a stutter
\* or a save for the abstract specification.
LEMMA OwnersStay ==
  ASSUME UNCHANGED <<leaseOf, leaseState>>
  PROVE  ownerOf' = ownerOf
  BY DEF ownerOf, Owner

\* Giving up a lease that a task points at frees this task only.
LEMMA OwnerFreed ==
  ASSUME IInv, NEW t \in Task, NEW n \in Lease, Fenced(t, n),
         leaseState' = [leaseState EXCEPT ![n] = "RELEASED"],
         leaseOf' = leaseOf \/ leaseOf' = [leaseOf EXCEPT ![t] = 0]
  PROVE  ownerOf' = [ownerOf EXCEPT ![t] = 0]
  <1>1. n # 0 /\ leaseOf[t] = n /\ \A u \in Task : leaseOf[u] = n => u = t
    BY BoundsAssumption DEF Fenced, Lease, IInv, Pointers
  <1>2. ownerOf'[t] = 0
    BY <1>1, BoundsAssumption DEF IInv, TypeOK, ownerOf, Owner, Lease
  <1>3. ASSUME NEW u \in Task \ {t} PROVE ownerOf'[u] = ownerOf[u]
    <2>1. leaseOf[u] # n /\ leaseOf'[u] = leaseOf[u]
      BY <1>1 DEF IInv, TypeOK
    <2> QED
      BY <2>1, BoundsAssumption DEF IInv, TypeOK, ownerOf, Owner, Lease
  <1> QED
    BY <1>2, <1>3 DEF ownerOf

\* PutBack frees exactly the tasks it puts back.
LEMMA OwnersPutBack ==
  ASSUME IInv, NEW tasks \in SUBSET Task, NEW leases \in SUBSET Lease, NEW to \in {"EXPIRED", "FENCED"},
         \A n \in leases : leaseTask[n] \in tasks,
         PutBack(tasks, leases, to)
  PROVE  ownerOf' = [t \in Task |-> IF t \in tasks THEN 0 ELSE ownerOf[t]]
  <1>1. \A t \in Task \ tasks : leaseOf[t] # 0 => leaseOf[t] \in Lease \ leases
    BY BoundsAssumption DEF IInv, TypeOK, Pointers, Lease
  <1> QED
    BY <1>1 DEF PutBack, ownerOf, Owner

LEMMA AgentStepRefines ==
  ASSUME IInv, NEW t \in Task, NEW n \in Lease, AgentStep(t, n)
  PROVE  [Exclusive!Next]_(Exclusive!vars)
  <1> USE DEF Exclusive!Next, Exclusive!vars, subVars, leaseVars, history
  <1>1. Fenced(t, n) => ownerOf[t] = n /\ ownerOf[t] # 0
    BY BoundsAssumption DEF Fenced, ownerOf, Owner, Lease
  <1>2. CASE AcceptLease(t, n) \/ StartSubtask(t, n) \/ RequestDecision(t, n) \/ SaveLeadSnapshot(t, n)
             \/ \E c \in Task : SpawnSubtask(t, n, c)
    BY <1>2, OwnersStay DEF AcceptLease, StartSubtask, RequestDecision, SaveLeadSnapshot, SpawnSubtask,
                            ownerOf
  <1>3. CASE CompleteSubtask(t, n)
    <2>1. ownerOf' = [ownerOf EXCEPT ![t] = 0]
      BY <1>3, OwnerFreed DEF CompleteSubtask, Calls, Release
    <2>2. resultBy[t] = 0
      BY <1>3, TableRows DEF CompleteSubtask, IInv, TypeOK, Results
    <2>3. Exclusive!Deliver(t)
      BY <1>1, <1>3, <2>1, <2>2 DEF CompleteSubtask, Calls, Release, Exclusive!Deliver, ownerOf
    <2> QED
      BY <2>3
  <1>4. CASE FailSubtask(t, n)
    <2>1. ownerOf' = [ownerOf EXCEPT ![t] = 0]
      BY <1>4, OwnerFreed DEF FailSubtask, Calls, Release
    <2>2. Exclusive!Revoke({t})
      BY <1>4, <2>1 DEF FailSubtask, Release, Exclusive!Revoke, ownerOf
    <2> QED
      BY <2>2
  <1>5. CASE SaveCheckpoint(t, n)
    <2>1. Exclusive!Save(t, FALSE)
      BY <1>1, <1>5, OwnersStay DEF SaveCheckpoint, Calls, Exclusive!Save, ownerOf
    <2> QED
      BY <2>1
  <1>6. ASSUME NEW withCheckpoint \in BOOLEAN, SuspendSubtask(t, n, withCheckpoint)
        PROVE  Exclusive!Next
    <2>1. ownerOf' = [ownerOf EXCEPT ![t] = 0]
      BY <1>6, OwnerFreed DEF SuspendSubtask, Calls, Release, Unassign
    <2>2. CASE withCheckpoint
      <3>1. Exclusive!Save(t, TRUE)
        BY <1>1, <1>6, <2>1, <2>2 DEF SuspendSubtask, Calls, Release, Exclusive!Save, ownerOf
      <3> QED
        BY <3>1
    <2>3. CASE ~ withCheckpoint
      <3>1. Exclusive!Revoke({t})
        BY <1>6, <2>1, <2>3 DEF SuspendSubtask, Release, Exclusive!Revoke, ownerOf
      <3> QED
        BY <3>1
    <2> QED
      BY <2>2, <2>3
  <1> QED
    BY <1>2, <1>3, <1>4, <1>5, <1>6 DEF AgentStep

LEMMA ServiceStepRefines ==
  ASSUME IInv, NEW t \in Task, ServiceStep(t)
  PROVE  [Exclusive!Next]_(Exclusive!vars)
  <1> USE DEF Exclusive!Next, Exclusive!vars, leaseVars, history
  <1>1. CASE Activate(t) \/ WakeSubtask(t) \/ ExpireWake(t) \/ OpenHumanDecision(t)
             \/ ApproveDecision(t) \/ FinishHumanTask(t) \/ RejectDecision(t)
    BY <1>1, OwnersStay DEF Activate, WakeSubtask, ExpireWake, OpenHumanDecision, ApproveDecision,
                            FinishHumanTask, RejectDecision, ownerOf
  <1>2. ASSUME NEW a \in Agent, OfferLease(t, a) PROVE Exclusive!Next
    <2>1. state[t] = "READY" /\ fencing + 1 \in Lease /\ fencing + 1 # 0
      BY <1>2, TableRows, BoundsAssumption DEF OfferLease, IInv, TypeOK, Lease
    <2>2. ownerOf[t] = 0 /\ resultBy[t] = 0
      BY <2>1 DEF IInv, Assigned, Results, ownerOf, Owner
    <2>3. \A u \in Task : leaseOf[u] # fencing + 1
      BY <2>1, TasksAssumption, BoundsAssumption DEF IInv, Pointers, LeaseTable, TypeOK, Lease
    <2>4. ownerOf' = [ownerOf EXCEPT ![t] = fencing + 1]
      BY <1>2, <2>1, <2>3 DEF OfferLease, IInv, TypeOK, ownerOf, Owner
    <2>5. Exclusive!Grant(t)
      BY <1>2, <2>2, <2>4 DEF OfferLease, Exclusive!Grant, ownerOf
    <2> QED
      BY <2>5
  <1>3. CASE RetrySubtask(t)
    <2>1. ~ Holds(t)
      BY <1>3 DEF RetrySubtask, IInv, Handlers
    <2>2. ownerOf' = ownerOf
      BY <1>3, <2>1 DEF RetrySubtask, Unassign, Holds, IInv, TypeOK, ownerOf, Owner
    <2> QED
      BY <1>3, <2>2 DEF RetrySubtask, ownerOf
  <1>4. CASE CancelSubtask(t)
    <2>1. ownerOf' = [u \in Task |-> IF u \in {t} THEN 0 ELSE ownerOf[u]]
      <3>1. CASE leaseOf[t] = 0
        BY <1>4, <3>1 DEF CancelSubtask, Unassign, IInv, TypeOK, ownerOf, Owner
      <3>2. CASE leaseOf[t] # 0
        <4>1. \A u \in Task : leaseOf[u] = leaseOf[t] => u = t
          BY <3>2 DEF IInv, Pointers
        <4> QED
          BY <1>4, <3>2, <4>1, BoundsAssumption
          DEF CancelSubtask, Unassign, Release, IInv, TypeOK, Lease, ownerOf, Owner
      <3> QED
        BY <3>1, <3>2
    <2>2. Exclusive!Revoke({t})
      BY <1>4, <2>1 DEF CancelSubtask, Release, Exclusive!Revoke, ownerOf
    <2> QED
      BY <2>2
  <1> QED
    BY <1>1, <1>2, <1>3, <1>4 DEF ServiceStep

\* Every step of the leases is a step of exclusive ownership, or none.
LEMMA StepRefines ==
  ASSUME IInv, [Next]_vars
  PROVE  [Exclusive!Next]_(Exclusive!vars)
  <1>1. ASSUME NEW n \in Lease, RenewLease(n) \/ LeaseTimeout(n) PROVE UNCHANGED Exclusive!vars
    BY <1>1, OwnersStay DEF RenewLease, LeaseTimeout, subVars, history, Exclusive!vars, ownerOf
  <1>2. CASE ExpireLeases
    <2>1. Exclusive!Revoke(Reclaimed(ExpiredLeases))
      <3>1. ExpiredLeases \subseteq Lease /\ Reclaimed(ExpiredLeases) \subseteq Task
        BY BoundsAssumption DEF ExpiredLeases, Reclaimed, IInv, TypeOK, LeaseTable, Lease
      <3>2. \A n \in ExpiredLeases : leaseTask[n] \in Reclaimed(ExpiredLeases)
        BY DEF Reclaimed
      <3>3. PutBack(Reclaimed(ExpiredLeases), ExpiredLeases, "EXPIRED")
        BY <1>2 DEF ExpireLeases
      <3> QED
        BY <3>1, <3>2, <3>3, OwnersPutBack DEF PutBack, history, Exclusive!Revoke, ownerOf
    <2>2. Reclaimed(ExpiredLeases) \in SUBSET Task
      BY BoundsAssumption DEF ExpiredLeases, Reclaimed, IInv, TypeOK, LeaseTable, Lease
    <2> QED
      BY <2>1, <2>2 DEF Exclusive!Next
  <1>3. CASE TakeoverStaleLeads
    <2>1. StaleLeads \in SUBSET Task /\ {leaseOf[t] : t \in StaleLeads} \in SUBSET Lease
          /\ \A n \in {leaseOf[t] : t \in StaleLeads} : leaseTask[n] \in StaleLeads
      BY BoundsAssumption DEF StaleLeads, IInv, TypeOK, Pointers, Lease
    <2>2. Exclusive!Revoke(StaleLeads)
      BY <1>3, <2>1, OwnersPutBack DEF TakeoverStaleLeads, PutBack, history, Exclusive!Revoke, ownerOf
    <2> QED
      BY <2>1, <2>2 DEF Exclusive!Next
  <1>4. CASE (\E a \in Agent : AgentCrash(a)) \/ ControlPlaneCrash \/ UNCHANGED vars
    BY <1>4, OwnersStay DEF AgentCrash, ControlPlaneCrash, vars, subVars, leaseVars, history,
                            Exclusive!vars, ownerOf
  <1> QED
    BY <1>1, <1>2, <1>3, <1>4, AgentStepRefines, ServiceStepRefines DEF Next

\* Leases and fencing tokens implement ExclusiveExecution: one owner at a
\* time, rising grants, results and checkpoints from the owner only.
THEOREM Refinement == Spec => ImplementsExclusiveExecution
  <1>1. Init => Exclusive!Init
    BY DEF Init, Exclusive!Init, Owner
  <1> QED
    BY <1>1, StepRefines, Invariance, PTL DEF Spec, ImplementsExclusiveExecution, Exclusive!Spec
=============================================================================
