----------------------------- MODULE Orchestrator -----------------------------
(***************************************************************************)
(* Dependencies, retries, cancellation and the status of one mission       *)
(* (internal/core/service.go, trigger.go).  A call of the service is a     *)
(* sequence of store transactions: each transaction is an action, and what *)
(* a thread carries from one to the next is its record in `thread`.        *)
(* Handlers serve HTTP calls, one thread sweeps; a crash stops them all.   *)
(*                                                                         *)
(* How a READY task gets to an agent and back is TaskLease's business: here *)
(* RUNNING stands for every state from the offer to the end (OFFERED,      *)
(* LEASED, RUNNING, WAITING, BLOCKED).  A compare-and-set on a version is  *)
(* modelled by what it detects.  PENDING is never entered again and ACTIVE *)
(* neither, so there the version moved exactly when the value did; for the *)
(* tasks a cancellation listed `touched` holds those that moved since.     *)
(* Loops over a list take their elements in any order.                     *)
(*                                                                         *)
(* A definition under "Fault:" is a plausible bug put beside the           *)
(* definition it would replace; only the mutation runs use it.             *)
(***************************************************************************)
EXTENDS MissionFSM, Naturals, FiniteSets

CONSTANTS Task,         \* the mission's tasks and those that may be delegated
          Delegated,    \* the delegated ones, absent at first
          Deps,         \* Deps[t]: DependsOn of t
          Waits,        \* the tasks that may be suspended with a wake TTL
          Handler, Sweeper,   \* threads
          NoTask,
          MaxAttempts,  \* RetryPolicy.MaxAttempts
          MaxCrash      \* bound: crashes of the control plane

ASSUME ThreadsAssumption == Sweeper \notin Handler /\ NoTask \notin Task
\* validateDAG: every set of tasks has one that depends on none of the others.
ASSUME DagAssumption ==
  /\ Deps \in [Task -> SUBSET (Task \ Delegated)]
  /\ \A S \in SUBSET Task : S # {} => \E t \in S : Deps[t] \cap S = {}
ASSUME DelegatedAssumption ==
  /\ Delegated \subseteq Task /\ Waits \subseteq Task
  /\ \A t \in Delegated : Deps[t] = {}
ASSUME OrchestratorBounds == MaxAttempts \in Nat /\ MaxCrash \in Nat

Thread == Handler \cup {Sweeper}

VARIABLES state,      \* Subtask.State
          attempt,    \* Subtask.Attempt
          mission,    \* Mission.Status
          thread,     \* what each thread is doing
          touched,    \* the tasks that moved since a cancelling thread listed them
          phase,      \* the part of SweepOnce the sweeper is in
          queue,      \* the tasks that part still has to deal with
          crashes,
          cancelled   \* history: CancelMission was called

sweep == <<phase, queue>>
vars == <<state, attempt, mission, thread, touched, sweep, crashes, cancelled>>

\* Where a thread stands; the names say what it does next.
Point == {"idle", "retry", "roots", "listReady", "propagate", "listPending", "prune",
          "settle", "cancel", "cancelSet", "spawn", "next"}

\* task: the one the call is about; todo: the rest of the loop's list;
\* dead: tasks found unreachable; status: read or derived for the mission.
Local == [at : Point, task : Task \cup {NoTask}, todo : SUBSET Task, dead : SUBSET Task,
          status : MissionStatus]

At(point) == [at |-> point, task |-> NoTask, todo |-> {}, dead |-> {}, status |-> "ACTIVE"]
Idle == At("idle")

TypeOK ==
  /\ state \in [Task -> {"ABSENT", "PENDING", "READY", "RUNNING"} \cup Terminal]
  /\ attempt \in [Task -> 0..MaxAttempts]
  /\ mission \in MissionStatus
  /\ thread \in [Thread -> Local]
  /\ touched \in [Thread -> SUBSET Task]
  /\ phase \in {"none", "expire", "roots", "succeeded"}
  /\ queue \subseteq Task
  /\ crashes \in 0..MaxCrash
  /\ cancelled \in BOOLEAN

\* createMission has stored the mission and its tasks.
Init ==
  /\ state = [t \in Task |-> IF t \in Delegated THEN "ABSENT" ELSE "PENDING"]
  /\ attempt = [t \in Task |-> 0]
  /\ mission = "ACTIVE"
  /\ thread = [h \in Thread |-> Idle]
  /\ touched = [h \in Thread |-> {}]
  /\ phase = "none" /\ queue = {}
  /\ crashes = 0
  /\ cancelled = FALSE

-----------------------------------------------------------------------------
(* Shared steps.                                                           *)

Present == {t \in Task : state[t] # "ABSENT"}
Live(t) == state[t] \in {"PENDING", "READY", "RUNNING"}

\* The tasks of `moved` go to state `to`, and their versions move on.
Move(moved, to) ==
  /\ state' = [t \in Task |-> IF t \in moved THEN to ELSE state[t]]
  /\ touched' = [h \in Thread |-> IF thread[h].at = "cancel" THEN touched[h] \cup moved ELSE {}]

NoMove == UNCHANGED <<state, touched>>

Become(h, local) == thread' = [thread EXCEPT ![h] = local]
Done(h, t) == Become(h, [thread[h] EXCEPT !.todo = @ \ {t}])

\* The call returns: the sweeper takes the next task of its queue.
Return(h) == Become(h, At(IF h = Sweeper THEN "next" ELSE "idle"))

\* The call returns an error, which also ends the sweep.
Abort(h) ==
  /\ Become(h, Idle)
  /\ IF h = Sweeper THEN phase' = "none" /\ queue' = {} ELSE UNCHANGED sweep

-----------------------------------------------------------------------------
(* Agents: what TaskLease allows them, seen from here.                     *)

\* OfferLease; then AcceptLease, StartSubtask, BlockSubtask and the like, which
\* show in the version only.
Begin(t) ==
  /\ state[t] \in {"READY", "RUNNING"}
  /\ Move({t}, "RUNNING")
  /\ UNCHANGED <<attempt, mission, thread, sweep, crashes, cancelled>>

\* A lease expires or is fenced, or a suspended task is woken.
Requeue(t) ==
  /\ state[t] = "RUNNING"
  /\ Move({t}, "READY")
  /\ UNCHANGED <<attempt, mission, thread, sweep, crashes, cancelled>>

-----------------------------------------------------------------------------
(* The calls, up to their first transaction.                               *)

\* activateMissionRoots, by createMission or by a repeated intent.
ActivateRoots(h) ==
  /\ h \in Handler /\ thread[h].at = "idle"
  /\ Become(h, [At("roots") EXCEPT !.todo = {t \in Task : state[t] = "PENDING" /\ Deps[t] = {}}])
  /\ NoMove /\ UNCHANGED <<attempt, mission, sweep, crashes, cancelled>>

\* CompleteSubtask, or the approval of a human node.
Complete(h, t) ==
  /\ h \in Handler /\ thread[h].at = "idle"
  /\ state[t] = "RUNNING"
  /\ Move({t}, "SUCCEEDED")
  /\ Become(h, At("listReady"))
  /\ UNCHANGED <<attempt, mission, sweep, crashes, cancelled>>

\* A repeated completion is answered ErrDuplicate after propagating again.
CompleteAgain(h, t) ==
  /\ h \in Handler /\ thread[h].at = "idle"
  /\ state[t] = "SUCCEEDED"
  /\ Become(h, At("listReady"))
  /\ NoMove /\ UNCHANGED <<attempt, mission, sweep, crashes, cancelled>>

\* Fault: one attempt too many.
Fail_offByOne(h, t) ==
  /\ h \in Handler /\ thread[h].at = "idle"
  /\ state[t] = "RUNNING"
  /\ Move({t}, "FAILED")
  /\ Become(h, [At(IF attempt[t] <= MaxAttempts THEN "retry" ELSE "listPending") EXCEPT !.task = t])
  /\ UNCHANGED <<attempt, mission, sweep, crashes, cancelled>>

\* FailSubtask: a retry follows while attempts are left.
Fail(h, t) ==
  /\ h \in Handler /\ thread[h].at = "idle"
  /\ state[t] = "RUNNING"
  /\ Move({t}, "FAILED")
  /\ Become(h, [At(IF attempt[t] < MaxAttempts THEN "retry" ELSE "listPending") EXCEPT !.task = t])
  /\ UNCHANGED <<attempt, mission, sweep, crashes, cancelled>>

\* applyDecisionOutcome, rejecting: a failure without retry.
Reject(h, t) ==
  /\ h \in Handler /\ thread[h].at = "idle"
  /\ state[t] = "RUNNING"
  /\ Move({t}, "FAILED")
  /\ Become(h, [At("listPending") EXCEPT !.task = t])
  /\ UNCHANGED <<attempt, mission, sweep, crashes, cancelled>>

\* Fault: the cancellation takes every task that has not succeeded.
Cancel_failedToo(h) ==
  /\ h \in Handler /\ thread[h].at = "idle"
  /\ Become(h, [At("cancel") EXCEPT !.todo = {t \in Present : state[t] # "SUCCEEDED"}])
  /\ cancelled' = TRUE
  /\ touched' = [touched EXCEPT ![h] = {}]
  /\ UNCHANGED <<state, attempt, mission, sweep, crashes>>

\* CancelMission lists the tasks.
Cancel(h) ==
  /\ h \in Handler /\ thread[h].at = "idle"
  /\ Become(h, [At("cancel") EXCEPT !.todo = {t \in Task : Live(t)}])
  /\ cancelled' = TRUE
  /\ touched' = [touched EXCEPT ![h] = {}]
  /\ UNCHANGED <<state, attempt, mission, sweep, crashes>>

\* intentDelegate finds the parent RUNNING and the mission ACTIVE.
Delegate(h, t) ==
  /\ h \in Handler /\ thread[h].at = "idle"
  /\ state[t] = "RUNNING" /\ mission = "ACTIVE"
  /\ Become(h, [At("spawn") EXCEPT !.task = t])
  /\ NoMove /\ UNCHANGED <<attempt, mission, sweep, crashes, cancelled>>

-----------------------------------------------------------------------------
(* The rest of the calls, one transaction at a time.                       *)

\* A root that is no longer PENDING is a conflict, and ignored.
ActivateRoot(h, t) ==
  /\ thread[h].at = "roots" /\ t \in thread[h].todo
  /\ IF state[t] = "PENDING" THEN Move({t}, "READY") ELSE NoMove
  /\ Done(h, t)
  /\ UNCHANGED <<attempt, mission, sweep, crashes, cancelled>>

RootsDone(h) ==
  /\ thread[h].at = "roots" /\ thread[h].todo = {}
  /\ Return(h)
  /\ NoMove /\ UNCHANGED <<attempt, mission, sweep, crashes, cancelled>>

\* Fault: a dependency that is over, however it ended, counts as done.
ReadyTasks_depsOver ==
  {t \in Task : state[t] = "PENDING" /\ \A d \in Deps[t] : state[d] \in Terminal}

\* propagate lists the tasks: the PENDING ones whose dependencies succeeded.
ReadyTasks == {t \in Task : state[t] = "PENDING" /\ \A d \in Deps[t] : state[d] = "SUCCEEDED"}

\* Fault: with nothing to activate the call returns at once.
ListReady_shortcut(h) ==
  /\ thread[h].at = "listReady"
  /\ IF ReadyTasks = {} THEN Return(h) ELSE Become(h, [At("propagate") EXCEPT !.todo = ReadyTasks])
  /\ NoMove /\ UNCHANGED <<attempt, mission, sweep, crashes, cancelled>>

ListReady(h) ==
  /\ thread[h].at = "listReady"
  /\ Become(h, [At("propagate") EXCEPT !.todo = ReadyTasks])
  /\ NoMove /\ UNCHANGED <<attempt, mission, sweep, crashes, cancelled>>

Propagate(h, t) ==
  /\ thread[h].at = "propagate" /\ t \in thread[h].todo
  /\ IF state[t] = "PENDING"
     THEN Move({t}, "READY") /\ Done(h, t) /\ UNCHANGED sweep
     ELSE NoMove /\ Abort(h)
  /\ UNCHANGED <<attempt, mission, crashes, cancelled>>

\* The retry's version check holds: nothing else moves a task out of FAILED.
Retry(h) ==
  /\ thread[h].at = "retry"
  /\ Move({thread[h].task}, "READY")
  /\ attempt' = [attempt EXCEPT ![thread[h].task] = @ + 1]
  /\ Return(h)
  /\ UNCHANGED <<mission, sweep, crashes, cancelled>>

\* cancelUnreachable lists the tasks.
ListPending(h) ==
  /\ thread[h].at = "listPending"
  /\ Become(h, [At("prune") EXCEPT !.dead = {thread[h].task},
                                   !.todo = {t \in Task : state[t] = "PENDING"}])
  /\ NoMove /\ UNCHANGED <<attempt, mission, sweep, crashes, cancelled>>

\* Fault: whatever is PENDING is taken to be unreachable.
Unreachable_allPending(h) == thread[h].todo

Unreachable(h) == {t \in thread[h].todo : Deps[t] \cap thread[h].dead # {}}

Prune(h, t) ==
  /\ thread[h].at = "prune" /\ t \in Unreachable(h)
  /\ IF state[t] = "PENDING"
     THEN /\ Move({t}, "CANCELLED")
          /\ Become(h, [thread[h] EXCEPT !.dead = @ \cup {t}, !.todo = @ \ {t}])
          /\ UNCHANGED sweep
     ELSE NoMove /\ Abort(h)
  /\ UNCHANGED <<attempt, mission, crashes, cancelled>>

\* Fault: the delegated tasks do not count.
Derive_initialTasks(h) ==
  /\ \/ thread[h].at = "propagate" /\ thread[h].todo = {}
     \/ thread[h].at = "prune" /\ Unreachable(h) = {}
  /\ LET status == MissionStatusOf({state[t] : t \in Task \ Delegated})
     IN IF status = "ACTIVE" THEN Return(h)
        ELSE Become(h, [At("settle") EXCEPT !.status = status])
  /\ NoMove /\ UNCHANGED <<attempt, mission, sweep, crashes, cancelled>>

\* The loops are done: deriveMissionStatus lists the tasks, and stops while
\* the mission goes on.
Derive(h) ==
  /\ \/ thread[h].at = "propagate" /\ thread[h].todo = {}
     \/ thread[h].at = "prune" /\ Unreachable(h) = {}
  /\ LET status == MissionStatusOf({state[t] : t \in Present})
     IN IF status = "ACTIVE" THEN Return(h)
        ELSE Become(h, [At("settle") EXCEPT !.status = status])
  /\ NoMove /\ UNCHANGED <<attempt, mission, sweep, crashes, cancelled>>

\* GetMission, SetMissionStatus: nothing to do when the mission has a status.
Settle(h) ==
  /\ thread[h].at = "settle"
  /\ mission' = IF mission = "ACTIVE" THEN thread[h].status ELSE mission
  /\ Return(h)
  /\ NoMove /\ UNCHANGED <<attempt, sweep, crashes, cancelled>>

\* CancelMission's loop: a task that moved is a conflict and ends the call.
CancelTask(h, t) ==
  /\ thread[h].at = "cancel" /\ t \in thread[h].todo
  /\ IF t \in touched[h] THEN NoMove /\ Abort(h)
     ELSE Move({t}, "CANCELLED") /\ Done(h, t) /\ UNCHANGED sweep
  /\ UNCHANGED <<attempt, mission, crashes, cancelled>>

\* After the loop CancelMission reads the mission.
CancelRead(h) ==
  /\ thread[h].at = "cancel" /\ thread[h].todo = {}
  /\ Become(h, [At("cancelSet") EXCEPT !.status = mission])
  /\ NoMove /\ UNCHANGED <<attempt, mission, sweep, crashes, cancelled>>

\* SetMissionStatus whatever the status was, unless it moved in between.
CancelSet(h) ==
  /\ thread[h].at = "cancelSet"
  /\ mission' = IF mission = thread[h].status THEN "CANCELLED" ELSE mission
  /\ Return(h)
  /\ NoMove /\ UNCHANGED <<attempt, sweep, crashes, cancelled>>

\* SpawnSubtask checks the parent again, but not the mission.
Spawn(h, c) ==
  /\ thread[h].at = "spawn"
  /\ state[thread[h].task] = "RUNNING" /\ state[c] = "ABSENT"
  /\ Move({c}, "READY")
  /\ Return(h)
  /\ UNCHANGED <<attempt, mission, sweep, crashes, cancelled>>

SpawnRefused(h) ==
  /\ thread[h].at = "spawn"
  /\ state[thread[h].task] # "RUNNING" \/ ~ \E c \in Task : state[c] = "ABSENT"
  /\ Abort(h)
  /\ NoMove /\ UNCHANGED <<attempt, mission, crashes, cancelled>>

-----------------------------------------------------------------------------
(* The sweeper: sweepWakes, reconcilePendingRoots, reconcileSucceeded.     *)

\* ExpireWakes fails every overdue suspension in one transaction.
ExpireWakes(S) ==
  /\ thread[Sweeper].at = "idle"
  /\ S \subseteq Waits /\ \A t \in S : state[t] = "RUNNING"
  /\ Move(S, "FAILED")
  /\ Become(Sweeper, At("next"))
  /\ phase' = "expire" /\ queue' = S
  /\ UNCHANGED <<attempt, mission, crashes, cancelled>>

\* The next task of the queue goes through cancelUnreachable or propagate.
SweepNext(t) ==
  /\ thread[Sweeper].at = "next" /\ t \in queue
  /\ queue' = queue \ {t}
  /\ Become(Sweeper, IF phase = "expire" THEN [At("listPending") EXCEPT !.task = t]
                      ELSE At("listReady"))
  /\ NoMove /\ UNCHANGED <<attempt, mission, phase, crashes, cancelled>>

\* After the expired tasks: the PENDING roots.
ExpireDone ==
  /\ thread[Sweeper].at = "next" /\ phase = "expire" /\ queue = {}
  /\ phase' = "roots"
  /\ Become(Sweeper, [At("roots") EXCEPT !.todo = {t \in Task : state[t] = "PENDING" /\ Deps[t] = {}}])
  /\ NoMove /\ UNCHANGED <<attempt, mission, queue, crashes, cancelled>>

\* Fault: the sweep activates roots but does not propagate again.
ListSucceeded_none ==
  /\ thread[Sweeper].at = "next" /\ phase = "roots"
  /\ phase' = "succeeded"
  /\ NoMove /\ UNCHANGED <<attempt, mission, thread, queue, crashes, cancelled>>

\* After the roots: the SUCCEEDED tasks.
ListSucceeded ==
  /\ thread[Sweeper].at = "next" /\ phase = "roots"
  /\ phase' = "succeeded"
  /\ queue' = {t \in Task : state[t] = "SUCCEEDED"}
  /\ NoMove /\ UNCHANGED <<attempt, mission, thread, crashes, cancelled>>

SweepDone ==
  /\ thread[Sweeper].at = "next" /\ phase = "succeeded" /\ queue = {}
  /\ phase' = "none"
  /\ Become(Sweeper, Idle)
  /\ NoMove /\ UNCHANGED <<attempt, mission, queue, crashes, cancelled>>

\* The process stops, wherever its threads are, and starts again.
Crash ==
  /\ crashes < MaxCrash /\ \E h \in Thread : thread[h] # Idle
  /\ crashes' = crashes + 1
  /\ thread' = [h \in Thread |-> Idle]
  /\ touched' = [h \in Thread |-> {}]
  /\ phase' = "none" /\ queue' = {}
  /\ UNCHANGED <<state, attempt, mission, cancelled>>

-----------------------------------------------------------------------------
Call(h) ==
  \/ ActivateRoots(h) \/ Cancel(h)
  \/ \E t \in Task : \/ Complete(h, t) \/ CompleteAgain(h, t) \/ Fail(h, t) \/ Reject(h, t)
                     \/ Delegate(h, t)

Step(h) ==
  \/ RootsDone(h) \/ ListReady(h) \/ Retry(h) \/ ListPending(h) \/ Derive(h) \/ Settle(h)
  \/ CancelRead(h) \/ CancelSet(h) \/ SpawnRefused(h)
  \/ \E t \in Task : \/ ActivateRoot(h, t) \/ Propagate(h, t) \/ Prune(h, t) \/ CancelTask(h, t)
                     \/ Spawn(h, t)

Sweep ==
  \/ \E S \in SUBSET Waits : ExpireWakes(S)
  \/ \E t \in Task : SweepNext(t)
  \/ ExpireDone \/ ListSucceeded \/ SweepDone

Next ==
  \/ \E t \in Task : Begin(t) \/ Requeue(t)
  \/ \E h \in Handler : Call(h)
  \/ \E h \in Thread : Step(h)
  \/ Sweep
  \/ Crash

Spec == Init /\ [][Next]_vars

-----------------------------------------------------------------------------
(* Properties.                                                             *)

\* No task is ready, running or over before everything it depends on has
\* succeeded, although propagate decides on a list that may be long stale.
NoEarlyStart ==
  \A t \in Task : state[t] \in {"READY", "RUNNING", "SUCCEEDED", "FAILED"}
                  => \A d \in Deps[t] : state[d] = "SUCCEEDED"

\* A mission called SUCCEEDED is: every task, the delegated ones included, has
\* succeeded, although the status was derived from an earlier list.
SucceededMissionIsComplete ==
  mission = "SUCCEEDED" => \A t \in Present : state[t] = "SUCCEEDED"

\* A task that was cancelled although nobody cancelled the mission depends on
\* one that failed for good or was itself cancelled for that reason.
PrunedHasFailedUpstream ==
  ~ cancelled => \A t \in Task : state[t] = "CANCELLED" =>
                   \E d \in Deps[t] : state[d] \in {"FAILED", "CANCELLED"}

\* A retry in flight always finds its task as the failure left it.
RetryIsDue ==
  \A h \in Thread : thread[h].at = "retry" =>
    /\ state[thread[h].task] = "FAILED" /\ attempt[thread[h].task] < MaxAttempts
    /\ \A g \in Thread \ {h} : thread[g].at = "retry" => thread[g].task # thread[h].task

\* "every PENDING task that depends on it, which can never become ready"
\* (service.go, cancelUnreachable) is cancelled once the calls have returned.
DeadDownstreamIsCancelled ==
  ~ cancelled /\ (\A h \in Thread : thread[h] = Idle) =>
    \A t \in Task : state[t] = "PENDING" => ~ \E d \in Deps[t] : state[d] = "FAILED"

\* "FAILED present, retries excluded by the caller" (statemachine.go,
\* MissionStatusOf): a mission called FAILED has nothing left to run.
FailedMissionIsOver == mission = "FAILED" => ~ \E t \in Task : Live(t)

-----------------------------------------------------------------------------
(* Liveness: threads that have begun go on, the sweeper sweeps for ever;   *)
(* agents, people and clients owe nothing, and crashes come to an end.     *)

Fairness ==
  /\ \A h \in Thread : WF_vars(Step(h))
  /\ WF_vars(Sweep)

FairSpec == Spec /\ Fairness

\* Whatever was lost in a crash, a task whose dependencies have succeeded
\* gets its turn, or is cancelled.
ReadyTaskIsActivated == \A t \in Task : t \in ReadyTasks ~> state[t] # "PENDING"

\* Whatever was lost in a crash, a mission whose tasks have all succeeded gets
\* its final status.
CompletionIsNoticed ==
  (\A t \in Present : state[t] = "SUCCEEDED") ~> mission # "ACTIVE"
=============================================================================
