-------------------------- MODULE OrchestratorProofs --------------------------
(***************************************************************************)
(* The safety of Orchestrator for every set of tasks and threads, every    *)
(* dependency graph and any number of crashes.  What a thread read may be  *)
(* long stale when it acts on it: the invariant says what is still true of *)
(* each list a thread carries.                                             *)
(***************************************************************************)
EXTENDS Orchestrator, TLAPS

-----------------------------------------------------------------------------
(* The invariant.                                                          *)

DepsSucceeded(t) == \A d \in Deps[t] : state[d] = "SUCCEEDED"

\* Thread h is about to retry task t.
Retrying(h, t) == thread[h].at = "retry" /\ thread[h].task = t

\* Task t ended without success and will never run again.
GoneForGood(t) ==
  \/ state[t] = "CANCELLED"
  \/ state[t] = "FAILED" /\ \A h \in Thread : ~ Retrying(h, t)

\* Succeeding is final, so a list of ready tasks never goes wrong.
ReadyLists ==
  \A h \in Thread : \A t \in thread[h].todo :
    /\ thread[h].at = "propagate" => DepsSucceeded(t)
    /\ thread[h].at = "roots" => Deps[t] = {}

\* Only a task that is not over is cancelled.
CancelLists ==
  \A h \in Thread : thread[h].at = "cancel" =>
    \A t \in thread[h].todo \ touched[h] : Live(t)

\* Only a delegated task can still be absent.
Absentees == \A t \in Task : state[t] = "ABSENT" => t \in Delegated

\* A delegation in flight has a parent.
Spawns == \A h \in Thread : thread[h].at = "spawn" => thread[h].task \in Task

\* A failure that is being retried is one thread's business.
Retries ==
  \A h \in Thread : thread[h].at = "retry" =>
    /\ thread[h].task \in Task
    /\ state[thread[h].task] = "FAILED" /\ attempt[thread[h].task] < MaxAttempts
    /\ \A g \in Thread \ {h} : ~ Retrying(g, thread[h].task)

\* What cancelUnreachable starts from and goes on from is gone for good.
DeadLists ==
  /\ \A h \in Thread : thread[h].at = "listPending" =>
       thread[h].task \in Task /\ GoneForGood(thread[h].task)
  /\ \A h \in Thread : thread[h].at = "prune" => \A t \in thread[h].dead : GoneForGood(t)
  /\ phase = "expire" => \A t \in queue : GoneForGood(t)

\* Without a cancellation, a cancelled task is below one gone for good.
PrunedBelow ==
  ~ cancelled =>
    /\ \A t \in Task : state[t] = "CANCELLED" => \E d \in Deps[t] : GoneForGood(d)
    /\ \A h \in Thread : thread[h].at \notin {"cancel", "cancelSet"}

\* A status SUCCEEDED on its way to the mission is still true.
Settling ==
  \A h \in Thread : thread[h].at = "settle" /\ thread[h].status = "SUCCEEDED" =>
    \A t \in Present : state[t] = "SUCCEEDED"

IInv == /\ TypeOK /\ NoEarlyStart /\ SucceededMissionIsComplete
        /\ Absentees /\ Spawns /\ ReadyLists /\ CancelLists /\ Retries /\ DeadLists /\ PrunedBelow /\ Settling
-----------------------------------------------------------------------------
(* The initial state.                                                      *)

LEMMA AtType == \A point \in Point : At(point) \in Local
  BY DEF At, Local, MissionStatus

LEMMA InitIInv == Init => IInv
  <1> SUFFICES ASSUME Init PROVE IInv
    OBVIOUS
  <1> USE DEF Init
  <1>1. TypeOK
    <2>1. Idle \in Local
      BY AtType DEF Idle, Point
    <2>2. thread \in [Thread -> Local] /\ touched \in [Thread -> SUBSET Task]
      BY <2>1
    <2>3. state \in [Task -> {"ABSENT", "PENDING", "READY", "RUNNING"} \cup Terminal]
      OBVIOUS
    <2>4. attempt \in [Task -> 0..MaxAttempts] /\ crashes \in 0..MaxCrash
      BY OrchestratorBounds
    <2> QED
      BY <2>2, <2>3, <2>4 DEF TypeOK, MissionStatus
  <1>2. NoEarlyStart /\ SucceededMissionIsComplete /\ Absentees /\ Spawns
    BY DEF NoEarlyStart, SucceededMissionIsComplete, Absentees, Spawns, Idle, At
  <1>3. ReadyLists /\ CancelLists /\ Retries /\ DeadLists /\ PrunedBelow /\ Settling
    BY DEF ReadyLists, CancelLists, Retries, DeadLists, PrunedBelow, Settling, Idle, At
  <1> QED
    BY <1>1, <1>2, <1>3 DEF IInv

-----------------------------------------------------------------------------
(* Types.                                                                  *)

\* deriveMissionStatus only ever yields a status.
LEMMA StatusType == \A states : MissionStatusOf(states) \in MissionStatus
  BY DEF MissionStatusOf, MissionStatus

LEMMA TypeStep == IInv /\ [Next]_vars => TypeOK'
  <1> SUFFICES ASSUME TypeOK, Retries, DeadLists, [Next]_vars PROVE TypeOK'
    BY DEF IInv
  <1> USE ThreadsAssumption, OrchestratorBounds, AtType DEF TypeOK, sweep, Thread
  <1> USE DEF Move, NoMove, Become, Done, Return, Abort, Idle
  <1>1. ASSUME NEW t \in Task, Begin(t) \/ Requeue(t) PROVE TypeOK'
    BY <1>1 DEF Begin, Requeue
  <1>2. ASSUME NEW h \in Handler, Call(h) PROVE TypeOK'
    <2>1. CASE ActivateRoots(h)
      BY <2>1 DEF ActivateRoots, Local, Point
    <2>2. CASE Cancel(h)
      BY <2>2 DEF Cancel, Local, Point
    <2>3. ASSUME NEW t \in Task, Complete(h, t) \/ CompleteAgain(h, t) PROVE TypeOK'
      BY <2>3 DEF Complete, CompleteAgain, Point, Terminal
    <2>4. ASSUME NEW t \in Task, Fail(h, t) \/ Reject(h, t) PROVE TypeOK'
      <3>1. \E point \in Point : thread' = [thread EXCEPT ![h] = [At(point) EXCEPT !.task = t]]
        BY <2>4 DEF Fail, Reject, Point
      <3>2. PICK point \in Point : thread' = [thread EXCEPT ![h] = [At(point) EXCEPT !.task = t]]
        BY <3>1
      <3>3. [At(point) EXCEPT !.task = t] \in Local
        BY DEF Local
      <3> QED
        BY <2>4, <3>2, <3>3 DEF Fail, Reject, Terminal
    <2>5. ASSUME NEW t \in Task, Delegate(h, t) PROVE TypeOK'
      BY <2>5 DEF Delegate, Local, Point
    <2> QED
      BY <1>2, <2>1, <2>2, <2>3, <2>4, <2>5 DEF Call
  <1>3. ASSUME NEW h \in Thread, Step(h) PROVE TypeOK'
    <2>1. CASE RootsDone(h) \/ ListReady(h)
      BY <2>1 DEF RootsDone, ListReady, Local, Point, ReadyTasks
    <2>2. CASE Retry(h)
      BY <2>2 DEF Retry, Retries, Point
    <2>3. CASE ListPending(h)
      <3>1. thread[h].task \in Task
        BY <2>3 DEF ListPending, DeadLists
      <3>2. At("prune") \in Local /\ {t \in Task : state[t] = "PENDING"} \in SUBSET Task
        BY DEF Point
      <3>3. [At("prune") EXCEPT !.dead = {thread[h].task},
                                !.todo = {t \in Task : state[t] = "PENDING"}] \in Local
        BY <3>1, <3>2 DEF Local
      <3> QED
        BY <2>3, <3>3 DEF ListPending
    <2>4. CASE Derive(h)
      <3> DEFINE status == MissionStatusOf({state[t] : t \in Present})
      <3>1. [At("settle") EXCEPT !.status = status] \in Local
        BY StatusType DEF Local, Point
      <3>2. At("idle") \in Local /\ At("next") \in Local
        BY DEF Point
      <3>3. \E local \in Local : thread' = [thread EXCEPT ![h] = local]
        BY <2>4, <3>1, <3>2 DEF Derive
      <3> QED
        BY <2>4, <3>3 DEF Derive
    <2>5. CASE Settle(h) \/ CancelRead(h) \/ CancelSet(h)
      BY <2>5 DEF Settle, CancelRead, CancelSet, Local, Point, MissionStatus
    <2>6. CASE SpawnRefused(h)
      BY <2>6 DEF SpawnRefused, Point
    <2>7. ASSUME NEW t \in Task, ActivateRoot(h, t) PROVE TypeOK'
      BY <2>7 DEF ActivateRoot, Local
    <2>8. ASSUME NEW t \in Task, Propagate(h, t) PROVE TypeOK'
      <3>1. [thread[h] EXCEPT !.todo = @ \ {t}] \in Local
        BY DEF Local
      <3>2. CASE state[t] = "PENDING"
        <4>1. thread' = [thread EXCEPT ![h] = [thread[h] EXCEPT !.todo = @ \ {t}]]
          BY <2>8, <3>2 DEF Propagate
        <4>2. /\ Move({t}, "READY")
              /\ UNCHANGED <<attempt, mission, sweep, crashes, cancelled>>
          BY <2>8, <3>2 DEF Propagate
        <4> QED
          BY <3>1, <4>1, <4>2
      <3>3. CASE state[t] # "PENDING"
        BY <2>8, <3>3 DEF Propagate, Point
      <3> QED
        BY <3>2, <3>3
    <2>9. ASSUME NEW t \in Task, Prune(h, t) PROVE TypeOK'
      <3>1. thread[h] \in Local
        OBVIOUS
      <3>2. [thread[h] EXCEPT !.dead = @ \cup {t}, !.todo = @ \ {t}] \in Local
        BY <3>1 DEF Local
      <3> QED
        BY <2>9, <3>2 DEF Prune, Point, Terminal
    <2>10. ASSUME NEW t \in Task, CancelTask(h, t) PROVE TypeOK'
      BY <2>10 DEF CancelTask, Local, Point, Terminal
    <2>11. ASSUME NEW t \in Task, Spawn(h, t) PROVE TypeOK'
      BY <2>11 DEF Spawn, Point
    <2> QED
      BY <1>3, <2>1, <2>2, <2>3, <2>4, <2>5, <2>6, <2>7, <2>8, <2>9, <2>10, <2>11 DEF Step
  <1>4. CASE Sweep
    <2>1. ASSUME NEW S \in SUBSET Waits, ExpireWakes(S) PROVE TypeOK'
      BY <2>1, DelegatedAssumption DEF ExpireWakes, Point, Terminal
    <2>2. ASSUME NEW t \in Task, SweepNext(t) PROVE TypeOK'
      BY <2>2 DEF SweepNext, Local, Point
    <2>3. CASE ExpireDone
      BY <2>3 DEF ExpireDone, Local, Point
    <2>4. CASE ListSucceeded \/ SweepDone
      BY <2>4 DEF ListSucceeded, SweepDone, Point
    <2> QED
      BY <1>4, <2>1, <2>2, <2>3, <2>4 DEF Sweep
  <1>5. CASE Crash
    BY <1>5 DEF Crash, Point
  <1>6. CASE UNCHANGED vars
    BY <1>6 DEF vars
  <1> QED
    BY <1>1, <1>2, <1>3, <1>4, <1>5, <1>6 DEF Next

-----------------------------------------------------------------------------
(* What a step can do to a task.                                           *)

\* The moves of task t in the step at hand, and what justifies each.
Activated(t) == state[t] \in {"PENDING", "ABSENT"} /\ state'[t] = "READY" /\ DepsSucceeded(t)
CancelledBelow(t) == /\ state[t] = "PENDING" /\ state'[t] = "CANCELLED"
                     /\ \E d \in Deps[t] : GoneForGood(d)
CancelledByCall(t) == Live(t) /\ state'[t] = "CANCELLED" /\ cancelled
Worked(t) == \/ state[t] = "READY" /\ state'[t] = "RUNNING"
             \/ state[t] = "RUNNING" /\ state'[t] \in {"READY", "SUCCEEDED", "FAILED"}
Retried(t) == state[t] = "FAILED" /\ state'[t] = "READY" /\ \E h \in Thread : Retrying(h, t)

Moved(t) == Activated(t) \/ CancelledBelow(t) \/ CancelledByCall(t) \/ Worked(t) \/ Retried(t)

\* Threads that start a retry do so for a task that was running.
NewRetries == \A h \in Thread, t \in Task : Retrying(h, t)' => Retrying(h, t) \/ state[t] = "RUNNING"

\* A list of a cancellation learns of every move.
Noticed == \A h \in Thread : thread[h].at = "cancel" /\ thread'[h].at = "cancel" =>
             /\ touched[h] \subseteq touched'[h]
             /\ \A t \in Task : state'[t] # state[t] => t \in touched'[h]

\* Delegation needs a running parent.
Births == (\E t \in Task : state[t] = "ABSENT" /\ state'[t] # "ABSENT") =>
            \E t \in Task : state[t] = "RUNNING"

Effect == /\ \A t \in Task : state'[t] = state[t] \/ Moved(t)
          /\ NewRetries /\ Noticed /\ Births

\* Who writes the variables that few steps write.
LEMMA Writers ==
  ASSUME [Next]_vars
  PROVE  /\ attempt' = attempt \/ \E g \in Thread : Retry(g)
         /\ mission' = mission \/ \E g \in Thread : Settle(g) \/ CancelSet(g)
         /\ cancelled' = cancelled \/ cancelled' = TRUE
  <1> DEFINE Rest == /\ attempt' = attempt \/ \E g \in Thread : Retry(g)
                     /\ mission' = mission \/ \E g \in Thread : Settle(g) \/ CancelSet(g)
                     /\ cancelled' = cancelled \/ cancelled' = TRUE
  <1>1. ASSUME NEW t \in Task, Begin(t) \/ Requeue(t) PROVE Rest
    BY <1>1 DEF Begin, Requeue
  <1>2. ASSUME NEW h \in Handler, Call(h) PROVE Rest
    <2>1. CASE ActivateRoots(h) \/ Cancel(h)
      BY <2>1 DEF ActivateRoots, Cancel
    <2>2. ASSUME NEW t \in Task,
                 Complete(h, t) \/ CompleteAgain(h, t) \/ Fail(h, t) \/ Reject(h, t) \/ Delegate(h, t)
          PROVE  Rest
      BY <2>2 DEF Complete, CompleteAgain, Fail, Reject, Delegate
    <2> QED
      BY <1>2, <2>1, <2>2 DEF Call
  <1>3. ASSUME NEW h \in Thread, Step(h) PROVE Rest
    <2>1. CASE RootsDone(h) \/ ListReady(h) \/ ListPending(h) \/ Derive(h) \/ CancelRead(h) \/ SpawnRefused(h)
      BY <2>1 DEF RootsDone, ListReady, ListPending, Derive, CancelRead, SpawnRefused
    <2>2. CASE Retry(h) \/ Settle(h) \/ CancelSet(h)
      <3>1. attempt' = attempt \/ Retry(h)
        BY <2>2 DEF Settle, CancelSet
      <3>2. mission' = mission \/ Settle(h) \/ CancelSet(h)
        BY <2>2 DEF Retry
      <3>3. cancelled' = cancelled
        BY <2>2 DEF Retry, Settle, CancelSet
      <3> QED
        BY <3>1, <3>2, <3>3
    <2>3. ASSUME NEW t \in Task, ActivateRoot(h, t) \/ Propagate(h, t) \/ Prune(h, t) \/ CancelTask(h, t)
                                \/ Spawn(h, t)
          PROVE  Rest
      BY <2>3 DEF ActivateRoot, Propagate, Prune, CancelTask, Spawn
    <2> QED
      BY <1>3, <2>1, <2>2, <2>3 DEF Step
  <1>4. CASE Sweep
    <2>1. UNCHANGED <<attempt, mission, cancelled>>
      BY <1>4 DEF Sweep, ExpireWakes, SweepNext, ExpireDone, ListSucceeded, SweepDone
    <2> QED
      BY <2>1
  <1>5. CASE Crash \/ UNCHANGED vars
    BY <1>5 DEF Crash, vars
  <1> QED
    BY <1>1, <1>2, <1>3, <1>4, <1>5, Zenon DEF Next

LEMMA StepEffect ==
  ASSUME IInv, NEW h \in Thread, Step(h)
  PROVE  Effect
  <1> USE DEF Effect, TypeOK, Local, Move, NoMove, Become, Done, Return, Abort, Idle, At
  <1>0. TypeOK
    BY DEF IInv
  <1>1. CASE RootsDone(h) \/ ListReady(h)
    BY <1>0, <1>1 DEF RootsDone, ListReady, NewRetries, Noticed, Births, Retrying
  <1>2. CASE ListPending(h)
    BY <1>0, <1>2 DEF ListPending, NewRetries, Noticed, Births, Retrying
  <1>3. CASE Retry(h)
    BY <1>0, <1>3 DEF Retry, IInv, Retries, Moved, Retried, NewRetries, Noticed, Births, Retrying
  <1>4. CASE Derive(h) \/ Settle(h) \/ CancelRead(h) \/ CancelSet(h) \/ SpawnRefused(h)
    BY <1>0, <1>4 DEF Derive, Settle, CancelRead, CancelSet, SpawnRefused, NewRetries, Noticed,
                      Births, Retrying
  <1>5. ASSUME NEW t \in Task, ActivateRoot(h, t) \/ Propagate(h, t) PROVE Effect
    <2>1. DepsSucceeded(t)
      BY <1>5 DEF ActivateRoot, Propagate, IInv, ReadyLists, DepsSucceeded
    <2>2. \A u \in Task : state'[u] = state[u] \/ Moved(u)
      BY <1>0, <1>5, <2>1 DEF ActivateRoot, Propagate, Moved, Activated
    <2>3. NewRetries /\ Births
      <3>1. CASE ActivateRoot(h, t)
        BY <1>0, <3>1 DEF ActivateRoot, NewRetries, Births, Retrying
      <3>2. CASE Propagate(h, t)
        <4>1. thread'[h].at # "retry" /\ \A g \in Thread \ {h} : thread'[g] = thread[g]
          <5>1. CASE state[t] = "PENDING"
            BY <1>0, <3>2, <5>1 DEF Propagate
          <5>2. CASE state[t] # "PENDING"
            BY <1>0, <3>2, <5>2 DEF Propagate
          <5> QED
            BY <5>1, <5>2
        <4>2. Births
          BY <1>0, <3>2 DEF Propagate, Births
        <4> QED
          BY <4>1, <4>2 DEF NewRetries, Retrying
      <3> QED
        BY <1>5, <3>1, <3>2
    <2>4. Noticed
      BY <1>0, <1>5 DEF ActivateRoot, Propagate, Noticed
    <2> QED
      BY <2>2, <2>3, <2>4
  <1>6. ASSUME NEW t \in Task, Prune(h, t) PROVE Effect
    <2>1. \E d \in Deps[t] : GoneForGood(d)
      BY <1>6 DEF Prune, Unreachable, IInv, DeadLists
    <2>2. \A u \in Task : state'[u] = state[u] \/ Moved(u)
      BY <1>0, <1>6, <2>1 DEF Prune, Moved, CancelledBelow
    <2>3. NewRetries /\ Births
      <3>1. NewRetries
        <4>1. thread'[h].at # "retry"
          <5>1. CASE state[t] = "PENDING"
            <6>1. thread' = [thread EXCEPT ![h] = [thread[h] EXCEPT !.dead = @ \cup {t}, !.todo = @ \ {t}]]
              BY <1>6, <5>1 DEF Prune
            <6>2. thread[h].at = "prune" /\ thread[h] \in Local
              BY <1>0, <1>6 DEF Prune
            <6> QED
              BY <1>0, <6>1, <6>2
          <5>2. CASE state[t] # "PENDING"
            BY <1>0, <1>6, <5>2 DEF Prune
          <5> QED
            BY <5>1, <5>2
        <4>2. \A g \in Thread \ {h} : thread'[g] = thread[g]
          BY <1>0, <1>6 DEF Prune
        <4> QED
          BY <4>1, <4>2 DEF NewRetries, Retrying, Thread
      <3>2. Births
        BY <1>0, <1>6 DEF Prune, Births
      <3> QED
        BY <3>1, <3>2
    <2>4. Noticed
      BY <1>0, <1>6 DEF Prune, Noticed
    <2> QED
      BY <2>2, <2>3, <2>4
  <1>7. ASSUME NEW t \in Task, CancelTask(h, t) PROVE Effect
    <2>1. cancelled /\ (t \notin touched[h] => Live(t))
      BY <1>0, <1>7 DEF CancelTask, IInv, CancelLists, PrunedBelow
    <2>2. \A u \in Task : state'[u] = state[u] \/ Moved(u)
      BY <1>0, <1>7, <2>1 DEF CancelTask, Moved, CancelledByCall
    <2>3. NewRetries /\ Births
      <3>1. NewRetries
        BY <1>0, <1>7 DEF CancelTask, NewRetries, Retrying
      <3>2. Births
        BY <1>0, <1>7, <2>1 DEF CancelTask, Births, Live
      <3> QED
        BY <3>1, <3>2
    <2>4. Noticed
      BY <1>0, <1>7 DEF CancelTask, Noticed
    <2> QED
      BY <2>2, <2>3, <2>4
  <1>8. ASSUME NEW t \in Task, Spawn(h, t) PROVE Effect
    <2>1. DepsSucceeded(t)
      BY <1>8, DelegatedAssumption DEF Spawn, IInv, Absentees, DepsSucceeded
    <2>2. \A u \in Task : state'[u] = state[u] \/ Moved(u)
      BY <1>0, <1>8, <2>1 DEF Spawn, Moved, Activated
    <2>3. NewRetries
      BY <1>0, <1>8 DEF Spawn, NewRetries, Retrying
    <2>4. Noticed
      BY <1>0, <1>8 DEF Spawn, Noticed
    <2>5. Births
      <3>1. thread[h].task \in Task
        BY <1>0, <1>8, ThreadsAssumption DEF Spawn, IInv, Spawns
      <3> QED
        BY <1>8, <3>1 DEF Spawn, Births
    <2> QED
      BY <2>2, <2>3, <2>4, <2>5
  <1> QED
    BY <1>1, <1>2, <1>3, <1>4, <1>5, <1>6, <1>7, <1>8 DEF Step

LEMMA NextEffect ==
  ASSUME IInv, [Next]_vars
  PROVE  Effect
  <1> USE DEF Effect, Moved, NewRetries, Noticed, Births, TypeOK, Local
  <1> USE DEF Move, NoMove, Become, Done, Return, Abort, Idle, At, Retrying
  <1>0. TypeOK
    BY DEF IInv
  <1>1. ASSUME NEW t \in Task, Begin(t) \/ Requeue(t) PROVE Effect
    BY <1>0, <1>1 DEF Begin, Requeue, Worked
  <1>2. ASSUME NEW h \in Handler, Call(h) PROVE Effect
    <2> USE <1>0 DEF Thread
    <2>1. CASE ActivateRoots(h) \/ Cancel(h)
      BY <2>1 DEF ActivateRoots, Cancel
    <2>2. ASSUME NEW t \in Task, Complete(h, t) \/ CompleteAgain(h, t) \/ Delegate(h, t) PROVE Effect
      BY <2>2 DEF Complete, CompleteAgain, Delegate, Worked
    <2>3. ASSUME NEW t \in Task, Fail(h, t) \/ Reject(h, t) PROVE Effect
      BY <2>3 DEF Fail, Reject, Worked
    <2> QED
      BY <1>2, <2>1, <2>2, <2>3 DEF Call
  <1>3. ASSUME NEW h \in Thread, Step(h) PROVE Effect
    BY <1>3, StepEffect
  <1>4. CASE Sweep
    <2> USE <1>0 DEF Thread
    <2>1. ASSUME NEW S \in SUBSET Waits, ExpireWakes(S) PROVE Effect
      BY <2>1 DEF ExpireWakes, Worked
    <2>2. ASSUME NEW t \in Task, SweepNext(t) PROVE Effect
      BY <2>2 DEF SweepNext
    <2>3. CASE ExpireDone \/ ListSucceeded \/ SweepDone
      BY <2>3 DEF ExpireDone, ListSucceeded, SweepDone
    <2> QED
      BY <1>4, <2>1, <2>2, <2>3 DEF Sweep
  <1>5. CASE Crash
    BY <1>0, <1>5 DEF Crash
  <1>6. CASE UNCHANGED vars
    BY <1>0, <1>6 DEF vars
  <1> QED
    BY <1>1, <1>2, <1>3, <1>4, <1>5, <1>6 DEF Next

-----------------------------------------------------------------------------
(* What stays true once it is.                                             *)

LEMMA Stability ==
  ASSUME IInv, [Next]_vars
  PROVE  /\ \A t \in Task : state[t] = "SUCCEEDED" => state'[t] = "SUCCEEDED"
         /\ \A t \in Task : DepsSucceeded(t) => DepsSucceeded(t)'
         /\ \A t \in Task : GoneForGood(t) => GoneForGood(t)'
         /\ (\A t \in Present : state[t] = "SUCCEEDED") => \A t \in Present' : state'[t] = "SUCCEEDED"
  <1>0. Effect
    BY NextEffect
  <1>1. \A t \in Task : state[t] = "SUCCEEDED" => state'[t] = "SUCCEEDED"
    BY <1>0 DEF Effect, Moved, Activated, CancelledBelow, CancelledByCall, Worked, Retried, Live
  <1>2. \A t \in Task : DepsSucceeded(t) => DepsSucceeded(t)'
    BY <1>1, DagAssumption DEF DepsSucceeded
  <1>3. ASSUME NEW t \in Task, GoneForGood(t) PROVE GoneForGood(t)'
    <2>1. CASE state[t] = "CANCELLED"
      BY <1>0, <2>1 DEF Effect, Moved, Activated, CancelledBelow, CancelledByCall, Worked, Retried,
                        Live, GoneForGood
    <2>2. CASE state[t] = "FAILED" /\ \A h \in Thread : ~ Retrying(h, t)
      <3>1. state'[t] = "FAILED"
        BY <1>0, <2>2 DEF Effect, Moved, Activated, CancelledBelow, CancelledByCall, Worked, Retried,
                          Live
      <3>2. \A h \in Thread : ~ Retrying(h, t)'
        BY <1>0, <2>2 DEF Effect, NewRetries
      <3> QED
        BY <3>1, <3>2 DEF GoneForGood, Thread
    <2> QED
      BY <1>3, <2>1, <2>2 DEF GoneForGood
  <1>4. ASSUME \A t \in Present : state[t] = "SUCCEEDED", NEW t \in Present'
        PROVE  state'[t] = "SUCCEEDED"
    <2>1. t \in Task /\ state'[t] # "ABSENT"
      BY DEF Present
    <2>2. state[t] # "ABSENT"
      BY <1>0, <1>4, <2>1 DEF Effect, Births, Present
    <2> QED
      BY <1>1, <1>4, <2>1, <2>2 DEF Present
  <1> QED
    BY <1>1, <1>2, <1>3, <1>4

LEMMA NoEarlyStartStep == IInv /\ [Next]_vars => NoEarlyStart'
  <1> SUFFICES ASSUME IInv, [Next]_vars, NEW t \in Task,
                      state'[t] \in {"READY", "RUNNING", "SUCCEEDED", "FAILED"}
               PROVE  DepsSucceeded(t)'
    BY DEF NoEarlyStart, DepsSucceeded
  <1>1. Effect
    BY NextEffect
  <1>2. DepsSucceeded(t)
    BY <1>1 DEF Effect, Moved, Activated, CancelledBelow, CancelledByCall, Worked, Retried, IInv,
                NoEarlyStart, DepsSucceeded
  <1> QED
    BY <1>2, Stability

LEMMA AbsenteesStep == IInv /\ [Next]_vars => Absentees'
  <1> SUFFICES ASSUME IInv, [Next]_vars PROVE Absentees'
    OBVIOUS
  <1> QED
    BY NextEffect DEF Effect, Moved, Activated, CancelledBelow, CancelledByCall, Worked, Retried,
                      IInv, Absentees

-----------------------------------------------------------------------------
(* What a step can do to a thread.                                         *)

\* The record of thread h after the step, where it stands somewhere that the
\* invariant speaks of: what it was before, or what was just read.
Carries(h) ==
  LET old == thread[h]
      new == thread'[h]
  IN /\ new.at = "propagate" => \/ old.at = "propagate" /\ new.todo \subseteq old.todo
                                \/ new.todo = ReadyTasks
     /\ new.at = "roots" => \/ old.at = "roots" /\ new.todo \subseteq old.todo
                            \/ new.todo = {t \in Task : state[t] = "PENDING" /\ Deps[t] = {}}
     /\ new.at = "cancel" => \/ old.at = "cancel" /\ new.todo \subseteq old.todo
                             \/ new.todo = {t \in Task : Live(t)} /\ state' = state /\ cancelled'
     /\ new.at = "cancelSet" => old.at \in {"cancel", "cancelSet"}
     /\ new.at = "spawn" => new = old \/ new.task \in Task
     /\ new.at = "settle" =>
          new = old \/ new.status = MissionStatusOf({state[t] : t \in Present})
     /\ new.at = "listPending" =>
          \/ new = old
          \/ /\ new.task \in Task
             /\ \/ state[new.task] = "RUNNING" /\ state'[new.task] = "FAILED"
                \/ phase = "expire" /\ new.task \in queue
     /\ new.at = "prune" => \/ old.at = "listPending" /\ new.dead = {old.task}
                            \/ /\ old.at = "prune"
                               /\ \A t \in new.dead : t \in old.dead \/ state'[t] = "CANCELLED"
     /\ new.at = "retry" =>
          \/ new = old
          \/ /\ new.task \in Task
             /\ state[new.task] = "RUNNING" /\ state'[new.task] = "FAILED"
             /\ attempt[new.task] < MaxAttempts /\ attempt' = attempt

LEMMA DoneFields ==
  ASSUME thread \in [Thread -> Local], NEW h \in Thread, NEW t, Done(h, t)
  PROVE  /\ thread'[h].at = thread[h].at
         /\ thread'[h].todo = thread[h].todo \ {t}
  BY DEF Done, Become, Local

LEMMA CallCarries ==
  ASSUME IInv, NEW h \in Handler, Call(h)
  PROVE  Carries(h)
  <1> USE DEF Carries, Become, At, Thread, Move, NoMove
  <1>0. thread \in [Thread -> Local] /\ state \in [Task -> {"ABSENT", "PENDING", "READY", "RUNNING"} \cup Terminal]
    BY DEF IInv, TypeOK
  <1>1. CASE ActivateRoots(h)
    BY <1>0, <1>1 DEF ActivateRoots
  <1>2. CASE Cancel(h)
    BY <1>0, <1>2 DEF Cancel
  <1>3. ASSUME NEW t \in Task, Complete(h, t) \/ CompleteAgain(h, t) PROVE Carries(h)
    BY <1>0, <1>3 DEF Complete, CompleteAgain
  <1>4. ASSUME NEW t \in Task, Fail(h, t) PROVE Carries(h)
    BY <1>0, <1>4 DEF Fail
  <1>5. ASSUME NEW t \in Task, Reject(h, t) PROVE Carries(h)
    BY <1>0, <1>5 DEF Reject
  <1>6. ASSUME NEW t \in Task, Delegate(h, t) PROVE Carries(h)
    BY <1>0, <1>6 DEF Delegate
  <1> QED
    BY <1>1, <1>2, <1>3, <1>4, <1>5, <1>6 DEF Call

LEMMA StepCarries ==
  ASSUME IInv, NEW h \in Thread, Step(h)
  PROVE  Carries(h)
  <1> USE DEF Carries
  <1>0. thread \in [Thread -> Local] /\ state \in [Task -> {"ABSENT", "PENDING", "READY", "RUNNING"} \cup Terminal]
    BY DEF IInv, TypeOK
  <1>1. ASSUME Return(h) \/ Become(h, Idle) PROVE Carries(h)
    BY <1>0, <1>1 DEF Return, Become, Idle, At
  <1>2. CASE RootsDone(h) \/ Retry(h) \/ Settle(h) \/ CancelSet(h) \/ SpawnRefused(h)
    BY <1>1, <1>2 DEF RootsDone, Retry, Settle, CancelSet, SpawnRefused, Abort
  <1>3. CASE ListReady(h)
    BY <1>0, <1>3 DEF ListReady, Become, At
  <1>4. CASE ListPending(h)
    BY <1>0, <1>4 DEF ListPending, Become, At
  <1>5. CASE Derive(h)
    <2>1. CASE Return(h)
      BY <1>1, <2>1
    <2>2. CASE ~ Return(h)
      BY <1>0, <1>5, <2>2 DEF Derive, Become, At
    <2> QED
      BY <2>1, <2>2
  <1>6. CASE CancelRead(h)
    BY <1>0, <1>6 DEF CancelRead, Become, At
  <1>7. ASSUME NEW t \in Task, ActivateRoot(h, t) \/ Propagate(h, t) \/ CancelTask(h, t) \/ Spawn(h, t)
        PROVE  Carries(h)
    <2>1. CASE Done(h, t)
      <3>1. thread[h].at \in {"roots", "propagate", "cancel"}
        BY <1>7, <2>1, <1>0, DoneFields DEF ActivateRoot, Propagate, CancelTask, Spawn, Return, Become, Done, At
      <3> QED
        BY <1>0, <2>1, <3>1, DoneFields
    <2>2. CASE ~ Done(h, t)
      BY <1>1, <1>7, <2>2 DEF ActivateRoot, Propagate, CancelTask, Spawn, Abort
    <2> QED
      BY <2>1, <2>2
  <1>8. ASSUME NEW t \in Task, Prune(h, t) PROVE Carries(h)
    <2>1. CASE state[t] = "PENDING"
      <3>1. thread'[h] = [thread[h] EXCEPT !.dead = @ \cup {t}, !.todo = @ \ {t}] /\ state'[t] = "CANCELLED"
        BY <1>0, <1>8, <2>1 DEF Prune, Become, Move
      <3>2. thread'[h].at = "prune" /\ thread[h].at = "prune" /\ thread'[h].dead = thread[h].dead \cup {t}
        BY <1>0, <1>8, <3>1 DEF Prune, Local
      <3> QED
        BY <3>1, <3>2
    <2>2. CASE state[t] # "PENDING"
      BY <1>1, <1>8, <2>2 DEF Prune, Abort
    <2> QED
      BY <2>1, <2>2
  <1> QED
    BY <1>2, <1>3, <1>4, <1>5, <1>6, <1>7, <1>8 DEF Step

LEMMA NextCarries ==
  ASSUME IInv, [Next]_vars, NEW h \in Thread
  PROVE  Carries(h)
  <1>0. thread \in [Thread -> Local]
    BY DEF IInv, TypeOK
  <1>1. ASSUME thread'[h] = thread[h] PROVE Carries(h)
    BY <1>1 DEF Carries
  <1>2. ASSUME NEW g \in Handler, Call(g) PROVE Carries(h)
    <2>1. CASE g = h
      BY <1>2, <2>1, CallCarries
    <2>2. CASE g # h
      <3>1. thread'[h] = thread[h]
        BY <1>0, <1>2, <2>2 DEF Call, ActivateRoots, Cancel, Complete, CompleteAgain, Fail, Reject, Delegate, Become
      <3> QED
        BY <1>1, <3>1
    <2> QED
      BY <2>1, <2>2
  <1>3. ASSUME NEW g \in Thread, Step(g) PROVE Carries(h)
    <2>1. CASE g = h
      BY <1>3, <2>1, StepCarries
    <2>2. CASE g # h
      <3>1. thread'[h] = thread[h]
        BY <1>0, <1>3, <2>2 DEF Step, RootsDone, ListReady, Retry, ListPending, Derive, Settle, CancelRead,
           CancelSet, SpawnRefused, ActivateRoot, Propagate, Prune, CancelTask, Spawn, Become, Done, Return, Abort
      <3> QED
        BY <1>1, <3>1
    <2> QED
      BY <2>1, <2>2
  <1>4. CASE Sweep
    <2>1. CASE h # Sweeper
      <3>1. thread'[h] = thread[h]
        BY <1>0, <1>4, <2>1 DEF Sweep, ExpireWakes, SweepNext, ExpireDone, ListSucceeded, SweepDone, Become
      <3> QED
        BY <1>1, <3>1
    <2>2. CASE h = Sweeper
      <3>1. ASSUME NEW S \in SUBSET Waits, ExpireWakes(S) PROVE Carries(h)
        BY <1>0, <2>2, <3>1 DEF ExpireWakes, Become, At, Carries
      <3>2. ASSUME NEW t \in Task, SweepNext(t) PROVE Carries(h)
        BY <1>0, <2>2, <3>2 DEF SweepNext, Become, At, Carries
      <3>3. CASE ExpireDone
        BY <1>0, <2>2, <3>3 DEF ExpireDone, Become, At, Carries
      <3>4. CASE ListSucceeded \/ SweepDone
        BY <1>0, <1>1, <2>2, <3>4 DEF ListSucceeded, SweepDone, Become, At, Idle, Carries
      <3> QED
        BY <1>4, <3>1, <3>2, <3>3, <3>4 DEF Sweep
    <2> QED
      BY <2>1, <2>2
  <1>5. CASE Crash
    BY <1>5 DEF Crash, Idle, At, Carries
  <1> QED
    BY <1>1, <1>2, <1>3, <1>4, <1>5 DEF Next, Begin, Requeue, vars

\* Only the retry takes a task out of FAILED.
LEMMA FailedLeaves ==
  ASSUME IInv, [Next]_vars, NEW t \in Task, state[t] = "FAILED", state'[t] # state[t]
  PROVE  \E g \in Thread : Retry(g) /\ thread[g].task = t
  <1> USE DEF Move, NoMove, Thread
  <1>0. state \in [Task -> {"ABSENT", "PENDING", "READY", "RUNNING"} \cup Terminal]
    BY DEF IInv, TypeOK
  <1>1. ASSUME NEW h \in Handler, Call(h) PROVE FALSE
    BY <1>0, <1>1 DEF Call, ActivateRoots, Cancel, Complete, CompleteAgain, Fail, Reject, Delegate
  <1>2. ASSUME NEW h \in Thread, Step(h) PROVE Retry(h) /\ thread[h].task = t
    <2>1. ~ \E u \in Task : CancelTask(h, u)
      BY <1>0, <1>2 DEF CancelTask, IInv, CancelLists, Live
    <2> QED
      BY <1>0, <1>2, <2>1 DEF Step, RootsDone, ListReady, Retry, ListPending, Derive, Settle, CancelRead,
         CancelSet, SpawnRefused, ActivateRoot, Propagate, Prune, Spawn
  <1>3. CASE Sweep
    BY <1>0, <1>3 DEF Sweep, ExpireWakes, SweepNext, ExpireDone, ListSucceeded, SweepDone
  <1> QED
    BY <1>0, <1>1, <1>2, <1>3 DEF Next, Begin, Requeue, Crash, vars

\* The sweeper's list of expired tasks is made by ExpireWakes.
LEMMA QueueGrows ==
  ASSUME IInv, [Next]_vars, phase' = "expire", NEW t \in queue', ~ (phase = "expire" /\ t \in queue)
  PROVE  \E S \in SUBSET Waits : ExpireWakes(S) /\ t \in S
  <1>1. ~ Crash /\ ~ ExpireDone /\ ~ ListSucceeded /\ ~ SweepDone
    BY DEF Crash, ExpireDone, ListSucceeded, SweepDone
  <1>2. ASSUME NEW h \in Thread, Step(h) PROVE FALSE
    BY <1>2 DEF Step, RootsDone, ListReady, Retry, ListPending, Derive, Settle, CancelRead,
       CancelSet, SpawnRefused, ActivateRoot, Propagate, Prune, CancelTask, Spawn, Abort, sweep
  <1>3. ASSUME NEW h \in Handler, Call(h) PROVE FALSE
    BY <1>3 DEF Call, ActivateRoots, Cancel, Complete, CompleteAgain, Fail, Reject, Delegate, sweep
  <1>4. ASSUME NEW u \in Task, SweepNext(u) PROVE FALSE
    BY <1>4 DEF SweepNext
  <1>5. ASSUME NEW u \in Task, Begin(u) \/ Requeue(u) PROVE FALSE
    BY <1>5 DEF Begin, Requeue, sweep
  <1>6. PICK S \in SUBSET Waits : ExpireWakes(S)
    BY <1>1, <1>2, <1>3, <1>4, <1>5 DEF Next, vars, sweep, Sweep
  <1> QED
    BY <1>6 DEF ExpireWakes

\* A step is one thread's, except a crash, after which all are idle.
LEMMA OneThread ==
  ASSUME IInv, [Next]_vars, NEW g \in Thread, NEW h \in Thread, g # h, thread'[g] # thread[g]
  PROVE  thread'[h] = thread[h] \/ thread'[h].at = "idle"
  <1> USE DEF Become, Done, Return, Abort, Idle, At
  <1>0. thread \in [Thread -> Local]
    BY DEF IInv, TypeOK
  <1>1. ASSUME NEW k \in Handler, Call(k) PROVE \A x \in Thread \ {k} : thread'[x] = thread[x]
    BY <1>0, <1>1 DEF Call, ActivateRoots, Cancel, Complete, CompleteAgain, Fail, Reject, Delegate
  <1>2. ASSUME NEW k \in Thread, Step(k) PROVE \A x \in Thread \ {k} : thread'[x] = thread[x]
    BY <1>0, <1>2 DEF Step, RootsDone, ListReady, Retry, ListPending, Derive, Settle, CancelRead,
       CancelSet, SpawnRefused, ActivateRoot, Propagate, Prune, CancelTask, Spawn
  <1>3. CASE Sweep
    <2>1. \A x \in Thread \ {Sweeper} : thread'[x] = thread[x]
      BY <1>0, <1>3 DEF Sweep, ExpireWakes, SweepNext, ExpireDone, ListSucceeded, SweepDone
    <2> QED
      BY <2>1
  <1>4. CASE Crash
    BY <1>4 DEF Crash
  <1>5. ASSUME NEW t \in Task, Begin(t) \/ Requeue(t) PROVE thread' = thread
    BY <1>5 DEF Begin, Requeue
  <1>6. ASSUME UNCHANGED vars PROVE thread' = thread
    BY <1>6 DEF vars
  <1>7. ASSUME NEW k \in Thread, \A x \in Thread \ {k} : thread'[x] = thread[x]
        PROVE  thread'[h] = thread[h]
    BY <1>7
  <1>8. Handler \subseteq Thread
    BY DEF Thread
  <1> QED
    BY <1>1, <1>2, <1>3, <1>4, <1>5, <1>6, <1>7, <1>8 DEF Next

\* While a thread is about to retry a task nobody else touches it.
LEMMA RetryIsOwn ==
  ASSUME IInv, [Next]_vars, NEW h \in Thread, thread[h].at = "retry", thread'[h] = thread[h]
  PROVE  state'[thread[h].task] = "FAILED" /\ attempt'[thread[h].task] = attempt[thread[h].task]
  <1> DEFINE t == thread[h].task
  <1>0. /\ t \in Task /\ state[t] = "FAILED"
        /\ \A g \in Thread : Retrying(g, t) => g = h
    BY DEF IInv, Retries
  <1>1. ASSUME NEW g \in Thread, Retry(g) PROVE g # h /\ thread[g].task # t
    <2>1. thread'[g].at # "retry"
      BY <1>1 DEF Retry, Return, Become, At, IInv, TypeOK
    <2> QED
      BY <1>0, <1>1, <2>1 DEF Retry, Retrying
  <1>2. attempt'[t] = attempt[t]
    <2>1. attempt' = attempt \/ \E g \in Thread : Retry(g)
      BY Writers
    <2>2. ASSUME NEW g \in Thread, Retry(g) PROVE attempt'[t] = attempt[t]
      BY <1>0, <1>1, <2>2 DEF Retry, IInv, TypeOK
    <2> QED
      BY <2>1, <2>2
  <1>3. state'[t] = "FAILED"
    <2>1. state'[t] = state[t] \/ Retried(t)
      BY <1>0, NextEffect
      DEF Effect, Moved, Activated, CancelledBelow, CancelledByCall, Worked, Live
    <2>2. state'[t] # state[t] => \E g \in Thread : Retry(g) /\ thread[g].task = t
      BY <1>0, FailedLeaves
    <2> QED
      BY <1>0, <1>1, <2>2
  <1> QED
    BY <1>2, <1>3

-----------------------------------------------------------------------------
(* Every step keeps the invariant, one conjunct after the other.           *)

LEMMA ListsStep == IInv /\ [Next]_vars => ReadyLists' /\ Spawns'
  <1> SUFFICES ASSUME IInv, [Next]_vars, NEW h \in Thread
               PROVE  /\ \A t \in thread'[h].todo :
                           /\ thread'[h].at = "propagate" => DepsSucceeded(t)'
                           /\ thread'[h].at = "roots" => Deps[t] = {}
                      /\ thread'[h].at = "spawn" => thread'[h].task \in Task
    BY DEF ReadyLists, Spawns, Thread
  <1>1. Carries(h)
    BY NextCarries
  <1>2. ASSUME NEW t \in thread'[h].todo, thread'[h].at = "propagate" PROVE DepsSucceeded(t)'
    <2>1. t \in Task /\ DepsSucceeded(t)
      BY <1>1, <1>2 DEF Carries, ReadyTasks, DepsSucceeded, IInv, TypeOK, Local, ReadyLists
    <2> QED
      BY <2>1, Stability
  <1>3. ASSUME NEW t \in thread'[h].todo, thread'[h].at = "roots" PROVE Deps[t] = {}
    BY <1>1, <1>3 DEF Carries, IInv, ReadyLists
  <1>4. ASSUME thread'[h].at = "spawn" PROVE thread'[h].task \in Task
    BY <1>1, <1>4 DEF Carries, IInv, Spawns
  <1> QED
    BY <1>2, <1>3, <1>4

LEMMA CancelListsStep == IInv /\ [Next]_vars => CancelLists'
  <1> SUFFICES ASSUME IInv, [Next]_vars, NEW h \in Thread, thread'[h].at = "cancel",
                      NEW t \in thread'[h].todo, t \notin touched'[h]
               PROVE  Live(t)'
    BY DEF CancelLists, Thread
  <1>1. CASE thread'[h].todo = {u \in Task : Live(u)} /\ state' = state
    BY <1>1 DEF Live
  <1>2. CASE thread[h].at = "cancel" /\ thread'[h].todo \subseteq thread[h].todo
    <2>1. t \in Task /\ t \in thread[h].todo
      BY <1>2 DEF IInv, TypeOK, Local
    <2>2. t \notin touched[h] /\ state'[t] = state[t]
      BY <1>2, <2>1, NextEffect DEF Effect, Noticed
    <2> QED
      BY <1>2, <2>1, <2>2 DEF IInv, CancelLists, Live
  <1> QED
    BY <1>1, <1>2, NextCarries DEF Carries

LEMMA RetriesStep == IInv /\ [Next]_vars => Retries'
  <1> SUFFICES ASSUME IInv, [Next]_vars, NEW h \in Thread, thread'[h].at = "retry",
                      NEW t, t = thread'[h].task
               PROVE  /\ t \in Task /\ state'[t] = "FAILED" /\ attempt'[t] < MaxAttempts
                      /\ \A g \in Thread \ {h} : ~ Retrying(g, t)'
    BY DEF Retries, Retrying, Thread
  <1>1. CASE thread'[h] # thread[h]
    <2>1. t \in Task /\ state[t] = "RUNNING" /\ state'[t] = "FAILED" /\ attempt'[t] < MaxAttempts
      BY <1>1, NextCarries DEF Carries
    <2>2. ASSUME NEW g \in Thread \ {h}, Retrying(g, t)' PROVE FALSE
      <3>1. thread'[g].at = "retry" /\ thread'[g].task = t
        BY <2>2 DEF Retrying
      <3>2. CASE thread'[g] = thread[g]
        BY <2>1, <3>1, <3>2 DEF IInv, Retries
      <3>3. CASE thread'[g] # thread[g]
        BY <1>1, <3>3, OneThread
      <3> QED
        BY <3>2, <3>3
    <2> QED
      BY <2>1, <2>2
  <1>2. CASE thread'[h] = thread[h]
    <2>1. t \in Task /\ state[t] = "FAILED" /\ attempt[t] < MaxAttempts
          /\ \A g \in Thread \ {h} : ~ Retrying(g, t)
      BY <1>2 DEF IInv, Retries
    <2>2. state'[t] = "FAILED" /\ attempt'[t] = attempt[t]
      BY <1>2, RetryIsOwn
    <2>3. ASSUME NEW g \in Thread \ {h}, Retrying(g, t)' PROVE FALSE
      <3>1. thread'[g].at = "retry" /\ thread'[g].task = t /\ thread'[g] # thread[g]
        BY <2>1, <2>3 DEF Retrying
      <3> QED
        BY <2>1, <3>1, NextCarries DEF Carries
    <2> QED
      BY <2>1, <2>2, <2>3
  <1> QED
    BY <1>1, <1>2

LEMMA DeadListsStep == IInv /\ [Next]_vars => DeadLists'
  <1> SUFFICES ASSUME IInv, [Next]_vars
               PROVE  DeadLists'
    OBVIOUS
  <1>a. ASSUME NEW t \in Task, GoneForGood(t) PROVE GoneForGood(t)'
    BY <1>a, Stability
  <1>b. ASSUME NEW t \in Task, state'[t] = "FAILED", \A h \in Thread : ~ Retrying(h, t)'
        PROVE  GoneForGood(t)'
    BY <1>b DEF GoneForGood, Thread
  <1>1. ASSUME NEW h \in Thread, thread'[h].at = "listPending", NEW t, t = thread'[h].task
        PROVE  t \in Task /\ GoneForGood(t)'
    <2>1. CASE thread'[h] = thread[h]
      BY <1>a, <1>1, <2>1 DEF IInv, DeadLists
    <2>2. CASE thread'[h] # thread[h]
      <3>1. t \in Task /\ \/ state[t] = "RUNNING" /\ state'[t] = "FAILED"
                          \/ phase = "expire" /\ t \in queue
        BY <1>1, <2>2, NextCarries DEF Carries
      <3>2. CASE phase = "expire" /\ t \in queue
        BY <1>a, <3>1, <3>2 DEF IInv, DeadLists
      <3>3. CASE state[t] = "RUNNING" /\ state'[t] = "FAILED"
        <4>1. ASSUME NEW g \in Thread, Retrying(g, t)' PROVE FALSE
          <5>1. g # h /\ thread'[g].at = "retry" /\ thread'[g].task = t
            BY <1>1, <4>1 DEF Retrying
          <5>2. thread'[g] = thread[g]
            BY <2>2, <5>1, OneThread
          <5> QED
            BY <3>1, <3>3, <5>1, <5>2 DEF IInv, Retries
        <4> QED
          BY <1>b, <3>1, <3>3, <4>1
      <3> QED
        BY <3>1, <3>2, <3>3
    <2> QED
      BY <2>1, <2>2
  <1>2. ASSUME NEW h \in Thread, thread'[h].at = "prune", NEW t \in thread'[h].dead
        PROVE  GoneForGood(t)'
    <2>1. t \in Task
      BY <1>2, TypeStep DEF TypeOK, Local, Thread
    <2>2. CASE thread[h].at = "listPending" /\ t = thread[h].task
      BY <1>a, <2>1, <2>2 DEF IInv, DeadLists
    <2>3. CASE thread[h].at = "prune" /\ t \in thread[h].dead
      BY <1>a, <2>1, <2>3 DEF IInv, DeadLists
    <2>4. CASE state'[t] = "CANCELLED"
      BY <2>4 DEF GoneForGood
    <2>5. Carries(h)
      BY NextCarries
    <2>6. \/ thread[h].at = "listPending" /\ thread'[h].dead = {thread[h].task}
          \/ thread[h].at = "prune" /\ (t \in thread[h].dead \/ state'[t] = "CANCELLED")
      BY <1>2, <2>5 DEF Carries
    <2> QED
      BY <1>2, <2>2, <2>3, <2>4, <2>6
  <1>3. ASSUME phase' = "expire", NEW t \in queue' PROVE GoneForGood(t)'
    <2>1. t \in Task
      BY <1>3, TypeStep DEF TypeOK
    <2>2. CASE phase = "expire" /\ t \in queue
      BY <1>a, <2>1, <2>2 DEF IInv, DeadLists
    <2>3. CASE ~ (phase = "expire" /\ t \in queue)
      <3>1. PICK S \in SUBSET Waits : ExpireWakes(S) /\ t \in S
        BY <1>3, <2>3, QueueGrows
      <3>2. state[t] = "RUNNING" /\ state'[t] = "FAILED"
        BY <2>1, <3>1 DEF ExpireWakes, Move
      <3>3. ASSUME NEW g \in Thread, Retrying(g, t)' PROVE FALSE
        <4>1. thread'[g] = thread[g]
          BY <3>1, <3>3 DEF Retrying, ExpireWakes, Become, At, IInv, TypeOK, Thread
        <4> QED
          BY <3>2, <3>3, <4>1 DEF Retrying, IInv, Retries
      <3> QED
        BY <1>b, <2>1, <3>2, <3>3
    <2> QED
      BY <2>2, <2>3
  <1> QED
    BY <1>1, <1>2, <1>3 DEF DeadLists, Thread

LEMMA PrunedBelowStep == IInv /\ [Next]_vars => PrunedBelow'
  <1> SUFFICES ASSUME IInv, [Next]_vars, ~ cancelled' PROVE PrunedBelow'
    BY DEF PrunedBelow
  <1>1. ~ cancelled
    BY Writers
  <1>2. ASSUME NEW t \in Task, state'[t] = "CANCELLED" PROVE \E d \in Deps[t] : GoneForGood(d)'
    <2>1. \E d \in Deps[t] : GoneForGood(d)
      BY <1>1, <1>2, NextEffect
      DEF Effect, Moved, Activated, CancelledBelow, CancelledByCall, Worked, Retried, IInv, PrunedBelow
    <2>2. Deps[t] \subseteq Task
      BY DagAssumption
    <2> QED
      BY <2>1, <2>2, Stability
  <1>3. ASSUME NEW h \in Thread PROVE thread'[h].at \notin {"cancel", "cancelSet"}
    BY <1>1, NextCarries DEF Carries, IInv, PrunedBelow
  <1> QED
    BY <1>2, <1>3 DEF PrunedBelow, Thread

LEMMA SettlingStep == IInv /\ [Next]_vars => Settling'
  <1> SUFFICES ASSUME IInv, [Next]_vars, NEW h \in Thread, thread'[h].at = "settle",
                      thread'[h].status = "SUCCEEDED"
               PROVE  \A t \in Present : state[t] = "SUCCEEDED"
    BY Stability DEF Settling, Thread
  <1>1. CASE thread'[h] = thread[h]
    BY <1>1 DEF IInv, Settling
  <1>2. CASE "SUCCEEDED" = MissionStatusOf({state[t] : t \in Present})
    BY <1>2 DEF MissionStatusOf, Terminal
  <1> QED
    BY <1>1, <1>2, NextCarries DEF Carries

LEMMA MissionStep == IInv /\ [Next]_vars => SucceededMissionIsComplete'
  <1> SUFFICES ASSUME IInv, [Next]_vars, mission' = "SUCCEEDED"
               PROVE  \A t \in Present : state[t] = "SUCCEEDED"
    BY Stability DEF SucceededMissionIsComplete
  <1>1. CASE mission' = mission
    BY <1>1 DEF IInv, SucceededMissionIsComplete
  <1>2. ASSUME NEW h \in Thread, Settle(h) PROVE \A t \in Present : state[t] = "SUCCEEDED"
    BY <1>2 DEF Settle, IInv, Settling, SucceededMissionIsComplete
  <1>3. mission' = mission \/ \E h \in Thread : Settle(h)
    <2>1. ASSUME NEW h \in Thread, CancelSet(h) PROVE mission' = mission
      BY <2>1 DEF CancelSet
    <2> QED
      BY <2>1, Writers
  <1> QED
    BY <1>1, <1>2, <1>3

LEMMA InvStep == IInv /\ [Next]_vars => IInv'
  BY TypeStep, NoEarlyStartStep, MissionStep, AbsenteesStep, ListsStep, CancelListsStep, RetriesStep,
     DeadListsStep, PrunedBelowStep, SettlingStep DEF IInv

-----------------------------------------------------------------------------
(* Theorems.                                                               *)

\* IInv holds in every reachable state.
THEOREM Invariance == Spec => []IInv
  BY InitIInv, InvStep, PTL DEF Spec

\* Every record a thread carries is well formed and no task is retried beyond
\* its RetryPolicy.
THEOREM TypeCorrect == Spec => []TypeOK
  <1>1. IInv => TypeOK
    BY DEF IInv
  <1> QED
    BY <1>1, Invariance, PTL

\* Dependencies are respected, for every acyclic graph and any number of
\* concurrent propagations working from old lists.
THEOREM DependenciesRespected == Spec => []NoEarlyStart
  <1>1. IInv => NoEarlyStart
    BY DEF IInv
  <1> QED
    BY <1>1, Invariance, PTL

\* A mission is called SUCCEEDED only when every one of its tasks has.
THEOREM SuccessIsReal == Spec => []SucceededMissionIsComplete
  <1>1. IInv => SucceededMissionIsComplete
    BY DEF IInv
  <1> QED
    BY <1>1, Invariance, PTL

\* cancelUnreachable cancels only what can never run.
THEOREM PruningIsSound == Spec => []PrunedHasFailedUpstream
  <1>1. IInv => PrunedHasFailedUpstream
    BY DEF IInv, PrunedBelow, PrunedHasFailedUpstream, GoneForGood
  <1> QED
    BY <1>1, Invariance, PTL

\* The retry of a failed task never meets a conflict.
THEOREM RetriesAreDue == Spec => []RetryIsDue
  <1>1. IInv => RetryIsDue
    BY DEF IInv, Retries, RetryIsDue, Retrying
  <1> QED
    BY <1>1, Invariance, PTL
=============================================================================
