-------------------------------- MODULE Hitl --------------------------------
(***************************************************************************)
(* People in the loop (internal/core/hitl.go and the decision operations   *)
(* of the store).  A human node is asked by the scheduler loop and ends    *)
(* with the verdict; an agent may ask about its own task and goes on after *)
(* an approval.  Asking, answering and applying the answer are separate    *)
(* transactions of concurrent threads; the sweep lets questions time out   *)
(* and applies every answer again, in case a crash lost it.                *)
(*                                                                         *)
(* How a READY task gets to its agent is TaskLease's business, what a      *)
(* final state does to the rest of the mission is Orchestrator's: RUNNING  *)
(* stands for OFFERED, LEASED, RUNNING and WAITING, and a retry is seen as *)
(* Requeue.  A task enters BLOCKED exactly when a decision is made for it, *)
(* so a version read while BLOCKED is modelled by the task's youngest      *)
(* decision.  Loops over a list take their elements in any order.          *)
(***************************************************************************)
EXTENDS Naturals, Sequences, FiniteSets

CONSTANTS Task,
          Human,        \* the human_approval and human_decision nodes
          Rules,        \* the timeout rules a human node may carry
          Opener,       \* scheduler loops, one per replica
          Handler,      \* threads serving the calls of people
          Sweeper,
          MaxDecisions, \* bound: decisions ever made
          MaxCrash      \* bound: crashes of the control plane

\* OnTimeout of a node; "never" stands for a node without a deadline.
TimeoutRule == {"never", "none", "auto_approve", "auto_reject"}

ASSUME HitlTasks == Human \subseteq Task /\ Rules \subseteq TimeoutRule
ASSUME HitlThreads == Sweeper \notin Handler \cup Opener /\ Handler \cap Opener = {}
ASSUME HitlBounds == MaxDecisions \in Nat /\ MaxCrash \in Nat

VARIABLES state,    \* Subtask.State
          onTimeout, \* OnTimeout of each human node, given with the mission
          decision, \* the decisions, in the order they were made
          thread,   \* what each thread is doing
          phase,    \* the part of SweepOnce the sweeper is in
          queue,    \* the decisions that part still has to apply
          crashes

sweep == <<phase, queue>>
vars == <<state, onTimeout, decision, thread, sweep, crashes>>

Thread == Opener \cup Handler \cup {Sweeper}
Applier == Handler \cup {Sweeper}

Verdict == {"approve", "reject"}
Decision == [task : Task, status : {"pending", "resolved", "expired"},
             choice : Verdict \cup {"none"}]
Made == 1..Len(decision)
Of(t) == {d \in Made : decision[d].task = t}

\* todo: the human nodes still to be asked; about: the decision being applied;
\* seen: the youngest decision of its task when the task was read.
Local == [at : {"idle", "open", "look", "apply", "complete", "next"},
          todo : SUBSET Task, about : Nat, seen : Nat]
At(point) == [at |-> point, todo |-> {}, about |-> 0, seen |-> 0]
Idle == At("idle")

Final == {"SUCCEEDED", "FAILED", "CANCELLED"}

TypeOK ==
  /\ state \in [Task -> {"READY", "RUNNING", "BLOCKED"} \cup Final]
  /\ onTimeout \in [Human -> TimeoutRule]
  /\ decision \in Seq(Decision)
  /\ thread \in [Thread -> Local]
  /\ phase \in {"none", "expire", "resolved"}
  /\ queue \subseteq Made
  /\ crashes \in 0..MaxCrash

Init ==
  /\ state = [t \in Task |-> "READY"]
  /\ onTimeout \in [Human -> Rules]
  /\ decision = <<>>
  /\ thread = [h \in Thread |-> Idle]
  /\ phase = "none" /\ queue = {}
  /\ crashes = 0

Become(h, local) == thread' = [thread EXCEPT ![h] = local]
Return(h) == Become(h, At(IF h = Sweeper THEN "next" ELSE "idle"))

\* An error ends the call, and with it the sweep.
Abort(h) ==
  /\ Become(h, Idle)
  /\ IF h = Sweeper THEN phase' = "none" /\ queue' = {} ELSE UNCHANGED sweep

Enter(t, s) == state' = [state EXCEPT ![t] = s]

\* The youngest decision of t, 0 without one.
Youngest(t) == CHOOSE d \in Of(t) \cup {0} : \A e \in Of(t) : e <= d

-----------------------------------------------------------------------------
(* The task's own life.                                                    *)

\* An agent takes a READY task, gives it back or ends it.
Begin(t) ==
  /\ t \notin Human /\ state[t] = "READY"
  /\ Enter(t, "RUNNING") /\ UNCHANGED <<decision, thread, sweep, crashes, onTimeout>>

Requeue(t) ==
  /\ t \notin Human /\ state[t] = "RUNNING"
  /\ Enter(t, "READY") /\ UNCHANGED <<decision, thread, sweep, crashes, onTimeout>>

Finish(t) ==
  /\ t \notin Human /\ state[t] = "RUNNING"
  /\ Enter(t, "SUCCEEDED") \/ Enter(t, "FAILED")
  /\ UNCHANGED <<decision, thread, sweep, crashes, onTimeout>>

\* CancelMission takes any task that is not over.
CancelTask(t) ==
  /\ state[t] \notin Final
  /\ Enter(t, "CANCELLED") /\ UNCHANGED <<decision, thread, sweep, crashes, onTimeout>>

-----------------------------------------------------------------------------
(* Asking.                                                                 *)

\* CreateDecisionAndBlock.
Ask(t) ==
  /\ Len(decision) < MaxDecisions
  /\ decision' = Append(decision, [task |-> t, status |-> "pending", choice |-> "none"])
  /\ Enter(t, "BLOCKED")

\* RequestDecision by the agent that runs t.
RequestDecision(t) ==
  /\ t \notin Human /\ state[t] = "RUNNING"
  /\ Ask(t)
  /\ UNCHANGED <<thread, sweep, crashes, onTimeout>>

\* OpenHumanDecisions lists the READY human nodes.
ListHuman(o) ==
  /\ o \in Opener /\ thread[o].at = "idle"
  /\ \E t \in Human : state[t] = "READY"
  /\ Become(o, [At("open") EXCEPT !.todo = {t \in Human : state[t] = "READY"}])
  /\ UNCHANGED <<state, decision, sweep, crashes, onTimeout>>

\* Fault: the node's version is not compared.
Open_blind(o, t) ==
  /\ thread[o].at = "open" /\ t \in thread[o].todo
  /\ Ask(t)
  /\ Become(o, [thread[o] EXCEPT !.todo = @ \ {t}])
  /\ UNCHANGED <<sweep, crashes, onTimeout>>

\* A node that is no longer READY is a conflict, and skipped.
Open(o, t) ==
  /\ thread[o].at = "open" /\ t \in thread[o].todo
  /\ IF state[t] = "READY" THEN Ask(t) ELSE UNCHANGED <<state, decision>>
  /\ Become(o, [thread[o] EXCEPT !.todo = @ \ {t}])
  /\ UNCHANGED <<sweep, crashes, onTimeout>>

Opened(o) ==
  /\ thread[o].at = "open" /\ thread[o].todo = {}
  /\ Become(o, Idle)
  /\ UNCHANGED <<state, decision, sweep, crashes, onTimeout>>

-----------------------------------------------------------------------------
(* Answering.                                                              *)

\* Fault: a late answer replaces the one already stored.
Resolve_late(h, d, verdict) ==
  /\ h \in Handler /\ thread[h].at = "idle"
  /\ d \in Made
  /\ decision' = [decision EXCEPT ![d].status = "resolved", ![d].choice = verdict]
  /\ Become(h, [At("look") EXCEPT !.about = d])
  /\ UNCHANGED <<state, sweep, crashes, onTimeout>>

\* ResolveDecision: only a pending decision takes an answer.
Resolve(h, d, verdict) ==
  /\ h \in Handler /\ thread[h].at = "idle"
  /\ d \in Made /\ decision[d].status = "pending"
  /\ decision' = [decision EXCEPT ![d].status = "resolved", ![d].choice = verdict]
  /\ Become(h, [At("look") EXCEPT !.about = d])
  /\ UNCHANGED <<state, sweep, crashes, onTimeout>>

\* What its rule makes of a decision nobody took in time.
TimedOut(d) ==
  CASE onTimeout[decision[d].task] = "none" -> [decision[d] EXCEPT !.status = "expired"]
    [] onTimeout[decision[d].task] = "auto_approve" ->
         [decision[d] EXCEPT !.status = "resolved", !.choice = "approve"]
    [] OTHER -> [decision[d] EXCEPT !.status = "resolved", !.choice = "reject"]

\* ExpireDecisions, all the overdue ones at once; the sweep goes on with those
\* that their rule decided.
ExpireDecisions(overdue) ==
  /\ thread[Sweeper].at = "idle"
  /\ \A d \in overdue : /\ decision[d].status = "pending" /\ decision[d].task \in Human
                        /\ onTimeout[decision[d].task] # "never"
  /\ decision' = [d \in Made |-> IF d \in overdue THEN TimedOut(d) ELSE decision[d]]
  /\ Become(Sweeper, At("next"))
  /\ phase' = "expire"
  /\ queue' = {d \in overdue : onTimeout[decision[d].task] # "none"}
  /\ UNCHANGED <<state, crashes, onTimeout>>

-----------------------------------------------------------------------------
(* Applying an answer: applyDecisionOutcome.                               *)

\* It lists the tasks: one that is not BLOCKED has been dealt with.
Look(h) ==
  /\ thread[h].at = "look"
  /\ LET t == decision[thread[h].about].task
     IN IF state[t] = "BLOCKED"
        THEN Become(h, [thread[h] EXCEPT !.at = "apply", !.seen = Youngest(t)])
        ELSE Return(h)
  /\ UNCHANGED <<state, decision, sweep, crashes, onTimeout>>

\* The task is as it was when it was listed: the version still matches.
AsSeen(h, t) == state[t] = "BLOCKED" /\ Youngest(t) = thread[h].seen

ApplyReject(h) ==
  /\ thread[h].at = "apply" /\ decision[thread[h].about].choice = "reject"
  /\ AsSeen(h, decision[thread[h].about].task)
  /\ Enter(decision[thread[h].about].task, "FAILED")
  /\ Return(h)
  /\ UNCHANGED <<decision, sweep, crashes, onTimeout>>

\* Any choice but "reject" approves.  A human node still has to be completed.
ApplyApprove(h) ==
  /\ thread[h].at = "apply" /\ decision[thread[h].about].choice # "reject"
  /\ AsSeen(h, decision[thread[h].about].task)
  /\ Enter(decision[thread[h].about].task, "RUNNING")
  /\ IF decision[thread[h].about].task \in Human
     THEN Become(h, [thread[h] EXCEPT !.at = "complete"]) ELSE Return(h)
  /\ UNCHANGED <<decision, sweep, crashes, onTimeout>>

ApplyConflict(h) ==
  /\ thread[h].at = "apply" /\ ~ AsSeen(h, decision[thread[h].about].task)
  /\ Abort(h)
  /\ UNCHANGED <<state, decision, crashes, onTimeout>>

\* Fault: the second step does not look at the node again.
Complete_blind(h) ==
  /\ thread[h].at = "complete"
  /\ Enter(decision[thread[h].about].task, "SUCCEEDED") /\ Return(h)
  /\ UNCHANGED <<decision, sweep, crashes, onTimeout>>

\* The second transaction of an approved human node.
Complete(h) ==
  /\ thread[h].at = "complete"
  /\ IF state[decision[thread[h].about].task] = "RUNNING"
     THEN Enter(decision[thread[h].about].task, "SUCCEEDED") /\ Return(h) /\ UNCHANGED sweep
     ELSE UNCHANGED state /\ Abort(h)
  /\ UNCHANGED <<decision, crashes, onTimeout>>

-----------------------------------------------------------------------------
(* The sweep goes through its decisions.                                   *)

SweepNext(d) ==
  /\ thread[Sweeper].at = "next" /\ d \in queue
  /\ queue' = queue \ {d}
  /\ Become(Sweeper, [At("look") EXCEPT !.about = d])
  /\ UNCHANGED <<state, decision, phase, crashes, onTimeout>>

\* Fault: whatever is no longer pending is applied again.
Resolved_notPending == {d \in Made : decision[d].status # "pending"}

\* Fault: answers are applied once, by the call that brought them.
Resolved_none == {}

Resolved == {d \in Made : decision[d].status = "resolved"}

\* reconcileResolvedDecisions lists every decision ever resolved.
ListResolved ==
  /\ thread[Sweeper].at = "next" /\ phase = "expire" /\ queue = {}
  /\ phase' = "resolved" /\ queue' = Resolved
  /\ UNCHANGED <<state, decision, thread, crashes, onTimeout>>

SweepDone ==
  /\ thread[Sweeper].at = "next" /\ phase = "resolved" /\ queue = {}
  /\ phase' = "none"
  /\ Become(Sweeper, Idle)
  /\ UNCHANGED <<state, decision, queue, crashes, onTimeout>>

\* The process stops, wherever its threads are, and starts again.
Crash ==
  /\ crashes < MaxCrash /\ \E h \in Thread : thread[h] # Idle
  /\ crashes' = crashes + 1
  /\ thread' = [h \in Thread |-> Idle]
  /\ phase' = "none" /\ queue' = {}
  /\ UNCHANGED <<state, decision, onTimeout>>

-----------------------------------------------------------------------------
Agents == \E t \in Task : Begin(t) \/ Requeue(t) \/ Finish(t) \/ RequestDecision(t)

OpenHumanDecisions(o) == ListHuman(o) \/ Opened(o) \/ \E t \in Human : Open(o, t)

ApplyDecisionOutcome(h) ==
  Look(h) \/ ApplyReject(h) \/ ApplyApprove(h) \/ ApplyConflict(h) \/ Complete(h)

SweepOnce ==
  \/ \E overdue \in SUBSET Made : ExpireDecisions(overdue)
  \/ \E d \in Made : SweepNext(d)
  \/ ListResolved \/ SweepDone

Next ==
  \/ Agents
  \/ \E t \in Task : CancelTask(t)
  \/ \E o \in Opener : OpenHumanDecisions(o)
  \/ \E h \in Handler, d \in Made, verdict \in Verdict : Resolve(h, d, verdict)
  \/ \E h \in Applier : ApplyDecisionOutcome(h)
  \/ SweepOnce
  \/ Crash

Spec == Init /\ [][Next]_vars

-----------------------------------------------------------------------------
(* Properties.                                                             *)

\* A human node is asked about once, whatever the number of scheduler loops,
\* and stands where its one decision puts it: nothing but a person's answer or
\* the node's own timeout rule ends it, an expired question does not.
HumanNodeFollowsItsDecision ==
  \A t \in Human :
    /\ Cardinality(Of(t)) <= 1
    /\ Of(t) = {} => state[t] \in {"READY", "CANCELLED"}
    /\ \A d \in Of(t) :
         CASE decision[d].status # "resolved" -> state[t] \in {"BLOCKED", "CANCELLED"}
           [] decision[d].choice = "approve" ->
                state[t] \in {"BLOCKED", "RUNNING", "SUCCEEDED", "CANCELLED"}
           [] OTHER -> state[t] \in {"BLOCKED", "FAILED", "CANCELLED"}

\* Whoever answers first, a person or the timeout, has decided: two answers that cross
\* do not overwrite each other, and a task that was cancelled while its answer was on
\* the way stays cancelled (ResolveDecision, ExpireDecision, ResumeBlockedDecision).
DecidedIsFinal ==
  [][/\ \A d \in Made : decision[d].status # "pending" => decision'[d] = decision[d]
     /\ \A t \in Task : state[t] \in Final => state'[t] = state[t]]_vars

\* "idempotent for a task already dealt with" (service.go,
\* reconcileResolvedDecisions): replaying old answers never moves a task that
\* waits for the answer to its own, newer question.
ReplayIsIdempotent ==
  [][\A t \in Task : state[t] = "BLOCKED" /\ state'[t] \in {"RUNNING", "FAILED"}
       => decision[Youngest(t)].status = "resolved"]_vars

-----------------------------------------------------------------------------
(* Liveness: the loops run for ever and calls that have begun go on;       *)
(* people, agents and clocks owe nothing.                                  *)

Fairness ==
  /\ \A o \in Opener : WF_vars(OpenHumanDecisions(o))
  /\ \A h \in Applier : WF_vars(ApplyDecisionOutcome(h))
  /\ WF_vars(SweepOnce)

FairSpec == Spec /\ Fairness

\* An answer stored just before a crash still reaches its task.
AnswerIsApplied ==
  \A t \in Task : (state[t] = "BLOCKED" /\ decision[Youngest(t)].status = "resolved")
                  ~> state[t] # "BLOCKED"

\* "replays the effect of stored answers" (service.go,
\* reconcileResolvedDecisions), "an approved node goes BLOCKED, RUNNING,
\* SUCCEEDED" (M2-hitl.md): an approved human node comes to its end.
ApprovalCompletesNode ==
  \A t \in Human : (\E d \in Of(t) : decision[d].choice = "approve") ~> state[t] \in Final
=============================================================================
