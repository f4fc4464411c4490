----------------------------- MODULE Delegation -----------------------------
(***************************************************************************)
(* Delegation and the token budget of one mission: intentDelegate and      *)
(* checkDelegateLimits (internal/core/delegate.go), SpawnSubtask and the   *)
(* holds that completion, failure and cancellation settle or release (the  *)
(* store).  A lead that runs delegates children; the limits are checked on *)
(* what several calls have read, then one transaction takes the            *)
(* idempotency key, makes the child and reserves its tokens.  A child gets *)
(* a permission envelope (Permissions) within that of its parent.          *)
(*                                                                         *)
(* RUNNING stands for every state from the offer to the end (TaskLease has *)
(* the states); whether the mission is still ACTIVE is Orchestrator's      *)
(* business.  A parent's version is modelled by what it detects: `fresh`   *)
(* turns FALSE when the parent moves while a call is under way.            *)
(***************************************************************************)
EXTENDS Integers, FiniteSets, Functions, Permissions

CONSTANTS Root,         \* the tasks the mission began with
          Child,        \* the ids delegated tasks can get
          NoTask, NoRequest,
          Request,      \* the delegations that may be asked for, and asked for again
          RootGrants,   \* the envelope of the tasks the mission began with
          Key,          \* idempotency keys
          Usage,        \* usage_tokens an agent may report
          Handler,
          Total,        \* budget_tokens, 0 for an unmetered mission
          MaxDepth, MaxFanout, MaxRework,  \* Config.MaxDelegateDepth, ...
          MaxAttempts   \* RetryPolicy.MaxAttempts

Task == Root \cup Child
Metered == Total > 0

ASSUME DelegationTasks == Root \cap Child = {} /\ NoTask \notin Task
ASSUME DelegationRequests ==
  /\ Request \subseteq [key : Key, parent : Task, child : Child, amount : Nat,
                        rework : Task \cup {NoTask}, grants : Envelope]
  /\ RootGrants \in Envelope
  /\ NoRequest \notin Request
  /\ Usage \subseteq Nat
ASSUME DelegationHandlers == IsFiniteSet(Handler) /\ Handler # {}
ASSUME DelegationBounds ==
  Total \in Nat /\ MaxDepth \in Nat /\ MaxFanout \in Nat /\ MaxRework \in Nat /\ MaxAttempts \in Nat

VARIABLES state,     \* Subtask.State
          attempt,   \* Subtask.Attempt
          parent,    \* Subtask.ParentID
          reworkOf,  \* Subtask.ReworkOf
          grants,    \* Subtask.Grants, normalized
          idem,      \* idem[k]: the child delegated under key k
          account,   \* BudgetAccount: held and spent tokens
          hold,      \* hold[t]: BudgetHold of t
          thread     \* what each handler is doing

tree == <<parent, reworkOf, grants, idem>>
vars == <<state, attempt, tree, account, hold, thread>>

Live == {"READY", "RUNNING"}
Local == [at : {"idle", "spawn", "retry"}, req : Request \cup {NoRequest}, fresh : BOOLEAN,
          task : Task \cup {NoTask}]
Idle == [at |-> "idle", req |-> NoRequest, fresh |-> FALSE, task |-> NoTask]
NoHold == [status |-> "none", amount |-> 0, actual |-> 0]

TypeOK ==
  /\ state \in [Task -> {"ABSENT", "SUCCEEDED", "FAILED", "CANCELLED"} \cup Live]
  /\ attempt \in [Task -> 0..MaxAttempts]
  /\ parent \in [Task -> Task \cup {NoTask}] /\ reworkOf \in [Task -> Task \cup {NoTask}]
  /\ grants \in [Task -> Envelope]
  /\ idem \in [Key -> Child \cup {NoTask}]
  /\ account \in [held : Nat, spent : Nat]
  /\ hold \in [Task -> [status : {"none", "held", "settled", "released"}, amount : Nat, actual : Nat]]
  /\ thread \in [Handler -> Local]

Init ==
  /\ state = [t \in Task |-> IF t \in Root THEN "READY" ELSE "ABSENT"]
  /\ attempt = [t \in Task |-> 0]
  /\ parent = [t \in Task |-> NoTask] /\ reworkOf = [t \in Task |-> NoTask]
  /\ grants = [t \in Task |-> Normalize(IF t \in Root THEN RootGrants ELSE NoGrants)]
  /\ idem = [k \in Key |-> NoTask]
  /\ account = [held |-> 0, spent |-> 0]
  /\ hold = [t \in Task |-> NoHold]
  /\ thread = [h \in Handler |-> Idle]

\* What becomes of the other calls when t moves.
Overtaken(t) ==
  [h \in Handler |-> IF thread[h].at = "spawn" /\ thread[h].req.parent = t
                     THEN [thread[h] EXCEPT !.fresh = FALSE] ELSE thread[h]]

Enter(t, s) == state' = [state EXCEPT ![t] = s]
Move(t, s) == Enter(t, s) /\ thread' = Overtaken(t)

Children(p) == {t \in Task : parent[t] = p}

\* The number of tasks on the way from t up to a root.
Depth[t \in Task] == IF parent[t] = NoTask THEN 1 ELSE 1 + Depth[parent[t]]

\* How many reworks lie behind t.
Chain[t \in Task] == IF reworkOf[t] = NoTask THEN 0 ELSE 1 + Chain[reworkOf[t]]

-----------------------------------------------------------------------------
(* Budget.                                                                 *)

Available == Total - account.held - account.spent

\* settleBudgetHold: what a completion reporting u tokens finds affordable.
Affordable(t, u) ==
  hold[t].status = "held" => /\ account.held >= hold[t].amount
                             /\ u <= Available + hold[t].amount

Settle(t, u) ==
  IF hold[t].status = "held"
  THEN /\ account' = [held |-> account.held - hold[t].amount, spent |-> account.spent + u]
       /\ hold' = [hold EXCEPT ![t].status = "settled", ![t].actual = u]
  ELSE UNCHANGED <<account, hold>>

\* releaseBudgetHold.
Release(t) ==
  IF hold[t].status = "held"
  THEN /\ account' = [account EXCEPT !.held = @ - hold[t].amount]
       /\ hold' = [hold EXCEPT ![t].status = "released"]
  ELSE UNCHANGED <<account, hold>>

-----------------------------------------------------------------------------
(* The tasks' own life.                                                    *)

Begin(t) ==
  /\ state[t] = "READY"
  /\ Move(t, "RUNNING")
  /\ UNCHANGED <<attempt, tree, account, hold>>

\* The lease expires, is fenced, or the task suspends and is woken.
Requeue(t) ==
  /\ state[t] = "RUNNING"
  /\ Move(t, "READY")
  /\ UNCHANGED <<attempt, tree, account, hold>>

\* CompleteSubtaskWithUsage: refused as a whole when it is not affordable.
Complete(t, u) ==
  /\ state[t] = "RUNNING" /\ Affordable(t, u)
  /\ Settle(t, u)
  /\ Move(t, "SUCCEEDED")
  /\ UNCHANGED <<attempt, tree>>

\* Fault: every failure gives the reservation back.
Fail_releases(h, t) ==
  /\ thread[h].at = "idle" /\ state[t] = "RUNNING"
  /\ Enter(t, "FAILED") /\ Release(t)
  /\ thread' = IF attempt[t] < MaxAttempts
               THEN [Overtaken(t) EXCEPT ![h] = [Idle EXCEPT !.at = "retry", !.task = t]]
               ELSE Overtaken(t)
  /\ UNCHANGED <<attempt, tree>>

\* FailSubtask; while attempts are left the hold stays and a retry follows.
Fail(h, t) ==
  /\ thread[h].at = "idle" /\ state[t] = "RUNNING"
  /\ Enter(t, "FAILED")
  /\ IF attempt[t] < MaxAttempts
     THEN /\ UNCHANGED <<account, hold>>
          /\ thread' = [Overtaken(t) EXCEPT ![h] = [Idle EXCEPT !.at = "retry", !.task = t]]
     ELSE Release(t) /\ thread' = Overtaken(t)
  /\ UNCHANGED <<attempt, tree>>

Retry(h) ==
  /\ thread[h].at = "retry"
  /\ Enter(thread[h].task, "READY")
  /\ attempt' = [attempt EXCEPT ![thread[h].task] = @ + 1]
  /\ thread' = [Overtaken(thread[h].task) EXCEPT ![h] = Idle]
  /\ UNCHANGED <<tree, account, hold>>

\* A suspension times out, or a person rejects: FAILED with the hold as it is.
FailOutright(t) ==
  /\ state[t] = "RUNNING"
  /\ Move(t, "FAILED")
  /\ UNCHANGED <<attempt, tree, account, hold>>

\* CancelSubtask.
Cancel(t) ==
  /\ state[t] \in Live
  /\ Release(t)
  /\ Move(t, "CANCELLED")
  /\ UNCHANGED <<attempt, tree>>

-----------------------------------------------------------------------------
(* Delegation.                                                             *)

\* A lead reworks its own children only, and not for ever.
WithinRework(r) ==
  r.rework # NoTask => /\ state[r.rework] # "ABSENT" /\ parent[r.rework] = r.parent
                       /\ Chain[r.rework] + 1 <= MaxRework

\* Fault: the parent's own level is not counted.
WithinLimits_above(r) ==
  /\ parent[r.parent] # NoTask => Depth[parent[r.parent]] <= MaxDepth
  /\ Cardinality(Children(r.parent)) < MaxFanout
  /\ WithinRework(r)

\* checkDelegateLimits.
WithinLimits(r) ==
  /\ Depth[r.parent] <= MaxDepth
  /\ Cardinality(Children(r.parent)) < MaxFanout
  /\ WithinRework(r)

\* intentDelegate up to the transaction: the parent runs, the grants are within its
\* own, the limits hold.
Delegate(h, r) ==
  /\ thread[h].at = "idle"
  /\ state[r.parent] = "RUNNING" /\ Within(grants[r.parent], r.grants) /\ WithinLimits(r)
  /\ thread' = [thread EXCEPT ![h] = [Idle EXCEPT !.at = "spawn", !.req = r, !.fresh = TRUE]]
  /\ UNCHANGED <<state, attempt, tree, account, hold>>

\* Fault: the key is looked up with the limits, not in the transaction.
Admitted_anyKey(h) ==
  LET r == thread[h].req
  IN /\ thread[h].fresh /\ state[r.parent] = "RUNNING" /\ state[r.child] = "ABSENT"
     /\ Metered => r.amount > 0 /\ r.amount <= Available

\* Fault: the balance forgets what is only reserved.
Admitted_unspent(h) ==
  LET r == thread[h].req
  IN /\ idem[r.key] = NoTask
     /\ thread[h].fresh /\ state[r.parent] = "RUNNING" /\ state[r.child] = "ABSENT"
     /\ Metered => r.amount > 0 /\ r.amount <= Total - account.spent

\* What SpawnSubtask checks in its transaction.
Admitted(h) ==
  LET r == thread[h].req
  IN /\ idem[r.key] = NoTask
     /\ thread[h].fresh /\ state[r.parent] = "RUNNING" /\ state[r.child] = "ABSENT"
     /\ Metered => r.amount > 0 /\ r.amount <= Available

SpawnSubtask(h) ==
  /\ thread[h].at = "spawn" /\ Admitted(h)
  /\ LET r == thread[h].req
     IN /\ Enter(r.child, "READY")
        /\ parent' = [parent EXCEPT ![r.child] = r.parent]
        /\ reworkOf' = [reworkOf EXCEPT ![r.child] = r.rework]
        /\ grants' = [grants EXCEPT ![r.child] = Normalize(r.grants)]
        /\ idem' = [idem EXCEPT ![r.key] = r.child]
        /\ IF Metered
           THEN /\ hold' = [hold EXCEPT ![r.child] =
                              [status |-> "held", amount |-> r.amount, actual |-> 0]]
                /\ account' = [account EXCEPT !.held = @ + r.amount]
           ELSE UNCHANGED <<hold, account>>
  /\ thread' = [thread EXCEPT ![h] = Idle]
  /\ UNCHANGED attempt

\* A repeated request is answered with its child, another refused; so is one
\* whose caller's lease has run out.
SpawnEnds(h) ==
  /\ thread[h].at = "spawn"
  /\ thread' = [thread EXCEPT ![h] = Idle]
  /\ UNCHANGED <<state, attempt, tree, account, hold>>

-----------------------------------------------------------------------------
Next ==
  \/ \E t \in Task : \/ Begin(t) \/ Requeue(t) \/ FailOutright(t) \/ Cancel(t)
                     \/ \E u \in Usage : Complete(t, u)
  \/ \E h \in Handler : \/ Retry(h) \/ SpawnSubtask(h) \/ SpawnEnds(h)
                        \/ \E t \in Task : Fail(h, t)
                        \/ \E r \in Request : Delegate(h, r)

Spec == Init /\ [][Next]_vars

-----------------------------------------------------------------------------
(* Properties.                                                             *)

HeldBy(T) == {t \in T : hold[t].status = "held"}
SettledBy(T) == {t \in T : hold[t].status = "settled"}

\* The account is the sum of its holds, and the tokens promised and spent never
\* exceed the mission's budget, whatever delegations, completions with their
\* own idea of the usage, failures and cancellations meet.
BudgetBalances ==
  /\ account.held = SumFunctionOnSet([t \in Task |-> hold[t].amount], HeldBy(Task))
  /\ account.spent = SumFunctionOnSet([t \in Task |-> hold[t].actual], SettledBy(Task))
  /\ account.held + account.spent <= Total

\* In a metered mission a delegated task holds its reservation for as long as
\* it can still run, through every retry, and one that has succeeded or was
\* cancelled holds none.  A failure gives it back when no attempt is left, and
\* never earlier: a FAILED task that may yet be retried holds it (FailSubtask).
\* That one that has failed for good holds none is EndedTaskHoldsNothing.
HoldFollowsTask ==
  Metered => \A c \in Child :
    CASE state[c] = "ABSENT" -> hold[c].status = "none"
      [] state[c] \in Live -> hold[c].status = "held"
      [] state[c] = "SUCCEEDED" -> hold[c].status = "settled"
      [] state[c] = "CANCELLED" -> hold[c].status = "released"
      [] state[c] = "FAILED" ->
           \/ hold[c].status = "held"
           \/ hold[c].status = "released" /\ attempt[c] = MaxAttempts

\* One key, one child, and no child without its key, whoever repeats a request
\* at the same time.
OneChildPerKey ==
  /\ \A j, k \in Key : idem[j] # NoTask /\ idem[j] = idem[k] => j = k
  /\ \A c \in Child : state[c] # "ABSENT" <=> \E k \in Key : idem[k] = c

\* The limits are checked before the transaction, on what may be out of date by
\* then.  Depth and rework never give; the fan-out gives by at most one child
\* for each call that runs at the same time.
DelegationBounded ==
  \A t \in Task : /\ Depth[t] <= MaxDepth + 1 /\ Chain[t] <= MaxRework
                  /\ Cardinality(Children(t)) < MaxFanout + Cardinality(Handler)

RootOf[t \in Task] == IF parent[t] = NoTask THEN t ELSE RootOf[parent[t]]

\* However long the chain of delegations, and whatever is on the blackboard when its
\* lease is made, the context package of a task holds nothing, and in no wider mode,
\* that the envelope of the task the chain began with does not allow (boardGrantCovers
\* compares view by view, the package is built entry by entry).
ContextWithinRootGrants ==
  \A t \in {u \in Child : state[u] # "ABSENT"} :
    LET root == grants[RootOf[t]]
        pkg  == Package(grants[t], Space \X Entry, Artifact)
    IN /\ \A b \in pkg.board : May(root, b.entry, b.mode)
       /\ pkg.artifacts \subseteq root.artifacts /\ Rank[grants[t].class] <= Rank[root.class]

\* "released on final failure or cancellation" (M7C-budget-holds.md, B4): a
\* task that ended for good holds nothing.
EndedTaskHoldsNothing ==
  \A t \in Task : state[t] \in {"SUCCEEDED", "FAILED", "CANCELLED"} =>
    \/ hold[t].status # "held"
    \/ \E h \in Handler : thread[h].at = "retry" /\ thread[h].task = t
=============================================================================
