# agent-troop: specifications, model checking and proofs

agent-troop is a control plane for missions: graphs of subtasks that are leased
to agents, answered by people, delegated further by lead agents, retried and
cancelled. This directory specifies its task protocol in TLA+, checks it with
TLC on small instances and proves its safety properties with TLAPS.

1. [The system](#1-the-system)
2. [Modules](#2-modules)
3. [Runs](#3-runs)
4. [Proofs](#4-proofs)
5. [Where code and text disagree](#5-where-code-and-text-disagree)
6. [Not modelled](#6-not-modelled)
7. [Plan](#7-plan)

## 1. The system

One process (`cmd/troopd`) runs

* HTTP handlers, concurrently: the API of agents, people and clients;
* the scheduler loop, every 500 ms: `ScheduleOnce`, then `OpenHumanDecisions`;
* the sweep loop, every 5 s: `SweepOnce`, which in this order takes over stale
  leads, expires leases, marks silent agents, expires decisions and applies those
  their rule decided, wakes and expires suspended tasks, activates pending
  roots, propagates from succeeded tasks, repeats reputation signals and applies
  all resolved decisions again. The first error ends the sweep until the next.

All of them work on a store. A method of the store is one transaction: PostgreSQL
with the subtask's row locked, or the memory store under one mutex. **A call of
the service is several transactions**, with lists read in between; that is where
the interesting interleavings are. Several processes on one database are supported
(design, ADR-6), so two scheduler loops may run.

| component | state | operations | what must hold |
|---|---|---|---|
| state machine (`internal/mission`) | `Subtask.State`, `Mission.Status` | `Apply`, `MissionStatusOf` | legal transitions only; a mission's status follows from its tasks |
| leases (`internal/store`) | task row, lease row, `fencing_seq` | offer, accept, start, renew, expire, complete, fail, checkpoint, suspend, wake, block, cancel, takeover | one execution at a time; late executions have no effect; dead agents lose their tasks |
| orchestrator (`core/service.go`) | the mission's tasks, attempts, status | create, propagate, retry, prune, derive, cancel, reconcile | no task before its dependencies; a true final status; nothing lost in a crash |
| people (`core/hitl.go`) | decisions | open, request, resolve, expire, apply | one question per node, one answer per question, the answer has its effect once |
| delegation (`core/delegate.go`) | parent links, rework links, idempotency keys | `intentDelegate`, `SpawnSubtask` | bounded trees, one child per key |
| budget (store) | account, one hold per child | hold, settle, release | never more promised and spent than there is; nothing stays reserved for nothing |
| scheduler (`core/scheduler.go`) | agents' running counts | filter, score, offer | capacity is respected, human nodes are not offered |
| agent health (`core/service.go`) | health, last heartbeat | register, heartbeat, suspect | the dead are noticed, the living are not suspected for good |
| triggers (`core/trigger.go`, `core/cel.go`) | wake registrations, event log, board | suspend, wake, evaluate, expire | each wait ends, for its own reason only |
| leads (`core/lead.go`) | inbox, plan snapshot, lease | enqueue, ingest, save, restore, take over | no result lost or taken twice over a takeover |
| intents (`core/intent.go`) | idempotency keys | create mission, wake, delegate | one mission per key, under way once answered |
| permissions (`mission/permissions.go`, `store/context.go`) | an envelope per task | normalise, compare, build a context package | no task sees or may write more than the first delegator was given |
| reputation (`core/quality.go`, store) | signals, one row per agent and skill, appeals | record an outcome, a quality, an appeal; replay | each signal counts once and for what happened |
| metering, market, simulation, blobs, API, auth, adapters, SDK, console | | | see section 6 |

What is hard to test here, line by line, is the `hazards` list of `PROJECT.json`:
decisions on stale lists, conflicts that end a call half-way, crashes between
two transactions of a call, late results of fenced executions, repeated and
crossing answers, reservations that follow tasks through failure and retry.

## 2. Modules

| module | models | extends or uses |
|---|---|---|
| `MissionFSM` | the transition table and `MissionStatusOf` | |
| `ExclusiveExecution` | abstract: a task has one owner at a time, grants are numbered, only the owner leaves a result or checkpoint | |
| `TaskLease` | every store transaction on tasks and leases | `MissionFSM`; implements `ExclusiveExecution` |
| `Orchestrator` | the service's multi-transaction calls on the tasks of one mission, the sweeper and crashes | `MissionFSM` |
| `Hitl` | decisions: asking, answering, timing out, applying | |
| `Permissions` | envelopes, their order, context packages | |
| `Delegation` | delegation limits, idempotency keys, envelopes, budget account and holds | `Permissions` |
| `Wake` | waiting for a time, an event, a condition or a person | |
| `LeadRecovery` | a lead's plan and inbox over crashes and takeovers | |
| `OncePerKey` | abstract: under one key one mission, and every answer names it | |
| `Intents` | create_mission: validation, key, mission, roots, repetition | implements `OncePerKey` |
| `Scheduling` | placement by several replicas, agents' health | |
| `Reputation` | signals, rows, quality records, appeals | |
| `MC...` | instances for TLC of the module they are named after | |
| `TaskLeaseProofs`, `OrchestratorProofs`, `HitlProofs`, `DelegationProofs`, `WakeProofs`, `LeadRecoveryProofs`, `SchedulingProofs` | theorems about the module each is named after | that module |
| `IdempotencyProofs` | theorems about what is done once for every id: missions for their keys, signals for theirs | `Intents`, `Reputation` |

The components share the task's state. Each module has in full the part of the state
machine its properties need and collapses the rest:
`TaskLease` has all states and treats the decisions *which* task to activate,
retry, cancel or approve as free choices of the service; `Orchestrator`, `Hitl` and
`Delegation` make those choices and collapse the agent's states into `RUNNING`.
What `TaskLease` allows a task in a state is what the others assume of agents (`Begin`,
`Requeue`, `Complete`, `Fail`).

**TaskLease.** State: `state`, `parent`, `attempt`, `leaseOf` (the task's
columns), `fencing` (the sequence), `leaseState`, `leaseTask`, `leaseAgent`
(the leases table), `snapshot` (lead plans on the board), `alive` agents,
`handler` (the second transaction a service thread still owes) and two history
variables, `resultBy` and `savedBy`. A lease and its fencing token are one
number. Clock time is the set `overdue` of leases whose `expires_at` has passed:
`LeaseTimeout` is a tick, renewing takes a lease out. A call whose version is out of date changes nothing
and is a stutter. Board writes by clients into the `lead-plan` namespace are not modelled.

**Orchestrator.** A thread is a record: where it stands (`at`), the task it is about,
the list it loops over (`todo`), the tasks found unreachable (`dead`), the status it
read or derived. Each action is one transaction or one read. A version check is modelled
by what it detects: a PENDING task or an ACTIVE mission that changed never
changes back, so comparing the value is comparing the version; for
cancellation, which lists tasks of any live state, `touched` records the tasks that
moved since they were listed (`Begin` of a RUNNING task is such a step: accepting, starting and blocking
show in the version only). Loops take their list in any order.

**Hitl.** Decisions are a sequence, so the youngest of a task is the one it
is blocked for; a version read while BLOCKED is the index of that decision. A
node's timeout rule is chosen with the mission. `apply` and `complete` are separate
transactions, and a conflict ends the call and with it the sweep.

**Delegation.** `Delegate` does the checks on what it reads, `SpawnSubtask` is the transaction;
between them the parent may move, which clears `fresh`. Because RUNNING stands for more than RUNNING here,
a parent may delegate in a few states in which the code would refuse it; the properties hold all the same.
Retry is the second transaction of a failure, as in `Orchestrator`.

The envelope of a request is compared with the parent's
(`Within`) where the code compares it, before the transaction; a task's package is
built from the envelope it was stored with.

**Permissions.** Pure operators. A view is a namespace, a set of keys (no key named
means all) and a mode; `Normalize` is what happens to the strings a caller left out
or sent empty, `Within` is `PermissionEnvelopeSubset`, which compares view by view,
and `BoardView` is `buildContextPackageTx`, which collects entry by entry. That the two agree along a
chain of delegations is `Delegation`'s `ContextWithinRootGrants`.

**Wake.** State: the tasks with their wake registration (`after` is the event watermark), the board, the event log
and the sequence numbers drawn and not yet committed, the clock and the four kinds of threads. Suspending reads the watermark
in one action and stores the registration under the version the agent knows in another. The sweep lists waiting tasks, then looks at
each (events page by page, entries namespace by namespace), then writes under the version it listed; a board write does the same for
the conditions that refer to its key; a person wakes what they last saw. A condition is reduced to the chains of
selections it makes from the board, which is all that loading (`celBoardView`), filtering
(`extractBoardRefs`, `referencesBoard`) and its value depend on; `Dynamic` is an index that is known only at run time, and `big` a
value on which the evaluation exceeds its cost limit. `once` and `wokenBy` are history.

**LeadRecovery.** State: the lead with its lease and the time left on it, each child, its inbox item, the plan
entry with its version, what each agent knows, and the calls that are under way: a set of messages that are delivered in any order, any number of times, or never.
A plan is the set of children whose results it contains. `GetLeadContext` is two reads; `SaveLeadSnapshot` checks the
token, then the version, and renews the lease; an agent that crashes forgets all it knows and may come back.

**Intents.** State: the key table, missions, the state of their roots, handlers and the answers given. `Submit` is everything
before the key is taken (authorisation, `validateDAG` with Kahn's count written as a recursive
function that takes all free tasks of a round at once where the code takes them from a queue: the count is the same); reserving, creating, looking, and each activation of a root are actions of their own, also for repeated
requests, which repair what a crash left. `Promise` instantiates `OncePerKey` with `made` mapped to the missions that exist under their reserved id.

**Scheduling.** A pass is a record: the tasks read and not dealt with yet, the healthy agents and their running counts as read, the tasks that moved
since. The queue is sorted by priority, age and id in the code; here it is a set that is taken in `Order`, first (`First`) to last. `DequeueReady` and the list of agents are two reads; each offer is a transaction that fails if the task moved. The
strategy's choice among the eligible agents is free. The health part has registration, heartbeats, the sweep's
list of silent agents and the marks it makes on that list.

**Reputation.** A signal transaction is two steps, so that row locks can be seen: the insertion of the signal with the read of the row, and
the commit. Callers record outcomes, quality (one transaction over all skills) and appeals; the sweep lists ended tasks and repeats.
The signals a call still has to apply (`todo`) are a set and are taken in any order, of which the code's is one; `mine` are those of its open
transaction, with what it read of their rows (`seen`) and the rows it has locked (`locked`: those that exist). A row is the number of signals in it. `faults` counts failed writes and crashes.

Definitions whose name has a suffix (`Fenced_anyToken`) and whose comment begins
with "Fault:" are plausible bugs. No specification uses them; the mutation
checks put them in the place of the definition they are named after, and each property is seen to fail with one of them.

## 3. Runs

| run | checks | instance and bounds |
|---|---|---|
| `TaskLease` | types; `ActiveLeaseIsCurrent`; `ExecutionIsLeased`; `ResultFromYoungestLease`; `ImplementsExclusiveExecution`; `AbandonedLeaseIsReclaimed` | a root, its child and a human node, two agents of which one may die, two leases, one retry; 386,000 states |
| `Orchestrator` | types; `NoEarlyStart`; `SucceededMissionIsComplete`; `PrunedHasFailedUpstream`; `RetryIsDue` | a chain of two with a delegated child, two calls and the sweeper, one retry, a suspension that can expire; 4.7 million states |
| `OrchestratorLive` | `ReadyTaskIsActivated`; `CompletionIsNoticed` | two roots and a join, one call, the sweeper, one crash; 24,000 states |
| `Hitl` | `HumanNodeFollowsItsDecision`; `DecidedIsFinal`; `AnswerIsApplied` | a human node with each timeout rule, an agent's task, two scheduler loops, one answering call, two decisions, one crash; 539,000 states |
| `Delegation` | `BudgetBalances`; `HoldFollowsTask`; `OneChildPerKey`; `DelegationBounded`; `ContextWithinRootGrants` | a root, three ids, ten requests over five keys, two calls, 5 tokens, depth 2, fan-out 2, one rework, one retry; 1.2 million states |
| `Wake` | `AnEventWakesOnce`; `WakeIsJustified`; `WriteIsNoticed` | one task with a timer, an event and a two-namespace condition, one sweep, one writer, one person, one caller, one event, time to 2, four waits; 2.5 million states |
| `WakeLive` | `DueWaitEnds` | one task, two events on two pages, a dynamic reference, a condition on the time alone, a value that exceeds the cost limit, one crash; 636,000 states |
| `LeadRecovery` | `NoResultIsForgotten`; `SuccessorOwnsThePlan`; `PlanOnlyGrows`; `DeadLeadIsReplaced` | two agents, one child, two leases of two ticks, two versions of the plan, two calls under way; 663,000 states |
| `Intents` | `AnsweredIsUnderWay`; `MissionsCanFinish`; `KeepsPromise`; `KeyIsNeverStuck` | two keys, eight requests (three of them for one key), two handlers, two crashes; 22,000 states |
| `Scheduling` | `ReplicaKeepsToRoom`; `PriorityTakesRoomFirst`; `RoomIsUsed`; `HealthIsFollowed` | two replicas, one agent with room for one, three tasks of which the first fits nobody; 730,000 states |
| `Reputation` | `RowsAreWhole`; `SignalsAreTrue`; `EndIsCounted` | a task with two skills, one of them without a row, its artifact and an appeal, two calls and the sweep, one retry, two faults; 153,000 states |
| `StaleDecision` | `ReplayIsIdempotent`, which TLC finds violated | section 5 |

Every module states its type invariant, `TypeOK`, and all of them hold in these instances. The configurations name it where a theorem is about
it; elsewhere it can be added. `EndReleasesLease`, `CheckpointNeverOlder` and `ResultIsFinal` (TaskLease) are theorems and follow, but for what
`ResultIsFinal` says of the state, from what its run checks.

Why the bounds suffice. Two leases let a task be offered, lost and offered again while the first holder
still reports; a third lease (two tasks, two agents, symmetry, 339,000 states) shows nothing new. Two agents are as many as can disagree
about one task, and two handlers, replicas or calls the fewest with which one meets another that is
between two of its transactions. A chain and a delegated child have a task whose readiness,
pruning and effect on the status differ; a join has a task that two completions race for.
Two decisions are an old answer and a new question. The requests of `Delegation` compete in pairs for the budget (2+1+1+2 of 5),
the fan-out, one id and one key, reach one level below the depth limit, and come with envelopes that are within, equal to, or a word beyond the parent's.
In `Wake` a second wait is what a stale reader can mistake for the first, and the two after it what it can
mistake for that again; two namespaces are needed for a view that is read in parts, one event and page for a
watermark and two for paging. In `LeadRecovery` one child's result passes through every order of ingest, save, crash and takeover; a
second lease is a successor, and two versions and two calls let a late save meet a newer plan. In `Scheduling` two replicas
read before either offers, the task nobody can take is ahead of two that compete for the only place. In `Reputation`
the outcome, its replay by the sweep and the verdict are three writers of one row; a second task that shares a skill (one fault, symmetry, 726,000
states) shows nothing new. One crash
anywhere is enough for what a sweep repairs, since it starts from stored state alone; `Intents` and `Reputation` have two because the
repair is itself a call that can die, or a write that can fail.

`MaxLease`, `MaxDecisions`, `MaxCrash`, `MaxEvents`, `MaxTime`, `MaxVersion`, `MaxEpoch`, `MaxCalls`, `MaxFault` are bounds of the models;
`MaxAttempts`, `MaxDepth`, `MaxFanout`, `MaxRework`, `Total`, `PageSize`, `LeaseTTL`, `Room`, `Batch`, `Stale` are parameters of the program at small values.
Runs with `CHECK_DEADLOCK FALSE` are those in which all tasks can be over, or a bound used up.
Symmetry is used only in runs without liveness properties, over threads that no
definition tells apart.

**Fairness.** Liveness assumes weak fairness of the loops that `main` starts
and never stops (`ExpireLeases`, `TakeoverStaleLeads`, `Sweep`, `SweepOnce`, `OpenHumanDecisions`), of
the steps of a call once it has begun (a goroutine is not descheduled for ever), and of
clocks (`LeaseTimeout`, `Tick`: a lease nobody renews becomes overdue; renewing by a live agent can undo it again and
again, which is why only dead agents' leases are promised anything). Nothing is assumed of agents,
people or clients, nor of the scheduler finding an agent, with two exceptions: in `Scheduling` an agent whose process runs
sends its heartbeats (that is what running means there), and in `Intents` `KeyIsNeverStuck` is about a caller who keeps asking. The latter
is strong fairness: the server has a thread for every call, the model two that may be busy each time this caller comes.
`Wake` assumes only that the sweep is repeated: not the clock, and not that an open transaction ever commits. A sweep that starts again and again
still must not be kept from its later parts: the models include the errors that their own state can cause,
and not an error that the other parts of `SweepOnce` return every time (a database that is down).

## 4. Proofs

`tlapm` on the eight proof modules checks every theorem for all values of the
constants, any number of tasks, agents, leases, threads, crashes and calls under way, under the named assumptions of the modules, which
TLC evaluates on every run:

* the sets of ids are disjoint from each other and from the values that stand for nothing; bounds are naturals, a page has at least one place;
* dependencies are acyclic and delegated tasks have none (`Orchestrator`), which `validateDAG` and `intentDelegate` ensure: that Kahn's count does
  is a theorem about `Intents`;
* the calls in flight are finitely many (`DelegationHandlers`), because a bound on the children counts them; so are tasks and replicas in
  `SchedulingConstants`, and no two tasks have the same place in the order, because ids break ties;
* a request to wait has passed `ValidWake` (`WakeRequests`), and the value that stands for an index known only at run time is not a name.

Each invariant below is inductive as it is written, and TLC checked each on the instance of its run before it was proved. The
invariants of the runs are conjuncts or consequences; almost none is inductive by itself.

**TaskLease.** The inductive invariant `IInv` is the type invariant with: leases above `fencing` are
untouched; a task's pointer names a lease of that task; an ACTIVE lease is the one its task points at and the task's youngest;
the states in which a task has a lease, an ACTIVE lease or none; what a stored result says of its lease and its state;
checkpoints come from issued leases of the task; what a thread that still has to retry or finish knows.
`ActiveLeaseIsCurrent` alone is not inductive: that an offer never meets a second ACTIVE lease needs the connection
between state and pointer, and that a late result is refused needs the pointer to be the youngest lease.
`ExecutionIsLeased` goes both ways but for FAILED tasks: a failure releases its lease, a rejected decision does not. From `IInv` follow the type
invariant and the four safety invariants, the two action properties (`CheckpointsAdvance`, `ResultsAreFinal`), and
`Refinement`: every step of TaskLease is, under the mapping "owner = ACTIVE lease", a Grant, Save, Deliver, Revoke or stutter of
`ExclusiveExecution`.

**Orchestrator.** The argument is about monotone facts that make decisions on stale lists safe:
SUCCEEDED is for ever, and PENDING and ACTIVE are never entered again. `IInv` says of each thread that the tasks in its list either still
deserve what it is about to do or have left the state its check will look for (a ready task's
dependencies have succeeded; a pruned task has a dead dependency; a derived SUCCEEDED is true for good because a
mission all of whose tasks have succeeded has no task that could delegate), and that a retry in flight is the
only one for its task. From it follow `NoEarlyStart`, `SucceededMissionIsComplete`, `PrunedHasFailedUpstream` and `RetryIsDue`.

**LeadRecovery.** The three properties are about one agent and one plan at a time, and none is inductive: late calls of former processes and
former leads are still on their way. `IInv` adds what makes those harmless. Whatever an agent, a save or the plan contains was taken
out of the inbox, and whatever is known of has arrived (`Sourced`). Who has read, or expects, the plan's current version has all of
it, and versions only rise (`Versions`), so a save that is let through takes nothing out of the plan: `PlanOnlyGrows`. An
agent that has read its context again knows what its own earlier calls are about (`OwnCalls`), because
`GetLeadContext` returns ingested items too; so an ingestion under the current lease, its own or that of its process before a crash,
takes out nothing it does not know (`Taken`): `NoResultIsForgotten`. And under its token the plan is written by nobody
else (`Succeeded`): `SuccessorOwnsThePlan`. TLC checked `IInv` first, on an instance with three calls under way.

**Hitl.** `IInv` is the type invariant with: a decision has a choice exactly when it is resolved (`Choices`); a thread that applies an
answer applies one that was given, and completes only what was approved (`Threads`, `Queued`); a human node is asked about once (`AskedOnce`: it
leaves READY for good when it is); and where the node of each decision may stand, a node without one being READY or CANCELLED
(`Nodes`). The last is what a crash between the approval and its two transactions leaves true. From it follows
`HumanNodeFollowsItsDecision`. `DecidedIsFinal` is an action property: an answer and the timeout both look at the
decision's status in the transaction that writes it, asking only appends, and no step leaves an end state.

**Delegation.** What a call checks in `Delegate` it uses in a later transaction. `IInv` says that this does no harm (`Spawns`): links are
never removed, so depths, envelopes and chains of rework that were checked are still what they were. Only the number of children
may have grown, and `Fanout` counts the children together with the calls that are about to add one; hence the bound in
`DelegationBounded`. `Retries` gives a failed task that will be retried one owner and its hold, without which `HoldFollowsTask` is not
inductive; `Holds` connects a released hold of a failed task with its attempts, which are used up. The converse, that a task which has failed
for good holds nothing, is false (`EndedTaskHoldsNothing`, section 5). `Budget` is kept by lemmas about the sum of a function over a finite set: adding, removing and changing one term. For `ContextWithinRootGrants`,
`Within` is shown to imply an order (`Below`: whatever the one envelope allows, the other allows) that is
transitive, and a context package to contain only what its own envelope allows; so `Envelopes` compares each task with the root of its chain, however long.

**Wake.** All threads work on what they read before. `Sound` is what remains true of it: a registration that was read is the task's still,
or the task has a higher version by now; the chains that a thread found true were true at some time of *this* wait; the event it found lies above
the watermark; so under the version it read, a wake is met. It holds because every step of the others only adds (`Progress`: versions, the event log, the
clock and the chains that were true). From it follows `WakeIsJustified`; `AnEventWakesOnce` needs in addition that a watermark
is read after the wake that it follows, or the write is refused. `WriteIsNoticed` rests on a lemma about the expression alone
(`RefsCover`): every key that a condition can depend on is among the references extracted from it, which are all keys when
an index is known only at run time.

**Intents.** `ValidatedGraphIsAcyclic` is about `validateDAG` alone: if Kahn's rounds take as many names as there are tasks, every set of declared tasks has one that
depends on none of the others. `MissionsCanFinish` follows with `Reserved`: an id belongs to one key, and every mission came through
validation under its key. `Calls` says what each call past a transaction may rely on, whatever other calls with
its key did in between, and `Told` that who was answered was told an existing mission that is under way; roots never
return to PENDING. `PromiseIsKept` is the refinement: a step of `Intents` makes a mission, answers a caller or stutters in `OncePerKey`.

**Scheduling.** That a replica gives an agent no more than its room is not inductive: its pass works on running counts that are stale. `PassOk` adds
that a pass never takes an agent to hold less than the replica itself has given it: leases that the replica offers are counted,
others can only end. All replicas together are bounded by a sum over the replicas (`Shares`). For
`PriorityTakesRoomFirst`, `Complete`: whatever comes before a task of the pass, is ready and has not moved since it was listed, is still to come or
has been tried and fits no agent with room left.

**Reputation.** What is summed up was read before. `Locks` says of each open transaction that what it has read of a row it locked is
still what the row has taken in, that a row it could not lock did not exist when it was read, so it is not one of those that have existed from the start, and that
its signals are new to the store, one for a skill. `Apart` says that no two calls have one signal or one locked row in their hands, so that one commit
leaves the others' reads true (`WriteLeaves`); with it a commit adds one to a row for one new signal (`WriteCounts`): `RowsAreWhole`. For
`SignalsAreTrue`, `Work`: what a call has left to record has happened and stays so, since attempts only rise, an end of a task
is left by a retry alone and an overturned verdict is final (`Progress`); and what a quality transaction has inserted, has left and
finds stored is together one signal for each skill. `Owes` gives a failed task that is to be retried one owner.

Induction. The library's induction theorems take an operator as a parameter, which the available back ends cannot
instantiate. Where the recursion is over numbers, the proofs use the principle in the form of sets (`Least`: a set of naturals that is not empty has a
least element, from `NatLessThanWellFounded`); so `Depth`, `Chain`, `RootOf`, Kahn's rounds and sums over finite sets are reasoned about, and shown to be
defined in the first place.

Only model-checked is all liveness, since the prover has no fairness or ENABLED: `AbandonedLeaseIsReclaimed`, `ReadyTaskIsActivated`,
`CompletionIsNoticed`, `AnswerIsApplied`, `DueWaitEnds`, `DeadLeadIsReplaced`, `KeyIsNeverStuck`, `RoomIsUsed`, `HealthIsFollowed`, `EndIsCounted`.
Every other property of the runs that pass is a theorem.

## 5. Where code and text disagree

`StaleDecision` is a run that TLC ends with a counterexample: every sweep replays old answers, and
one is taken for the answer to the task's new question (`hitl.go:128` looks only at whether the task is BLOCKED), where the comment at `service.go:730` calls the replay idempotent
for tasks already dealt with.

Five more wishes that a text states are properties of their modules and do not hold. They are in no configuration; added to
the one named here, each ends in a counterexample.

| property | configuration | what the code does | what a text says |
|---|---|---|---|
| `AbandonedRunIsReclaimed` | `TaskLease` | a RUNNING task that is not a lead is never taken from a dead agent (`pg.go:962`) | an expired lease or lost heartbeat: reclaimed (design document, line 248) |
| `DeadDownstreamIsCancelled` | `Orchestrator` with a fork of two roots (`MCFork`) | concurrent prunes: one stops at the other's conflict, tasks stay PENDING behind a failed one (`service.go:338`) | every PENDING task downstream is cancelled, or the mission hangs (`M2-hitl.md:31`) |
| `FailedMissionIsOver` | `Orchestrator` | a mission becomes FAILED while a failed task is about to be retried (`service.go:361`) | that it cannot be retried is guaranteed by the caller (`statemachine.go:105`) |
| `ApprovalCompletesNode` | `Hitl` | a crash between approval and completion leaves a human node RUNNING for ever (`hitl.go:152`) | the replay has the effect of every stored verdict (`service.go:730`) |
| `EndedTaskHoldsNothing` | `Delegation` | a wake timeout or a rejection ends a delegated task without releasing its tokens (`pg.go:1792`) | released in the transaction of the final failure (`M7C-budget-holds.md:13`) |

Behaviour that the models have, that no text promises against, and that the properties are worded around:

* `Reputation`: two transactions that find no row for a skill both write its first value, and one signal is missing from the sums
  (`pg.go:605`; without the condition `s \in Known` in `RowsAreWhole` TLC shows it). A failure whose outcome could
  not be written is never counted once the task is retried: the sweep, which the comment at `quality.go:157` relies on,
  looks for FAILED tasks only. `EndIsCounted` therefore excepts retries.
* `Wake`: an event whose number was drawn before a suspension and that commits after it lies below the watermark and is missed
  (`pg.go:138`). A condition over two namespaces may wake a task although it was never true as a whole: each clause was
  true at some time of the wait (`cel.go:227`).
* `Scheduling`: two replicas that read at the same time give an agent up to its room each (`scheduler.go:202`).
* `Delegation`: concurrent calls exceed the fan-out by one each (`delegate.go:156`). The instance's three ids cannot exceed the bound that allows for it
  (three children); that part of `DelegationBounded` rests on the theorem `DelegationIsBounded`.
* `TaskLease`: a rejected decision fails an agent's task and leaves its lease ACTIVE (`hitl.go:133`).
* `Orchestrator`: a cancellation may overwrite SUCCEEDED; a crash between failure and retry loses the retry.

## 6. Not modelled

`PROJECT.json`, `components`, has a reason for each part. In short:

* the scores of the four placement strategies and of reputation rows: floating-point averages that choose among agents the models treat alike;
  the reputation cache only feeds them;
* metering and pricing: records inserted once by their id inside transactions that are modelled, and table look-ups;
* market, simulation, canary, gateway usage and the health snapshot: reads and one-shot computations without a protocol;
* the HTTP, A2A and MCP API, authentication, the console, adapters and the SDK: input and output around the calls that are modelled; clients are nondeterministic callers;
* blobs: file and object storage; the logical clock: time is nondeterministic;
* cel-go: an expression is reduced to the chains it selects from the board;
* row locks across tables (a sweep that deadlocks with a callback), and which error the loser of two open transactions sees: below the grain of models in which
  a transaction is one step (two in `Reputation`, whose run has one artifact, so that its transactions wait for each other and never in a circle;
  a database deadlock would be one of its `Fails`, of which there are `MaxFault`); completion keys chosen by agents, which all tasks share in the memory store.

## 7. Plan

Modules are written so that they can be proved about as well as checked: parameters are CONSTANTS with named
assumptions, an operation is an action, invariants are conjunctions of named parts, and no operator is RECURSIVE.
The names of `Reputation` that would be those of `Intents` begin with `Rep`, so that one module can extend both.

Done: `MissionFSM`, `ExclusiveExecution`, `TaskLease`, `Orchestrator`, `Hitl`, `Delegation`, `Wake`, `LeadRecovery`, `Intents` with
`OncePerKey`, `Permissions`, `Scheduling`, `Reputation`; and theorems for the safety properties of all of them.

Next:

* `PgTransactions`: row locks, keys inserted by two open transactions, the deadlock of the sweep with a callback.
