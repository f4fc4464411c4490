----------------------------- MODULE Reputation -----------------------------
(***************************************************************************)
(* Reputation of one agent: signals with ids that make them idempotent,    *)
(* and one row per skill that sums them up (applyReputationSignalTx).      *)
(* Signals come from the ends of tasks (recordOutcome, and the sweep that  *)
(* replays them), from the verification of artifacts (RecordQuality, in    *)
(* one transaction with the record) and from appeals that are upheld or    *)
(* overturned.                                                             *)
(*                                                                         *)
(* A row is the number of the signals it has taken in; what else it sums   *)
(* up follows the same read and write.  A signal transaction is two steps: *)
(* the insertion of the signal with the read of the row, FOR UPDATE, and   *)
(* the write that commits both.  For a row that does not exist there is    *)
(* nothing to lock.                                                        *)
(***************************************************************************)
EXTENDS Naturals, FiniteSets

CONSTANTS Task, Skill,
          Needs,        \* Needs[t]: the skills of task t (reputationSkills)
          Known,        \* skills the agent has a row for from the start
          Artifact,
          Producer,     \* Producer[x]: the task that produced artifact x
          Appeal,       \* ids; Against[p] is the artifact that p is about
          Against,
          Caller,       \* threads that serve calls
          Sweeper, NoOne,
          MaxAttempts, MaxFault

ASSUME ReputationConstants ==
  /\ Needs \in [Task -> SUBSET Skill]
  /\ Known \subseteq Skill /\ Producer \in [Artifact -> Task] /\ Against \in [Appeal -> Artifact]
  /\ Sweeper \notin Caller /\ NoOne \notin Task
  /\ MaxAttempts \in Nat /\ MaxFault \in Nat

VARIABLES state, attempt,  \* of each task, RUNNING standing for all that is not an end
          signals,         \* reputation_signals: the ids of the signals that were applied
          rows, samples,   \* the skills with a row, and what it has taken in
          records,         \* artifacts with a quality record
          appeal,          \* status of each appeal
          call,            \* what each call and the sweep are doing
          faults

table == <<signals, rows, samples, records>>
repVars == <<state, attempt, table, appeal, call, faults>>

Process == Caller \cup {Sweeper}
Signal == [kind : {"outcome"}, of : Task, attempt : 0..MaxAttempts, ok : BOOLEAN, skill : Skill]
          \cup [kind : {"quality"}, of : Artifact, attempt : {0}, ok : {TRUE}, skill : Skill]
          \cup [kind : {"appeal"}, of : Appeal, attempt : {0}, ok : {TRUE}, skill : Skill]

\* A call or the sweep: the signals it still has to apply; the ones it has inserted, what
\* it read in their rows and the rows it has locked; the artifact it records or the task
\* it retries afterwards.
CallState == [doing : {"idle", "each", "quality"}, of : Task \cup Artifact \cup {NoOne},
          todo : SUBSET Signal, mine : SUBSET Signal, seen : [Skill -> Nat], locked : SUBSET Skill]
NoCall == [doing |-> "idle", of |-> NoOne, todo |-> {}, mine |-> {}, seen |-> [s \in Skill |-> 0],
         locked |-> {}]

RepTypeOK ==
  /\ state \in [Task -> {"RUNNING", "SUCCEEDED", "FAILED"}] /\ attempt \in [Task -> 0..MaxAttempts]
  /\ signals \subseteq Signal /\ rows \subseteq Skill /\ samples \in [Skill -> Nat]
  /\ \A s \in Skill : samples[s] > 0 => s \in rows
  /\ records \subseteq Artifact
  /\ appeal \in [Appeal -> {"none", "pending", "upheld", "overturned"}]
  /\ call \in [Process -> CallState]
  /\ faults \in 0..MaxFault

RepInit ==
  /\ state = [t \in Task |-> "RUNNING"] /\ attempt = [t \in Task |-> 0]
  /\ signals = {} /\ rows = Known /\ samples = [s \in Skill |-> 0] /\ records = {}
  /\ appeal = [p \in Appeal |-> "none"]
  /\ call = [h \in Process |-> NoCall]
  /\ faults = 0

\* A call that has nothing left to do is over.
Change(h, th) ==
  call' = [call EXCEPT ![h] =
               IF th.doing = "each" /\ th.todo = {} /\ th.mine = {} /\ th.of = NoOne
               THEN NoCall ELSE th]

\* One signal for each skill of task t, which are taken in any order.  (One that was
\* applied before is skipped at once: it would be a duplicate.)
Signals(kind, of, t, n, ok) ==
  {[kind |-> kind, of |-> of, attempt |-> n, ok |-> ok, skill |-> s] : s \in Needs[t]} \ signals

\* recordOutcome; `then` is the task to retry afterwards.
RecordOutcome(t, ok, then) ==
  [NoCall EXCEPT !.doing = "each", !.of = then,
               !.todo = Signals("outcome", t, t, attempt[t], ok)]

-----------------------------------------------------------------------------
(* Calls.                                                                  *)

\* The task to try again once its outcome is recorded.
RetryOf(t, ok) == IF ok \/ attempt[t] = MaxAttempts THEN NoOne ELSE t

\* CompleteSubtask and FailSubtask of the service, from the store's transaction on.
EndTask(h, t, ok) ==
  /\ call[h] = NoCall /\ state[t] = "RUNNING"
  /\ state' = [state EXCEPT ![t] = IF ok THEN "SUCCEEDED" ELSE "FAILED"]
  /\ Change(h, RecordOutcome(t, ok, RetryOf(t, ok)))
  /\ UNCHANGED <<attempt, table, appeal, faults>>

\* Fault: the retry is not a new attempt.
Retry_same(h) ==
  /\ call[h].doing = "each" /\ call[h].todo = {} /\ call[h].mine = {}
  /\ state' = [state EXCEPT ![call[h].of] = "RUNNING"]
  /\ Change(h, NoCall)
  /\ UNCHANGED <<attempt, table, appeal, faults>>

\* The outcome has been recorded, or not: a failed signal does not hold the call up.
Retry(h) ==
  /\ call[h].doing = "each" /\ call[h].todo = {} /\ call[h].mine = {}
  /\ state' = [state EXCEPT ![call[h].of] = "RUNNING"]
  /\ attempt' = [attempt EXCEPT ![call[h].of] = @ + 1]
  /\ Change(h, NoCall)
  /\ UNCHANGED <<table, appeal, faults>>

\* VerifyArtifact up to the insertion of the record, which waits for another call's.
Verify(h, x) ==
  /\ call[h] = NoCall /\ x \notin records
  /\ \A g \in Process : ~(call[g].doing = "quality" /\ call[g].of = x)
  /\ Change(h, [NoCall EXCEPT !.doing = "quality", !.of = x,
                            !.todo = Signals("quality", x, Producer[x], 0, TRUE)])
  /\ UNCHANGED <<state, attempt, table, appeal, faults>>

CreateQualityAppeal(p) ==
  /\ appeal[p] = "none" /\ Against[p] \in records
  /\ appeal' = [appeal EXCEPT ![p] = "pending"]
  /\ UNCHANGED <<state, attempt, table, call, faults>>

\* Fault: what has been resolved can be resolved again.
Resolvable_again(p) == appeal[p] # "none"

Resolvable(p) == appeal[p] = "pending"

\* ResolveQualityAppeal: an overturned verdict is followed by the signals that correct it.
ResolveQualityAppeal(h, p, status) ==
  /\ call[h] = NoCall /\ Resolvable(p)
  /\ appeal' = [appeal EXCEPT ![p] = status]
  /\ IF status = "overturned"
     THEN Change(h, [NoCall EXCEPT !.doing = "each",
                                 !.todo = Signals("appeal", p, Producer[Against[p]], 0, TRUE)])
     ELSE UNCHANGED call
  /\ UNCHANGED <<state, attempt, table, faults>>

\* Fault: the sweep replays failures only.
Ended_failed(s) == {t \in Task : s = "FAILED" /\ state[t] = s}

\* reconcileReputation: the outcomes of the tasks that are in state s.
Ended(s) == {t \in Task : state[t] = s}

ListEnded(s) ==
  LET Todo(t) == RecordOutcome(t, s = "SUCCEEDED", NoOne).todo
  IN /\ call[Sweeper] = NoCall
     /\ \E t \in Ended(s) : Todo(t) # {}
     /\ Change(Sweeper, [NoCall EXCEPT !.doing = "each", !.todo = UNION {Todo(t) : t \in Ended(s)}])
     /\ UNCHANGED <<state, attempt, table, appeal, faults>>

-----------------------------------------------------------------------------
(* Signal transactions.                                                    *)

\* Who has to be waited for: a transaction with the same signal, or with the row.
HasSignal(g, s) == s \in call[g].mine
HasRow(g, s) == s \in call[g].locked
Waits(h, s) == \E g \in Process \ {h} : HasSignal(g, s) \/ HasRow(g, s.skill)

\* The first signal of a transaction, or the next one of RecordQuality's.
MayInsert(h, s) ==
  /\ s \in call[h].todo
  /\ call[h].doing = "quality" \/ call[h].mine = {}
  /\ ~Waits(h, s)

\* INSERT ... ON CONFLICT (id) DO NOTHING: a duplicate is passed over.
Duplicate(h, s) ==
  /\ MayInsert(h, s) /\ s \in signals
  /\ Change(h, [call[h] EXCEPT !.todo = @ \ {s}])
  /\ UNCHANGED <<state, attempt, table, appeal, faults>>

\* Fault: the row is read without FOR UPDATE.
Locked_not(s) == {}

\* There is a lock on a row that exists only.
Locked(s) == {s} \cap rows

InsertSignal(h, s) ==
  /\ MayInsert(h, s) /\ s \notin signals
  /\ Change(h, [call[h] EXCEPT !.todo = @ \ {s}, !.mine = @ \cup {s},
                                 !.seen[s.skill] = samples[s.skill],
                                 !.locked = @ \cup Locked(s.skill)])
  /\ UNCHANGED <<state, attempt, table, appeal, faults>>

\* The rows are written as they were read plus one, and created where there was none.
Write(h) ==
  LET skills == {s.skill : s \in call[h].mine}
  IN /\ \A g \in Process \ {h} : call[g].locked \cap skills = {}
     /\ signals' = signals \cup call[h].mine
     /\ rows' = rows \cup skills
     /\ samples' = [s \in Skill |-> IF s \in skills THEN call[h].seen[s] + 1 ELSE samples[s]]

CommitSignal(h) ==
  /\ call[h].doing = "each" /\ call[h].mine # {}
  /\ Write(h)
  /\ Change(h, [NoCall EXCEPT !.doing = "each", !.of = call[h].of, !.todo = call[h].todo])
  /\ UNCHANGED <<state, attempt, records, appeal, faults>>

\* Fault: the record is committed before its signals.
CommitQuality_record(h) ==
  /\ call[h].doing = "quality" /\ (call[h].todo = {} \/ call[h].of \notin records)
  /\ records' = records \cup {call[h].of}
  /\ IF call[h].todo = {} THEN Write(h) /\ Change(h, NoCall)
     ELSE UNCHANGED <<signals, rows, samples, call>>
  /\ UNCHANGED <<state, attempt, appeal, faults>>

CommitQuality(h) ==
  /\ call[h].doing = "quality" /\ call[h].todo = {}
  /\ records' = records \cup {call[h].of}
  /\ Write(h)
  /\ Change(h, NoCall)
  /\ UNCHANGED <<state, attempt, appeal, faults>>

\* A transaction is rolled back.  RecordQuality gives up, the others go on to the next
\* signal.
RollBack(h) ==
  Change(h, IF call[h].doing = "quality" THEN NoCall
            ELSE [NoCall EXCEPT !.doing = "each", !.of = call[h].of, !.todo = call[h].todo])

\* An error of the database, the end of a deadlock (two records can take their rows in
\* opposite orders), or a crash of the process with what it had not begun.
Fails(h) ==
  /\ faults < MaxFault /\ faults' = faults + 1
  /\ \/ call[h].mine # {} /\ RollBack(h)
     \/ call[h] # NoCall /\ Change(h, NoCall)
  /\ UNCHANGED <<state, attempt, table, appeal>>

-----------------------------------------------------------------------------
CallStep(h) ==
  \/ \E s \in call[h].todo : Duplicate(h, s) \/ InsertSignal(h, s)
  \/ CommitSignal(h) \/ CommitQuality(h) \/ Retry(h)

RepNext ==
  \/ \E h \in Caller :
       \/ \E t \in Task, ok \in BOOLEAN : EndTask(h, t, ok)
       \/ \E x \in Artifact : Verify(h, x)
       \/ \E p \in Appeal, s \in {"upheld", "overturned"} : ResolveQualityAppeal(h, p, s)
  \/ \E p \in Appeal : CreateQualityAppeal(p)
  \/ \E s \in {"SUCCEEDED", "FAILED"} : ListEnded(s)
  \/ \E h \in Process : CallStep(h) \/ Fails(h)

RepSpec == RepInit /\ [][RepNext]_repVars

\* Calls go on and the sweep lists the ends of tasks again and again.
RepFairSpec ==
  /\ RepSpec
  /\ \A h \in Process : WF_repVars(CallStep(h))
  /\ WF_repVars(\E s \in {"SUCCEEDED", "FAILED"} : ListEnded(s))

-----------------------------------------------------------------------------
(* Properties.                                                             *)

Count(s) == Cardinality({x \in signals : x.skill = s})

\* A row that has existed from the start takes every signal in exactly once, whichever
\* calls and sweeps apply signals to it at the same time.  (One that is created may
\* lose signals: two transactions that both find none write the same first value.)
RowsAreWhole ==
  \A s \in Skill : /\ s \in Known => samples[s] = Count(s)
                   /\ samples[s] <= Count(s) /\ (Count(s) > 0 => samples[s] > 0)

\* What a signal says has happened.
Happened(x) ==
  /\ x.kind = "quality" => x.of \in records
  /\ x.kind = "appeal" => appeal[x.of] = "overturned"
  /\ x.kind = "outcome" /\ x.ok => state[x.of] = "SUCCEEDED" /\ attempt[x.of] = x.attempt
  /\ x.kind = "outcome" /\ ~x.ok =>
       attempt[x.of] > x.attempt \/ (attempt[x.of] = x.attempt /\ state[x.of] = "FAILED")

\* A signal counts for what happened.  No attempt counts as a success and a failure,
\* though the call and the sweep both record it, each from what it read; a quality record
\* and its signals come together or not at all, whatever fails; and no correction is
\* applied for an appeal that ends up upheld ("only a pending appeal can be resolved",
\* M10-productization.md).
SignalsAreTrue ==
  /\ \A x \in signals : Happened(x)
  /\ \A x \in records : \A k \in Needs[Producer[x]] :
       \E s \in signals : s.kind = "quality" /\ s.of = x /\ s.skill = k

Counted(t) ==
  \A s \in Needs[t] : \E x \in signals :
    /\ x.kind = "outcome" /\ x.of = t /\ x.skill = s
    /\ x.attempt = attempt[t] /\ x.ok = (state[t] = "SUCCEEDED")

\* The end of a task is counted in the end, unless the task is retried, whatever
\* writes fail and wherever the call that ended it stopped.
EndIsCounted ==
  \A t \in Task : []<>(state[t] = "RUNNING" \/ Counted(t))
=============================================================================
