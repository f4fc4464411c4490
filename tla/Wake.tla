-------------------------------- MODULE Wake --------------------------------
(***************************************************************************)
(* Waiting and waking (internal/core/trigger.go, cel.go, and the wake      *)
(* operations of the store).  An agent suspends its task with a wake       *)
(* request: a time, an event, a condition over the blackboard, or a        *)
(* person's call.  The sweep of the control plane evaluates every waiting  *)
(* task; a write to the blackboard evaluates at once the conditions that   *)
(* refer to the key written; a person may wake any waiting task; a request *)
(* that is not met before its deadline fails the task.  All of them read   *)
(* first and write later, and the version of the task decides who wins.    *)
(*                                                                         *)
(* One mission is modelled.  RUNNING stands for OFFERED, LEASED and        *)
(* RUNNING (TaskLease has the leases), and what a failure does to the      *)
(* tasks downstream is Orchestrator's.  A blackboard write that loses its  *)
(* version check changes nothing and is left out.  Loops over a list take  *)
(* its elements in any order.                                              *)
(***************************************************************************)
EXTENDS Naturals, Sequences, FiniteSets

CONSTANTS Task,
          Namespace, Name, \* of blackboard entries
          Dynamic,         \* a segment that is not a constant string
          Request,         \* the wake requests agents make
          Written,         \* the values the mission's work writes to the board
          EventType,       \* of the events the mission's work appends
          Sweeper, Writer, Waker, Caller, \* the threads
          None,
          PageSize,        \* events read at a time, 200 in the code
          MaxEvents,       \* bound: sequence numbers drawn
          MaxTime,         \* bound: the clock
          MaxVersion,      \* bound: the version at which tasks start to run
          MaxCrash         \* bound: crashes of the control plane

Key == Namespace \X Name
Value == {"absent", "no", "yes", "big"}

\* A condition is an expression over chains of selections from the board, with a
\* clock clause, or a structured predicate, which has one chain <<ns, key>>.
Condition == [op : {"exists", "equals", "expr"},
              chains : SUBSET Seq(Namespace \cup Name \cup {Dynamic}), from : Nat]
NoCondition == [op |-> "none", chains |-> {}, from |-> 0]

\* validateWake, validateCondition.
ValidWake(w) ==
  /\ w.deadline \in Nat
  /\ w.kind = "timer" => w.at \in Nat /\ w.at < w.deadline
  /\ w.kind = "event" => w.types # {}
  /\ w.kind = "condition" => w.cond \in Condition
  /\ w.cond.op \in {"exists", "equals"} => \E k \in Key : w.cond.chains = {k}

ASSUME WakeRequests == \A w \in Request :
  /\ DOMAIN w = {"kind", "at", "deadline", "types", "cond"}
  /\ w.kind \in {"timer", "event", "condition", "manual"} /\ ValidWake(w)
ASSUME WakeValues == Written \subseteq Value \ {"absent"} /\ Dynamic \notin Namespace \cup Name
ASSUME WakeThreads ==
  /\ Sweeper \cap (Writer \cup Waker \cup Caller) = {}
  /\ Writer \cap (Waker \cup Caller) = {} /\ Waker \cap Caller = {}
ASSUME WakeBounds == PageSize \in Nat \ {0} /\ {MaxEvents, MaxTime, MaxVersion, MaxCrash} \subseteq Nat

VARIABLES task,    \* state, version and wake registration of each subtask
          log,     \* the events by sequence number; one is open until it commits
          board,   \* the blackboard
          clock,
          thread,
          crashes,
          once,    \* history: the chains that were true since t began to wait
          wokenBy  \* history: the newest event that woke t, 0 if none did

vars == <<task, log, board, clock, thread, crashes, once, wokenBy>>

Thread == Sweeper \cup Writer \cup Waker \cup Caller
NoWake == [kind |-> "none", at |-> 0, deadline |-> 0, types |-> {}, cond |-> NoCondition]
Unregistered == [wake |-> NoWake, after |-> 0]
Registration == [wake : Request \cup {NoWake}, after : Nat]

\* loop: the list it goes through; todo: what is left of it; sub: the task as the
\* thread read it; now: the time the sweep began; pos: an event; left, view: the namespaces still
\* to load and the entries loaded; key: what the writer wrote.
Sub == [id : Task, version : Nat, reg : Registration]
ASSUME WakeNone == None \notin Sub \cup Key
At(point) == [at |-> point, loop |-> "none", todo |-> {}, sub |-> None, now |-> 0, pos |-> 0,
              left |-> {}, view |-> [k \in Key |-> "absent"], key |-> None]
Idle == At("idle")

Read(t) == [id |-> t, version |-> task[t].version, reg |-> task[t].reg]
Waiting(kinds) == {t \in Task : task[t].state = "WAITING" /\ task[t].reg.wake.kind \in kinds}
Listed(kinds) == {Read(t) : t \in Waiting(kinds)}
Committed == {n \in DOMAIN log : log[n].status = "committed"}

TypeOK ==
  /\ task \in [Task -> [state : {"READY", "RUNNING", "WAITING", "FAILED", "OVER"},
                        version : Nat, reg : Registration]]
  /\ \A n \in DOMAIN log : log[n].type \in EventType \cup {"cost"}
                           /\ log[n].status \in {"open", "committed", "void"}
  /\ board \in [Key -> Value] /\ clock \in 0..MaxTime /\ crashes \in 0..MaxCrash
  /\ \A h \in Thread : /\ DOMAIN thread[h] = DOMAIN Idle
                       /\ thread[h].todo \subseteq Sub /\ thread[h].sub \in Sub \cup {None}
                       /\ thread[h].view \in [Key -> Value] /\ thread[h].key \in Key \cup {None}
  /\ \A t \in Task : task[t].state = "WAITING" <=> task[t].reg # Unregistered

Init ==
  /\ task = [t \in Task |-> [state |-> "READY", version |-> 0, reg |-> Unregistered]]
  /\ log = <<>> /\ board = [k \in Key |-> "absent"] /\ clock = 0
  /\ thread = [h \in Thread |-> Idle] /\ crashes = 0
  /\ once = [t \in Task |-> {}] /\ wokenBy = [t \in Task |-> 0]

Become(h, local) == thread' = [thread EXCEPT ![h] = local]
Move(t, s, reg) ==
  task' = [task EXCEPT ![t] = [state |-> s, version |-> @.version + 1, reg |-> reg]]

-----------------------------------------------------------------------------
(* Conditions.                                                             *)

\* What a chain of selections can depend on: a chain without a key on its whole
\* namespace, one with a segment known only at run time on anything it may name.
Under(chain) ==
  {k \in Key : \A i \in 1..2 : i <= Len(chain) => chain[i] \in {k[i], Dynamic}}
ChainTrue(op, chain, view) ==
  \E k \in Under(chain) : IF op = "exists" THEN view[k] # "absent" ELSE view[k] = "yes"
Holds(c, view, now) == (\A ch \in c.chains : ChainTrue(c.op, ch, view)) /\ now >= c.from

\* The runtime cost limit stops an expression that meets a big entry.
Exceeds(c, view) == c.op = "expr" /\ \E ch \in c.chains : \E k \in Under(ch) : view[k] = "big"

\* boardChain, record: the keys a chain is said to refer to, all of them (the
\* wildcard) when it cannot be told.
IsWildcard(chain) == Len(chain) = 0 \/ \E i \in DOMAIN chain : chain[i] = Dynamic

\* Fault: a chain that ends at a namespace is taken for one without a reference.
Refs_keysOnly(c) == UNION {IF IsWildcard(ch) THEN Key ELSE {k \in Key : k = ch} : ch \in c.chains}

\* extractBoardRefs, walk.
Refs(c) == UNION {IF IsWildcard(ch) THEN Key
                  ELSE IF Len(ch) = 1 THEN {k \in Key : k[1] = ch[1]}
                  ELSE {<<ch[1], ch[2]>>} : ch \in c.chains}

\* conditionRefsChanged, referencesBoard: a full evaluation leaves nothing out.
Affected(c, key) == key = None \/ key \in Refs(c)

\* celBoardView: one read for the whole board, or one for each namespace.
ToLoad(c) ==
  IF c.op = "expr" /\ \E ch \in c.chains : IsWildcard(ch) THEN {Namespace}
  ELSE {{ch[1]} : ch \in c.chains}

Load(view, nss) == [k \in Key |-> IF k[1] \in nss THEN board[k] ELSE view[k]]

\* The chains of t's condition that are true, for the history.
TrueChains(t) == LET c == task[t].reg.wake.cond IN {ch \in c.chains : ChainTrue(c.op, ch, board)}
Remember == once' = [t \in Task |-> IF task'[t].state = "WAITING"
                                    THEN (IF task'[t].version = task[t].version THEN once[t] ELSE {})
                                         \cup TrueChains(t)'
                                    ELSE {}]

-----------------------------------------------------------------------------
(* The tasks' own life, the mission's events, time.                        *)

Begin(t) ==
  /\ task[t].state = "READY" /\ task[t].version < MaxVersion
  /\ Move(t, "RUNNING", Unregistered) /\ UNCHANGED <<log, board, clock, thread, crashes, once, wokenBy>>

\* A completion or a failure; a cancellation also ends a task that waits.
End(t) ==
  /\ task[t].state \in {"RUNNING", "READY", "WAITING"}
  /\ Move(t, "OVER", Unregistered)
  /\ UNCHANGED <<log, board, clock, thread, crashes, wokenBy>> /\ Remember

\* appendEvent in a transaction of the mission's work: the sequence number is drawn
\* by the insert and seen by nobody before the commit.
DrawSeq ==
  /\ Len(log) < MaxEvents
  /\ \E ty \in EventType : log' = Append(log, [type |-> ty, status |-> "open"])
  /\ UNCHANGED <<task, board, clock, thread, crashes, once, wokenBy>>

CommitEvent(n) ==
  /\ log[n].status = "open"
  /\ \E s \in {"committed", "void"} : log' = [log EXCEPT ![n].status = s]
  /\ UNCHANGED <<task, board, clock, thread, crashes, once, wokenBy>>

Tick ==
  /\ clock < MaxTime /\ clock' = clock + 1
  /\ UNCHANGED <<task, log, board, thread, crashes, once, wokenBy>>

-----------------------------------------------------------------------------
(* Suspending.                                                             *)

\* MaxEventSeq.
MaxEventSeq == CHOOSE n \in Committed \cup {0} : \A m \in Committed : m <= n

\* Service.Suspend up to its transaction, for the task as the agent knows it.
ReadWatermark(c, t) ==
  /\ c \in Caller /\ thread[c].at = "idle" /\ task[t].state = "RUNNING"
  /\ \E w \in Request :
       Become(c, [At("suspend") EXCEPT !.sub =
         [Read(t) EXCEPT !.reg = [wake |-> w, after |-> IF w.kind = "event" THEN MaxEventSeq ELSE 0]]])
  /\ UNCHANGED <<task, log, board, clock, crashes, once, wokenBy>>

\* Fault: the watermark is left at zero.
SuspendSubtask_unmarked(c) ==
  /\ thread[c].at = "suspend"
  /\ LET s == thread[c].sub IN
     IF task[s.id].version = s.version /\ task[s.id].state = "RUNNING"
     THEN Move(s.id, "WAITING", [s.reg EXCEPT !.after = 0]) ELSE UNCHANGED task
  /\ Become(c, Idle) /\ UNCHANGED <<log, board, clock, crashes, wokenBy>> /\ Remember

\* SuspendSubtask: the version, hence the lease, must be the one the agent knows.
SuspendSubtask(c) ==
  /\ thread[c].at = "suspend"
  /\ LET s == thread[c].sub IN
     IF task[s.id].version = s.version /\ task[s.id].state = "RUNNING"
     THEN Move(s.id, "WAITING", s.reg) ELSE UNCHANGED task
  /\ Become(c, Idle) /\ UNCHANGED <<log, board, clock, crashes, wokenBy>> /\ Remember

-----------------------------------------------------------------------------
(* Waking.                                                                 *)

\* The next element of the loop, with the position and the view forgotten.
Continue(h) == [thread[h] EXCEPT !.at = "next", !.sub = None, !.pos = 0, !.left = {},
                              !.view = Idle.view]

\* The time WakeSubtask is given: that of the sweep for timers, the present otherwise.
WakeTime(h) == IF thread[h].loop = "timer" THEN thread[h].now ELSE clock

AfterWake(h) == IF thread[h].loop = "manual" THEN Idle ELSE Continue(h)

WakeRead(h, ok) ==
  LET s == thread[h].sub IN
  /\ thread[h].at = "wake"
  /\ IF ok /\ task[s.id].state = "WAITING" /\ task[s.id].reg.wake.deadline > WakeTime(h)
     THEN Move(s.id, "READY", Unregistered)
          /\ wokenBy' = [wokenBy EXCEPT ![s.id] = IF thread[h].pos > @ THEN thread[h].pos ELSE @]
     ELSE UNCHANGED <<task, wokenBy>>
  /\ Become(h, AfterWake(h))
  /\ UNCHANGED <<log, board, clock, crashes>> /\ Remember

\* Fault: the version is not compared.
WakeSubtask_blind(h) == WakeRead(h, TRUE)

\* WakeSubtask: a conflict is ignored by every caller.
WakeSubtask(h) == WakeRead(h, task[thread[h].sub.id].version = thread[h].sub.version)

\* WakeAs: the task is looked up among the waiting ones.
LookUp(w, t) ==
  /\ w \in Waker /\ thread[w].at = "idle" /\ task[t].state = "WAITING"
  /\ Become(w, [At("wake") EXCEPT !.loop = "manual", !.sub = Read(t)])
  /\ UNCHANGED <<task, log, board, clock, crashes, once, wokenBy>>

\* BoardPut: the write, then evalConditionWakes for the key.
BoardPut(w, k, v) ==
  /\ w \in Writer /\ thread[w].at = "idle" /\ board[k] # v
  /\ board' = [board EXCEPT ![k] = v]
  /\ Become(w, [At("list") EXCEPT !.key = k])
  /\ UNCHANGED <<task, log, clock, crashes, wokenBy>> /\ Remember

ListWaiting(w) ==
  /\ w \in Writer /\ thread[w].at = "list"
  /\ Become(w, [thread[w] EXCEPT !.at = "next", !.loop = "condition", !.todo = Listed({"condition"})])
  /\ UNCHANGED <<task, log, board, clock, crashes, once, wokenBy>>

\* sweepWakes: the time, then ListWaitingDue.
ListWaitingDue(s) ==
  /\ s \in Sweeper /\ thread[s].at = "idle"
  /\ Become(s, [At("next") EXCEPT !.loop = "timer", !.now = clock,
       !.todo = {x \in Listed({"timer"}) : x.reg.wake.at <= clock /\ clock < x.reg.wake.deadline}])
  /\ UNCHANGED <<task, log, board, clock, crashes, once, wokenBy>>

\* A loop that is done: on to evalEventWakes and to evalConditionWakes.
NextLoop(h) ==
  /\ thread[h].at = "next" /\ thread[h].todo = {}
  /\ IF h \in Writer THEN Become(h, Idle)
     ELSE LET go(l) == Become(h, [thread[h] EXCEPT !.loop = l, !.todo = Listed({l})]) IN
          CASE thread[h].loop = "timer" -> go("event")
            [] thread[h].loop = "event" -> go("condition")
            [] OTHER -> Become(h, [thread[h] EXCEPT !.at = "expire"])
  /\ UNCHANGED <<task, log, board, clock, crashes, once, wokenBy>>

\* Fault: the sweep too leaves out the conditions without a reference to the board.
Skipped_always(h, x) ==
  \/ thread[h].loop # "timer" /\ x.reg.wake.deadline <= clock
  \/ thread[h].loop = "condition" /\ \A k \in Key : ~Affected(x.reg.wake.cond, k)

\* Whether the loop looks at x at all.
Skipped(h, x) ==
  \/ thread[h].loop # "timer" /\ x.reg.wake.deadline <= clock
  \/ thread[h].loop = "condition" /\ ~Affected(x.reg.wake.cond, thread[h].key)

Take(h) ==
  /\ thread[h].at = "next"
  /\ \E x \in thread[h].todo :
       LET rest == [thread[h] EXCEPT !.todo = @ \ {x}] IN
       Become(h, IF Skipped(h, x) THEN rest
                 ELSE CASE rest.loop = "timer" -> [rest EXCEPT !.at = "wake", !.sub = x]
                        [] rest.loop = "event" -> [rest EXCEPT !.at = "page", !.sub = x, !.pos = x.reg.after]
                        [] OTHER -> [rest EXCEPT !.at = "load", !.sub = x, !.left = ToLoad(x.reg.wake.cond)])
  /\ UNCHANGED <<task, log, board, clock, crashes, once, wokenBy>>

\* ListMissionEvents: the first PageSize events after a position.
Page(pos) == LET later == {n \in Committed : n > pos}
             IN {n \in later : Cardinality({m \in later : m <= n}) <= PageSize}

\* Fault: a full page without a match ends the search.
ReadPage_once(h) ==
  /\ thread[h].at = "page"
  /\ LET page  == Page(thread[h].pos)
         match == {n \in page : log[n].type \in thread[h].sub.reg.wake.types}
     IN IF match # {}
        THEN Become(h, [thread[h] EXCEPT !.at = "wake", !.pos = CHOOSE n \in match : \A m \in match : n <= m])
        ELSE Become(h, Continue(h))
  /\ UNCHANGED <<task, log, board, clock, crashes, once, wokenBy>>

\* evalEventWakes, one page of the events after the watermark.
ReadPage(h) ==
  /\ thread[h].at = "page"
  /\ LET page  == Page(thread[h].pos)
         match == {n \in page : log[n].type \in thread[h].sub.reg.wake.types}
     IN CASE match # {} ->
               Become(h, [thread[h] EXCEPT !.at = "wake", !.pos = CHOOSE n \in match : \A m \in match : n <= m])
          [] match = {} /\ Cardinality(page) = PageSize ->
               Become(h, [thread[h] EXCEPT !.pos = CHOOSE n \in page : \A m \in page : m <= n])
          [] OTHER -> Become(h, Continue(h))
  /\ UNCHANGED <<task, log, board, clock, crashes, once, wokenBy>>

\* celBoardView, one namespace; BoardGet for a structured predicate.
LoadBoard(h) ==
  /\ thread[h].at = "load"
  /\ \E nss \in thread[h].left :
       Become(h, [thread[h] EXCEPT !.left = @ \ {nss}, !.view = Load(@, nss)])
  /\ UNCHANGED <<task, log, board, clock, crashes, once, wokenBy>>

\* evalCondition: exceeding the cost limit is false, and leaves an event.
Verdict(c, view) == IF Exceeds(c, view) THEN "cost" ELSE IF Holds(c, view, clock) THEN "true" ELSE "false"

\* The event is written in a transaction of its own, and a failure to write it ignored.
Evaluate(h) ==
  /\ thread[h].at = "load" /\ thread[h].left = {}
  /\ LET v == Verdict(thread[h].sub.reg.wake.cond, thread[h].view) IN
     /\ Become(h, IF v = "true" THEN [thread[h] EXCEPT !.at = "wake"] ELSE Continue(h))
     /\ IF v = "cost" /\ Len(log) < MaxEvents
        THEN log' = Append(log, [type |-> "cost", status |-> "committed"]) \/ UNCHANGED log
        ELSE UNCHANGED log
  /\ UNCHANGED <<task, board, clock, crashes, once, wokenBy>>

\* Fault: a wait is failed one tick before its deadline.
ExpireWakes_early(s) ==
  /\ s \in Sweeper /\ thread[s].at = "expire"
  /\ task' = [t \in Task |->
       IF task[t].state = "WAITING" /\ task[t].reg.wake.deadline <= thread[s].now + 1
       THEN [state |-> "FAILED", version |-> task[t].version + 1, reg |-> Unregistered] ELSE task[t]]
  /\ Become(s, Idle) /\ UNCHANGED <<log, board, clock, crashes, wokenBy>> /\ Remember

\* Fault: like ListWaitingDue, it selects the timers only.
ExpireWakes_timers(s) ==
  /\ s \in Sweeper /\ thread[s].at = "expire"
  /\ task' = [t \in Task |->
       IF task[t].reg.wake.kind = "timer" /\ task[t].reg.wake.deadline <= thread[s].now
       THEN [state |-> "FAILED", version |-> task[t].version + 1, reg |-> Unregistered] ELSE task[t]]
  /\ Become(s, Idle) /\ UNCHANGED <<log, board, clock, crashes, wokenBy>> /\ Remember

\* ExpireWakes, at the time the sweep began.
ExpireWakes(s) ==
  /\ s \in Sweeper /\ thread[s].at = "expire"
  /\ task' = [t \in Task |->
       IF task[t].state = "WAITING" /\ task[t].reg.wake.deadline <= thread[s].now
       THEN [state |-> "FAILED", version |-> task[t].version + 1, reg |-> Unregistered] ELSE task[t]]
  /\ Become(s, Idle) /\ UNCHANGED <<log, board, clock, crashes, wokenBy>> /\ Remember

\* The process of a thread dies; what it wrote stays.
Crash(h) ==
  /\ crashes < MaxCrash /\ thread[h] # Idle
  /\ crashes' = crashes + 1 /\ Become(h, Idle)
  /\ UNCHANGED <<task, log, board, clock, once, wokenBy>>

Evaluation(h) == Take(h) \/ ReadPage(h) \/ LoadBoard(h) \/ Evaluate(h) \/ WakeSubtask(h) \/ NextLoop(h)
SweepStep(s) == ListWaitingDue(s) \/ Evaluation(s) \/ ExpireWakes(s)

Next ==
  \/ \E t \in Task : Begin(t) \/ End(t)
  \/ DrawSeq \/ (\E n \in DOMAIN log : CommitEvent(n)) \/ Tick
  \/ \E c \in Caller, t \in Task : ReadWatermark(c, t)
  \/ \E c \in Caller : SuspendSubtask(c)
  \/ \E w \in Waker, t \in Task : LookUp(w, t)
  \/ \E w \in Waker : WakeSubtask(w)
  \/ \E w \in Writer, k \in Key, v \in Written : BoardPut(w, k, v)
  \/ \E w \in Writer : ListWaiting(w) \/ Evaluation(w)
  \/ \E s \in Sweeper : SweepStep(s)
  \/ \E h \in Thread : Crash(h)

Spec == Init /\ [][Next]_vars

-----------------------------------------------------------------------------
(* Properties.                                                             *)

\* What the registration of t was made for has come about.
Met(t) ==
  LET r == task[t].reg IN
  CASE r.wake.kind = "timer" -> clock >= r.wake.at
    [] r.wake.kind = "event" -> \E n \in Committed : n > r.after /\ log[n].type \in r.wake.types
    [] r.wake.kind = "condition" -> r.wake.cond.chains \subseteq once[t] /\ clock >= r.wake.cond.from
    [] OTHER -> FALSE

\* Only a person wakes a task whose request is not met, and only a deadline that has
\* passed fails it: a sweep or a blackboard write that read an earlier wait of the same
\* task, however long ago, never ends the present one (the version in WakeSubtask, the
\* deadline in ExpireWakes).
WakeIsJustified ==
  [][\A t \in Task : task[t].state = "WAITING" =>
       /\ task'[t].state = "READY" =>
            Met(t) \/ \E w \in Waker : thread[w].sub # None /\ thread[w].sub = Read(t)
       /\ task'[t].state = "FAILED" => task[t].reg.wake.deadline <= clock]_vars

\* An event wakes a task once: a later wait of the task has its watermark at or
\* above every event that woke it before (Suspend reads MaxEventSeq each time).
AnEventWakesOnce ==
  \A t \in Task : task[t].reg.wake.kind = "event" => wokenBy[t] <= task[t].reg.after

\* The evaluation after a blackboard write leaves out no waiting condition whose
\* value the write changed (extractBoardRefs, referencesBoard).
WriteIsNoticed ==
  [][\A k \in Key, t \in Waiting({"condition"}) : board'[k] # board[k] =>
       LET c == task[t].reg.wake.cond
       IN Holds(c, board, clock) # Holds(c, board', clock) => Affected(c, k)]_vars

-----------------------------------------------------------------------------
(* Fairness: the loop of the control plane calls the sweep again and again.  *)
(* Nothing is promised of agents, people, the clock or open transactions.    *)

FairSpec == Spec /\ \A s \in Sweeper : WF_vars(SweepStep(s))

Waits(t) == task[t].state = "WAITING"

\* What ends the wait of t: its time, a committed event above its watermark, on whatever
\* page (evalEventWakes), a condition that is true now, also one that the write of an
\* entry does not touch or whose writer crashed (evalConditionWakes), its deadline
\* (ExpireWakes).
Due(t) ==
  LET w == task[t].reg.wake IN
  \/ w.kind \in {"timer", "event"} /\ Met(t)
  \/ w.kind = "condition" /\ Holds(w.cond, board, clock) /\ ~Exceeds(w.cond, board)
  \/ w.deadline <= clock

\* No wait that is due lasts for ever, whichever call failed, crashed or read something
\* else before.
DueWaitEnds == \A t \in Task : []<>~(Waits(t) /\ Due(t))
=============================================================================
