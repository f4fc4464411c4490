----------------------------- MODULE HitlProofs -----------------------------
(***************************************************************************)
(* The safety of Hitl for every set of tasks, loops and threads: answers   *)
(* are final, and a human node stands where its one decision puts it.      *)
(***************************************************************************)
EXTENDS Hitl, Integers, FiniteSetTheorems, SequenceTheorems, WellFoundedInduction, TLAPS

-----------------------------------------------------------------------------
(* The invariant.                                                          *)

\* A decision has a choice once it is resolved, and only then.
Choices == \A d \in Made : decision[d].status = "resolved" <=> decision[d].choice \in Verdict

\* A loop asks about human nodes; whoever applies an answer applies one that was given,
\* and completes the human node of an approval.
Sound(l) ==
  /\ l.at = "open" => l.todo \subseteq Human
  /\ l.at \in {"look", "apply", "complete"} =>
       l.about \in Made /\ decision[l.about].status = "resolved"
  /\ l.at = "complete" =>
       decision[l.about].task \in Human /\ decision[l.about].choice = "approve"

Threads == \A h \in Thread : Sound(thread[h])

Queued == \A d \in queue : decision[d].status = "resolved"

\* A human node is asked about once.
AskedOnce ==
  \A d, e \in Made :
    decision[d].task = decision[e].task /\ decision[d].task \in Human => d = e

\* Where a decision may find its human node.
Stands(status, choice) ==
  IF status # "resolved" THEN {"BLOCKED", "CANCELLED"}
  ELSE IF choice = "approve" THEN {"BLOCKED", "RUNNING", "SUCCEEDED", "CANCELLED"}
  ELSE {"BLOCKED", "FAILED", "CANCELLED"}

Nodes ==
  /\ \A t \in Human :
       (\A d \in Made : decision[d].task # t) => state[t] \in {"READY", "CANCELLED"}
  /\ \A d \in Made : decision[d].task \in Human =>
       state[decision[d].task] \in Stands(decision[d].status, decision[d].choice)

IInv == TypeOK /\ Choices /\ Threads /\ Queued /\ AskedOnce /\ Nodes

LEMMA Initially == Init => IInv
<1> SUFFICES ASSUME Init PROVE IInv
  OBVIOUS
<1> USE DEF Init
<1>1. Made = {} /\ decision \in Seq(Decision)
  BY EmptySeq DEF Made
<1>2. Idle \in Local /\ Idle.at = "idle"
  BY DEF Idle, At, Local
<1>3. TypeOK
  BY <1>1, <1>2, HitlTasks, HitlBounds DEF TypeOK
<1>4. Threads
  BY <1>2 DEF Threads, Sound
<1> QED BY <1>1, <1>3, <1>4, HitlTasks DEF IInv, Choices, Queued, AskedOnce, Nodes

-----------------------------------------------------------------------------
(* The youngest decision.                                                  *)

\* A set of natural numbers that is not empty has a least element.
LEMMA Least ==
  ASSUME NEW S \in SUBSET Nat, S # {}
  PROVE  \E n \in S : \A m \in S : n <= m
<1>1. PICK n \in S : \A m \in S : ~ (<<m, n>> \in OpToRel(<, Nat))
  BY NatLessThanWellFounded, WFMin
<1>2. \A m \in Nat : m < n => <<m, n>> \in OpToRel(<, Nat)
  BY DEF OpToRel
<1>3. \A m \in S : ~ (m < n)
  BY <1>1, <1>2, Zenon
<1>4. \A m \in S : n <= m
  BY <1>3
<1> QED BY <1>4

\* Youngest is defined: a task's decisions are numbered, 0 stands for none.
LEMMA YoungestExists ==
  ASSUME decision \in Seq(Decision), NEW t \in Task
  PROVE  Youngest(t) \in Of(t) \cup {0} /\ \A d \in Of(t) : d <= Youngest(t)
<1> DEFINE Above == {n \in Nat : \A d \in Of(t) : d <= n}
<1>1. Len(decision) \in Nat /\ Of(t) \subseteq 1..Len(decision)
  BY DEF Of, Made
<1>2. Len(decision) \in Above
  BY <1>1
<1>3. PICK n \in Above : \A m \in Above : n <= m
  <2>1. Above \in SUBSET Nat /\ Above # {}
    BY <1>2
  <2> HIDE DEF Above
  <2> QED BY <2>1, Least
<1>4. n \in Of(t) \cup {0}
  <2> SUFFICES ASSUME n \notin Of(t), n # 0 PROVE FALSE
    OBVIOUS
  <2>1. n - 1 \in Nat /\ \A d \in Of(t) : d <= n - 1
    BY <1>1
  <2>2. n - 1 \in Above
    BY <2>1
  <2> QED BY <2>2, <1>3
<1>5. \E d \in Of(t) \cup {0} : \A e \in Of(t) : e <= d
  BY <1>4
<1> HIDE DEF Above
<1> QED BY <1>5 DEF Youngest

-----------------------------------------------------------------------------
(* What a step may do to the decisions: none is lost, none changes its     *)
(* task, and one that is no longer pending is as it was.                   *)

Recorded ==
  /\ decision' \in Seq(Decision) /\ Made \subseteq Made'
  /\ \A d \in Made : /\ decision'[d].task = decision[d].task
                     /\ decision[d].status # "pending" => decision'[d] = decision[d]
  /\ Choices'

LEMMA AskRecords ==
  ASSUME TypeOK, Choices, NEW t \in Task, Ask(t)
  PROVE  /\ Recorded
         /\ Len(decision) + 1 \notin Made /\ Made' = Made \cup {Len(decision) + 1}
         /\ \A d \in Made : decision'[d] = decision[d]
         /\ decision'[Len(decision) + 1]
              = [task |-> t, status |-> "pending", choice |-> "none"]
<1> DEFINE n == Len(decision) + 1
           new == [task |-> t, status |-> "pending", choice |-> "none"]
<1>1. new \in Decision /\ decision \in Seq(Decision) /\ decision' = Append(decision, new)
  BY DEF Decision, TypeOK, Ask
<1> HIDE DEF new
<1>2. /\ decision' \in Seq(Decision) /\ Len(decision') = n /\ Len(decision) \in Nat
      /\ \A d \in 1..Len(decision) : decision'[d] = decision[d]
      /\ decision'[n] = new
  BY <1>1, AppendProperties
<1>3. n \notin Made /\ Made' = Made \cup {n} /\ \A d \in Made : decision'[d] = decision[d]
  BY <1>2 DEF Made
<1>4. Choices'
  BY <1>2, <1>3 DEF Choices, new, Verdict
<1> QED BY <1>2, <1>3, <1>4 DEF Recorded, new

LEMMA ResolveRecords ==
  ASSUME TypeOK, Choices, NEW h \in Handler, NEW d \in Made, NEW verdict \in Verdict,
         Resolve(h, d, verdict)
  PROVE  /\ Recorded /\ Made' = Made
         /\ decision'[d].status = "resolved"
         /\ \A e \in Made \ {d} : decision'[e] = decision[e]
<1>1. decision \in Seq(Decision) /\ d \in 1..Len(decision) /\ decision[d] \in Decision
  BY ElementOfSeq DEF TypeOK, Made
<1> DEFINE new == [decision[d] EXCEPT !.status = "resolved", !.choice = verdict]
<1>2. /\ new \in Decision /\ new.task = decision[d].task
      /\ new.status = "resolved" /\ new.choice = verdict
  BY <1>1 DEF Decision
<1>3. decision' = [decision EXCEPT ![d] = new]
  BY <1>1 DEF Resolve
<1> HIDE DEF new
<1>4. /\ decision' \in Seq(Decision) /\ Len(decision') = Len(decision)
      /\ \A e \in 1..Len(decision) : decision'[e] = IF e = d THEN new ELSE decision[e]
  BY <1>1, <1>2, <1>3, ExceptSeq
<1>5. Made' = Made /\ \A e \in Made : decision'[e] = IF e = d THEN new ELSE decision[e]
  BY <1>4 DEF Made
<1>6. Choices'
  BY <1>2, <1>5 DEF Choices
<1>7. decision[d].status = "pending"
  BY DEF Resolve
<1> QED BY <1>2, <1>4, <1>5, <1>6, <1>7 DEF Recorded

\* What the rule of its node makes of a decision nobody took.
LEMMA TimedOutFacts ==
  ASSUME TypeOK, Choices, NEW d \in Made, decision[d].status = "pending"
  PROVE  /\ TimedOut(d) \in Decision /\ TimedOut(d).task = decision[d].task
         /\ TimedOut(d).status = "resolved" <=> TimedOut(d).choice \in Verdict
         /\ onTimeout[decision[d].task] # "none" => TimedOut(d).status = "resolved"
<1>1. decision[d] \in Decision /\ decision[d].choice \notin Verdict
  <2>1. decision[d] \in Decision
    BY ElementOfSeq DEF TypeOK, Made
  <2> QED BY <2>1 DEF Choices
<1>2. CASE onTimeout[decision[d].task] = "none"
  <2>1. TimedOut(d) = [decision[d] EXCEPT !.status = "expired"]
    BY <1>2 DEF TimedOut
  <2> QED BY <1>1, <1>2, <2>1 DEF Decision
<1>3. CASE onTimeout[decision[d].task] = "auto_approve"
  <2>1. TimedOut(d) = [decision[d] EXCEPT !.status = "resolved", !.choice = "approve"]
    BY <1>3 DEF TimedOut
  <2> QED BY <1>1, <1>3, <2>1 DEF Decision, Verdict
<1>4. CASE onTimeout[decision[d].task] \notin {"none", "auto_approve"}
  <2>1. TimedOut(d) = [decision[d] EXCEPT !.status = "resolved", !.choice = "reject"]
    BY <1>4 DEF TimedOut
  <2> QED BY <1>1, <1>4, <2>1 DEF Decision, Verdict
<1> QED BY <1>2, <1>3, <1>4

LEMMA ExpireRecords ==
  ASSUME TypeOK, Choices, NEW overdue \in SUBSET Made, ExpireDecisions(overdue)
  PROVE  /\ Recorded /\ Made' = Made
         /\ \A d \in Made \ overdue : decision'[d] = decision[d]
         /\ \A d \in overdue : decision[d].status = "pending"
         /\ \A d \in queue' : d \in Made /\ decision'[d].status = "resolved"
<1> DEFINE D(d) == IF d \in overdue THEN TimedOut(d) ELSE decision[d]
<1>1. decision \in Seq(Decision) /\ Len(decision) \in Nat
  BY LenProperties DEF TypeOK
<1>2. \A d \in overdue : d \in Made /\ decision[d].status = "pending"
  BY DEF ExpireDecisions
<1>3. \A d \in Made : D(d) \in Decision /\ D(d).task = decision[d].task
  BY <1>1, <1>2, TimedOutFacts, ElementOfSeq DEF Made
<1>4. decision' = [d \in 1..Len(decision) |-> D(d)]
  BY DEF ExpireDecisions, Made
<1>5. decision' \in [1..Len(decision) -> Decision]
  BY <1>3, <1>4 DEF Made
<1>6. decision' \in Seq(Decision)
  BY <1>1, <1>5, SeqDef
<1>7. Len(decision') = Len(decision)
  <2>1. DOMAIN decision' = 1..Len(decision')
        /\ Len(decision') \in Nat
    BY <1>6, LenProperties
  <2>2. 1..Len(decision') = 1..Len(decision)
    BY <2>1, <1>5
  <2> QED BY <1>1, <2>1, <2>2
<1>8. Made' = Made /\ \A d \in Made : decision'[d] = D(d)
  BY <1>4, <1>7 DEF Made
<1>9. Choices'
  <2> SUFFICES ASSUME NEW d \in Made
               PROVE  decision'[d].status = "resolved" <=> decision'[d].choice \in Verdict
    BY <1>8 DEF Choices
  <2>1. CASE d \in overdue
    BY <2>1, <1>2, <1>8, TimedOutFacts
  <2>2. CASE d \notin overdue
    BY <2>2, <1>8 DEF Choices
  <2> QED BY <2>1, <2>2
<1>10. \A d \in queue' : d \in overdue /\ onTimeout[decision[d].task] # "none"
  BY DEF ExpireDecisions
<1>11. \A d \in queue' : d \in Made /\ decision'[d].status = "resolved"
  BY <1>2, <1>8, <1>10, TimedOutFacts
<1>12. Recorded
  BY <1>2, <1>3, <1>6, <1>8, <1>9 DEF Recorded
<1> QED BY <1>2, <1>8, <1>11, <1>12

\* While decisions are only recorded, what holds of a thread goes on to hold.
LEMMA SoundPersists ==
  ASSUME Recorded
  PROVE  \A l \in Local : Sound(l) => Sound(l)'
  BY DEF Recorded, Sound

LEMMA ThreadsPersist ==
  ASSUME TypeOK, Threads, Recorded, NEW h \in Thread, NEW l \in Local,
         Become(h, l), Sound(l)'
  PROVE  thread' \in [Thread -> Local] /\ Threads'
<1>1. thread' \in [Thread -> Local] /\ thread'[h] = l
      /\ \A g \in Thread \ {h} : thread'[g] = thread[g]
  BY DEF TypeOK, Become
<1>2. ASSUME NEW g \in Thread PROVE Sound(thread[g])'
  <2>1. CASE g = h
    BY <2>1, <1>1 DEF Sound
  <2>2. CASE g # h
    <3>1. PICK k \in Local : k = thread[g] /\ Sound(k)
      BY DEF TypeOK, Threads
    <3>2. Sound(k)'
      BY <3>1, SoundPersists
    <3> QED BY <3>1, <3>2, <2>2, <1>1 DEF Sound
  <2> QED BY <2>1, <2>2
<1> QED BY <1>1, <1>2 DEF Threads

\* The points a thread can be at that say nothing of a decision.
LEMMA AtFacts ==
  \A point \in {"idle", "next", "open"} :
    /\ At(point) \in Local /\ At(point).at = point
    /\ Sound(At(point)) /\ Sound(At(point))'
<1>1. \A point \in {"idle", "next", "open"} :
        /\ At(point) \in Local /\ At(point).at = point /\ At(point).todo = {}
  BY DEF At, Local
<1> QED BY <1>1 DEF Sound

-----------------------------------------------------------------------------
(* Steps that leave the decisions alone.                                   *)

LEMMA SameDecisions ==
  ASSUME IInv, UNCHANGED decision
  PROVE  Recorded /\ Made' = Made /\ AskedOnce'
  BY DEF IInv, TypeOK, Recorded, Made, Choices, AskedOnce

\* A task comes to a state in which its decision may find it.
LEMMA NodeMoves ==
  ASSUME IInv, UNCHANGED decision, NEW t \in Task,
         NEW s \in {"READY", "RUNNING", "BLOCKED"} \cup Final, Enter(t, s),
         t \in Human =>
           \/ s = "CANCELLED"
           \/ \E d \in Made : /\ decision[d].task = t
                              /\ s \in Stands(decision[d].status, decision[d].choice)
  PROVE  state' \in [Task -> {"READY", "RUNNING", "BLOCKED"} \cup Final] /\ Nodes'
<1>1. /\ state' \in [Task -> {"READY", "RUNNING", "BLOCKED"} \cup Final]
      /\ state'[t] = s /\ \A u \in Task \ {t} : state'[u] = state[u]
  BY DEF IInv, TypeOK, Enter
<1>2. Made' = Made
  BY SameDecisions
<1>3. ASSUME NEW u \in Human, \A d \in Made : decision[d].task # u
      PROVE  state'[u] \in {"READY", "CANCELLED"}
  BY <1>1, <1>3, HitlTasks DEF IInv, Nodes
<1>4. ASSUME NEW d \in Made, decision[d].task \in Human
      PROVE  state'[decision[d].task] \in Stands(decision[d].status, decision[d].choice)
  <2>1. CASE decision[d].task # t
    BY <2>1, <1>1, <1>4, HitlTasks DEF IInv, Nodes
  <2>2. CASE decision[d].task = t /\ s = "CANCELLED"
    BY <2>2, <1>1 DEF Stands
  <2>3. CASE decision[d].task = t /\ s # "CANCELLED"
    <3>1. PICK e \in Made : decision[e].task = t
                            /\ s \in Stands(decision[e].status, decision[e].choice)
      BY <2>3, <1>4
    <3>2. e = d
      BY <3>1, <2>3, <1>4 DEF IInv, AskedOnce
    <3> QED BY <3>1, <3>2, <2>3, <1>1
  <2> QED BY <2>1, <2>2, <2>3
<1> QED BY <1>1, <1>2, <1>3, <1>4 DEF Nodes

\* Begin, Requeue, Finish, CancelTask: the task's own life.
LEMMA TaskStep ==
  ASSUME IInv, NEW t \in Task, Begin(t) \/ Requeue(t) \/ Finish(t) \/ CancelTask(t)
  PROVE  IInv'
<1>1. UNCHANGED <<decision, thread, phase, queue, crashes, onTimeout>>
  BY DEF Begin, Requeue, Finish, CancelTask, sweep
<1>2. PICK s \in {"READY", "RUNNING", "BLOCKED"} \cup Final :
        Enter(t, s) /\ (t \in Human => s = "CANCELLED")
  BY DEF Begin, Requeue, Finish, CancelTask, Final
<1>3. state' \in [Task -> {"READY", "RUNNING", "BLOCKED"} \cup Final] /\ Nodes'
  BY <1>1, <1>2, NodeMoves
<1>4. Recorded /\ Made' = Made /\ AskedOnce'
  BY <1>1, SameDecisions
<1>5. TypeOK'
  BY <1>1, <1>3, <1>4 DEF IInv, TypeOK, Recorded
<1>6. Threads' /\ Queued'
  BY <1>1, <1>4 DEF IInv, Threads, Sound, Queued
<1> QED BY <1>3, <1>4, <1>5, <1>6 DEF IInv, Recorded

\* A thread goes on with its call; tasks and decisions stay.
LEMMA ThreadStep ==
  ASSUME IInv, UNCHANGED <<state, decision, crashes, onTimeout>>,
         NEW h \in Thread, NEW l \in Local, Become(h, l), Sound(l),
         phase' \in {"none", "expire", "resolved"},
         queue' \subseteq {d \in Made : decision[d].status = "resolved"}
  PROVE  IInv'
<1>1. Recorded /\ Made' = Made /\ AskedOnce'
  BY SameDecisions
<1>2. thread' \in [Thread -> Local] /\ Threads'
  BY <1>1, SoundPersists, ThreadsPersist DEF IInv
<1>3. TypeOK'
  BY <1>1, <1>2 DEF IInv, TypeOK, Recorded
<1>4. Queued' /\ Nodes'
  BY <1>1 DEF IInv, Queued, Nodes
<1> QED BY <1>1, <1>2, <1>3, <1>4 DEF IInv, Recorded

\* The sweep's queue holds decisions that are resolved.
LEMMA QueueFacts ==
  ASSUME IInv
  PROVE  /\ queue \subseteq {d \in Made : decision[d].status = "resolved"}
         /\ phase \in {"none", "expire", "resolved"}
  BY DEF IInv, TypeOK, Queued

LEMMA ReturnStep ==
  ASSUME IInv, NEW h \in Thread, (Return(h) /\ UNCHANGED sweep) \/ Abort(h),
         UNCHANGED <<state, decision, crashes, onTimeout>>
  PROVE  IInv'
<1>1. PICK point \in {"idle", "next"} : Become(h, At(point))
  BY DEF Return, Abort, Idle
<1>2. /\ phase' \in {"none", "expire", "resolved"}
      /\ queue' \subseteq {d \in Made : decision[d].status = "resolved"}
  BY QueueFacts DEF Return, Abort, sweep
<1> QED BY <1>1, <1>2, AtFacts, ThreadStep

LEMMA ListHumanStep ==
  ASSUME IInv, NEW o \in Opener, ListHuman(o)
  PROVE  IInv'
<1> DEFINE ready == {t \in Human : state[t] = "READY"}
           l == [At("open") EXCEPT !.todo = ready]
<1>1. l \in Local /\ l.at = "open" /\ l.todo = ready
  BY AtFacts, HitlTasks DEF Local
<1>2. Sound(l)
  BY <1>1 DEF Sound
<1>3. Become(o, l) /\ UNCHANGED <<state, decision, crashes, onTimeout, phase, queue>>
  BY DEF ListHuman, sweep
<1> HIDE DEF l
<1> QED BY <1>1, <1>2, <1>3, QueueFacts, ThreadStep DEF Thread

LEMMA OpenedStep ==
  ASSUME IInv, NEW o \in Opener, Opened(o)
  PROVE  IInv'
  BY AtFacts, QueueFacts, ThreadStep DEF Opened, Idle, sweep, Thread

\* The task is still to be dealt with, or has been.
LEMMA LookStep ==
  ASSUME IInv, NEW h \in Applier, Look(h)
  PROVE  IInv'
<1> DEFINE t == decision[thread[h].about].task
           l == [thread[h] EXCEPT !.at = "apply", !.seen = Youngest(t)]
<1>1. h \in Thread
  BY DEF Applier, Thread
<1>2. CASE state[t] = "BLOCKED"
  <2>1. thread[h] \in Local /\ Sound(thread[h]) /\ thread[h].at = "look"
    BY <1>1 DEF IInv, TypeOK, Threads, Look
  <2>2. t \in Task
    <3>1. decision[thread[h].about] \in Decision
      BY <2>1, ElementOfSeq DEF Sound, IInv, TypeOK, Made
    <3> QED BY <3>1 DEF Decision
  <2>3. Youngest(t) \in Nat
    BY <2>2, YoungestExists DEF IInv, TypeOK, Of, Made
  <2>4. l \in Local /\ l.at = "apply" /\ l.about = thread[h].about
    BY <2>1, <2>3 DEF Local
  <2>5. Sound(l)
    BY <2>1, <2>4 DEF Sound
  <2>6. Become(h, l) /\ UNCHANGED <<state, decision, crashes, onTimeout, phase, queue>>
    BY <1>2 DEF Look, sweep
  <2> HIDE DEF l
  <2> QED BY <1>1, <2>4, <2>5, <2>6, QueueFacts, ThreadStep
<1>3. CASE state[t] # "BLOCKED"
  BY <1>1, <1>3, ReturnStep DEF Look
<1> QED BY <1>2, <1>3

LEMMA SweepNextStep ==
  ASSUME IInv, NEW d \in Made, SweepNext(d)
  PROVE  IInv'
<1> DEFINE l == [At("look") EXCEPT !.about = d]
<1>1. l \in Local /\ l.at = "look" /\ l.about = d
  BY DEF At, Local, Made
<1>2. Sound(l)
  BY <1>1 DEF Sound, SweepNext, IInv, Queued
<1>3. /\ Become(Sweeper, l) /\ UNCHANGED <<state, decision, crashes, onTimeout, phase>>
      /\ queue' \subseteq queue
  BY DEF SweepNext
<1> HIDE DEF l
<1> QED BY <1>1, <1>2, <1>3, QueueFacts, ThreadStep DEF Thread

LEMMA ListResolvedStep ==
  ASSUME IInv, ListResolved
  PROVE  IInv'
<1>1. Recorded /\ Made' = Made /\ AskedOnce'
  BY SameDecisions DEF ListResolved
<1>2. TypeOK'
  BY <1>1 DEF ListResolved, Resolved, IInv, TypeOK, Recorded
<1>3. Threads' /\ Queued' /\ Nodes'
  BY <1>1 DEF ListResolved, Resolved, IInv, Threads, Sound, Queued, Nodes
<1> QED BY <1>1, <1>2, <1>3 DEF IInv, Recorded

LEMMA SweepDoneStep ==
  ASSUME IInv, SweepDone
  PROVE  IInv'
  BY AtFacts, QueueFacts, ThreadStep DEF SweepDone, Idle, Thread

LEMMA CrashStep ==
  ASSUME IInv, Crash
  PROVE  IInv'
<1>1. Recorded /\ Made' = Made /\ AskedOnce'
  BY SameDecisions DEF Crash
<1>2. Idle \in Local /\ Idle.at = "idle"
  BY AtFacts DEF Idle
<1>3. TypeOK'
  BY <1>1, <1>2, HitlBounds DEF Crash, IInv, TypeOK, Recorded
<1>4. Threads'
  BY <1>2 DEF Crash, Threads, Sound
<1>5. Queued' /\ Nodes'
  BY <1>1 DEF Crash, IInv, Queued, Nodes
<1> QED BY <1>1, <1>3, <1>4, <1>5 DEF IInv, Recorded

-----------------------------------------------------------------------------
(* Steps that make and answer decisions.                                   *)

\* A task that has no decision, or is an agent's, gets one and is BLOCKED.
LEMMA AskPreserves ==
  ASSUME IInv, NEW t \in Task, Ask(t), t \in Human => state[t] = "READY"
  PROVE  /\ Recorded /\ AskedOnce' /\ Nodes'
         /\ state' \in [Task -> {"READY", "RUNNING", "BLOCKED"} \cup Final]
<1> DEFINE n == Len(decision) + 1
<1>1. /\ Recorded /\ n \notin Made /\ Made' = Made \cup {n}
      /\ \A d \in Made : decision'[d] = decision[d]
      /\ decision'[n] = [task |-> t, status |-> "pending", choice |-> "none"]
  BY AskRecords DEF IInv
<1>2. /\ state' \in [Task -> {"READY", "RUNNING", "BLOCKED"} \cup Final]
      /\ state'[t] = "BLOCKED" /\ \A u \in Task \ {t} : state'[u] = state[u]
  BY DEF IInv, TypeOK, Ask, Enter
<1>3. t \in Human => \A d \in Made : decision[d].task # t
  BY DEF IInv, Nodes, Stands
<1>4. decision'[n].task = t /\ decision'[n].status = "pending"
  BY <1>1
<1> HIDE DEF n
<1>5. AskedOnce'
  BY <1>1, <1>3, <1>4 DEF IInv, AskedOnce
<1>6. ASSUME NEW u \in Human, \A d \in Made' : decision'[d].task # u
      PROVE  state'[u] \in {"READY", "CANCELLED"}
  <2>1. u # t /\ \A d \in Made : decision[d].task # u
    BY <1>1, <1>4, <1>6
  <2> QED BY <2>1, <1>2, HitlTasks DEF IInv, Nodes
<1>7. ASSUME NEW d \in Made', decision'[d].task \in Human
      PROVE  state'[decision'[d].task] \in Stands(decision'[d].status, decision'[d].choice)
  <2>1. CASE d = n
    BY <2>1, <1>2, <1>4 DEF Stands
  <2>2. CASE d # n
    <3>1. d \in Made /\ decision'[d] = decision[d]
      BY <2>2, <1>1
    <3>2. decision[d].task # t
      BY <3>1, <1>3, <1>7
    <3> QED BY <3>1, <3>2, <1>2, <1>7, HitlTasks DEF IInv, Nodes
  <2> QED BY <2>1, <2>2
<1> QED BY <1>1, <1>2, <1>5, <1>6, <1>7 DEF Nodes

\* The sweep's queue is none the worse for it.
LEMMA QueuePersists ==
  ASSUME IInv, Recorded, UNCHANGED sweep
  PROVE  queue' \subseteq Made' /\ Queued'
  BY DEF IInv, TypeOK, Recorded, Queued, sweep

LEMMA RequestDecisionStep ==
  ASSUME IInv, NEW t \in Task, RequestDecision(t)
  PROVE  IInv'
<1>1. /\ Recorded /\ AskedOnce' /\ Nodes'
      /\ state' \in [Task -> {"READY", "RUNNING", "BLOCKED"} \cup Final]
  BY AskPreserves DEF RequestDecision
<1>2. UNCHANGED <<thread, sweep, crashes, onTimeout>>
  BY DEF RequestDecision
<1>3. queue' \subseteq Made' /\ Queued'
  BY <1>1, <1>2, QueuePersists
<1>4. TypeOK'
  BY <1>1, <1>2, <1>3 DEF IInv, TypeOK, Recorded, sweep
<1>5. Threads'
  BY <1>1, <1>2 DEF IInv, Threads, Sound, Recorded
<1> QED BY <1>1, <1>3, <1>4, <1>5 DEF IInv, Recorded

LEMMA OpenStep ==
  ASSUME IInv, NEW o \in Opener, NEW t \in Human, Open(o, t)
  PROVE  IInv'
<1>1. /\ Recorded /\ AskedOnce' /\ Nodes'
      /\ state' \in [Task -> {"READY", "RUNNING", "BLOCKED"} \cup Final]
  <2>1. CASE state[t] = "READY"
    BY <2>1, AskPreserves, HitlTasks DEF Open
  <2>2. CASE state[t] # "READY"
    <3>1. UNCHANGED <<state, decision>>
      BY <2>2 DEF Open
    <3> QED BY <3>1, SameDecisions DEF IInv, TypeOK, Nodes
  <2> QED BY <2>1, <2>2
<1>2. PICK l \in Local : l = [thread[o] EXCEPT !.todo = @ \ {t}] /\ Sound(l)'
  <2> DEFINE e == [thread[o] EXCEPT !.todo = @ \ {t}]
  <2>1. thread[o] \in Local /\ thread[o].at = "open" /\ thread[o].todo \subseteq Human
    BY DEF IInv, TypeOK, Threads, Sound, Open, Thread
  <2>2. e \in Local /\ e.at = "open" /\ e.todo \subseteq Human
    BY <2>1 DEF Local
  <2>3. PICK l \in Local : l = e
    BY <2>2
  <2>4. Sound(l)'
    BY <2>2, <2>3 DEF Sound
  <2> QED BY <2>3, <2>4
<1>3. thread' \in [Thread -> Local] /\ Threads'
  BY <1>1, <1>2, ThreadsPersist DEF Open, IInv, Thread
<1>4. UNCHANGED <<sweep, crashes, onTimeout>>
  BY DEF Open
<1>5. queue' \subseteq Made' /\ Queued'
  BY <1>1, <1>4, QueuePersists
<1>6. TypeOK'
  BY <1>1, <1>3, <1>4, <1>5 DEF IInv, TypeOK, Recorded, sweep
<1> QED BY <1>1, <1>3, <1>5, <1>6 DEF IInv, Recorded

\* While pending decisions are answered and tasks stay, nodes stand where they may.
LEMMA AnswersPreserve ==
  ASSUME IInv, Recorded, Made' = Made, UNCHANGED state
  PROVE  AskedOnce' /\ Nodes'
<1>1. AskedOnce'
  BY DEF IInv, AskedOnce, Recorded
<1>2. ASSUME NEW d \in Made, decision[d].task \in Human
      PROVE  state[decision[d].task] \in Stands(decision'[d].status, decision'[d].choice)
  <2>1. state[decision[d].task] \in Stands(decision[d].status, decision[d].choice)
    BY <1>2 DEF IInv, Nodes
  <2>2. CASE decision[d].status = "pending"
    <3>1. Stands(decision[d].status, decision[d].choice) = {"BLOCKED", "CANCELLED"}
      <4>1. decision[d].status # "resolved"
        BY <2>2
      <4> QED BY <4>1 DEF Stands
    <3>2. \A status, choice : {"BLOCKED", "CANCELLED"} \subseteq Stands(status, choice)
      BY DEF Stands
    <3> QED BY <2>1, <3>1, <3>2, Zenon
  <2>3. CASE decision[d].status # "pending"
    BY <2>1, <2>3 DEF Recorded
  <2> QED BY <2>2, <2>3
<1>3. \A t \in Human :
        (\A d \in Made : decision'[d].task # t) => state[t] \in {"READY", "CANCELLED"}
  BY DEF IInv, Nodes, Recorded
<1>4. \A d \in Made : decision'[d].task = decision[d].task
  BY DEF Recorded
<1> QED BY <1>1, <1>2, <1>3, <1>4 DEF Nodes

LEMMA ResolveStep ==
  ASSUME IInv, NEW h \in Handler, NEW d \in Made, NEW verdict \in Verdict,
         Resolve(h, d, verdict)
  PROVE  IInv'
<1>1. Recorded /\ Made' = Made /\ decision'[d].status = "resolved"
  BY ResolveRecords DEF IInv
<1>2. UNCHANGED <<state, sweep, crashes, onTimeout>>
  BY DEF Resolve
<1>3. AskedOnce' /\ Nodes'
  BY <1>1, <1>2, AnswersPreserve
<1>4. PICK l \in Local : l = [At("look") EXCEPT !.about = d] /\ Sound(l)'
  <2> DEFINE e == [At("look") EXCEPT !.about = d]
  <2>1. e \in Local /\ e.at = "look" /\ e.about = d
    BY DEF At, Local, Made
  <2>2. PICK l \in Local : l = e
    BY <2>1
  <2>3. Sound(l)'
    BY <2>1, <2>2, <1>1 DEF Sound
  <2> QED BY <2>2, <2>3
<1>5. thread' \in [Thread -> Local] /\ Threads'
  BY <1>1, <1>4, ThreadsPersist DEF Resolve, IInv, Thread
<1>6. queue' \subseteq Made' /\ Queued'
  BY <1>1, <1>2, QueuePersists
<1>7. TypeOK'
  BY <1>1, <1>2, <1>5, <1>6 DEF IInv, TypeOK, Recorded, sweep
<1> QED BY <1>1, <1>3, <1>5, <1>6, <1>7 DEF IInv, Recorded

LEMMA ExpireStep ==
  ASSUME IInv, NEW overdue \in SUBSET Made, ExpireDecisions(overdue)
  PROVE  IInv'
<1>1. /\ Recorded /\ Made' = Made
      /\ \A d \in queue' : d \in Made /\ decision'[d].status = "resolved"
  BY ExpireRecords DEF IInv
<1>2. UNCHANGED <<state, crashes, onTimeout>> /\ phase' = "expire"
  BY DEF ExpireDecisions
<1>3. AskedOnce' /\ Nodes'
  BY <1>1, <1>2, AnswersPreserve
<1>4. thread' \in [Thread -> Local] /\ Threads'
  BY <1>1, AtFacts, ThreadsPersist DEF ExpireDecisions, IInv, Thread
<1>5. TypeOK'
  BY <1>1, <1>2, <1>4 DEF IInv, TypeOK, Recorded
<1>6. Queued'
  BY <1>1 DEF Queued
<1> QED BY <1>1, <1>3, <1>4, <1>5, <1>6 DEF IInv, Recorded

-----------------------------------------------------------------------------
(* Steps that apply an answer.                                             *)

\* What a thread that applies an answer may use of it.
LEMMA AnswerFacts ==
  ASSUME IInv, NEW h \in Applier, thread[h].at \in {"apply", "complete"}
  PROVE  /\ h \in Thread /\ thread[h] \in Local
         /\ thread[h].about \in Made /\ decision[thread[h].about].task \in Task
         /\ decision[thread[h].about].status = "resolved"
         /\ decision[thread[h].about].choice \in Verdict
         /\ thread[h].at = "complete" =>
              /\ decision[thread[h].about].task \in Human
              /\ decision[thread[h].about].choice = "approve"
<1>1. h \in Thread
  BY DEF Applier, Thread
<1>2. thread[h] \in Local /\ Sound(thread[h])
  BY <1>1 DEF IInv, TypeOK, Threads
<1>3. thread[h].about \in Made /\ decision[thread[h].about].status = "resolved"
  BY <1>2 DEF Sound
<1>4. decision[thread[h].about] \in Decision
  BY <1>3, ElementOfSeq DEF IInv, TypeOK, Made
<1> QED BY <1>1, <1>2, <1>3, <1>4 DEF Sound, Decision, IInv, Choices

\* The task of an answer comes to a state in which the answer may find it.
LEMMA ApplyPreserves ==
  ASSUME IInv, UNCHANGED <<decision, crashes, onTimeout, sweep>>, NEW d \in Made,
         decision[d].task \in Task,
         NEW s \in {"READY", "RUNNING", "BLOCKED"} \cup Final, Enter(decision[d].task, s),
         s \in Stands(decision[d].status, decision[d].choice),
         NEW h \in Thread, NEW l \in Local, Become(h, l), Sound(l)
  PROVE  IInv'
<1>1. state' \in [Task -> {"READY", "RUNNING", "BLOCKED"} \cup Final] /\ Nodes'
  BY NodeMoves
<1>2. Recorded /\ Made' = Made /\ AskedOnce'
  BY SameDecisions
<1>3. thread' \in [Thread -> Local] /\ Threads'
  BY <1>2, SoundPersists, ThreadsPersist DEF IInv
<1>4. queue' \subseteq Made' /\ Queued'
  BY <1>2, QueuePersists
<1>5. TypeOK'
  BY <1>1, <1>2, <1>3, <1>4 DEF IInv, TypeOK, Recorded, sweep
<1> QED BY <1>1, <1>2, <1>3, <1>4, <1>5 DEF IInv, Recorded

LEMMA ApplyRejectStep ==
  ASSUME IInv, NEW h \in Applier, ApplyReject(h)
  PROVE  IInv'
<1>1. /\ h \in Thread /\ thread[h].about \in Made
      /\ decision[thread[h].about].task \in Task
      /\ decision[thread[h].about].status = "resolved"
  BY AnswerFacts DEF ApplyReject
<1>2. "FAILED" \in Stands(decision[thread[h].about].status, decision[thread[h].about].choice)
  BY <1>1 DEF ApplyReject, Stands
<1>3. PICK l \in Local : Become(h, l) /\ Sound(l)
  BY AtFacts DEF ApplyReject, Return
<1> QED BY <1>1, <1>2, <1>3, ApplyPreserves DEF ApplyReject, Final

LEMMA ApplyApproveStep ==
  ASSUME IInv, NEW h \in Applier, ApplyApprove(h)
  PROVE  IInv'
<1> DEFINE d == thread[h].about
<1>1. /\ h \in Thread /\ thread[h] \in Local /\ d \in Made /\ decision[d].task \in Task
      /\ decision[d].status = "resolved" /\ decision[d].choice = "approve"
  BY AnswerFacts DEF ApplyApprove, Verdict
<1>2. "RUNNING" \in Stands(decision[d].status, decision[d].choice)
  BY <1>1 DEF Stands
<1>3. PICK l \in Local : Become(h, l) /\ Sound(l)
  <2>1. CASE decision[d].task \in Human
    <3> DEFINE e == [thread[h] EXCEPT !.at = "complete"]
    <3>1. e \in Local /\ e.at = "complete" /\ e.about = d
      BY <1>1 DEF Local
    <3>2. Sound(e)
      BY <2>1, <3>1, <1>1 DEF Sound
    <3> QED BY <2>1, <3>1, <3>2 DEF ApplyApprove
  <2>2. CASE decision[d].task \notin Human
    BY <2>2, AtFacts DEF ApplyApprove, Return
  <2> QED BY <2>1, <2>2
<1> QED BY <1>1, <1>2, <1>3, ApplyPreserves DEF ApplyApprove

LEMMA CompleteStep ==
  ASSUME IInv, NEW h \in Applier, Complete(h)
  PROVE  IInv'
<1> DEFINE d == thread[h].about
<1>1. /\ h \in Thread /\ d \in Made /\ decision[d].task \in Task
      /\ decision[d].status = "resolved" /\ decision[d].choice = "approve"
  BY AnswerFacts DEF Complete
<1>2. CASE state[decision[d].task] = "RUNNING"
  <2>1. "SUCCEEDED" \in Stands(decision[d].status, decision[d].choice)
    BY <1>1 DEF Stands
  <2>2. PICK l \in Local : Become(h, l) /\ Sound(l)
    BY <1>2, AtFacts DEF Complete, Return
  <2>3. /\ Enter(decision[d].task, "SUCCEEDED")
        /\ UNCHANGED <<decision, crashes, onTimeout, sweep>>
    BY <1>2 DEF Complete
  <2> QED BY <1>1, <2>1, <2>2, <2>3, ApplyPreserves DEF Final
<1>3. CASE state[decision[d].task] # "RUNNING"
  BY <1>1, <1>3, ReturnStep DEF Complete
<1> QED BY <1>2, <1>3

LEMMA Inductive == IInv /\ [Next]_vars => IInv'
<1> SUFFICES ASSUME IInv, [Next]_vars PROVE IInv'
  OBVIOUS
<1>1. CASE Agents
  BY <1>1, TaskStep, RequestDecisionStep DEF Agents
<1>2. ASSUME NEW t \in Task, CancelTask(t) PROVE IInv'
  BY <1>2, TaskStep
<1>3. ASSUME NEW o \in Opener, OpenHumanDecisions(o) PROVE IInv'
  BY <1>3, ListHumanStep, OpenedStep, OpenStep DEF OpenHumanDecisions
<1>4. ASSUME NEW h \in Applier, ApplyDecisionOutcome(h) PROVE IInv'
  <2>1. CASE ApplyConflict(h)
    BY <2>1, ReturnStep DEF ApplyConflict, Applier, Thread
  <2> QED BY <1>4, <2>1, LookStep, ApplyRejectStep, ApplyApproveStep, CompleteStep
          DEF ApplyDecisionOutcome
<1>5. CASE SweepOnce
  BY <1>5, ExpireStep, SweepNextStep, ListResolvedStep, SweepDoneStep DEF SweepOnce
<1>6. CASE UNCHANGED vars
  <2>1. Recorded /\ Made' = Made /\ AskedOnce'
    BY <1>6, SameDecisions DEF vars
  <2>2. TypeOK' /\ Queued' /\ Nodes'
    BY <1>6, <2>1 DEF vars, sweep, IInv, TypeOK, Queued, Nodes
  <2>3. Threads'
    BY <1>6, <2>1 DEF vars, IInv, Threads, Sound
  <2> QED BY <2>1, <2>2, <2>3 DEF IInv, Recorded
<1> QED BY <1>1, <1>2, <1>3, <1>4, <1>5, <1>6, ResolveStep, CrashStep DEF Next

-----------------------------------------------------------------------------
(* The properties.                                                         *)

THEOREM Invariance == Spec => []IInv
<1> QED BY Initially, Inductive, PTL DEF Spec

\* Every variable keeps its type.
THEOREM TypeCorrect == Spec => []TypeOK
<1>1. IInv => TypeOK
  BY DEF IInv
<1> QED BY <1>1, Initially, Inductive, PTL DEF Spec

\* A human node is asked about once and stands where its one decision puts it, however
\* many loops ask and however many threads apply the answer.
THEOREM NodeFollowsItsDecision == Spec => []HumanNodeFollowsItsDecision
<1>1. ASSUME IInv PROVE HumanNodeFollowsItsDecision
  <2> SUFFICES ASSUME NEW t \in Human
               PROVE  /\ Cardinality(Of(t)) <= 1
                      /\ Of(t) = {} => state[t] \in {"READY", "CANCELLED"}
                      /\ \A d \in Of(t) :
                           state[t] \in Stands(decision[d].status, decision[d].choice)
    BY DEF HumanNodeFollowsItsDecision, Stands
  <2>1. Cardinality(Of(t)) <= 1
    <3>1. CASE Of(t) = {}
      BY <3>1, FS_EmptySet
    <3>2. ASSUME NEW d \in Of(t) PROVE Cardinality(Of(t)) <= 1
      <4>1. Of(t) = {d}
        BY <1>1 DEF IInv, AskedOnce, Of
      <4> QED BY <4>1, FS_Singleton
    <3> QED BY <3>1, <3>2
  <2>2. Of(t) = {} => state[t] \in {"READY", "CANCELLED"}
    BY <1>1 DEF IInv, Nodes, Of
  <2>3. \A d \in Of(t) : state[t] \in Stands(decision[d].status, decision[d].choice)
    BY <1>1 DEF IInv, Nodes, Of
  <2> QED BY <2>1, <2>2, <2>3
<1> QED BY <1>1, Initially, Inductive, PTL DEF Spec

\* A task that is over is not moved again.
LEMMA FinalStays ==
  ASSUME IInv, [Next]_vars, NEW t \in Task, state[t] \in Final
  PROVE  state'[t] = state[t]
<1> USE DEF Enter, Final
<1>1. state \in [Task -> {"READY", "RUNNING", "BLOCKED"} \cup Final]
  BY DEF IInv, TypeOK
<1>2. CASE Agents
  BY <1>1, <1>2 DEF Agents, Begin, Requeue, Finish, RequestDecision, Ask
<1>3. ASSUME NEW u \in Task, CancelTask(u) PROVE state'[t] = state[t]
  BY <1>1, <1>3 DEF CancelTask
<1>4. ASSUME NEW o \in Opener, OpenHumanDecisions(o) PROVE state'[t] = state[t]
  BY <1>1, <1>4 DEF OpenHumanDecisions, ListHuman, Opened, Open, Ask
<1>5. ASSUME NEW h \in Applier, ApplyDecisionOutcome(h) PROVE state'[t] = state[t]
  BY <1>1, <1>5
     DEF ApplyDecisionOutcome, Look, ApplyReject, ApplyApprove, ApplyConflict, Complete, AsSeen
<1>6. CASE SweepOnce \/ Crash \/ UNCHANGED vars
           \/ \E h \in Handler, d \in Made, verdict \in Verdict : Resolve(h, d, verdict)
  BY <1>6 DEF SweepOnce, ExpireDecisions, SweepNext, ListResolved, SweepDone, Crash, vars,
              Resolve
<1> QED BY <1>2, <1>3, <1>4, <1>5, <1>6 DEF Next

\* An answer that was given is not replaced, a question that expired not answered.
LEMMA AnswersStay ==
  ASSUME IInv, [Next]_vars, NEW d \in Made, decision[d].status # "pending"
  PROVE  decision'[d] = decision[d]
<1>1. ASSUME NEW t \in Task, Ask(t) PROVE decision'[d] = decision[d]
  BY <1>1, AskRecords DEF IInv
<1>2. CASE Agents
  BY <1>1, <1>2 DEF Agents, Begin, Requeue, Finish, RequestDecision
<1>3. ASSUME NEW u \in Task, CancelTask(u) PROVE decision'[d] = decision[d]
  BY <1>3 DEF CancelTask
<1>4. ASSUME NEW o \in Opener, OpenHumanDecisions(o) PROVE decision'[d] = decision[d]
  BY <1>1, <1>4, HitlTasks DEF OpenHumanDecisions, ListHuman, Opened, Open
<1>5. ASSUME NEW h \in Applier, ApplyDecisionOutcome(h) PROVE decision'[d] = decision[d]
  BY <1>5 DEF ApplyDecisionOutcome, Look, ApplyReject, ApplyApprove, ApplyConflict, Complete
<1>6. ASSUME NEW h \in Handler, NEW e \in Made, NEW verdict \in Verdict,
             Resolve(h, e, verdict)
      PROVE  decision'[d] = decision[d]
  BY <1>6, ResolveRecords DEF IInv, Recorded
<1>7. CASE SweepOnce
  BY <1>7, ExpireRecords DEF SweepOnce, SweepNext, ListResolved, SweepDone, IInv, Recorded
<1>8. CASE Crash \/ UNCHANGED vars
  BY <1>8 DEF Crash, vars
<1> QED BY <1>2, <1>3, <1>4, <1>5, <1>6, <1>7, <1>8 DEF Next

\* Whoever answers first has decided, and what is over stays as it ended: answers that
\* cross, and timeouts that race them, change nothing any more.
THEOREM DecisionsAreFinal == Spec => DecidedIsFinal
<1>1. ASSUME IInv, [Next]_vars
      PROVE  [/\ \A d \in Made : decision[d].status # "pending" => decision'[d] = decision[d]
              /\ \A t \in Task : state[t] \in Final => state'[t] = state[t]]_vars
  BY <1>1, AnswersStay, FinalStays
<1> QED BY <1>1, Initially, Inductive, PTL DEF Spec, DecidedIsFinal
=============================================================================
