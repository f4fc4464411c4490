----------------------------- MODULE WakeProofs -----------------------------
(***************************************************************************)
(* The safety of Wake for every set of tasks, requests and threads: nobody *)
(* but a person ends a wait that is not due, an event wakes a task once,   *)
(* and no write goes unnoticed by a condition it changes.                  *)
(***************************************************************************)
EXTENDS Wake, Integers, FiniteSetTheorems, SequenceTheorems, WellFoundedInduction, TLAPS

-----------------------------------------------------------------------------
(* The invariant.                                                          *)

Segment == Namespace \cup Name \cup {Dynamic}
TaskType == [state : {"READY", "RUNNING", "WAITING", "FAILED", "OVER"}, version : Nat, reg : Registration]
LogEntry == [type : EventType \cup {"cost"}, status : {"open", "committed", "void"}]
Local == [at : {"idle", "suspend", "list", "next", "page", "load", "wake", "expire"},
          loop : {"none", "timer", "event", "condition", "manual"},
          todo : SUBSET Sub, sub : Sub \cup {None}, now : Nat, pos : Nat,
          left : SUBSET SUBSET Segment, view : [Key -> Value], key : Key \cup {None}]

\* A registration that a thread has read is still that of the task, or the task has a
\* younger version.
Current(x) == x.version = task[x.id].version
Consistent(x) ==
  /\ x \in Sub /\ x.version <= task[x.id].version
  /\ Current(x) => task[x.id].state = "WAITING" /\ task[x.id].reg = x.reg

\* What a loop goes through.
Suits(x, l) ==
  /\ x.reg.wake.kind = l.loop
  /\ l.loop = "timer" => x.reg.wake.at <= l.now

\* The namespaces that are loaded together with chain ch of condition c.
LoadedWith(c, ch) ==
  IF c.op = "expr" /\ \E d \in c.chains : IsWildcard(d) THEN Namespace ELSE {ch[1]}

\* A chain that is true in the view was true on the board during this wait.
Seen(l) ==
  LET c == l.sub.reg.wake.cond
  IN /\ l.left \subseteq ToLoad(c)
     /\ Current(l.sub) =>
          \A ch \in c.chains : LoadedWith(c, ch) \notin l.left /\ ChainTrue(c.op, ch, l.view)
                               => ch \in once[l.sub.id]

\* What thread h may do with what it has read.
Sound(h, l) ==
  /\ l \in Local /\ l.now <= clock
  /\ \A x \in l.todo : Consistent(x) /\ Suits(x, l)
  /\ l.at \in {"next", "page", "load", "wake"} =>
       l.loop \in {"timer", "event", "condition"} \/ (l.at = "wake" /\ l.loop = "manual")
  /\ l.at # "page" => l.pos \in Committed \cup {0}
  /\ l.at = "page" => /\ Consistent(l.sub) /\ l.sub.reg.wake.kind = "event"
                      /\ l.sub.reg.after <= l.pos
  /\ l.at = "load" => /\ Consistent(l.sub) /\ l.sub.reg.wake.kind = "condition"
                      /\ l.sub.reg.wake \in Request /\ Seen(l)
  /\ l.at = "wake" => /\ Consistent(l.sub)
                      /\ h \in Waker \/ (Current(l.sub) => Met(l.sub.id))
  /\ l.at = "suspend" =>
       /\ l.sub \in Sub /\ l.sub.reg.wake \in Request
       /\ l.sub.version <= task[l.sub.id].version
       /\ Current(l.sub) /\ l.sub.reg.wake.kind = "event" =>
            wokenBy[l.sub.id] <= l.sub.reg.after

Threads == thread \in [Thread -> Local] /\ \A h \in Thread : Sound(h, thread[h])

\* The store: a task that waits has a request, and what was true is remembered.
World ==
  /\ task \in [Task -> TaskType] /\ log \in Seq(LogEntry) /\ board \in [Key -> Value]
  /\ clock \in 0..MaxTime /\ crashes \in 0..MaxCrash
  /\ \A t \in Task : IF task[t].state = "WAITING"
                     THEN task[t].reg.wake \in Request /\ TrueChains(t) \subseteq once[t]
                     ELSE task[t].reg = Unregistered
  /\ wokenBy \in [Task -> Nat] /\ \A t \in Task : wokenBy[t] \in Committed \cup {0}

IInv == World /\ Threads /\ AnEventWakesOnce

-----------------------------------------------------------------------------
(* Requests, positions and conditions.                                     *)

LEMMA RequestFacts ==
  /\ \A w \in Request : /\ w.kind \in {"timer", "event", "condition", "manual"} /\ ValidWake(w)
                        /\ w # NoWake
  /\ NoWake.kind = "none" /\ Unregistered \in Registration /\ Unregistered.wake = NoWake
  /\ Unregistered.after = 0
BY WakeRequests DEF NoWake, Unregistered, Registration

\* What a thread has read of a waiting task.
LEMMA ReadFacts ==
  ASSUME World, NEW t \in Task
  PROVE  /\ task[t] \in TaskType /\ Read(t) \in Sub /\ Read(t).id = t
         /\ Read(t).version = task[t].version /\ Read(t).reg = task[t].reg
         /\ task[t].version \in Nat /\ task[t].reg \in Registration
         /\ task[t].reg.after \in Nat /\ task[t].reg.wake \in Request \cup {NoWake}
         /\ task[t].state = "WAITING" => Consistent(Read(t)) /\ task[t].reg.wake \in Request
<1>1. /\ task[t] \in TaskType /\ task[t].version \in Nat /\ task[t].reg \in Registration
      /\ task[t].reg.after \in Nat /\ task[t].reg.wake \in Request \cup {NoWake}
  BY DEF World, TaskType, Registration
<1>2. /\ Read(t) \in Sub /\ Read(t).id = t
      /\ Read(t).version = task[t].version /\ Read(t).reg = task[t].reg
  BY <1>1 DEF Read, Sub
<1>3. task[t].state = "WAITING" => Consistent(Read(t)) /\ task[t].reg.wake \in Request
  BY <1>1, <1>2 DEF Consistent, World
<1> QED BY <1>1, <1>2, <1>3

\* A set of positions of the log has a greatest element, and a least one.
LEMMA Extremes ==
  ASSUME World, NEW S \in SUBSET (DOMAIN log \cup {0}), S # {}
  PROVE  /\ \E n \in S : \A m \in S : m <= n
         /\ \E n \in S : \A m \in S : n <= m
         /\ S \subseteq Nat
<1>1. Len(log) \in Nat /\ DOMAIN log = 1..Len(log)
  BY DEF World
<1>2. S \subseteq Nat
  BY <1>1
<1>3. \A T \in SUBSET Nat : T # {} => \E n \in T : \A m \in T : n <= m
  <2> TAKE T \in SUBSET Nat
  <2> HAVE T # {}
  <2>1. PICK n \in T : \A m \in T : ~ (<<m, n>> \in OpToRel(<, Nat))
    BY NatLessThanWellFounded, WFMin
  <2>2. \A m \in Nat : m < n => <<m, n>> \in OpToRel(<, Nat)
    BY DEF OpToRel
  <2>3. \A m \in T : ~ (m < n)
    BY <2>1, <2>2, Zenon
  <2>4. \A m \in T : n <= m
    BY <2>3
  <2> QED BY <2>4
<1>4. \E n \in S : \A m \in S : n <= m
  BY <1>2, <1>3
<1>5. \E n \in S : \A m \in S : m <= n
  <2> DEFINE T == {Len(log) - n : n \in S}
  <2>1. T \in SUBSET Nat /\ T # {}
    BY <1>1
  <2>2. PICK k \in T : \A m \in T : k <= m
    <3> HIDE DEF T
    <3> QED BY <1>3, <2>1
  <2>3. PICK n \in S : k = Len(log) - n
    OBVIOUS
  <2>4. ASSUME NEW m \in S PROVE m <= n
    <3>1. Len(log) - n <= Len(log) - m
      BY <2>2, <2>3
    <3> QED BY <1>1, <1>2, <3>1
  <2> QED BY <2>4
<1> QED BY <1>2, <1>4, <1>5

\* MaxEventSeq is the newest event there is to see.
LEMMA MaxEventSeqFacts ==
  ASSUME World
  PROVE  MaxEventSeq \in Committed \cup {0} /\ MaxEventSeq \in Nat
         /\ \A n \in Committed \cup {0} : n <= MaxEventSeq
<1>1. Committed \cup {0} \in SUBSET (DOMAIN log \cup {0}) /\ Committed \cup {0} # {}
  BY DEF Committed
<1>2. \E n \in Committed \cup {0} : \A m \in Committed \cup {0} : m <= n
  BY <1>1, Extremes
<1>3. \E n \in Committed \cup {0} : \A m \in Committed : m <= n
  BY <1>2
<1>4. MaxEventSeq \in Committed \cup {0} /\ \A m \in Committed : m <= MaxEventSeq
  BY <1>3 DEF MaxEventSeq
<1>5. MaxEventSeq \in Nat
  BY <1>1, <1>4, Extremes
<1> QED BY <1>4, <1>5

\* A chain looks at keys of the namespaces it is loaded with only.
LEMMA ChainsAreLoaded ==
  ASSUME NEW w \in Request, w.kind = "condition"
  PROVE  /\ w.cond \in Condition
         /\ \A ch \in w.cond.chains : /\ LoadedWith(w.cond, ch) \in ToLoad(w.cond)
                                      /\ \A k \in Under(ch) : k \in Key /\ k[1] \in LoadedWith(w.cond, ch)
         /\ \A nss \in ToLoad(w.cond), ch \in w.cond.chains :
              nss = LoadedWith(w.cond, ch) \/ nss \cap LoadedWith(w.cond, ch) = {}
         /\ ToLoad(w.cond) \subseteq SUBSET Segment
<1> DEFINE c == w.cond
<1>1. /\ c \in Condition /\ (c.op \in {"exists", "equals"} => \E k \in Key : c.chains = {k})
      /\ c.op \in {"exists", "equals", "expr"} /\ c.chains \subseteq Seq(Segment)
  BY RequestFacts DEF ValidWake, Condition, Segment
<1> HIDE DEF c
<1>2. CASE c.op = "expr" /\ \E d \in c.chains : IsWildcard(d)
  <2>1. ToLoad(c) = {Namespace} /\ \A ch : LoadedWith(c, ch) = Namespace
    BY <1>2 DEF ToLoad, LoadedWith
  <2>2. \A ch : \A k \in Under(ch) : k \in Key /\ k[1] \in Namespace
    BY DEF Under, Key
  <2> QED BY <1>1, <2>1, <2>2 DEF c, Segment
<1>3. CASE ~ (c.op = "expr" /\ \E d \in c.chains : IsWildcard(d))
  <2>1. ToLoad(c) = {{ch[1]} : ch \in c.chains} /\ \A ch : LoadedWith(c, ch) = {ch[1]}
    BY <1>3 DEF ToLoad, LoadedWith
  <2>2. ASSUME NEW ch \in c.chains PROVE Len(ch) \in Nat /\ Len(ch) >= 1 /\ ch[1] \in Segment \ {Dynamic}
    <3>1. CASE c.op = "expr"
      <4>1. ~ IsWildcard(ch) /\ ch \in Seq(Segment)
        BY <1>1, <1>3, <3>1
      <4>2. Len(ch) \in Nat /\ Len(ch) # 0 /\ DOMAIN ch = 1..Len(ch) /\ \A i \in DOMAIN ch : ch[i] # Dynamic
        BY <4>1 DEF IsWildcard
      <4> QED BY <4>1, <4>2
    <3>2. CASE c.op # "expr"
      <4>1. PICK k \in Key : c.chains = {k}
        BY <1>1, <3>2
      <4>2. PICK ns \in Namespace, n \in Name : ch = <<ns, n>>
        BY <4>1 DEF Key
      <4> QED BY <4>2, WakeValues DEF Segment
    <3> QED BY <3>1, <3>2
  <2>3. ASSUME NEW ch \in c.chains, NEW k \in Under(ch) PROVE k \in Key /\ k[1] = ch[1]
    <3>1. k \in Key /\ \A i \in 1..2 : i <= Len(ch) => ch[i] \in {k[i], Dynamic}
      BY DEF Under
    <3>2. ch[1] \in {k[1], Dynamic}
      BY <2>2, <3>1
    <3> QED BY <2>2, <3>1, <3>2
  <2>4. ToLoad(c) \subseteq SUBSET Segment
    BY <2>1, <2>2
  <2>5. ASSUME NEW nss \in ToLoad(c), NEW ch \in c.chains
        PROVE  nss = LoadedWith(c, ch) \/ nss \cap LoadedWith(c, ch) = {}
    <3>1. PICK d \in c.chains : nss = {d[1]}
      BY <2>1
    <3> QED BY <2>1, <3>1
  <2>6. ASSUME NEW ch \in c.chains
        PROVE  /\ LoadedWith(c, ch) \in ToLoad(c)
               /\ \A k \in Under(ch) : k \in Key /\ k[1] \in LoadedWith(c, ch)
    BY <2>1, <2>3
  <2> QED BY <1>1, <2>4, <2>5, <2>6 DEF c
<1> QED BY <1>2, <1>3

\* A chain that is true in what was loaded at once is true on the board.
LEMMA ChainTrueAgrees ==
  ASSUME NEW op, NEW ch, NEW u, NEW v, \A k \in Under(ch) : u[k] = v[k]
  PROVE  ChainTrue(op, ch, u) <=> ChainTrue(op, ch, v)
BY DEF ChainTrue

-----------------------------------------------------------------------------
(* What other threads do leaves standing what a thread has read.           *)

\* Every step: a task stays as it is or gets a younger version; committed events stay,
\* time does not run back, and what was true during a wait is not forgotten.
Progress ==
  /\ \A t \in Task : /\ task'[t] = task[t] \/ task'[t].version > task[t].version
                     /\ task'[t] = task[t] => wokenBy'[t] = wokenBy[t]
                     /\ task'[t] = task[t] /\ task[t].state = "WAITING" => once[t] \subseteq once'[t]
  /\ \A n \in Committed : n \in Committed' /\ log'[n].type = log[n].type
  /\ clock <= clock'

LEMMA ConsistentStays ==
  ASSUME World, World', Progress, NEW x, Consistent(x)
  PROVE  /\ Consistent(x)' /\ x.id \in Task
         /\ Current(x)' => /\ Current(x) /\ task'[x.id] = task[x.id]
                           /\ once[x.id] \subseteq once'[x.id]
<1>1. x \in Sub /\ x.id \in Task /\ x.version \in Nat
  BY DEF Consistent, Sub
<1>2. task[x.id].version \in Nat /\ task'[x.id].version \in Nat
  BY <1>1 DEF World, TaskType
<1>3. CASE task'[x.id] = task[x.id]
  BY <1>1, <1>3 DEF Consistent, Current, Progress
<1>4. CASE task'[x.id].version > task[x.id].version
  BY <1>1, <1>2, <1>4 DEF Consistent, Current
<1> QED BY <1>1, <1>3, <1>4 DEF Progress

\* A request that is met stays so for the rest of the wait.
LEMMA MetStays ==
  ASSUME World, World', Progress, NEW t \in Task, task[t].state = "WAITING",
         task'[t] = task[t], Met(t)
  PROVE  Met(t)'
<1>1. clock <= clock' /\ clock \in Nat /\ clock' \in Nat
  BY DEF Progress, World
<1>2. task[t].reg.wake \in Request /\ once[t] \subseteq once'[t]
  BY DEF World, Progress
<1> DEFINE w == task[t].reg.wake
<1>3. w.kind \in {"timer", "event", "condition", "manual"} /\ ValidWake(w)
  BY <1>2, RequestFacts
<1>4. w.kind # "manual"
  BY DEF Met
<1>5. CASE w.kind = "timer"
  <2>1. w.at \in Nat /\ clock >= w.at
    BY <1>3, <1>5 DEF ValidWake, Met
  <2>2. clock' >= w.at
    BY <1>1, <2>1
  <2> QED BY <1>5, <2>2 DEF Met
<1>6. CASE w.kind = "event"
  <2>1. PICK n \in Committed : n > task[t].reg.after /\ log[n].type \in w.types
    BY <1>6 DEF Met
  <2>2. n \in Committed' /\ log'[n].type \in w.types
    BY <2>1 DEF Progress
  <2> QED BY <1>6, <2>1, <2>2 DEF Met
<1>7. CASE w.kind = "condition"
  <2>1. w.cond.chains \subseteq once[t] /\ clock >= w.cond.from /\ w.cond.from \in Nat
    BY <1>3, <1>7 DEF ValidWake, Condition, Met
  <2>2. w.cond.chains \subseteq once'[t] /\ clock' >= w.cond.from
    BY <1>1, <1>2, <2>1
  <2> QED BY <1>7, <2>2 DEF Met
<1> QED BY <1>3, <1>4, <1>5, <1>6, <1>7

\* So what a thread knows stays sound.
LEMMA SoundStays ==
  ASSUME World, World', Progress, NEW h, NEW l, Sound(h, l)
  PROVE  Sound(h, l)'
<1>1. \A x \in l.todo : Consistent(x)' /\ Suits(x, l)
  BY ConsistentStays DEF Sound
<1>2. l.now <= clock'
  <2>1. l.now \in Nat /\ clock \in Nat /\ clock' \in Nat /\ clock <= clock'
    BY DEF Sound, Local, World, Progress
  <2> QED BY <2>1 DEF Sound
<1>3. l.at # "page" => l.pos \in Committed' \cup {0}
  BY DEF Sound, Progress
<1>4. l.at = "page" => Consistent(l.sub)'
  BY ConsistentStays DEF Sound
<1>5. ASSUME l.at = "load" PROVE Consistent(l.sub)' /\ Seen(l)'
  <2>1. Consistent(l.sub) /\ Seen(l)
    BY <1>5 DEF Sound
  <2>2. /\ Consistent(l.sub)'
        /\ Current(l.sub)' => Current(l.sub) /\ once[l.sub.id] \subseteq once'[l.sub.id]
    BY <2>1, ConsistentStays
  <2>3. /\ l.left \subseteq ToLoad(l.sub.reg.wake.cond)
        /\ Current(l.sub) =>
             \A ch \in l.sub.reg.wake.cond.chains :
                 LoadedWith(l.sub.reg.wake.cond, ch) \notin l.left
                 /\ ChainTrue(l.sub.reg.wake.cond.op, ch, l.view)
                   => ch \in once[l.sub.id]
    BY <2>1 DEF Seen
  <2>4. /\ Current(l.sub)' =>
             \A ch \in l.sub.reg.wake.cond.chains :
                 LoadedWith(l.sub.reg.wake.cond, ch) \notin l.left
                 /\ ChainTrue(l.sub.reg.wake.cond.op, ch, l.view)
                   => ch \in once'[l.sub.id]
    BY <2>2, <2>3
  <2> QED BY <2>2, <2>3, <2>4 DEF Seen
<1>6. ASSUME l.at = "wake"
      PROVE  Consistent(l.sub)' /\ (h \in Waker \/ (Current(l.sub)' => Met(l.sub.id)'))
  <2>1. Consistent(l.sub) /\ (h \in Waker \/ (Current(l.sub) => Met(l.sub.id)))
    BY <1>6 DEF Sound
  <2>2. /\ Consistent(l.sub)' /\ l.sub.id \in Task
        /\ Current(l.sub)' => Current(l.sub) /\ task'[l.sub.id] = task[l.sub.id]
    BY <2>1, ConsistentStays
  <2>3. Current(l.sub) => task[l.sub.id].state = "WAITING"
    BY <2>1 DEF Consistent
  <2>4. PICK t \in Task : t = l.sub.id
    BY <2>2
  <2>5. Current(l.sub)' /\ h \notin Waker => Met(t)'
    BY <2>1, <2>2, <2>3, <2>4, MetStays
  <2>6. Met(l.sub.id)' <=> Met(t)'
    BY <2>4
  <2> QED BY <2>2, <2>5, <2>6
<1>7. ASSUME l.at = "suspend"
      PROVE  /\ l.sub.version <= task'[l.sub.id].version
             /\ Current(l.sub)' /\ l.sub.reg.wake.kind = "event" =>
                  wokenBy'[l.sub.id] <= l.sub.reg.after
  <2>1. /\ l.sub \in Sub /\ l.sub.version <= task[l.sub.id].version
        /\ Current(l.sub) /\ l.sub.reg.wake.kind = "event" => wokenBy[l.sub.id] <= l.sub.reg.after
    BY <1>7 DEF Sound
  <2>2. l.sub.id \in Task /\ l.sub.version \in Nat
    BY <2>1 DEF Sub
  <2>3. task[l.sub.id].version \in Nat /\ task'[l.sub.id].version \in Nat
    BY <2>2 DEF World, TaskType
  <2>4. CASE task'[l.sub.id] = task[l.sub.id]
    BY <2>1, <2>2, <2>4 DEF Current, Progress
  <2>5. CASE task'[l.sub.id].version > task[l.sub.id].version
    BY <2>1, <2>2, <2>3, <2>5 DEF Current
  <2> QED BY <2>2, <2>4, <2>5 DEF Progress
<1>8. /\ l \in Local
      /\ l.at \in {"next", "page", "load", "wake"} =>
           l.loop \in {"timer", "event", "condition"} \/ (l.at = "wake" /\ l.loop = "manual")
      /\ l.at = "page" => l.sub.reg.wake.kind = "event" /\ l.sub.reg.after <= l.pos
      /\ l.at = "load" => l.sub.reg.wake.kind = "condition" /\ l.sub.reg.wake \in Request
      /\ l.at = "suspend" => l.sub \in Sub /\ l.sub.reg.wake \in Request
  BY DEF Sound
<1> QED BY <1>1, <1>2, <1>3, <1>4, <1>5, <1>6, <1>7, <1>8 DEF Sound

-----------------------------------------------------------------------------
(* Steps.                                                                  *)

\* One thread goes on, the others stay where they are.
LEMMA ActorStep ==
  ASSUME IInv, World', AnEventWakesOnce', Progress,
         NEW h \in Thread, NEW l, thread' = [thread EXCEPT ![h] = l], Sound(h, l)'
  PROVE  IInv'
<1>1. l \in Local
  BY DEF Sound
<1>2. /\ thread' \in [Thread -> Local] /\ thread'[h] = l
      /\ \A g \in Thread \ {h} : thread'[g] = thread[g]
  BY <1>1 DEF IInv, Threads
<1>3. ASSUME NEW g \in Thread, NEW m, m = thread'[g] PROVE Sound(g, m)'
  <2>1. CASE g = h
    BY <1>2, <1>3, <2>1
  <2>2. CASE g # h
    <3>1. Sound(g, m)
      BY <1>2, <1>3, <2>2 DEF IInv, Threads
    <3> QED BY <3>1, SoundStays DEF IInv
  <2> QED BY <2>1, <2>2
<1>4. Threads'
  <2>1. ASSUME NEW g \in Thread PROVE Sound(g, thread[g])'
    <3>1. PICK m : m = thread'[g]
      OBVIOUS
    <3>2. Sound(g, m)'
      BY <1>3, <3>1
    <3>3. Sound(g, m)' <=> Sound(g, thread[g])'
      BY <3>1, Zenon DEF Sound, Seen
    <3> QED BY <3>2, <3>3
  <2> QED BY <1>2, <2>1 DEF Threads
<1> QED BY <1>4 DEF IInv

LEMMA NoActor ==
  ASSUME IInv, World', AnEventWakesOnce', Progress, thread' = thread
  PROVE  IInv'
<1>1. ASSUME NEW g \in Thread PROVE Sound(g, thread[g])'
  <2>1. PICK m : m = thread[g]
    OBVIOUS
  <2>2. Sound(g, m)'
    BY <2>1, SoundStays DEF IInv, Threads
  <2>3. Sound(g, m)' <=> Sound(g, thread[g])'
    BY <2>1, Zenon DEF Sound, Seen
  <2> QED BY <2>2, <2>3
<1> QED BY <1>1 DEF IInv, Threads

\* The store as it was, though time may pass.
LEMMA SameWorld ==
  ASSUME IInv, UNCHANGED <<task, log, board, once, wokenBy>>,
         clock' \in 0..MaxTime, clock <= clock', crashes' \in 0..MaxCrash
  PROVE  World' /\ AnEventWakesOnce' /\ Progress
<1>1. World'
  BY DEF IInv, World, TrueChains, Committed
<1>2. AnEventWakesOnce'
  BY DEF IInv, AnEventWakesOnce
<1>3. Progress
  BY DEF Progress, Committed
<1> QED BY <1>1, <1>2, <1>3

\* Events that are added, or end, while committed ones stay.
LEMMA LogGrows ==
  ASSUME IInv, UNCHANGED <<task, board, clock, crashes, once, wokenBy>>, log' \in Seq(LogEntry),
         \A n \in Committed : n \in Committed' /\ log'[n].type = log[n].type
  PROVE  World' /\ AnEventWakesOnce' /\ Progress
<1>1. World'
  BY DEF IInv, World, TrueChains
<1>2. AnEventWakesOnce'
  BY DEF IInv, AnEventWakesOnce
<1>3. Progress
  BY DEF IInv, World, Progress
<1> QED BY <1>1, <1>2, <1>3

LEMMA ADrawSeq == ASSUME IInv, DrawSeq PROVE IInv'
<1>1. PICK ty \in EventType : log' = Append(log, [type |-> ty, status |-> "open"])
  BY DEF DrawSeq
<1>2. /\ log' \in Seq(LogEntry) /\ \A n \in DOMAIN log : n \in DOMAIN log' /\ log'[n] = log[n]
  <2>1. [type |-> ty, status |-> "open"] \in LogEntry
    BY DEF LogEntry
  <2> QED BY <1>1, <2>1 DEF IInv, World
<1>3. \A n \in Committed : n \in Committed' /\ log'[n].type = log[n].type
  BY <1>2 DEF Committed
<1> QED BY <1>2, <1>3, LogGrows, NoActor DEF DrawSeq

LEMMA ACommitEvent == ASSUME IInv, NEW n \in DOMAIN log, CommitEvent(n) PROVE IInv'
<1>1. PICK s \in {"committed", "void"} : log' = [log EXCEPT ![n].status = s]
  BY DEF CommitEvent
<1>2. log \in Seq(LogEntry) /\ log[n] \in LogEntry
  BY DEF IInv, World
<1>3. log' \in Seq(LogEntry) /\ \A m \in DOMAIN log : /\ m \in DOMAIN log'
                                                  /\ m # n => log'[m] = log[m]
  <2>1. [log[n] EXCEPT !.status = s] \in LogEntry
    BY <1>2 DEF LogEntry
  <2>2. log' = [log EXCEPT ![n] = [log[n] EXCEPT !.status = s]]
    BY <1>1
  <2> QED BY <1>2, <2>1, <2>2
<1>4. \A m \in Committed : m \in Committed' /\ log'[m].type = log[m].type
  BY <1>3 DEF Committed, CommitEvent
<1> QED BY <1>3, <1>4, LogGrows, NoActor DEF CommitEvent

LEMMA ATick == ASSUME IInv, Tick PROVE IInv'
<1>1. clock' \in 0..MaxTime /\ clock <= clock'
  BY WakeBounds DEF Tick, IInv, World
<1>2. crashes' \in 0..MaxCrash
  BY DEF Tick, IInv, World
<1> QED BY <1>1, <1>2, SameWorld, NoActor DEF Tick

\* A thread that has begun nothing has nothing to be sound about.
LEMMA IdleIsSound ==
  ASSUME World', NEW h, NEW l, l = Idle
  PROVE  Sound(h, l)'
<1>1. l \in Local /\ l.todo = {} /\ l.now = 0 /\ l.pos = 0 /\ l.at = "idle"
  BY DEF Idle, At, Local, Value
<1>2. clock' \in Nat
  BY DEF World
<1> QED BY <1>1, <1>2 DEF Sound

LEMMA ACrash == ASSUME IInv, NEW h \in Thread, Crash(h) PROVE IInv'
<1>1. /\ UNCHANGED <<task, log, board, once, wokenBy>> /\ thread' = [thread EXCEPT ![h] = Idle]
      /\ clock' = clock /\ crashes' = crashes + 1 /\ crashes < MaxCrash
  BY DEF Crash, Become
<1>2. World' /\ AnEventWakesOnce' /\ Progress
  <2>1. crashes' \in 0..MaxCrash /\ clock' \in 0..MaxTime /\ clock <= clock'
    BY <1>1, WakeBounds DEF IInv, World
  <2> QED BY <1>1, <2>1, SameWorld
<1>3. PICK l : l = Idle
  OBVIOUS
<1>4. Sound(h, l)'
  BY <1>2, <1>3, IdleIsSound
<1> QED BY <1>1, <1>2, <1>3, <1>4, ActorStep

-----------------------------------------------------------------------------
(* Tasks that move.                                                        *)

\* t and only t may move, to a state other than waiting.
LEMMA TasksMove ==
  ASSUME IInv, task' \in [Task -> TaskType],
         \A t \in Task : /\ task'[t] = task[t] \/ /\ task'[t].version > task[t].version
                                                  /\ task'[t].state # "WAITING"
                                                  /\ task'[t].reg = Unregistered
                         /\ task'[t] = task[t] => wokenBy'[t] = wokenBy[t],
         UNCHANGED <<log, board, clock, crashes>>, once' = once \/ Remember,
         wokenBy' \in [Task -> Nat], \A t \in Task : wokenBy'[t] \in Committed \cup {0}
  PROVE  World' /\ AnEventWakesOnce' /\ Progress
<1>1. ASSUME NEW t \in Task, task'[t] = task[t], task[t].state = "WAITING"
      PROVE  once[t] \subseteq once'[t] /\ TrueChains(t)' \subseteq once'[t]
  <2>1. TrueChains(t)' = TrueChains(t)
    BY <1>1 DEF TrueChains
  <2>2. TrueChains(t) \subseteq once[t]
    BY <1>1 DEF IInv, World
  <2>3. CASE once' = once
    BY <2>1, <2>2, <2>3
  <2>4. CASE Remember
    <3>1. once'[t] = once[t] \cup TrueChains(t)'
      BY <1>1, <2>4 DEF Remember
    <3> QED BY <3>1
  <2> QED BY <2>3, <2>4
<1>2. \A t \in Task : IF task'[t].state = "WAITING"
                      THEN task'[t].reg.wake \in Request /\ TrueChains(t)' \subseteq once'[t]
                      ELSE task'[t].reg = Unregistered
  <2> TAKE t \in Task
  <2>1. CASE task'[t] = task[t]
    BY <1>1, <2>1 DEF IInv, World
  <2>2. CASE task'[t].state # "WAITING" /\ task'[t].reg = Unregistered
    BY <2>2
  <2> QED BY <2>1, <2>2
<1>3. World'
  <2>1. Committed' = Committed
    BY DEF Committed
  <2> QED BY <1>2, <2>1 DEF IInv, World
<1>4. AnEventWakesOnce'
  <2>1. ASSUME NEW t \in Task, task'[t].reg.wake.kind = "event"
        PROVE  wokenBy'[t] <= task'[t].reg.after
    <3>1. task'[t].reg # Unregistered
      BY <2>1, RequestFacts
    <3>2. task'[t] = task[t] /\ wokenBy'[t] = wokenBy[t]
      BY <3>1
    <3> QED BY <2>1, <3>2 DEF IInv, AnEventWakesOnce
  <2> QED BY <2>1 DEF AnEventWakesOnce
<1>5. Progress
  <2>1. \A n \in Committed : n \in Committed' /\ log'[n].type = log[n].type
    BY DEF Committed
  <2>2. clock <= clock'
    BY DEF IInv, World
  <2> QED BY <1>1, <2>1, <2>2 DEF Progress
<1> QED BY <1>3, <1>4, <1>5

\* One task that moves to a state other than waiting.
LEMMA MoveFacts ==
  ASSUME IInv, NEW t \in Task, NEW s \in {"READY", "RUNNING", "WAITING", "FAILED", "OVER"},
         NEW reg \in Registration, Move(t, s, reg)
  PROVE  /\ task' \in [Task -> TaskType] /\ task'[t].state = s /\ task'[t].reg = reg
         /\ task'[t].version > task[t].version /\ \A u \in Task \ {t} : task'[u] = task[u]
<1>1. task \in [Task -> TaskType] /\ task[t].version \in Nat
  BY DEF IInv, World, TaskType
<1>2. [state |-> s, version |-> task[t].version + 1, reg |-> reg] \in TaskType
  BY <1>1 DEF TaskType
<1>3. task' = [task EXCEPT ![t] = [state |-> s, version |-> task[t].version + 1, reg |-> reg]]
  BY <1>1 DEF Move
<1> QED BY <1>1, <1>2, <1>3

LEMMA ABegin == ASSUME IInv, NEW t \in Task, Begin(t) \/ End(t) PROVE IInv'
<1>1. PICK s \in {"RUNNING", "OVER"} : Move(t, s, Unregistered)
  BY DEF Begin, End
<1>2. /\ UNCHANGED <<log, board, clock, crashes, wokenBy>> /\ thread' = thread
      /\ once' = once \/ Remember
  BY DEF Begin, End
<1>3. /\ task' \in [Task -> TaskType] /\ task'[t].state = s /\ task'[t].reg = Unregistered
      /\ task'[t].version > task[t].version /\ \A u \in Task \ {t} : task'[u] = task[u]
  BY <1>1, MoveFacts, RequestFacts
<1>4. wokenBy' \in [Task -> Nat] /\ \A u \in Task : wokenBy'[u] \in Committed \cup {0}
  BY <1>2 DEF IInv, World
<1>5. World' /\ AnEventWakesOnce' /\ Progress
  <2>1. \A u \in Task : /\ task'[u] = task[u] \/ /\ task'[u].version > task[u].version
                                                 /\ task'[u].state # "WAITING"
                                                 /\ task'[u].reg = Unregistered
                        /\ task'[u] = task[u] => wokenBy'[u] = wokenBy[u]
    BY <1>2, <1>3
  <2> QED BY <1>2, <1>3, <1>4, <2>1, TasksMove
<1> QED BY <1>2, <1>5, NoActor

-----------------------------------------------------------------------------
(* Steps of one thread that only read.                                     *)

Store == <<task, log, board, clock, crashes, once, wokenBy>>

LEMMA ThreadStep ==
  ASSUME IInv, UNCHANGED Store, NEW h \in Thread, NEW l, Sound(h, l),
         thread' = [thread EXCEPT ![h] = l]
  PROVE  IInv'
<1>1. World' /\ AnEventWakesOnce' /\ Progress
  BY SameWorld DEF Store, IInv, World
<1>2. Sound(h, l)'
  BY <1>1, SoundStays DEF IInv
<1> QED BY <1>1, <1>2, ActorStep

\* A thread as it begins.
LEMMA AtFacts ==
  ASSUME NEW p \in {"idle", "suspend", "list", "next", "page", "load", "wake", "expire"}
  PROVE  /\ At(p) \in Local /\ At(p).at = p /\ At(p).loop = "none" /\ At(p).todo = {}
         /\ At(p).sub = None /\ At(p).now = 0 /\ At(p).pos = 0 /\ At(p).left = {}
         /\ At(p).key = None
BY DEF At, Local, Value

LEMMA SoundThread ==
  ASSUME IInv, NEW h \in Thread
  PROVE  /\ Sound(h, thread[h]) /\ thread[h] \in Local /\ clock \in Nat /\ World
         /\ thread \in [Thread -> Local]
BY DEF IInv, Threads, World

LEMMA AReadWatermark ==
  ASSUME IInv, NEW c \in Caller, NEW t \in Task, ReadWatermark(c, t) PROVE IInv'
<1>1. PICK w \in Request : Become(c, [At("suspend") EXCEPT !.sub =
         [Read(t) EXCEPT !.reg = [wake |-> w, after |-> IF w.kind = "event" THEN MaxEventSeq ELSE 0]]])
  BY DEF ReadWatermark
<1> DEFINE after == IF w.kind = "event" THEN MaxEventSeq ELSE 0
           x == [Read(t) EXCEPT !.reg = [wake |-> w, after |-> after]]
           e == [At("suspend") EXCEPT !.sub = x]
<1>2. World /\ after \in Nat /\ (w.kind = "event" => after = MaxEventSeq)
  BY MaxEventSeqFacts DEF IInv
<1>3. /\ x \in Sub /\ x.id = t /\ x.version = task[t].version /\ x.reg.wake = w /\ x.reg.after = after
  <2>1. [wake |-> w, after |-> after] \in Registration
    BY <1>2 DEF Registration
  <2>2. /\ Read(t) \in Sub /\ Read(t).id = t /\ Read(t).version = task[t].version
    BY <1>2, ReadFacts
  <2> QED BY <2>1, <2>2 DEF Sub
<1> HIDE DEF x
<1>4. /\ e \in Local /\ e.at = "suspend" /\ e.todo = {} /\ e.sub = x /\ e.now = 0 /\ e.pos = 0
  BY <1>3, AtFacts DEF Local
<1> HIDE DEF e
<1>5. Sound(c, e)
  <2>1. wokenBy[t] <= MaxEventSeq
    BY <1>2, MaxEventSeqFacts DEF World
  <2>2. x.version <= task[t].version
    BY <1>2, <1>3, ReadFacts
  <2>3. clock \in Nat
    BY <1>2 DEF World
  <2> QED BY <1>2, <1>3, <1>4, <2>1, <2>2, <2>3 DEF Sound
<1>6. PICK l : l = e
  OBVIOUS
<1>7. thread' = [thread EXCEPT ![c] = l] /\ Sound(c, l) /\ c \in Thread
  BY <1>1, <1>5, <1>6 DEF Become, e, x, Thread
<1>8. UNCHANGED Store
  BY DEF ReadWatermark, Store
<1> QED BY <1>7, <1>8, ThreadStep

LEMMA ALookUp ==
  ASSUME IInv, NEW c \in Waker, NEW t \in Task, LookUp(c, t) PROVE IInv'
<1> DEFINE e == [At("wake") EXCEPT !.loop = "manual", !.sub = Read(t)]
<1>1. thread' = [thread EXCEPT ![c] = e] /\ task[t].state = "WAITING" /\ UNCHANGED Store
  BY DEF LookUp, Become, Store
<1>2. World /\ Read(t) \in Sub /\ Consistent(Read(t))
  BY <1>1, ReadFacts DEF IInv
<1>3. /\ e \in Local /\ e.at = "wake" /\ e.todo = {} /\ e.sub = Read(t) /\ e.now = 0 /\ e.pos = 0
      /\ e.loop = "manual"
  BY <1>2, AtFacts DEF Local
<1> HIDE DEF e
<1>4. Sound(c, e)
  <2>1. clock \in Nat
    BY <1>2 DEF World
  <2> QED BY <1>2, <1>3, <2>1 DEF Sound
<1>5. PICK l : l = e
  OBVIOUS
<1>6. thread' = [thread EXCEPT ![c] = l] /\ Sound(c, l) /\ c \in Thread
  BY <1>1, <1>4, <1>5 DEF Thread
<1> QED BY <1>1, <1>6, ThreadStep

\* The waiting tasks a thread lists.
LEMMA ListedFacts ==
  ASSUME World, NEW kinds, NEW x \in Listed(kinds)
  PROVE  x \in Sub /\ Consistent(x) /\ x.reg.wake.kind \in kinds
<1>1. PICK t \in Task : task[t].state = "WAITING" /\ task[t].reg.wake.kind \in kinds /\ x = Read(t)
  BY DEF Listed, Waiting
<1> QED BY <1>1, ReadFacts

LEMMA AListWaiting ==
  ASSUME IInv, NEW w \in Writer, ListWaiting(w) PROVE IInv'
<1> DEFINE e == [thread[w] EXCEPT !.at = "next", !.loop = "condition", !.todo = Listed({"condition"})]
<1>1. thread' = [thread EXCEPT ![w] = e] /\ thread[w].at = "list" /\ UNCHANGED Store /\ w \in Thread
  BY DEF ListWaiting, Become, Store, Thread
<1>2. /\ Sound(w, thread[w]) /\ thread[w] \in Local /\ World
      /\ \A x \in Listed({"condition"}) : x \in Sub /\ Consistent(x) /\ x.reg.wake.kind = "condition"
  BY <1>1, SoundThread, ListedFacts
<1>3. /\ e \in Local /\ e.at = "next" /\ e.loop = "condition" /\ e.todo = Listed({"condition"})
      /\ e.pos = thread[w].pos /\ e.now = thread[w].now
  BY <1>2 DEF Local
<1> HIDE DEF e
<1>4. Sound(w, e)
  BY <1>1, <1>2, <1>3 DEF Sound, Suits
<1>5. PICK l : l = e
  OBVIOUS
<1> QED BY <1>1, <1>4, <1>5, ThreadStep

LEMMA AListWaitingDue ==
  ASSUME IInv, NEW s \in Sweeper, ListWaitingDue(s) PROVE IInv'
<1> DEFINE due == {x \in Listed({"timer"}) : x.reg.wake.at <= clock /\ clock < x.reg.wake.deadline}
           e == [At("next") EXCEPT !.loop = "timer", !.now = clock, !.todo = due]
<1>1. thread' = [thread EXCEPT ![s] = e] /\ UNCHANGED Store /\ s \in Thread
  BY DEF ListWaitingDue, Become, Store, Thread
<1>2. /\ World /\ clock \in Nat
      /\ \A x \in due : /\ x \in Sub /\ Consistent(x) /\ x.reg.wake.kind = "timer"
                        /\ x.reg.wake.at <= clock
  BY <1>1, SoundThread, ListedFacts
<1> HIDE DEF due
<1>3. /\ e \in Local /\ e.at = "next" /\ e.loop = "timer" /\ e.todo = due
      /\ e.pos = 0 /\ e.now = clock
  <2>1. due \in SUBSET Sub /\ clock \in Nat
    BY <1>2
  <2> QED BY <2>1, AtFacts DEF Local
<1> HIDE DEF e
<1>4. Sound(s, e)
  BY <1>2, <1>3 DEF Sound, Suits
<1>5. PICK l : l = e
  OBVIOUS
<1> QED BY <1>1, <1>4, <1>5, ThreadStep

LEMMA ANextLoop ==
  ASSUME IInv, NEW h \in Thread, NextLoop(h) PROVE IInv'
<1>1. /\ thread[h].at = "next" /\ thread[h].todo = {} /\ UNCHANGED Store
      /\ Sound(h, thread[h]) /\ thread[h] \in Local /\ World /\ clock \in Nat
  BY SoundThread DEF NextLoop, Store
<1>2. CASE thread' = [thread EXCEPT ![h] = Idle]
  <2>1. PICK l : l = Idle
    OBVIOUS
  <2>2. Sound(h, l)
    BY <1>1, <2>1, AtFacts DEF Sound, Idle
  <2> QED BY <1>1, <1>2, <2>1, <2>2, ThreadStep
<1>3. ASSUME NEW k \in {"event", "condition"},
             thread' = [thread EXCEPT ![h] = [thread[h] EXCEPT !.loop = k, !.todo = Listed({k})]]
      PROVE  IInv'
  <2> DEFINE e == [thread[h] EXCEPT !.loop = k, !.todo = Listed({k})]
  <2>1. \A x \in Listed({k}) : x \in Sub /\ Consistent(x) /\ x.reg.wake.kind = k
    BY <1>1, ListedFacts
  <2>2. /\ e \in Local /\ e.at = "next" /\ e.loop = k /\ e.todo = Listed({k})
        /\ e.pos = thread[h].pos /\ e.now = thread[h].now
    BY <1>1, <2>1 DEF Local
  <2>3. PICK l : l = e
    OBVIOUS
  <2>4. thread' = [thread EXCEPT ![h] = l]
    BY <1>3, <2>3
  <2> HIDE DEF e
  <2>5. Sound(h, l)
    BY <1>1, <1>3, <2>1, <2>2, <2>3 DEF Sound, Suits
  <2> QED BY <1>1, <2>4, <2>5, ThreadStep
<1>4. CASE thread' = [thread EXCEPT ![h] = [thread[h] EXCEPT !.at = "expire"]]
  <2> DEFINE e == [thread[h] EXCEPT !.at = "expire"]
  <2>1. /\ e \in Local /\ e.at = "expire" /\ e.todo = {}
        /\ e.pos = thread[h].pos /\ e.now = thread[h].now
    BY <1>1 DEF Local
  <2>2. PICK l : l = e
    OBVIOUS
  <2>3. thread' = [thread EXCEPT ![h] = l]
    BY <1>4, <2>2
  <2> HIDE DEF e
  <2>4. Sound(h, l)
    BY <1>1, <2>1, <2>2 DEF Sound
  <2> QED BY <1>1, <2>3, <2>4, ThreadStep
<1> QED BY <1>1, <1>2, <1>3, <1>4 DEF NextLoop, Become, Sound

\* Going on with the next element is sound whatever the thread has done.
LEMMA ContinueIsSound ==
  ASSUME IInv, NEW h \in Thread, thread[h].loop \in {"timer", "event", "condition"}
  PROVE  Sound(h, Continue(h))
<1>1. Sound(h, thread[h]) /\ thread[h] \in Local
  BY SoundThread
<1> DEFINE e == Continue(h)
<1>2. Idle.view \in [Key -> Value]
  BY DEF Idle, At, Value
<1>3. /\ e \in Local /\ e.at = "next" /\ e.todo = thread[h].todo
      /\ e.pos = 0 /\ e.now = thread[h].now /\ e.loop = thread[h].loop
  BY <1>1, <1>2 DEF Local, Continue
<1> HIDE DEF e
<1>4. Sound(h, e)
  BY <1>1, <1>3 DEF Sound, Suits
<1> QED BY <1>4 DEF e

LEMMA ATake ==
  ASSUME IInv, NEW h \in Thread, Take(h) PROVE IInv'
<1>1. /\ thread[h].at = "next" /\ UNCHANGED Store
      /\ Sound(h, thread[h]) /\ thread[h] \in Local /\ World /\ clock \in Nat
  BY SoundThread DEF Take, Store
<1> DEFINE rest(x) == [thread[h] EXCEPT !.todo = @ \ {x}]
<1>2. PICK x \in thread[h].todo :
        Become(h, IF Skipped(h, x) THEN rest(x)
                  ELSE CASE rest(x).loop = "timer" -> [rest(x) EXCEPT !.at = "wake", !.sub = x]
                         [] rest(x).loop = "event" -> [rest(x) EXCEPT !.at = "page", !.sub = x, !.pos = x.reg.after]
                         [] OTHER -> [rest(x) EXCEPT !.at = "load", !.sub = x, !.left = ToLoad(x.reg.wake.cond)])
  BY DEF Take
<1> DEFINE r == rest(x)
<1>3. /\ r \in Local /\ r.at = "next" /\ r.loop = thread[h].loop /\ r.todo = thread[h].todo \ {x}
      /\ r.pos = thread[h].pos /\ r.now = thread[h].now
  BY <1>1 DEF Local
<1>4. \/ thread' = [thread EXCEPT ![h] = r]
      \/ r.loop = "timer" /\ thread' = [thread EXCEPT ![h] = [r EXCEPT !.at = "wake", !.sub = x]]
      \/ r.loop = "event" /\ thread' = [thread EXCEPT ![h] =
                                [r EXCEPT !.at = "page", !.sub = x, !.pos = x.reg.after]]
      \/ /\ r.loop \notin {"timer", "event"}
         /\ thread' = [thread EXCEPT ![h] =
                         [r EXCEPT !.at = "load", !.sub = x, !.left = ToLoad(x.reg.wake.cond)]]
  BY <1>2 DEF Become
<1> HIDE DEF rest, r
<1>5. /\ Consistent(x) /\ Suits(x, thread[h]) /\ x \in Sub
      /\ r.loop \in {"timer", "event", "condition"}
      /\ thread[h].pos \in Committed \cup {0} /\ thread[h].now <= clock
  BY <1>1, <1>3 DEF Sound, Consistent
<1>6. \A y \in r.todo : Consistent(y) /\ Suits(y, r)
  BY <1>1, <1>3 DEF Sound, Suits
<1>7. /\ x.reg.wake.kind = r.loop /\ (r.loop = "timer" => x.reg.wake.at <= r.now)
      /\ x.id \in Task /\ x.reg.after \in Nat /\ x.reg.wake \in Request
  <2>1. x.reg.wake.kind = r.loop /\ (r.loop = "timer" => x.reg.wake.at <= r.now)
    BY <1>3, <1>5 DEF Suits
  <2>2. x.id \in Task /\ x.reg.after \in Nat /\ x.reg.wake \in Request \cup {NoWake}
    BY <1>5 DEF Sub, Registration
  <2> QED BY <1>5, <2>1, <2>2, RequestFacts
<1>8. CASE thread' = [thread EXCEPT ![h] = r]
  <2>1. PICK l : l = r
    OBVIOUS
  <2>2. Sound(h, l)
    BY <1>3, <1>5, <1>6, <2>1 DEF Sound, Suits
  <2> QED BY <1>1, <1>8, <2>1, <2>2, ThreadStep
<1>9. CASE r.loop = "timer" /\ thread' = [thread EXCEPT ![h] = [r EXCEPT !.at = "wake", !.sub = x]]
  <2> DEFINE e == [r EXCEPT !.at = "wake", !.sub = x]
  <2>1. /\ e \in Local /\ e.at = "wake" /\ e.sub = x /\ e.todo = r.todo /\ e.pos = r.pos
        /\ e.now = r.now /\ e.loop = r.loop
    BY <1>3, <1>5 DEF Local
  <2>2. PICK l : l = e
    OBVIOUS
  <2>3. thread' = [thread EXCEPT ![h] = l]
    BY <1>9, <2>2
  <2> HIDE DEF e
  <2>4. Current(x) => Met(x.id)
    <3> SUFFICES ASSUME Current(x) PROVE Met(x.id)
      OBVIOUS
    <3>1. task[x.id].reg = x.reg
      BY <1>5 DEF Consistent
    <3>2. x.reg.wake.at \in Nat
      BY <1>7, <1>9, RequestFacts DEF ValidWake
    <3>3. clock >= x.reg.wake.at
      BY <1>1, <1>3, <1>5, <1>7, <1>9, <3>2 DEF Local
    <3> QED BY <1>7, <1>9, <3>1, <3>3 DEF Met
  <2>5. Sound(h, l)
    BY <1>3, <1>5, <1>6, <2>1, <2>2, <2>4 DEF Sound, Suits
  <2> QED BY <1>1, <2>3, <2>5, ThreadStep
<1>10. CASE r.loop = "event" /\ thread' = [thread EXCEPT ![h] =
                                [r EXCEPT !.at = "page", !.sub = x, !.pos = x.reg.after]]
  <2> DEFINE e == [r EXCEPT !.at = "page", !.sub = x, !.pos = x.reg.after]
  <2>1. /\ e \in Local /\ e.at = "page" /\ e.sub = x /\ e.todo = r.todo /\ e.pos = x.reg.after
        /\ e.now = r.now /\ e.loop = r.loop
    BY <1>3, <1>5, <1>7 DEF Local
  <2>2. PICK l : l = e
    OBVIOUS
  <2>3. thread' = [thread EXCEPT ![h] = l]
    BY <1>10, <2>2
  <2> HIDE DEF e
  <2>4. Sound(h, l)
    BY <1>3, <1>5, <1>6, <1>7, <1>10, <2>1, <2>2 DEF Sound, Suits
  <2> QED BY <1>1, <2>3, <2>4, ThreadStep
<1>11. CASE /\ r.loop \notin {"timer", "event"}
            /\ thread' = [thread EXCEPT ![h] =
                         [r EXCEPT !.at = "load", !.sub = x, !.left = ToLoad(x.reg.wake.cond)]]
  <2> DEFINE e == [r EXCEPT !.at = "load", !.sub = x, !.left = ToLoad(x.reg.wake.cond)]
  <2>1. x.reg.wake.kind = "condition"
    BY <1>5, <1>7, <1>11
  <2>2. /\ ToLoad(x.reg.wake.cond) \subseteq SUBSET Segment
        /\ \A ch \in x.reg.wake.cond.chains : LoadedWith(x.reg.wake.cond, ch) \in ToLoad(x.reg.wake.cond)
    BY <1>7, <2>1, ChainsAreLoaded
  <2>3. /\ e \in Local /\ e.at = "load" /\ e.sub = x /\ e.todo = r.todo /\ e.pos = r.pos
        /\ e.now = r.now /\ e.loop = r.loop /\ e.left = ToLoad(x.reg.wake.cond)
    BY <1>3, <1>5, <2>2 DEF Local
  <2>4. PICK l : l = e
    OBVIOUS
  <2>5. thread' = [thread EXCEPT ![h] = l]
    BY <1>11, <2>4
  <2> HIDE DEF e
  <2>6. Seen(l)
    BY <2>2, <2>3, <2>4 DEF Seen
  <2>7. Sound(h, l)
    BY <1>3, <1>5, <1>6, <1>7, <2>1, <2>3, <2>4, <2>6 DEF Sound, Suits
  <2> QED BY <1>1, <2>5, <2>7, ThreadStep
<1> QED BY <1>4, <1>8, <1>9, <1>10, <1>11

LEMMA AReadPage ==
  ASSUME IInv, NEW h \in Thread, ReadPage(h) PROVE IInv'
<1> DEFINE pos   == thread[h].pos
           s     == thread[h].sub
           page  == Page(pos)
           match == {n \in page : log[n].type \in s.reg.wake.types}
           first == CHOOSE n \in match : \A m \in match : n <= m
           last  == CHOOSE n \in page : \A m \in page : m <= n
<1>1. /\ thread[h].at = "page" /\ UNCHANGED Store
      /\ Sound(h, thread[h]) /\ thread[h] \in Local /\ World /\ clock \in Nat
  BY SoundThread DEF ReadPage, Store
<1>2. /\ Consistent(s) /\ s.reg.wake.kind = "event" /\ s.reg.after <= pos /\ s \in Sub
      /\ pos \in Nat /\ s.reg.after \in Nat /\ s.id \in Task
      /\ thread[h].loop \in {"timer", "event", "condition"} /\ thread[h].now <= clock
  BY <1>1 DEF Sound, Consistent, Sub, Registration, Local
<1>3. /\ page \in SUBSET (DOMAIN log \cup {0}) /\ match \in SUBSET (DOMAIN log \cup {0})
      /\ page \subseteq Committed /\ match \subseteq page /\ \A n \in page : n > pos
  BY DEF Page, Committed
<1>4. \/ match # {} /\ thread' = [thread EXCEPT ![h] = [thread[h] EXCEPT !.at = "wake", !.pos = first]]
      \/ Cardinality(page) = PageSize /\ thread' = [thread EXCEPT ![h] = [thread[h] EXCEPT !.pos = last]]
      \/ thread' = [thread EXCEPT ![h] = Continue(h)]
  BY DEF ReadPage, Become
<1> HIDE DEF page, match, pos, s
<1>5. CASE match # {} /\ thread' = [thread EXCEPT ![h] = [thread[h] EXCEPT !.at = "wake", !.pos = first]]
  <2>1. first \in match
    <3>1. \E n \in match : \A m \in match : n <= m
      BY <1>1, <1>3, <1>5, Extremes
    <3> QED BY <3>1
  <2> HIDE DEF first
  <2>2. first \in Committed /\ first > pos /\ first \in Nat
    BY <1>1, <1>3, <1>5, <2>1, Extremes
  <2> DEFINE e == [thread[h] EXCEPT !.at = "wake", !.pos = first]
  <2>3. /\ e \in Local /\ e.at = "wake" /\ e.sub = s /\ e.todo = thread[h].todo /\ e.pos = first
        /\ e.now = thread[h].now /\ e.loop = thread[h].loop
    BY <1>1, <2>2 DEF Local, s
  <2>4. PICK l : l = e
    OBVIOUS
  <2>5. thread' = [thread EXCEPT ![h] = l]
    BY <1>5, <2>4
  <2> HIDE DEF e
  <2>6. Current(s) => Met(s.id)
    <3> SUFFICES ASSUME Current(s) PROVE Met(s.id)
      OBVIOUS
    <3>1. task[s.id].reg = s.reg
      BY <1>2 DEF Consistent
    <3>2. first > s.reg.after
      BY <1>2, <2>2
    <3>3. log[first].type \in s.reg.wake.types
      BY <2>1 DEF match
    <3> QED BY <1>2, <2>2, <3>1, <3>2, <3>3 DEF Met
  <2>7. Sound(h, l)
    BY <1>1, <1>2, <2>2, <2>3, <2>4, <2>6 DEF Sound, Suits
  <2> QED BY <1>1, <2>5, <2>7, ThreadStep
<1>6. CASE /\ Cardinality(page) = PageSize
           /\ thread' = [thread EXCEPT ![h] = [thread[h] EXCEPT !.pos = last]]
  <2>1. page # {}
    BY <1>6, FS_EmptySet, WakeBounds
  <2>2. last \in page
    <3>1. \E n \in page : \A m \in page : m <= n
      BY <1>1, <1>3, <2>1, Extremes
    <3> QED BY <3>1
  <2> HIDE DEF last
  <2>3. last \in Nat /\ last > pos
    BY <1>1, <1>3, <2>1, <2>2, Extremes
  <2> DEFINE e == [thread[h] EXCEPT !.pos = last]
  <2>4. /\ e \in Local /\ e.at = "page" /\ e.sub = s /\ e.todo = thread[h].todo /\ e.pos = last
        /\ e.now = thread[h].now /\ e.loop = thread[h].loop
    BY <1>1, <2>3 DEF Local, s
  <2>5. PICK l : l = e
    OBVIOUS
  <2>6. thread' = [thread EXCEPT ![h] = l]
    BY <1>6, <2>5
  <2> HIDE DEF e
  <2>7. s.reg.after <= last
    BY <1>2, <2>3
  <2>8. Sound(h, l)
    BY <1>1, <1>2, <2>4, <2>5, <2>7 DEF Sound, Suits
  <2> QED BY <1>1, <2>6, <2>8, ThreadStep
<1>7. CASE thread' = [thread EXCEPT ![h] = Continue(h)]
  <2>1. PICK l : l = Continue(h)
    OBVIOUS
  <2>2. Sound(h, l)
    BY <1>2, <2>1, ContinueIsSound
  <2> QED BY <1>1, <1>7, <2>1, <2>2, ThreadStep
<1> QED BY <1>4, <1>5, <1>6, <1>7

LEMMA ALoadBoard ==
  ASSUME IInv, NEW h \in Thread, LoadBoard(h) PROVE IInv'
<1> DEFINE s == thread[h].sub
           c == s.reg.wake.cond
<1>1. /\ thread[h].at = "load" /\ UNCHANGED Store
      /\ Sound(h, thread[h]) /\ thread[h] \in Local /\ World /\ clock \in Nat
  BY SoundThread DEF LoadBoard, Store
<1>2. PICK nss \in thread[h].left :
        thread' = [thread EXCEPT ![h] =
                     [thread[h] EXCEPT !.left = @ \ {nss}, !.view = Load(@, nss)]]
  BY DEF LoadBoard, Become
<1> DEFINE e == [thread[h] EXCEPT !.left = @ \ {nss}, !.view = Load(@, nss)]
<1>3. Load(thread[h].view, nss) \in [Key -> Value]
      /\ \A k \in Key : Load(thread[h].view, nss)[k] = IF k[1] \in nss THEN board[k] ELSE thread[h].view[k]
  BY <1>1 DEF Load, World, Local
<1>4. /\ e \in Local /\ e.at = "load" /\ e.sub = s /\ e.todo = thread[h].todo
      /\ e.pos = thread[h].pos /\ e.now = thread[h].now /\ e.loop = thread[h].loop
      /\ e.left = thread[h].left \ {nss} /\ e.view = Load(thread[h].view, nss)
  BY <1>1, <1>3 DEF Local
<1>5. PICK l : l = e
  OBVIOUS
<1>6. thread' = [thread EXCEPT ![h] = l]
  BY <1>2, <1>5
<1> HIDE DEF e
<1>7. /\ Consistent(s) /\ s.reg.wake.kind = "condition" /\ s.reg.wake \in Request
      /\ thread[h].left \subseteq ToLoad(c)
      /\ Current(s) => \A ch \in c.chains :
            LoadedWith(c, ch) \notin thread[h].left /\ ChainTrue(c.op, ch, thread[h].view)
              => ch \in once[s.id]
  BY <1>1 DEF Sound, Seen
<1>8. /\ \A ch \in c.chains : \A k \in Under(ch) : k \in Key /\ k[1] \in LoadedWith(c, ch)
      /\ \A ch \in c.chains : nss = LoadedWith(c, ch) \/ nss \cap LoadedWith(c, ch) = {}
  BY <1>7, ChainsAreLoaded
<1>9. ASSUME Current(s), NEW ch \in c.chains, LoadedWith(c, ch) \notin l.left,
             ChainTrue(c.op, ch, l.view)
      PROVE  ch \in once[s.id]
  <2>1. CASE nss = LoadedWith(c, ch)
    <3>1. \A k \in Under(ch) : l.view[k] = board[k]
      BY <1>3, <1>4, <1>5, <1>8, <2>1
    <3>2. ChainTrue(c.op, ch, board)
      BY <1>9, <3>1, ChainTrueAgrees
    <3>3. s.id \in Task /\ task[s.id].state = "WAITING" /\ task[s.id].reg = s.reg
      BY <1>7, <1>9 DEF Consistent, Sub
    <3>4. ch \in TrueChains(s.id)
      BY <3>2, <3>3 DEF TrueChains
    <3> QED BY <1>1, <3>3, <3>4 DEF World
  <2>2. CASE nss # LoadedWith(c, ch)
    <3>1. \A k \in Under(ch) : l.view[k] = thread[h].view[k]
      BY <1>3, <1>4, <1>5, <1>8, <2>2
    <3>2. ChainTrue(c.op, ch, thread[h].view)
      BY <1>9, <3>1, ChainTrueAgrees
    <3>3. LoadedWith(c, ch) \notin thread[h].left
      BY <1>4, <1>5, <1>9, <2>2
    <3> QED BY <1>7, <1>9, <3>2, <3>3
  <2> QED BY <2>1, <2>2
<1>10. Seen(l)
  <2>1. l.sub = s /\ l.left \subseteq ToLoad(c)
    BY <1>4, <1>5, <1>7
  <2> HIDE DEF s, c
  <2>2. Seen(l) <=> /\ l.left \subseteq ToLoad(c)
                    /\ Current(s) => \A ch \in c.chains :
                         LoadedWith(c, ch) \notin l.left /\ ChainTrue(c.op, ch, l.view) => ch \in once[s.id]
    BY <2>1 DEF Seen, c
  <2> QED BY <1>9, <2>1, <2>2
<1>11. Sound(h, l)
  BY <1>1, <1>4, <1>5, <1>7, <1>10 DEF Sound, Suits
<1> QED BY <1>1, <1>6, <1>11, ThreadStep

LEMMA AEvaluate ==
  ASSUME IInv, NEW h \in Thread, Evaluate(h) PROVE IInv'
<1> DEFINE s == thread[h].sub
           c == s.reg.wake.cond
           e == [thread[h] EXCEPT !.at = "wake"]
<1>1. /\ thread[h].at = "load" /\ thread[h].left = {}
      /\ UNCHANGED <<task, board, clock, crashes, once, wokenBy>>
      /\ Sound(h, thread[h]) /\ thread[h] \in Local /\ World /\ clock \in Nat
  BY SoundThread DEF Evaluate
<1>2. /\ \/ Holds(c, thread[h].view, clock) /\ thread' = [thread EXCEPT ![h] = e]
         \/ thread' = [thread EXCEPT ![h] = Continue(h)]
      /\ log' = log \/ log' = Append(log, [type |-> "cost", status |-> "committed"])
  BY DEF Evaluate, Verdict, Become
<1>3. World' /\ AnEventWakesOnce' /\ Progress
  <2>1. CASE log' = log
    BY <1>1, <2>1, SameWorld DEF World
  <2>2. CASE log' = Append(log, [type |-> "cost", status |-> "committed"])
    <3>1. [type |-> "cost", status |-> "committed"] \in LogEntry /\ log \in Seq(LogEntry)
      BY <1>1 DEF LogEntry, World
    <3>2. log' \in Seq(LogEntry) /\ \A n \in DOMAIN log : n \in DOMAIN log' /\ log'[n] = log[n]
      BY <2>2, <3>1
    <3>3. \A n \in Committed : n \in Committed' /\ log'[n].type = log[n].type
      BY <3>2 DEF Committed
    <3> QED BY <1>1, <3>2, <3>3, LogGrows
  <2> QED BY <1>2, <2>1, <2>2
<1>4. /\ Consistent(s) /\ s.reg.wake.kind = "condition" /\ s.id \in Task
      /\ thread[h].loop \in {"timer", "event", "condition"}
      /\ thread[h].pos \in Committed \cup {0} /\ thread[h].now <= clock
      /\ Current(s) => \A ch \in c.chains : ChainTrue(c.op, ch, thread[h].view) => ch \in once[s.id]
  <2>1. Seen(thread[h])
    BY <1>1 DEF Sound
  <2>2. Current(s) => \A ch \in c.chains : ChainTrue(c.op, ch, thread[h].view) => ch \in once[s.id]
    BY <1>1, <2>1 DEF Seen
  <2> QED BY <1>1, <2>2 DEF Sound, Consistent, Sub
<1>5. CASE Holds(c, thread[h].view, clock) /\ thread' = [thread EXCEPT ![h] = e]
  <2>1. /\ e \in Local /\ e.at = "wake" /\ e.sub = s /\ e.todo = thread[h].todo
        /\ e.pos = thread[h].pos /\ e.now = thread[h].now /\ e.loop = thread[h].loop
    BY <1>1 DEF Local
  <2>2. PICK l : l = e
    OBVIOUS
  <2>3. thread' = [thread EXCEPT ![h] = l]
    BY <1>5, <2>2
  <2> HIDE DEF e
  <2>4. Current(s) => Met(s.id)
    <3> SUFFICES ASSUME Current(s) PROVE Met(s.id)
      OBVIOUS
    <3>1. task[s.id].reg = s.reg
      BY <1>4 DEF Consistent
    <3>2. c.chains \subseteq once[s.id] /\ clock >= c.from
      BY <1>4, <1>5 DEF Holds
    <3> QED BY <1>4, <3>1, <3>2 DEF Met
  <2>5. Sound(h, l)
    BY <1>1, <1>4, <2>1, <2>2, <2>4 DEF Sound, Suits
  <2>6. Sound(h, l)'
    BY <1>1, <1>3, <2>5, SoundStays
  <2> QED BY <1>3, <2>3, <2>6, ActorStep
<1>6. CASE thread' = [thread EXCEPT ![h] = Continue(h)]
  <2>1. PICK l : l = Continue(h)
    OBVIOUS
  <2>2. Sound(h, l)
    BY <1>4, <2>1, ContinueIsSound
  <2>3. Sound(h, l)'
    BY <1>1, <1>3, <2>2, SoundStays
  <2> QED BY <1>3, <1>6, <2>1, <2>3, ActorStep
<1> QED BY <1>2, <1>5, <1>6

-----------------------------------------------------------------------------
(* Steps that move tasks.                                                  *)

LEMMA AWakeSubtask ==
  ASSUME IInv, NEW h \in Thread, WakeSubtask(h) PROVE IInv'
<1> DEFINE s == thread[h].sub
           l == thread[h]
<1>1. /\ l.at = "wake" /\ UNCHANGED <<log, board, clock, crashes>> /\ Remember
      /\ thread' = [thread EXCEPT ![h] = AfterWake(h)]
      /\ Sound(h, l) /\ l \in Local /\ World /\ clock \in Nat
  BY SoundThread DEF WakeSubtask, WakeRead, Become
<1>2. \/ UNCHANGED <<task, wokenBy>>
      \/ /\ Move(s.id, "READY", Unregistered)
         /\ wokenBy' = [wokenBy EXCEPT ![s.id] = IF l.pos > @ THEN l.pos ELSE @]
  BY DEF WakeSubtask, WakeRead
<1>3. s.id \in Task /\ l.pos \in Committed \cup {0} /\ l.pos \in Nat
  BY <1>1 DEF Sound, Consistent, Sub, Local
<1>4. wokenBy \in [Task -> Nat] /\ \A t \in Task : wokenBy[t] \in Committed \cup {0}
  BY <1>1 DEF World
<1>5. World' /\ AnEventWakesOnce' /\ Progress
  <2>1. CASE UNCHANGED <<task, wokenBy>>
    <3>1. task' \in [Task -> TaskType] /\ wokenBy' \in [Task -> Nat]
      BY <1>1, <2>1 DEF World
    <3> QED BY <1>1, <1>4, <2>1, <3>1, TasksMove
  <2>2. CASE /\ Move(s.id, "READY", Unregistered)
             /\ wokenBy' = [wokenBy EXCEPT ![s.id] = IF l.pos > @ THEN l.pos ELSE @]
    <3> HIDE DEF s, l
    <3>1. /\ task' \in [Task -> TaskType] /\ task'[s.id].state = "READY"
          /\ task'[s.id].reg = Unregistered /\ task'[s.id].version > task[s.id].version
          /\ \A u \in Task \ {s.id} : task'[u] = task[u]
      BY <1>3, <2>2, MoveFacts, RequestFacts
    <3>2. task'[s.id] # task[s.id]
      <4>1. task[s.id].version \in Nat
        BY <1>1, <1>3 DEF World, TaskType
      <4> QED BY <3>1, <4>1
    <3>3. wokenBy' \in [Task -> Nat] /\ \A t \in Task : wokenBy'[t] \in Committed \cup {0}
      BY <1>3, <1>4, <2>2
    <3>4. \A u \in Task \ {s.id} : wokenBy'[u] = wokenBy[u]
      BY <1>4, <2>2
    <3>5. \A u \in Task : /\ task'[u] = task[u] \/ /\ task'[u].version > task[u].version
                                                   /\ task'[u].state # "WAITING"
                                                   /\ task'[u].reg = Unregistered
                          /\ task'[u] = task[u] => wokenBy'[u] = wokenBy[u]
      BY <3>1, <3>2, <3>4
    <3> QED BY <1>1, <3>1, <3>3, <3>5, TasksMove
  <2> QED BY <1>2, <2>1, <2>2
<1>6. CASE l.loop = "manual"
  <2>1. PICK m : m = Idle
    OBVIOUS
  <2>2. Sound(h, m)'
    BY <1>5, <2>1, IdleIsSound
  <2> QED BY <1>1, <1>5, <1>6, <2>1, <2>2, ActorStep DEF AfterWake
<1>7. CASE l.loop # "manual"
  <2>1. PICK m : m = Continue(h)
    OBVIOUS
  <2>2. l.loop \in {"timer", "event", "condition"}
    BY <1>1, <1>7 DEF Sound
  <2>3. Sound(h, m)
    BY <2>1, <2>2, ContinueIsSound
  <2>4. Sound(h, m)'
    BY <1>1, <1>5, <2>3, SoundStays
  <2> QED BY <1>1, <1>5, <1>7, <2>1, <2>4, ActorStep DEF AfterWake
<1> QED BY <1>6, <1>7

LEMMA AExpireWakes ==
  ASSUME IInv, NEW s \in Sweeper, ExpireWakes(s) PROVE IInv'
<1>1. /\ UNCHANGED <<log, board, clock, crashes, wokenBy>> /\ Remember /\ s \in Thread
      /\ thread' = [thread EXCEPT ![s] = Idle] /\ World
      /\ task' = [t \in Task |->
           IF task[t].state = "WAITING" /\ task[t].reg.wake.deadline <= thread[s].now
           THEN [state |-> "FAILED", version |-> task[t].version + 1, reg |-> Unregistered] ELSE task[t]]
  BY DEF ExpireWakes, Become, Thread, IInv
<1>2. \A t \in Task : task[t] \in TaskType /\ task[t].version \in Nat
  BY <1>1, ReadFacts
<1>3. \A t \in Task : \/ task'[t] = task[t]
                      \/ task'[t] = [state |-> "FAILED", version |-> task[t].version + 1, reg |-> Unregistered]
  BY <1>1
<1>4. task' \in [Task -> TaskType]
  <2>1. \A t \in Task : [state |-> "FAILED", version |-> task[t].version + 1, reg |-> Unregistered] \in TaskType
    BY <1>2, RequestFacts DEF TaskType
  <2>2. \A t \in Task : task'[t] \in TaskType
    BY <1>2, <1>3, <2>1
  <2>3. task' = [t \in Task |-> task'[t]]
    BY <1>1
  <2> QED BY <2>2, <2>3
<1>5. \A t \in Task : /\ task'[t] = task[t] \/ /\ task'[t].version > task[t].version
                                               /\ task'[t].state # "WAITING"
                                               /\ task'[t].reg = Unregistered
                      /\ task'[t] = task[t] => wokenBy'[t] = wokenBy[t]
  BY <1>1, <1>2, <1>3
<1>6. wokenBy' \in [Task -> Nat] /\ \A t \in Task : wokenBy'[t] \in Committed \cup {0}
  BY <1>1 DEF World
<1>7. World' /\ AnEventWakesOnce' /\ Progress
  BY <1>1, <1>4, <1>5, <1>6, TasksMove
<1>8. PICK l : l = Idle
  OBVIOUS
<1>9. Sound(s, l)'
  BY <1>7, <1>8, IdleIsSound
<1> QED BY <1>1, <1>7, <1>8, <1>9, ActorStep

-----------------------------------------------------------------------------
(* Steps after which a wait has seen more.                                 *)

\* What is true after a step is remembered by those that wait then.
LEMMA RememberFacts ==
  ASSUME Remember, NEW t \in Task, task'[t].state = "WAITING"
  PROVE  /\ TrueChains(t)' \subseteq once'[t]
         /\ task'[t] = task[t] => once[t] \subseteq once'[t]
BY DEF Remember

LEMMA ASuspendSubtask ==
  ASSUME IInv, NEW c \in Caller, SuspendSubtask(c) PROVE IInv'
<1> DEFINE s == thread[c].sub
<1>1. /\ thread[c].at = "suspend" /\ UNCHANGED <<log, board, clock, crashes, wokenBy>> /\ Remember
      /\ thread' = [thread EXCEPT ![c] = Idle] /\ World /\ c \in Thread /\ Sound(c, thread[c])
  BY SoundThread DEF SuspendSubtask, Become, Thread
<1>2. \/ UNCHANGED task
      \/ task[s.id].version = s.version /\ Move(s.id, "WAITING", s.reg)
  BY DEF SuspendSubtask
<1>3. /\ s \in Sub /\ s.id \in Task /\ s.reg \in Registration /\ s.reg.wake \in Request
      /\ Current(s) /\ s.reg.wake.kind = "event" => wokenBy[s.id] <= s.reg.after
  BY <1>1 DEF Sound, Sub
<1> HIDE DEF s
<1>4. wokenBy' \in [Task -> Nat] /\ \A t \in Task : wokenBy'[t] \in Committed \cup {0}
  BY <1>1 DEF World
<1>5. World' /\ AnEventWakesOnce' /\ Progress
  <2>1. CASE UNCHANGED task
    <3>1. task' \in [Task -> TaskType]
      BY <1>1, <2>1 DEF World
    <3> QED BY <1>1, <1>4, <2>1, <3>1, TasksMove
  <2>2. CASE task[s.id].version = s.version /\ Move(s.id, "WAITING", s.reg)
    <3>1. /\ task' \in [Task -> TaskType] /\ task'[s.id].state = "WAITING"
          /\ task'[s.id].reg = s.reg /\ task'[s.id].version > task[s.id].version
          /\ \A u \in Task \ {s.id} : task'[u] = task[u]
      BY <1>3, <2>2, MoveFacts
    <3>2. \A u \in Task : IF task'[u].state = "WAITING"
                          THEN task'[u].reg.wake \in Request /\ TrueChains(u)' \subseteq once'[u]
                          ELSE task'[u].reg = Unregistered
      <4> TAKE u \in Task
      <4>1. task'[u].state = "WAITING" => TrueChains(u)' \subseteq once'[u]
        BY <1>1, RememberFacts
      <4>2. CASE u = s.id
        BY <1>3, <3>1, <4>1, <4>2
      <4>3. CASE u # s.id
        <5>1. task'[u] = task[u]
          BY <3>1, <4>3
        <5> QED BY <1>1, <4>1, <5>1 DEF World
      <4> QED BY <4>2, <4>3
    <3>3. World'
      <4>1. Committed' = Committed
        BY <1>1 DEF Committed
      <4>2. log' \in Seq(LogEntry) /\ board' \in [Key -> Value] /\ clock' \in 0..MaxTime
            /\ crashes' \in 0..MaxCrash
        BY <1>1 DEF World
      <4> QED BY <1>4, <3>1, <3>2, <4>1, <4>2 DEF World
    <3>4. AnEventWakesOnce'
      <4>1. ASSUME NEW u \in Task, task'[u].reg.wake.kind = "event"
            PROVE  wokenBy'[u] <= task'[u].reg.after
        <5>1. CASE u = s.id
          <6>1. Current(s)
            BY <2>2 DEF Current
          <6> QED BY <1>1, <1>3, <3>1, <4>1, <5>1, <6>1
        <5>2. CASE u # s.id
          <6>1. task'[u] = task[u] /\ wokenBy'[u] = wokenBy[u]
            BY <1>1, <3>1, <5>2
          <6> QED BY <4>1, <6>1 DEF IInv, AnEventWakesOnce
        <5> QED BY <5>1, <5>2
      <4> QED BY <4>1 DEF AnEventWakesOnce
    <3>5. Progress
      <4>1. \A n \in Committed : n \in Committed' /\ log'[n].type = log[n].type
        BY <1>1 DEF Committed
      <4>2. clock <= clock'
        BY <1>1 DEF World
      <4>3. \A u \in Task : task'[u] = task[u] /\ task[u].state = "WAITING" => once[u] \subseteq once'[u]
        BY <1>1, RememberFacts
      <4>4. \A u \in Task : /\ task'[u] = task[u] \/ task'[u].version > task[u].version
                            /\ task'[u] = task[u] => wokenBy'[u] = wokenBy[u]
        BY <1>1, <3>1
      <4> QED BY <4>1, <4>2, <4>3, <4>4 DEF Progress
    <3> QED BY <3>3, <3>4, <3>5
  <2> QED BY <1>2, <2>1, <2>2
<1>6. PICK l : l = Idle
  OBVIOUS
<1>7. Sound(c, l)'
  BY <1>5, <1>6, IdleIsSound
<1> QED BY <1>1, <1>5, <1>6, <1>7, ActorStep

LEMMA ABoardPut ==
  ASSUME IInv, NEW w \in Writer, NEW k \in Key, NEW v \in Written, BoardPut(w, k, v) PROVE IInv'
<1> DEFINE e == [At("list") EXCEPT !.key = k]
<1>1. /\ UNCHANGED <<task, log, clock, crashes, wokenBy>> /\ Remember /\ World /\ w \in Thread
      /\ board' = [board EXCEPT ![k] = v] /\ thread' = [thread EXCEPT ![w] = e]
  BY DEF BoardPut, Become, Thread, IInv
<1>2. World'
  <2>1. board' \in [Key -> Value]
    BY <1>1, WakeValues DEF World
  <2>2. \A t \in Task : IF task'[t].state = "WAITING"
                        THEN task'[t].reg.wake \in Request /\ TrueChains(t)' \subseteq once'[t]
                        ELSE task'[t].reg = Unregistered
    <3> TAKE t \in Task
    <3>1. task'[t].state = "WAITING" => TrueChains(t)' \subseteq once'[t]
      BY <1>1, RememberFacts
    <3> QED BY <1>1, <3>1 DEF World
  <2>3. Committed' = Committed
    BY <1>1 DEF Committed
  <2>4. /\ task' \in [Task -> TaskType] /\ log' \in Seq(LogEntry) /\ clock' \in 0..MaxTime
        /\ crashes' \in 0..MaxCrash /\ wokenBy' \in [Task -> Nat]
        /\ \A t \in Task : wokenBy'[t] \in Committed \cup {0}
    BY <1>1 DEF World
  <2> QED BY <2>1, <2>2, <2>3, <2>4 DEF World
<1>3. AnEventWakesOnce'
  BY <1>1 DEF IInv, AnEventWakesOnce
<1>4. Progress
  <2>1. \A n \in Committed : n \in Committed' /\ log'[n].type = log[n].type
    BY <1>1 DEF Committed
  <2>2. clock <= clock'
    BY <1>1 DEF World
  <2>3. \A u \in Task : task'[u] = task[u] /\ task[u].state = "WAITING" => once[u] \subseteq once'[u]
    BY <1>1, RememberFacts
  <2> QED BY <1>1, <2>1, <2>2, <2>3 DEF Progress
<1>5. e \in Local /\ e.at = "list" /\ e.todo = {} /\ e.now = 0 /\ e.pos = 0
  BY AtFacts DEF Local
<1>6. PICK l : l = e
  OBVIOUS
<1>7. thread' = [thread EXCEPT ![w] = l]
  BY <1>1, <1>6
<1> HIDE DEF e
<1>8. Sound(w, l)'
  <2>1. clock' \in Nat
    BY <1>2 DEF World
  <2> QED BY <1>5, <1>6, <2>1 DEF Sound
<1> QED BY <1>1, <1>2, <1>3, <1>4, <1>7, <1>8, ActorStep

-----------------------------------------------------------------------------
(* The theorems.                                                           *)

LEMMA Initially == ASSUME Init PROVE IInv
<1>1. World
  <2>1. task \in [Task -> TaskType]
    BY RequestFacts DEF Init, TaskType
  <2>2. log \in Seq(LogEntry) /\ board \in [Key -> Value]
    BY DEF Init, Value
  <2>3. clock \in 0..MaxTime /\ crashes \in 0..MaxCrash
    BY WakeBounds DEF Init
  <2> QED BY <2>1, <2>2, <2>3 DEF Init, World
<1>2. \A t \in Task : task[t].reg.wake.kind # "event"
  BY RequestFacts DEF Init
<1>3. Idle \in Local /\ Idle.at = "idle" /\ Idle.todo = {} /\ Idle.now = 0 /\ Idle.pos = 0
  BY AtFacts DEF Idle
<1>4. Threads
  <2>1. \A h \in Thread : Sound(h, Idle)
    BY <1>1, <1>3 DEF Sound, World
  <2>2. thread = [h \in Thread |-> Idle]
    BY DEF Init
  <2> QED BY <1>3, <2>1, <2>2 DEF Threads
<1> QED BY <1>1, <1>2, <1>4 DEF IInv, AnEventWakesOnce

LEMMA Stutter == ASSUME IInv, UNCHANGED vars PROVE IInv'
<1>1. World' /\ AnEventWakesOnce' /\ Progress
  BY SameWorld DEF vars, IInv, World
<1> QED BY <1>1, NoActor DEF vars

LEMMA AnEvaluation == ASSUME IInv, NEW h \in Thread, Evaluation(h) PROVE IInv'
BY ATake, AReadPage, ALoadBoard, AEvaluate, AWakeSubtask, ANextLoop DEF Evaluation

LEMMA Inductive == ASSUME IInv, [Next]_vars PROVE IInv'
<1>1. CASE \E t \in Task : Begin(t) \/ End(t)
  BY <1>1, ABegin
<1>2. CASE DrawSeq \/ (\E n \in DOMAIN log : CommitEvent(n)) \/ Tick
  BY <1>2, ADrawSeq, ACommitEvent, ATick
<1>3. CASE \E c \in Caller : SuspendSubtask(c) \/ \E t \in Task : ReadWatermark(c, t)
  BY <1>3, AReadWatermark, ASuspendSubtask
<1>4. CASE \E w \in Waker : WakeSubtask(w) \/ \E t \in Task : LookUp(w, t)
  BY <1>4, ALookUp, AWakeSubtask DEF Thread
<1>5. CASE \E w \in Writer : \/ ListWaiting(w) \/ Evaluation(w)
                             \/ \E k \in Key, v \in Written : BoardPut(w, k, v)
  BY <1>5, ABoardPut, AListWaiting, AnEvaluation DEF Thread
<1>6. CASE \E s \in Sweeper : SweepStep(s)
  BY <1>6, AListWaitingDue, AnEvaluation, AExpireWakes DEF SweepStep, Thread
<1>7. CASE \E h \in Thread : Crash(h)
  BY <1>7, ACrash
<1> QED BY <1>1, <1>2, <1>3, <1>4, <1>5, <1>6, <1>7, Stutter DEF Next

\* The inductive invariant holds in every behaviour.
THEOREM Invariance == Spec => []IInv
BY Initially, Inductive, PTL DEF Spec

\* Every variable keeps its type, and a task has a registration exactly while it
\* waits (SuspendSubtask sets it, WakeSubtask, ExpireWakes and the rest clear it).
THEOREM TypeCorrect == Spec => []TypeOK
<1>1. ASSUME IInv PROVE TypeOK
  <2>1. \A h \in Thread : thread[h] \in Local /\ DOMAIN Idle = DOMAIN thread[h]
    BY <1>1 DEF IInv, Threads, Local, Idle, At
  <2>2. \A h \in Thread : /\ DOMAIN thread[h] = DOMAIN Idle
                          /\ thread[h].todo \subseteq Sub /\ thread[h].sub \in Sub \cup {None}
                          /\ thread[h].view \in [Key -> Value] /\ thread[h].key \in Key \cup {None}
    BY <2>1 DEF Local
  <2>3. \A t \in Task : task[t].state = "WAITING" <=> task[t].reg # Unregistered
    <3> TAKE t \in Task
    <3>1. task[t].state = "WAITING" => task[t].reg.wake # Unregistered.wake
      BY <1>1, RequestFacts DEF IInv, World
    <3> QED BY <1>1, <3>1 DEF IInv, World
  <2>4. \A n \in DOMAIN log : log[n].type \in EventType \cup {"cost"}
                              /\ log[n].status \in {"open", "committed", "void"}
    <3>1. \A n \in DOMAIN log : log[n] \in LogEntry
      BY <1>1 DEF IInv, World
    <3> QED BY <3>1 DEF LogEntry
  <2>5. /\ task \in [Task -> [state : {"READY", "RUNNING", "WAITING", "FAILED", "OVER"},
                              version : Nat, reg : Registration]]
        /\ board \in [Key -> Value] /\ clock \in 0..MaxTime /\ crashes \in 0..MaxCrash
    BY <1>1 DEF IInv, World, TaskType
  <2> QED BY <2>2, <2>3, <2>4, <2>5 DEF TypeOK
<1> QED BY <1>1, Invariance, PTL

\* An event wakes a task once: a later wait has its watermark at or above every event
\* that woke the task before (Suspend reads MaxEventSeq each time).
THEOREM EventsAreUsedOnce == Spec => []AnEventWakesOnce
BY Invariance, PTL DEF IInv

\* What a step may do to a task that waits.
Justified(t) ==
  /\ task'[t].state = "READY" =>
       Met(t) \/ \E w \in Waker : thread[w].sub # None /\ thread[w].sub = Read(t)
  /\ task'[t].state = "FAILED" => task[t].reg.wake.deadline <= clock

LEMMA WakeJustifies ==
  ASSUME IInv, NEW h \in Thread, WakeSubtask(h), NEW t \in Task, task[t].state = "WAITING"
  PROVE  Justified(t)
<1> DEFINE s == thread[h].sub
<1>1. thread[h].at = "wake" /\ Sound(h, thread[h]) /\ World
  BY SoundThread DEF WakeSubtask, WakeRead
<1>2. /\ Consistent(s) /\ s \in Sub /\ s.id \in Task
      /\ h \in Waker \/ (Current(s) => Met(s.id))
  BY <1>1 DEF Sound, Consistent, Sub
<1>3. \/ task' = task
      \/ task[s.id].version = s.version /\ Move(s.id, "READY", Unregistered)
  BY DEF WakeSubtask, WakeRead
<1> HIDE DEF s
<1>4. CASE task' = task
  BY <1>4 DEF Justified
<1>5. CASE task[s.id].version = s.version /\ Move(s.id, "READY", Unregistered)
  <2>1. task'[s.id].state = "READY" /\ \A u \in Task \ {s.id} : task'[u] = task[u]
    BY <1>2, <1>5, MoveFacts, RequestFacts
  <2>2. CASE t # s.id
    <3>1. task'[t] = task[t]
      BY <2>1, <2>2
    <3> QED BY <3>1 DEF Justified
  <2>3. CASE t = s.id
    <3>1. Current(s) /\ s.reg = task[t].reg /\ s.version = task[t].version
      BY <1>2, <1>5, <2>3 DEF Current, Consistent
    <3>2. s = Read(t)
      BY <1>2, <2>3, <3>1 DEF Sub, Read
    <3>3. s # None
      BY <1>2, WakeNone
    <3>4. Met(t) \/ h \in Waker
      BY <1>2, <2>3, <3>1
    <3>5. CASE Met(t)
      BY <2>1, <2>3, <3>5 DEF Justified
    <3>6. CASE h \in Waker
      BY <2>1, <2>3, <3>2, <3>3, <3>6 DEF Justified, s
    <3> QED BY <3>4, <3>5, <3>6
  <2> QED BY <2>2, <2>3
<1> QED BY <1>3, <1>4, <1>5

LEMMA ExpiryJustifies ==
  ASSUME IInv, NEW s \in Sweeper, ExpireWakes(s), NEW t \in Task, task[t].state = "WAITING"
  PROVE  Justified(t)
<1>1. /\ s \in Thread
      /\ task' = [u \in Task |->
           IF task[u].state = "WAITING" /\ task[u].reg.wake.deadline <= thread[s].now
           THEN [state |-> "FAILED", version |-> task[u].version + 1, reg |-> Unregistered] ELSE task[u]]
  BY DEF ExpireWakes, Thread
<1>2. thread[s].now <= clock /\ thread[s].now \in Nat /\ clock \in Nat /\ World
  BY <1>1, SoundThread DEF Sound, Local
<1>3. task[t].reg.wake \in Request
  BY <1>2 DEF World
<1>4. task[t].reg.wake.deadline \in Nat
  BY <1>3, RequestFacts DEF ValidWake
<1>5. \/ task'[t] = task[t]
      \/ task'[t].state = "FAILED" /\ task[t].reg.wake.deadline <= thread[s].now
  BY <1>1
<1> QED BY <1>2, <1>4, <1>5 DEF Justified

LEMMA EveryStepJustifies ==
  ASSUME IInv, [Next]_vars, NEW t \in Task, task[t].state = "WAITING"
  PROVE  Justified(t)
<1>1. ASSUME task' = task PROVE Justified(t)
  BY <1>1 DEF Justified
<1>2. ASSUME NEW u \in Task, Begin(u) \/ End(u) PROVE Justified(t)
  <2>1. PICK s \in {"RUNNING", "OVER"} : Move(u, s, Unregistered)
    BY <1>2 DEF Begin, End
  <2>2. task'[u].state = s /\ \A v \in Task \ {u} : task'[v] = task[v]
    BY <2>1, MoveFacts, RequestFacts
  <2> QED BY <2>2 DEF Justified
<1>3. ASSUME NEW c \in Caller, SuspendSubtask(c) PROVE Justified(t)
  <2> DEFINE s == thread[c].sub
  <2>1. task' = task \/ Move(s.id, "WAITING", s.reg)
    BY <1>3 DEF SuspendSubtask
  <2>2. s.id \in Task /\ s.reg \in Registration
    <3>1. thread[c].at = "suspend" /\ Sound(c, thread[c])
      BY <1>3, SoundThread DEF SuspendSubtask, Thread
    <3> QED BY <3>1 DEF Sound, Sub
  <2> HIDE DEF s
  <2>3. ASSUME Move(s.id, "WAITING", s.reg) PROVE Justified(t)
    <3>1. task'[s.id].state = "WAITING" /\ \A v \in Task \ {s.id} : task'[v] = task[v]
      BY <2>2, <2>3, MoveFacts
    <3> QED BY <3>1 DEF Justified
  <2> QED BY <1>1, <2>1, <2>3
<1>4. ASSUME NEW h \in Thread, Evaluation(h) PROVE Justified(t)
  <2>1. CASE WakeSubtask(h)
    BY <2>1, WakeJustifies
  <2>2. CASE Take(h) \/ ReadPage(h) \/ LoadBoard(h) \/ Evaluate(h) \/ NextLoop(h)
    BY <1>1, <2>2 DEF Take, ReadPage, LoadBoard, Evaluate, NextLoop
  <2> QED BY <1>4, <2>1, <2>2 DEF Evaluation
<1>5. CASE \E u \in Task : Begin(u) \/ End(u)
  BY <1>2, <1>5
<1>6. CASE DrawSeq \/ (\E n \in DOMAIN log : CommitEvent(n)) \/ Tick
  BY <1>1, <1>6 DEF DrawSeq, CommitEvent, Tick
<1>7. CASE \E c \in Caller : SuspendSubtask(c) \/ \E u \in Task : ReadWatermark(c, u)
  BY <1>1, <1>3, <1>7 DEF ReadWatermark
<1>8. CASE \E w \in Waker : WakeSubtask(w) \/ \E u \in Task : LookUp(w, u)
  BY <1>1, <1>8, WakeJustifies DEF LookUp, Thread
<1>9. CASE \E w \in Writer : \/ ListWaiting(w) \/ Evaluation(w)
                             \/ \E k \in Key, v \in Written : BoardPut(w, k, v)
  BY <1>1, <1>4, <1>9 DEF ListWaiting, BoardPut, Thread
<1>10. CASE \E s \in Sweeper : SweepStep(s)
  BY <1>1, <1>4, <1>10, ExpiryJustifies DEF SweepStep, ListWaitingDue, Thread
<1>11. CASE \E h \in Thread : Crash(h)
  BY <1>1, <1>11 DEF Crash
<1>12. CASE UNCHANGED vars
  BY <1>1, <1>12 DEF vars
<1> QED BY <1>5, <1>6, <1>7, <1>8, <1>9, <1>10, <1>11, <1>12 DEF Next

\* Only a person wakes a task whose request is not met, and only a deadline that has
\* passed fails it (the version in WakeSubtask, the deadline in ExpireWakes).
THEOREM WakesAreJustified == Spec => WakeIsJustified
<1>1. ASSUME IInv, [Next]_vars
      PROVE  \A t \in Task : task[t].state = "WAITING" =>
               /\ task'[t].state = "READY" =>
                    Met(t) \/ \E w \in Waker : thread[w].sub # None /\ thread[w].sub = Read(t)
               /\ task'[t].state = "FAILED" => task[t].reg.wake.deadline <= clock
  BY <1>1, EveryStepJustifies DEF Justified
<1>2. IInv /\ [Next]_vars => [\A t \in Task : task[t].state = "WAITING" =>
               /\ task'[t].state = "READY" =>
                    Met(t) \/ \E w \in Waker : thread[w].sub # None /\ thread[w].sub = Read(t)
               /\ task'[t].state = "FAILED" => task[t].reg.wake.deadline <= clock]_vars
  BY <1>1
<1> QED BY <1>2, Invariance, PTL DEF Spec, WakeIsJustified

-----------------------------------------------------------------------------
(* Writes.                                                                 *)

\* The keys a chain can depend on are among those it is said to refer to.
LEMMA RefsCover ==
  ASSUME NEW c \in Condition, NEW ch \in c.chains, NEW k \in Under(ch)
  PROVE  k \in Refs(c)
<1>1. /\ ch \in Seq(Segment) /\ k \in Key /\ Len(ch) \in Nat /\ DOMAIN ch = 1..Len(ch)
      /\ \A i \in 1..2 : i <= Len(ch) => ch[i] \in {k[i], Dynamic}
  BY DEF Condition, Segment, Under
<1> DEFINE refs == IF IsWildcard(ch) THEN Key
                   ELSE IF Len(ch) = 1 THEN {j \in Key : j[1] = ch[1]} ELSE {<<ch[1], ch[2]>>}
<1>2. CASE IsWildcard(ch)
  BY <1>1, <1>2 DEF Refs
<1>3. CASE ~ IsWildcard(ch)
  <2>1. Len(ch) # 0 /\ \A i \in 1..Len(ch) : ch[i] # Dynamic
    BY <1>1, <1>3 DEF IsWildcard
  <2>2. CASE Len(ch) = 1
    <3>1. k[1] = ch[1]
      BY <1>1, <2>1, <2>2
    <3>2. k \in refs
      BY <1>1, <1>3, <2>2, <3>1
    <3> QED BY <3>2 DEF Refs
  <2>3. CASE Len(ch) # 1
    <3>1. k[1] = ch[1] /\ k[2] = ch[2]
      BY <1>1, <2>1, <2>3
    <3>2. k = <<ch[1], ch[2]>>
      BY <1>1, <3>1 DEF Key
    <3>3. k \in refs
      BY <1>3, <2>3, <3>2
    <3> QED BY <3>3 DEF Refs
  <2> QED BY <2>2, <2>3
<1> QED BY <1>2, <1>3

\* Only a write changes the board, and only its key.
LEMMA WritesOnly ==
  ASSUME World, [Next]_vars, board' # board
  PROVE  \E k \in Key : \A j \in Key \ {k} : board'[j] = board[j]
<1>1. ~ UNCHANGED vars
  BY DEF vars
<1>2. \E w \in Writer, k \in Key, v \in Written : BoardPut(w, k, v)
  <2>1. \A t \in Task : ~ Begin(t) /\ ~ End(t)
    BY DEF Begin, End
  <2>2. ~ DrawSeq /\ (\A n \in DOMAIN log : ~ CommitEvent(n)) /\ ~ Tick
    BY DEF DrawSeq, CommitEvent, Tick
  <2>3. \A c \in Caller : ~ SuspendSubtask(c) /\ \A t \in Task : ~ ReadWatermark(c, t)
    BY DEF SuspendSubtask, ReadWatermark
  <2>4. \A h : ~ Evaluation(h)
    BY DEF Evaluation, Take, ReadPage, LoadBoard, Evaluate, WakeSubtask, WakeRead, NextLoop
  <2>5. \A w : ~ ListWaiting(w) /\ ~ WakeSubtask(w) /\ \A t : ~ LookUp(w, t)
    BY DEF ListWaiting, WakeSubtask, WakeRead, LookUp
  <2>6. \A s : ~ SweepStep(s)
    BY <2>4 DEF SweepStep, ListWaitingDue, ExpireWakes
  <2>7. \A h \in Thread : ~ Crash(h)
    BY DEF Crash
  <2> QED BY <1>1, <2>1, <2>2, <2>3, <2>4, <2>5, <2>6, <2>7 DEF Next
<1>3. PICK w \in Writer, k \in Key, v \in Written : BoardPut(w, k, v)
  BY <1>2
<1>4. \A j \in Key \ {k} : board'[j] = board[j]
  BY <1>3 DEF BoardPut, World
<1> QED BY <1>4

\* The evaluation after a blackboard write leaves out no waiting condition whose value
\* the write changed (extractBoardRefs, referencesBoard).
THEOREM WritesAreNoticed == Spec => WriteIsNoticed
<1> DEFINE Noticed ==
      \A k \in Key, t \in Waiting({"condition"}) : board'[k] # board[k] =>
        LET c == task[t].reg.wake.cond
        IN Holds(c, board, clock) # Holds(c, board', clock) => Affected(c, k)
<1>1. ASSUME IInv, [Next]_vars PROVE Noticed
  <2> SUFFICES ASSUME NEW k \in Key, NEW t \in Waiting({"condition"}), board'[k] # board[k],
                      NEW c, c = task[t].reg.wake.cond, k \notin Refs(c)
               PROVE  Holds(c, board, clock) = Holds(c, board', clock)
    BY Zenon DEF Affected
  <2>1. c \in Condition
    <3>1. t \in Task /\ task[t].state = "WAITING" /\ task[t].reg.wake.kind = "condition"
      BY DEF Waiting
    <3>2. task[t].reg.wake \in Request
      BY <1>1, <3>1 DEF IInv, World
    <3> QED BY <3>1, <3>2, RequestFacts DEF ValidWake
  <2>2. PICK key \in Key : \A j \in Key \ {key} : board'[j] = board[j]
    BY <1>1, WritesOnly DEF IInv
  <2>3. \A j \in Refs(c) : j \in Key => board[j] = board'[j]
    BY <2>2
  <2>4. \A ch \in c.chains : \A j \in Under(ch) : board[j] = board'[j]
    BY <2>1, <2>3, RefsCover DEF Under
  <2>5. \A ch \in c.chains : ChainTrue(c.op, ch, board) <=> ChainTrue(c.op, ch, board')
    BY <2>4, ChainTrueAgrees
  <2> QED BY <2>5 DEF Holds
<1>2. IInv /\ [Next]_vars => [Noticed]_vars
  BY <1>1
<1> QED BY <1>2, Invariance, PTL DEF Spec, WriteIsNoticed
=============================================================================
