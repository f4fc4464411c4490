--------------------------- MODULE IdempotencyProofs -------------------------
(***************************************************************************)
(* What is done once for every id, however often, by however many threads  *)
(* and with whatever interruptions it is asked for.                        *)
(*                                                                         *)
(* Missions, for their idempotency keys: Intents keeps the promise of      *)
(* OncePerKey, whoever was answered has a mission that is under way, and   *)
(* what validateDAG lets through can be done.                              *)
(*                                                                         *)
(* Reputation signals, for their ids: the rows that sum them up take every *)
(* one in once, and a signal counts for what happened.                     *)
(***************************************************************************)
EXTENDS Intents, Reputation, Integers, FiniteSetTheorems, WellFoundedInduction, TLAPS

-----------------------------------------------------------------------------
(* Induction over the natural numbers, in the form of sets.                *)

\* A set of natural numbers that is not empty has a least element.
LEMMA Least ==
  ASSUME NEW S \in SUBSET Nat, S # {}
  PROVE  \E n \in S : \A m \in S : n <= m
<1>1. PICK n \in S : \A m \in S : ~ (<<m, n>> \in OpToRel(<, Nat))
  BY NatLessThanWellFounded, WFMin
<1>2. \A m \in Nat : m < n => <<m, n>> \in OpToRel(<, Nat)
  BY DEF OpToRel
<1>3. \A m \in S : ~ (m < n)
  BY <1>1, <1>2, Zenon
<1>4. \A m \in S : n <= m
  BY <1>3
<1> QED BY <1>4

\* A set that holds 0, and n + 1 with every n, holds all natural numbers.
LEMMA Induction ==
  ASSUME NEW S \in SUBSET Nat, 0 \in S, \A n \in S : n + 1 \in S
  PROVE  S = Nat
<1>1. SUFFICES ASSUME Nat \ S # {} PROVE FALSE
  OBVIOUS
<1>2. PICK n \in Nat \ S : \A m \in Nat \ S : n <= m
  BY <1>1, Least
<1>3. n - 1 \in Nat /\ n - 1 \in S
  BY <1>2
<1> QED BY <1>2, <1>3

-----------------------------------------------------------------------------
(* Kahn's rounds.                                                          *)

TaskList == Seq([name : Name, deps : SUBSET Name])

\* The nodes whose dependencies are among those taken.
Free(tasks, taken) ==
  {tasks[i].name : i \in {j \in DOMAIN tasks : tasks[j].deps \subseteq taken}}

\* f gives the nodes taken after each of the first n rounds.
Rounds(tasks, n, f) ==
  f = [k \in 0..n |-> IF k = 0 THEN {} ELSE Free(tasks, f[k - 1])]

\* The definition of Taken defines something: the rounds can be counted through.
LEMMA RoundsExist ==
  ASSUME NEW tasks, NEW n \in Nat
  PROVE  \E f : Rounds(tasks, n, f)
<1> DEFINE S == {m \in Nat : \E f : Rounds(tasks, m, f)}
<1>1. 0 \in S
  <2>1. Rounds(tasks, 0, [k \in 0..0 |-> {}])
    BY DEF Rounds
  <2> QED BY <2>1
<1>2. ASSUME NEW m \in S PROVE m + 1 \in S
  <2>1. PICK f : Rounds(tasks, m, f)
    OBVIOUS
  <2> DEFINE g == [k \in 0..(m + 1) |-> IF k = 0 THEN {} ELSE Free(tasks, f[k - 1])]
  <2>2. \A k \in 0..m : g[k] = f[k]
    <3>1. \A k \in 0..m : f[k] = IF k = 0 THEN {} ELSE Free(tasks, f[k - 1])
      BY <2>1, Zenon DEF Rounds
    <3>2. 0..m \subseteq 0..(m + 1)
      OBVIOUS
    <3> QED BY <3>1, <3>2, Zenon
  <2>3. \A k \in 0..(m + 1) : k # 0 => k - 1 \in 0..m
    OBVIOUS
  <2>4. g = [k \in 0..(m + 1) |-> IF k = 0 THEN {} ELSE Free(tasks, g[k - 1])]
    <3> DEFINE G(k) == IF k = 0 THEN {} ELSE Free(tasks, f[k - 1])
               H(k) == IF k = 0 THEN {} ELSE Free(tasks, g[k - 1])
    <3>1. \A k \in 0..(m + 1) : G(k) = H(k)
      <4> HIDE DEF g
      <4> QED BY <2>2, <2>3
    <3> QED BY <3>1, Zenon
  <2>5. Rounds(tasks, m + 1, g)
    BY <2>4 DEF Rounds
  <2> QED BY <2>5
<1>3. S = Nat
  <2>1. S \in SUBSET Nat
    OBVIOUS
  <2> HIDE DEF S
  <2> QED BY <1>1, <1>2, <2>1, Induction
<1> QED BY <1>3

\* Taken is what the last round leaves.
LEMMA TakenByRounds ==
  ASSUME NEW tasks \in TaskList
  PROVE  \E f : Rounds(tasks, Len(tasks), f) /\ Taken(tasks) = f[Len(tasks)]
<1> DEFINE after == CHOOSE f : Rounds(tasks, Len(tasks), f)
<1>1. Rounds(tasks, Len(tasks), after)
  BY RoundsExist DEF TaskList
<1>2. Taken(tasks) = after[Len(tasks)]
  BY DEF Taken, Rounds, Free
<1> QED BY <1>1, <1>2

\* validateDAG, by Kahn's count, lets no circle through: of any set of declared nodes
\* one depends on none of the others.
THEOREM ValidatedGraphIsAcyclic ==
  ASSUME NEW tasks \in TaskList, ValidDAG(tasks),
         NEW S \in SUBSET Declared(tasks), S # {}
  PROVE  \E i \in DOMAIN tasks : tasks[i].name \in S /\ tasks[i].deps \cap S = {}
<1>1. PICK f : Rounds(tasks, Len(tasks), f) /\ Taken(tasks) = f[Len(tasks)]
  BY TakenByRounds
<1> DEFINE Meets == {n \in 0..Len(tasks) : f[n] \cap S # {}}
<1>2. Len(tasks) \in Nat /\ Meets \in SUBSET Nat
  BY DEF TaskList
<1>3. Len(tasks) \in Meets
  BY <1>1, <1>2 DEF ValidDAG
<1>4. PICK n \in Meets : \A m \in Meets : n <= m
  <2> HIDE DEF Meets
  <2> QED BY <1>2, <1>3, Least
<1>5. n # 0 /\ n - 1 \in 0..Len(tasks) /\ f[n] = Free(tasks, f[n - 1])
  <2>1. \A k \in 0..Len(tasks) : f[k] = IF k = 0 THEN {} ELSE Free(tasks, f[k - 1])
    BY <1>1, Zenon DEF Rounds
  <2>2. n # 0
    BY <2>1, <1>4
  <2> QED BY <2>1, <2>2, <1>2, <1>4
<1>6. f[n - 1] \cap S = {}
  BY <1>2, <1>4, <1>5
<1>7. PICK i \in DOMAIN tasks : tasks[i].name \in S /\ tasks[i].deps \subseteq f[n - 1]
  BY <1>4, <1>5 DEF Free
<1> QED BY <1>6, <1>7

-----------------------------------------------------------------------------
(* The invariant.                                                          *)

\* What a call that passed validation may send.
Valid == {tasks \in TaskLists : tasks # <<>> /\ ValidDAG(tasks)}

\* No root of mission m is PENDING.
UnderWay(m) == \A n \in Name : root[m][n] # "PENDING"

\* An id is reserved under one key, and for every mission there is.
Reserved ==
  /\ \A j, k \in Key : idem[j] = idem[k] /\ idem[j] # None => j = k
  /\ \A m \in Mission : Exists(m) => mission[m] \in Valid /\ \E k \in Key : idem[k] = m

\* A call is about a key of use and a graph that can be done; past the reservation it
\* holds the id its key stands for, past the creation that mission is there, and what
\* it no longer lists as its work is done.
Sound(l) ==
  l.at # "idle" =>
    /\ l.key \in UsableKeys /\ l.tasks \in Valid
    /\ l.at # "reserve" => idem[l.key] = l.id /\ l.id # None
    /\ l.at \in {"list", "activate"} => Exists(l.id)
    /\ l.at = "activate" => \A n \in Name : root[l.id][n] = "PENDING" => n \in l.todo

Calls == \A h \in Handler : Sound(thread[h])

\* Callers were told the mission of their key, and its roots were seen to.
Told ==
  \A k \in Key : \A m \in told[k] : idem[k] = m /\ Exists(m) /\ UnderWay(m)

IInv == TypeOK /\ Reserved /\ Calls /\ Told

\* The tasks of a request are a list of tasks, its key is a key.
LEMMA Requests ==
  /\ \A r \in Request : r.key \in Key /\ r.tasks \in TaskLists
  /\ UsableKeys \subseteq Key
  /\ Valid \subseteq TaskLists /\ <<>> \notin Valid
  /\ TaskLists \subseteq TaskList
  /\ None \notin Key /\ None \notin Mission
  BY IntentRequests, IntentNothing DEF UsableKeys, Valid, TaskLists, TaskList

LEMMA Initially == Init => IInv
<1> SUFFICES ASSUME Init PROVE IInv
  OBVIOUS
<1> USE DEF Init
<1>1. TypeOK
  BY IntentBounds DEF TypeOK, Local, Idle, Roots
<1>2. Reserved
  BY DEF Reserved, Exists
<1>3. Calls
  BY DEF Calls, Sound, Idle
<1>4. Told
  BY DEF Told
<1> QED BY <1>1, <1>2, <1>3, <1>4 DEF IInv

-----------------------------------------------------------------------------
(* What a step may do to the shared state.                                 *)

\* Reservations stand, missions stay and no root becomes PENDING again.
Grows ==
  /\ \A k \in Key : idem[k] # None => idem'[k] = idem[k]
  /\ \A m \in Mission : Exists(m) =>
       /\ mission'[m] = mission[m]
       /\ \A n \in Name : root'[m][n] = "PENDING" => root[m][n] = "PENDING"

\* While the state grows, what holds of a call and of an answer goes on to hold.
LEMMA Persist ==
  ASSUME IInv, Grows
  PROVE  /\ \A l \in Local : Sound(l) => Sound(l)'
         /\ \A k \in Key : \A m \in told[k] : (idem[k] = m /\ Exists(m) /\ UnderWay(m))'
<1>1. ASSUME NEW l \in Local, Sound(l) PROVE Sound(l)'
  <2>1. CASE l.at = "idle"
    BY <2>1 DEF Sound
  <2>2. CASE l.at = "reserve"
    BY <2>2, <1>1 DEF Sound
  <2>3. CASE l.at \notin {"idle", "reserve"}
    <3>1. l.key \in Key /\ idem[l.key] = l.id /\ l.id # None /\ l.key \in UsableKeys
          /\ l.tasks \in Valid
      BY <2>3, <1>1, Requests DEF Sound
    <3>2. idem'[l.key] = l.id /\ l.id \in Mission
      BY <3>1 DEF Grows, IInv, TypeOK
    <3>3. Exists(l.id) => Exists(l.id)'
      BY <3>2 DEF Grows, Exists
    <3>4. l.at \in {"list", "activate"} => Exists(l.id)
      BY <1>1, <2>3 DEF Sound
    <3>5. ASSUME l.at = "activate", NEW n \in Name, root'[l.id][n] = "PENDING"
          PROVE  n \in l.todo
      <4>1. root[l.id][n] = "PENDING"
        BY <3>5, <3>4, <3>2 DEF Grows
      <4> QED BY <4>1, <3>5, <1>1 DEF Sound
    <3> QED BY <3>1, <3>2, <3>3, <3>4, <3>5 DEF Sound
  <2> QED BY <2>1, <2>2, <2>3
<1>2. ASSUME NEW k \in Key, NEW m \in told[k]
      PROVE  (idem[k] = m /\ Exists(m) /\ UnderWay(m))'
  <2>1. idem[k] = m /\ Exists(m) /\ UnderWay(m) /\ m \in Mission /\ m # None
    BY Requests DEF IInv, Told, TypeOK
  <2>2. idem'[k] = m /\ mission'[m] = mission[m]
    BY <2>1 DEF Grows
  <2>3. \A n \in Name : root'[m][n] # "PENDING"
    BY <2>1 DEF Grows, UnderWay
  <2> QED BY <2>1, <2>2, <2>3 DEF Exists, UnderWay
<1> QED BY <1>1, <1>2

\* A thread that goes on soundly while the state grows leaves Calls in place.
LEMMA CallsPersist ==
  ASSUME IInv, Grows, NEW h \in Handler, NEW l \in Local, Become(h, l), Sound(l)'
  PROVE  thread' \in [Handler -> Local] /\ Calls'
<1>1. thread' \in [Handler -> Local] /\ thread'[h] = l
      /\ \A g \in Handler \ {h} : thread'[g] = thread[g]
  BY DEF IInv, TypeOK, Become
<1>2. ASSUME NEW g \in Handler PROVE Sound(thread[g])'
  <2>1. CASE g = h
    BY <2>1, <1>1 DEF Sound
  <2>2. CASE g # h
    <3>1. Sound(thread[g]) /\ thread[g] \in Local
      BY DEF IInv, TypeOK, Calls
    <3>2. PICK k : k = thread[g]
      OBVIOUS
    <3>3. Sound(k)'
      BY <3>1, <3>2, Persist
    <3> QED BY <3>2, <3>3, <2>2, <1>1 DEF Sound
  <2> QED BY <2>1, <2>2
<1> QED BY <1>1, <1>2 DEF Calls

\* A step that moves one thread only, soundly, preserves the invariant.
LEMMA Quiet ==
  ASSUME IInv, NEW h \in Handler, NEW l \in Local, Become(h, l), Sound(l),
         UNCHANGED <<idem, mission, root, told, crashes>>
  PROVE  IInv'
<1>1. Grows
  BY DEF Grows
<1>2. Sound(l)'
  BY DEF Sound, Exists
<1>3. thread' \in [Handler -> Local] /\ Calls'
  BY <1>1, <1>2, CallsPersist
<1>4. TypeOK'
  BY <1>3 DEF IInv, TypeOK
<1>5. Reserved' /\ Told'
  BY DEF IInv, Reserved, Told, Exists, UnderWay
<1> QED BY <1>3, <1>4, <1>5 DEF IInv

-----------------------------------------------------------------------------
(* The steps, one by one.                                                  *)

\* What the step of a thread may use of it.
LEMMA CallFacts ==
  ASSUME IInv, NEW h \in Handler, thread[h].at # "idle"
  PROVE  /\ thread[h] \in Local
         /\ thread[h].key \in Key /\ thread[h].key \in UsableKeys
         /\ thread[h].tasks \in Valid /\ thread[h].tasks \in TaskLists
         /\ thread[h].at # "reserve" =>
              thread[h].id \in Mission /\ idem[thread[h].key] = thread[h].id
         /\ thread[h].at \in {"list", "activate"} => Exists(thread[h].id)
<1>1. thread[h] \in Local /\ Sound(thread[h])
  BY DEF IInv, TypeOK, Calls
<1>2. thread[h].key \in Key /\ thread[h].key \in UsableKeys /\ thread[h].tasks \in Valid
  BY <1>1, Requests DEF Sound
<1>3. thread[h].id \in Mission \cup {None}
  BY <1>1 DEF Local
<1> QED BY <1>1, <1>2, <1>3, Requests DEF Sound

LEMMA SubmitStep ==
  ASSUME IInv, NEW h \in Handler, NEW r \in Request, Submit(h, r)
  PROVE  IInv'
<1> DEFINE l == [Idle EXCEPT !.at = "reserve", !.key = r.key, !.tasks = r.tasks]
<1>1. Idle \in Local
  BY DEF Idle, Local
<1>2. r.key \in UsableKeys /\ r.tasks \in Valid /\ r.key \in Key /\ r.tasks \in TaskLists
  BY Requests DEF Submit, UsableKeys, Valid
<1>3. l \in Local /\ l.at = "reserve" /\ l.key = r.key /\ l.tasks = r.tasks
  BY <1>1, <1>2 DEF Local
<1>4. Sound(l)
  BY <1>2, <1>3 DEF Sound
<1> HIDE DEF l
<1> QED BY <1>3, <1>4, Quiet DEF Submit, Accept, l

\* The key is free: it comes to stand for an id nobody has.
LEMMA ReserveStep ==
  ASSUME IInv, NEW h \in Handler, PutIdempotent(h), idem[thread[h].key] = None
  PROVE  IInv' /\ \A m \in Mission : idem'[thread[h].key] = m => ~ Exists(m)
<1> DEFINE k == thread[h].key
<1>1. PICK m \in Mission :
        /\ \A j \in Key : idem[j] # m
        /\ idem' = [idem EXCEPT ![k] = m]
        /\ Become(h, [thread[h] EXCEPT !.at = "create", !.id = m])
  BY DEF PutIdempotent
<1>2. /\ thread[h] \in Local /\ k \in Key /\ k \in UsableKeys /\ thread[h].tasks \in Valid
      /\ UNCHANGED <<mission, root, told, crashes>>
  BY CallFacts DEF PutIdempotent
<1>3. PICK l \in Local :
        /\ l = [thread[h] EXCEPT !.at = "create", !.id = m]
        /\ l.at = "create" /\ l.key = k /\ l.tasks = thread[h].tasks /\ l.id = m
  <2> DEFINE e == [thread[h] EXCEPT !.at = "create", !.id = m]
  <2>1. /\ e \in Local
        /\ e.at = "create" /\ e.key = k /\ e.tasks = thread[h].tasks /\ e.id = m
    BY <1>2 DEF Local
  <2> QED BY <2>1
<1>4. idem \in [Key -> Mission \cup {None}] /\ None \notin Mission
  BY Requests DEF IInv, TypeOK
<1>5. /\ idem' \in [Key -> Mission \cup {None}] /\ idem'[k] = m
      /\ \A j \in Key \ {k} : idem'[j] = idem[j]
  BY <1>1, <1>2, <1>4
<1>6. Grows
  BY <1>2, <1>5, <1>1 DEF Grows
<1>7. Sound(l)'
  BY <1>2, <1>3, <1>4, <1>5 DEF Sound
<1>8. thread' \in [Handler -> Local] /\ Calls'
  <2>1. Become(h, l)
    BY <1>1, <1>3
  <2> QED BY <2>1, <1>3, <1>6, <1>7, CallsPersist
<1>9. TypeOK'
  BY <1>2, <1>5, <1>8 DEF IInv, TypeOK
<1>10. ~ Exists(m)
  BY <1>1 DEF IInv, Reserved
<1>11. Reserved'
  BY <1>1, <1>2, <1>4, <1>5 DEF IInv, Reserved, Exists
<1>12. Told'
  BY <1>2, <1>6, Persist DEF Told
<1> QED BY <1>5, <1>8, <1>9, <1>10, <1>11, <1>12 DEF IInv

LEMMA PutIdempotentStep ==
  ASSUME IInv, NEW h \in Handler, PutIdempotent(h)
  PROVE  IInv'
<1>1. CASE idem[thread[h].key] = None
  BY <1>1, ReserveStep
<1>2. CASE idem[thread[h].key] # None
  <2> DEFINE l == [thread[h] EXCEPT !.at = "look", !.id = idem[thread[h].key]]
  <2>1. /\ thread[h] \in Local /\ thread[h].key \in Key /\ thread[h].key \in UsableKeys
        /\ thread[h].tasks \in Valid /\ idem[thread[h].key] \in Mission
    BY <1>2, CallFacts DEF PutIdempotent, IInv, TypeOK
  <2>2. /\ l \in Local /\ l.at = "look" /\ l.key = thread[h].key
        /\ l.tasks = thread[h].tasks /\ l.id = idem[thread[h].key]
    BY <2>1 DEF Local
  <2>3. Sound(l)
    BY <2>1, <2>2, <1>2 DEF Sound
  <2>4. Become(h, l) /\ UNCHANGED <<idem, mission, root, told, crashes>>
    BY <1>2 DEF PutIdempotent
  <2> HIDE DEF l
  <2> QED BY <2>2, <2>3, <2>4, Quiet
<1> QED BY <1>1, <1>2

\* The mission comes to be under the id the call holds, with its tasks.
LEMMA InsertStep ==
  ASSUME IInv, NEW h \in Handler, thread[h].at \in {"create", "createAgain"},
         ~ Exists(thread[h].id), Insert(thread[h].id, thread[h].tasks), Go(h, "list"),
         UNCHANGED <<idem, told, crashes>>
  PROVE  IInv'
<1> DEFINE m == thread[h].id
           tasks == thread[h].tasks
<1>1. /\ thread[h] \in Local /\ thread[h].key \in Key /\ thread[h].key \in UsableKeys
      /\ tasks \in Valid /\ tasks \in TaskLists /\ tasks # <<>>
      /\ m \in Mission /\ idem[thread[h].key] = m /\ m # None
  BY CallFacts, Requests
<1>2. PICK l \in Local :
        /\ l = [thread[h] EXCEPT !.at = "list"]
        /\ l.at = "list" /\ l.key = thread[h].key /\ l.tasks = tasks /\ l.id = m
  <2> DEFINE e == [thread[h] EXCEPT !.at = "list"]
  <2>1. /\ e \in Local
        /\ e.at = "list" /\ e.key = thread[h].key /\ e.tasks = tasks /\ e.id = m
    BY <1>1 DEF Local
  <2> QED BY <2>1
<1>3. /\ mission' \in [Mission -> TaskLists \cup {<<>>}]
      /\ mission'[m] = tasks
      /\ \A n \in Mission \ {m} : mission'[n] = mission[n]
  BY <1>1 DEF IInv, TypeOK, Insert
<1>4. /\ root' \in [Mission -> [Name -> {"none", "PENDING", "READY", "beyond"}]]
      /\ \A n \in Name : root'[m][n] # "none" <=> n \in Roots(tasks)
      /\ \A n \in Mission \ {m} : root'[n] = root[n]
  BY <1>1 DEF IInv, TypeOK, Insert
<1>5. Grows
  BY <1>1, <1>3, <1>4 DEF Grows
<1>6. Sound(l)'
  BY <1>1, <1>2, <1>3 DEF Sound, Exists
<1>7. thread' \in [Handler -> Local] /\ Calls'
  <2>1. Become(h, l)
    BY <1>2 DEF Go
  <2> QED BY <2>1, <1>2, <1>5, <1>6, CallsPersist
<1>8. TypeOK'
  <2>1. \A i \in Mission, n \in Name : root'[i][n] # "none" <=> n \in Roots(mission'[i])
    BY <1>3, <1>4 DEF IInv, TypeOK
  <2> QED BY <2>1, <1>3, <1>4, <1>7 DEF IInv, TypeOK
<1>9. Reserved'
  BY <1>1, <1>3 DEF IInv, Reserved, Exists
<1>10. Told'
  BY <1>5, Persist DEF Told
<1> QED BY <1>7, <1>8, <1>9, <1>10 DEF IInv

\* A call that ends without an answer.
LEMMA IdleStep ==
  ASSUME IInv, NEW h \in Handler, Become(h, Idle),
         UNCHANGED <<idem, mission, root, told, crashes>>
  PROVE  IInv'
<1>1. Idle \in Local /\ Sound(Idle)
  BY DEF Idle, Local, Sound
<1> QED BY <1>1, Quiet

\* A call that goes on to another point of the same.
LEMMA GoStep ==
  ASSUME IInv, NEW h \in Handler, thread[h].at \notin {"idle", "reserve"},
         NEW point \in {"list", "createAgain", "lookAgain"}, Go(h, point),
         point = "list" => Exists(thread[h].id),
         UNCHANGED <<idem, mission, root, told, crashes>>
  PROVE  IInv'
<1> DEFINE l == [thread[h] EXCEPT !.at = point]
<1>1. /\ thread[h] \in Local /\ thread[h].key \in UsableKeys /\ thread[h].tasks \in Valid
      /\ thread[h].id \in Mission /\ idem[thread[h].key] = thread[h].id
      /\ thread[h].id # None
  BY CallFacts, Requests
<1>2. /\ l \in Local /\ l.at = point /\ l.key = thread[h].key
      /\ l.tasks = thread[h].tasks /\ l.id = thread[h].id
  BY <1>1 DEF Local
<1>3. Sound(l)
  BY <1>1, <1>2 DEF Sound
<1> HIDE DEF l
<1> QED BY <1>2, <1>3, Quiet DEF Go, l

LEMMA CreateMissionStep ==
  ASSUME IInv, NEW h \in Handler, CreateMission(h)
  PROVE  IInv'
<1>1. CASE Exists(thread[h].id)
  BY <1>1, IdleStep DEF CreateMission
<1>2. CASE ~ Exists(thread[h].id)
  BY <1>2, InsertStep DEF CreateMission
<1> QED BY <1>1, <1>2

LEMMA LookUpStep ==
  ASSUME IInv, NEW h \in Handler, LookUp(h)
  PROVE  IInv'
<1>1. CASE Exists(thread[h].id)
  BY <1>1, GoStep DEF LookUp
<1>2. CASE ~ Exists(thread[h].id)
  BY <1>2, GoStep DEF LookUp
<1> QED BY <1>1, <1>2

LEMMA CreateAgainStep ==
  ASSUME IInv, NEW h \in Handler, CreateAgain(h)
  PROVE  IInv'
<1>1. CASE Exists(thread[h].id)
  BY <1>1, GoStep DEF CreateAgain
<1>2. CASE ~ Exists(thread[h].id)
  BY <1>2, InsertStep DEF CreateAgain
<1> QED BY <1>1, <1>2

LEMMA LookAgainStep ==
  ASSUME IInv, NEW h \in Handler, LookAgain(h)
  PROVE  IInv'
<1>1. CASE Exists(thread[h].id)
  BY <1>1, GoStep DEF LookAgain
<1>2. CASE ~ Exists(thread[h].id)
  BY <1>2, IdleStep DEF LookAgain
<1> QED BY <1>1, <1>2

\* What is PENDING when the roots are listed is on the list.
LEMMA ListRootsStep ==
  ASSUME IInv, NEW h \in Handler, ListRoots(h)
  PROVE  IInv'
<1> DEFINE pending == {n \in Name : root[thread[h].id][n] = "PENDING"}
           l == [thread[h] EXCEPT !.at = "activate", !.todo = pending]
<1>1. /\ thread[h] \in Local /\ thread[h].key \in UsableKeys /\ thread[h].tasks \in Valid
      /\ thread[h].id \in Mission /\ idem[thread[h].key] = thread[h].id
      /\ thread[h].id # None /\ Exists(thread[h].id)
  BY CallFacts, Requests DEF ListRoots
<1>2. /\ l \in Local /\ l.at = "activate" /\ l.key = thread[h].key
      /\ l.tasks = thread[h].tasks /\ l.id = thread[h].id /\ l.todo = pending
  BY <1>1 DEF Local
<1>3. Sound(l)
  BY <1>1, <1>2 DEF Sound
<1>4. Become(h, l) /\ UNCHANGED <<idem, mission, root, told, crashes>>
  BY DEF ListRoots
<1> HIDE DEF l
<1> QED BY <1>2, <1>3, <1>4, Quiet

-----------------------------------------------------------------------------
(* Steps of roots.                                                         *)

\* A root moves on, and never to PENDING.
Forward(m, n) ==
  /\ root[m][n] \in {"PENDING", "READY"}
  /\ root' = [root EXCEPT ![m][n] = "READY"] \/ root' = [root EXCEPT ![m][n] = "beyond"]

\* Its effect on every root.
LEMMA ForwardEffect ==
  ASSUME IInv, NEW m \in Mission, NEW n \in Name, Forward(m, n), UNCHANGED <<idem, mission>>
  PROVE  /\ root' \in [Mission -> [Name -> {"none", "PENDING", "READY", "beyond"}]]
         /\ root'[m][n] \in {"READY", "beyond"}
         /\ \A i \in Mission, j \in Name : i # m \/ j # n => root'[i][j] = root[i][j]
         /\ \A i \in Mission, j \in Name : root'[i][j] # "none" <=> j \in Roots(mission'[i])
         /\ Grows
<1>1. /\ root \in [Mission -> [Name -> {"none", "PENDING", "READY", "beyond"}]]
      /\ \A i \in Mission, j \in Name : root[i][j] # "none" <=> j \in Roots(mission[i])
  BY DEF IInv, TypeOK
<1>2. /\ root' \in [Mission -> [Name -> {"none", "PENDING", "READY", "beyond"}]]
      /\ root'[m][n] \in {"READY", "beyond"}
      /\ \A i \in Mission, j \in Name : i # m \/ j # n => root'[i][j] = root[i][j]
  <2>1. CASE root' = [root EXCEPT ![m][n] = "READY"]
    BY <2>1, <1>1
  <2>2. CASE root' = [root EXCEPT ![m][n] = "beyond"]
    BY <2>2, <1>1
  <2> QED BY <2>1, <2>2 DEF Forward
<1>3. \A i \in Mission, j \in Name :
        /\ root'[i][j] # "none" <=> root[i][j] # "none"
        /\ root'[i][j] = "PENDING" => root[i][j] = "PENDING"
  BY <1>2 DEF Forward
<1>4. Grows
  BY <1>3 DEF Grows
<1> QED BY <1>1, <1>2, <1>3, <1>4

LEMMA ActivateStep ==
  ASSUME IInv, NEW h \in Handler, NEW n \in Name, Activate(h, n)
  PROVE  IInv'
<1> DEFINE m == thread[h].id
<1>1. /\ thread[h] \in Local /\ thread[h].key \in UsableKeys /\ thread[h].tasks \in Valid
      /\ m \in Mission /\ idem[thread[h].key] = m /\ m # None /\ Exists(m)
      /\ \A j \in Name : root[m][j] = "PENDING" => j \in thread[h].todo
      /\ UNCHANGED <<idem, mission, told, crashes>>
  BY CallFacts, Requests DEF Activate, IInv, Calls, Sound
<1>2. PICK l \in Local :
        /\ l = [thread[h] EXCEPT !.todo = @ \ {n}]
        /\ l.at = "activate" /\ l.key = thread[h].key /\ l.tasks = thread[h].tasks
        /\ l.id = m /\ l.todo = thread[h].todo \ {n}
  <2> DEFINE e == [thread[h] EXCEPT !.todo = @ \ {n}]
  <2>1. thread[h].at = "activate"
    BY DEF Activate
  <2>2. /\ e \in Local
        /\ e.at = "activate" /\ e.key = thread[h].key /\ e.tasks = thread[h].tasks
        /\ e.id = m /\ e.todo = thread[h].todo \ {n}
    BY <1>1, <2>1 DEF Local
  <2> QED BY <2>2
<1>3. /\ root' \in [Mission -> [Name -> {"none", "PENDING", "READY", "beyond"}]]
      /\ root'[m][n] # "PENDING"
      /\ \A j \in Name : j # n => root'[m][j] = root[m][j]
      /\ \A i \in Mission, j \in Name : root'[i][j] # "none" <=> j \in Roots(mission'[i])
      /\ Grows
  <2>1. CASE root[m][n] = "PENDING"
    <3>1. Forward(m, n)
      BY <2>1 DEF Activate, Forward
    <3> QED BY <3>1, <1>1, ForwardEffect
  <2>2. CASE root[m][n] # "PENDING"
    <3>1. root' = root
      BY <2>2 DEF Activate
    <3> QED BY <3>1, <2>2, <1>1 DEF IInv, TypeOK, Grows
  <2> QED BY <2>1, <2>2
<1>4. Sound(l)'
  <2>1. \A j \in Name : root'[m][j] = "PENDING" => j \in l.todo
    BY <1>1, <1>2, <1>3
  <2> QED BY <2>1, <1>1, <1>2 DEF Sound, Exists
<1>5. thread' \in [Handler -> Local] /\ Calls'
  <2>1. Become(h, l)
    BY <1>2 DEF Activate
  <2> QED BY <2>1, <1>2, <1>3, <1>4, CallsPersist
<1>6. TypeOK'
  BY <1>1, <1>3, <1>5 DEF IInv, TypeOK
<1>7. Reserved'
  BY <1>1 DEF IInv, Reserved, Exists
<1>8. Told'
  BY <1>1, <1>3, Persist DEF Told
<1> QED BY <1>5, <1>6, <1>7, <1>8 DEF IInv

\* The roots of the mission have been seen to: the caller may be told.
LEMMA AnswerStep ==
  ASSUME IInv, NEW h \in Handler, Answer(h)
  PROVE  IInv'
<1> DEFINE m == thread[h].id
           k == thread[h].key
<1>1. /\ thread[h] \in Local /\ k \in Key /\ m \in Mission /\ idem[k] = m /\ Exists(m)
      /\ UnderWay(m)
      /\ UNCHANGED <<idem, mission, root, crashes>>
  BY CallFacts DEF Answer, IInv, Calls, Sound, UnderWay
<1>2. Grows
  BY <1>1 DEF Grows
<1>3. PICK l \in Local : l = Idle /\ Sound(l)'
  <2>1. Idle \in Local /\ Idle.at = "idle"
    BY DEF Idle, Local
  <2> QED BY <2>1 DEF Sound
<1>4. thread' \in [Handler -> Local] /\ Calls'
  BY <1>2, <1>3, CallsPersist DEF Answer
<1>5. /\ told' \in [Key -> SUBSET Mission]
      /\ \A j \in Key : told'[j] = IF j = k THEN told[k] \cup {m} ELSE told[j]
  BY <1>1 DEF Answer, IInv, TypeOK
<1>6. TypeOK'
  BY <1>1, <1>4, <1>5 DEF IInv, TypeOK
<1>7. Reserved'
  BY <1>1 DEF IInv, Reserved, Exists
<1>8. Told'
  BY <1>1, <1>5 DEF IInv, Told, Exists, UnderWay
<1> QED BY <1>4, <1>6, <1>7, <1>8 DEF IInv

LEMMA RootStep ==
  ASSUME IInv, NEW m \in Mission, NEW n \in Name, Leave(m, n) \/ ReconcilePendingRoots(m, n)
  PROVE  IInv'
<1>1. Forward(m, n) /\ UNCHANGED <<idem, mission, thread, told, crashes>>
  BY DEF Leave, ReconcilePendingRoots, Forward
<1>2. /\ root' \in [Mission -> [Name -> {"none", "PENDING", "READY", "beyond"}]]
      /\ \A i \in Mission, j \in Name : root'[i][j] # "none" <=> j \in Roots(mission'[i])
      /\ Grows
  BY <1>1, ForwardEffect
<1>3. TypeOK'
  BY <1>1, <1>2 DEF IInv, TypeOK
<1>4. Reserved'
  BY <1>1 DEF IInv, Reserved, Exists
<1>5. Told'
  BY <1>1, <1>2, Persist DEF Told
<1>6. ASSUME NEW h \in Handler PROVE Sound(thread[h])'
  <2>1. PICK l \in Local : l = thread[h] /\ Sound(l)
    BY DEF IInv, TypeOK, Calls
  <2>2. Sound(l)'
    BY <2>1, <1>2, Persist
  <2> QED BY <1>1, <2>1, <2>2 DEF Sound
<1> QED BY <1>3, <1>4, <1>5, <1>6 DEF IInv, Calls

LEMMA CrashStep ==
  ASSUME IInv, Crash
  PROVE  IInv'
<1>1. Idle \in Local
  BY DEF Idle, Local
<1>2. TypeOK'
  BY <1>1, IntentBounds DEF IInv, TypeOK, Crash
<1>3. Calls'
  BY DEF Crash, Calls, Sound, Idle
<1>4. Reserved' /\ Told'
  BY DEF IInv, Crash, Reserved, Told, Exists, UnderWay
<1> QED BY <1>2, <1>3, <1>4 DEF IInv

LEMMA Inductive == IInv /\ [Next]_vars => IInv'
<1> SUFFICES ASSUME IInv, [Next]_vars PROVE IInv'
  OBVIOUS
<1>1. ASSUME NEW h \in Handler, Step(h) PROVE IInv'
  BY <1>1, PutIdempotentStep, CreateMissionStep, LookUpStep, CreateAgainStep, LookAgainStep,
     ListRootsStep, ActivateStep, AnswerStep DEF Step
<1>2. ASSUME UNCHANGED vars PROVE IInv'
  <2>1. TypeOK' /\ Reserved'
    BY <1>2 DEF vars, IInv, TypeOK, Reserved, Exists
  <2>2. Calls'
    BY <1>2 DEF vars, IInv, Calls, Sound, Exists
  <2>3. Told'
    BY <1>2 DEF vars, IInv, Told, Exists, UnderWay
  <2> QED BY <2>1, <2>2, <2>3 DEF IInv
<1> QED BY <1>1, <1>2, SubmitStep, RootStep, CrashStep DEF Next

\* What TypeOK says of every variable, and of the roots of every mission.
THEOREM TypeCorrect == Spec => []TypeOK
<1>1. IInv => TypeOK
  BY DEF IInv
<1> QED BY <1>1, Initially, Inductive, PTL DEF Spec

\* Whoever was answered has a mission that is under way: activateMissionRoots leaves no
\* root PENDING before the answer, whoever created the mission, and none goes back.
THEOREM AnsweredMissionIsUnderWay == Spec => []AnsweredIsUnderWay
<1>1. IInv => AnsweredIsUnderWay
  BY DEF IInv, Told, UnderWay, AnsweredIsUnderWay
<1> QED BY <1>1, Initially, Inductive, PTL DEF Spec

\* No mission has tasks that wait for each other in a circle: validateDAG stands before
\* every way to create one.
THEOREM EveryMissionCanFinish == Spec => []MissionsCanFinish
<1>1. ASSUME IInv PROVE MissionsCanFinish
  <2> SUFFICES ASSUME NEW m \in Mission, NEW S \in SUBSET Declared(mission[m]), S # {}
               PROVE  \E i \in DOMAIN mission[m] :
                        mission[m][i].name \in S /\ mission[m][i].deps \cap S = {}
    BY DEF MissionsCanFinish
  <2>1. CASE Exists(m)
    <3>1. mission[m] \in TaskList /\ ValidDAG(mission[m])
      BY <1>1, <2>1, Requests DEF IInv, Reserved, Valid
    <3> QED BY <3>1, ValidatedGraphIsAcyclic
  <2>2. CASE ~ Exists(m)
    BY <2>2 DEF Exists, Declared
  <2> QED BY <2>1, <2>2
<1> QED BY <1>1, Initially, Inductive, PTL DEF Spec

-----------------------------------------------------------------------------
(* The promise.  made stands for the id of a key once its mission is there. *)

Made == [k \in Key |-> IF idem[k] # None /\ mission[idem[k]] # <<>> THEN idem[k] ELSE None]

\* A step that keeps reservations and missions, and creates none, is a stutter.
LEMMA StutterMade ==
  ASSUME IInv, UNCHANGED mission,
         \A k \in Key : idem'[k] # idem[k] => idem[k] = None /\ ~ Exists(idem'[k])
  PROVE  Made' = Made
<1> DEFINE M(k) == IF idem[k] # None /\ mission[idem[k]] # <<>> THEN idem[k] ELSE None
<1>1. \A k \in Key : M(k)' = M(k)
  BY DEF Exists
<1> QED BY <1>1, Zenon DEF Made

\* The creation of a mission keeps the promise: its key is of use and had none, and its
\* id belongs to no other key.
LEMMA InsertKeepsPromise ==
  ASSUME IInv, NEW h \in Handler, thread[h].at \in {"create", "createAgain"},
         ~ Exists(thread[h].id), Insert(thread[h].id, thread[h].tasks),
         UNCHANGED <<idem, told>>
  PROVE  \E k \in Key : Promise!Make(k)
<1> DEFINE m == thread[h].id
           k == thread[h].key
<1>1. /\ k \in Key /\ k \in UsableKeys /\ m \in Mission /\ idem[k] = m /\ m # None
      /\ thread[h].tasks # <<>> /\ None \notin Mission
  BY CallFacts, Requests
<1>2. mission'[m] = thread[h].tasks /\ \A n \in Mission \ {m} : mission'[n] = mission[n]
  BY <1>1 DEF IInv, TypeOK, Insert
<1>3. \A j \in Key \ {k} : idem[j] # m
  BY <1>1 DEF IInv, Reserved
<1>4. \A j \in Key : idem[j] \in Mission \cup {None}
  BY DEF IInv, TypeOK
<1>5. Made[k] = None /\ \A j \in Key : Made[j] # m
  BY <1>1, <1>3 DEF Made, Exists
<1>6. Made' = [Made EXCEPT ![k] = m]
  <2> DEFINE M(j) == IF idem[j] # None /\ mission[idem[j]] # <<>> THEN idem[j] ELSE None
  <2>1. \A j \in Key : M(j)' = IF j = k THEN m ELSE M(j)
    BY <1>1, <1>2, <1>3, <1>4
  <2>2. Made' = [j \in Key |-> IF j = k THEN m ELSE M(j)]
    BY <2>1, Zenon DEF Made
  <2> QED BY <2>2, <1>1 DEF Made
<1> QED BY <1>1, <1>5, <1>6 DEF Promise!Make, Made, UsableKeys

\* An answer names the mission that was made under its key.
LEMMA AnswerKeepsPromise ==
  ASSUME IInv, NEW h \in Handler, Answer(h)
  PROVE  \E k \in Key : Promise!Answer(k)
<1> DEFINE k == thread[h].key
<1>1. /\ k \in Key /\ thread[h].id \in Mission /\ idem[k] = thread[h].id
      /\ Exists(thread[h].id) /\ None \notin Mission
  BY CallFacts, Requests DEF Answer
<1>2. Made[k] = thread[h].id /\ thread[h].id # None
  BY <1>1 DEF Made, Exists
<1>3. Made' = Made
  BY StutterMade DEF Answer
<1> QED BY <1>1, <1>2, <1>3 DEF Answer, Promise!Answer, Made

LEMMA StepKeepsPromise ==
  ASSUME IInv, [Next]_vars
  PROVE  [Promise!Next]_<<Made, told>>
<1>1. ASSUME NEW h \in Handler, Step(h) PROVE [Promise!Next]_<<Made, told>>
  <2>1. CASE PutIdempotent(h)
    <3>1. thread[h].key \in Key /\ UNCHANGED <<mission, told>>
      BY <2>1, CallFacts DEF PutIdempotent
    <3>2. CASE idem[thread[h].key] = None
      <4>1. PICK m \in Mission : idem' = [idem EXCEPT ![thread[h].key] = m]
        BY <2>1, <3>2 DEF PutIdempotent
      <4>2. idem'[thread[h].key] = m /\ ~ Exists(m)
            /\ \A j \in Key \ {thread[h].key} : idem'[j] = idem[j]
        BY <4>1, <3>1, <3>2, <2>1, ReserveStep DEF IInv, TypeOK
      <4> QED BY <4>2, <3>1, <3>2, StutterMade
    <3>3. CASE idem[thread[h].key] # None
      BY <2>1, <3>1, <3>3, StutterMade DEF PutIdempotent
    <3> QED BY <3>2, <3>3
  <2>2. CASE CreateMission(h) \/ CreateAgain(h)
    <3>1. CASE Exists(thread[h].id)
      BY <2>2, <3>1, StutterMade DEF CreateMission, CreateAgain
    <3>2. CASE ~ Exists(thread[h].id)
      BY <2>2, <3>2, InsertKeepsPromise DEF CreateMission, CreateAgain, Promise!Next
    <3> QED BY <3>1, <3>2
  <2>3. CASE LookUp(h) \/ LookAgain(h) \/ ListRoots(h) \/ \E n \in Name : Activate(h, n)
    <3>1. UNCHANGED <<idem, mission, told>>
      BY <2>3 DEF LookUp, LookAgain, ListRoots, Activate
    <3> QED BY <3>1, StutterMade
  <2>4. CASE Answer(h)
    BY <2>4, AnswerKeepsPromise DEF Promise!Next
  <2> QED BY <1>1, <2>1, <2>2, <2>3, <2>4 DEF Step
<1>2. CASE UNCHANGED <<idem, mission, told>>
  BY <1>2, StutterMade
<1>3. ASSUME Crash \/ UNCHANGED vars
             \/ (\E h \in Handler, r \in Request : Submit(h, r))
             \/ (\E m \in Mission, n \in Name : Leave(m, n) \/ ReconcilePendingRoots(m, n))
      PROVE  UNCHANGED <<idem, mission, told>>
  BY <1>3 DEF Crash, Submit, Leave, ReconcilePendingRoots, vars
<1> QED BY <1>1, <1>2, <1>3 DEF Next

\* The calls together keep the promise of OncePerKey: repeated, concurrent and
\* interrupted calls with one key make one mission, and every answer names it.
THEOREM PromiseIsKept == Spec => KeepsPromise
<1>1. ASSUME Init PROVE Promise!Init
  BY <1>1 DEF Init, Promise!Init
<1>2. ASSUME IInv, [Next]_vars PROVE [Promise!Next]_<<Made, told>>
  BY <1>2, StepKeepsPromise
<1> QED BY <1>1, <1>2, Initially, Inductive, PTL
        DEF Spec, KeepsPromise, Promise!Spec, Made

-----------------------------------------------------------------------------
(* Reputation: the invariant.                                              *)

\* The signals a call has left, or has inserted, are about one artifact, whose skills
\* they cover with what is stored; or they have happened.
Work(l) ==
  /\ l.doing = "idle" => l = NoCall
  /\ l.doing = "each" => \A x \in l.todo \cup l.mine : x.kind # "quality" /\ Happened(x)
  /\ l.doing = "quality" =>
       /\ l.of \in Artifact
       /\ \A x \in l.todo \cup l.mine : x.kind = "quality" /\ x.of = l.of
       /\ \A k \in Needs[Producer[l.of]] : \E x \in signals \cup l.todo \cup l.mine :
            x.kind = "quality" /\ x.of = l.of /\ x.skill = k

\* A task is retried that has failed and has an attempt left.
Retries(l) == l.doing = "each" /\ l.of # NoOne
Owes(l) == Retries(l) => l.of \in Task /\ state[l.of] = "FAILED" /\ attempt[l.of] < MaxAttempts

\* A call that has nothing left is over.
Busy(l) == ~(l.doing = "each" /\ l.todo = {} /\ l.mine = {} /\ l.of = NoOne)

\* A transaction adds one signal to a row, new to the store.  What it read of a row it has
\* locked is still there; a row it has not locked did not exist.
Locks(l) ==
  /\ IsFiniteSet(l.mine) /\ l.mine \cap signals = {}
  /\ \A x, y \in l.mine : x.skill = y.skill => x = y
  /\ l.locked \subseteq rows /\ \A k \in l.locked : l.seen[k] = samples[k]
  /\ \A x \in l.mine : x.skill \notin l.locked => x.skill \notin Known /\ l.seen[x.skill] = 0

Threads == \A h \in Process : /\ Work(call[h]) /\ Owes(call[h])
                              /\ Busy(call[h]) /\ Locks(call[h])

\* Two calls never retry one task, insert one signal or lock one row.
Apart(l, m) ==
  /\ Retries(l) /\ Retries(m) => l.of # m.of
  /\ l.mine \cap m.mine = {} /\ l.locked \cap m.locked = {}
AllApart == \A g, h \in Process : g # h => Apart(call[g], call[h])

Stored == /\ Known \subseteq rows /\ IsFiniteSet(signals)
          /\ RowsAreWhole /\ SignalsAreTrue

RepInv == RepTypeOK /\ Stored /\ Threads /\ AllApart

LEMMA NoCallIs ==
  /\ NoCall \in CallState /\ NoCall.doing = "idle" /\ NoCall.of = NoOne
  /\ NoCall.todo = {} /\ NoCall.mine = {} /\ NoCall.locked = {}
  BY DEF NoCall, CallState

\* A call with no open transaction holds nothing.
LEMMA NothingHeld ==
  ASSUME NEW l \in CallState, l.mine = {}, l.locked = {}
  PROVE  Locks(l) /\ Locks(l)'
  BY FS_EmptySet DEF Locks

LEMMA NoCallIsSound ==
  /\ Work(NoCall) /\ Owes(NoCall) /\ Busy(NoCall) /\ Locks(NoCall)
  /\ Work(NoCall)' /\ Owes(NoCall)' /\ Locks(NoCall)'
  /\ \A l \in CallState : Apart(NoCall, l) /\ Apart(l, NoCall)
<1>1. Locks(NoCall) /\ Locks(NoCall)'
  BY NoCallIs, NothingHeld
<1> QED BY <1>1, NoCallIs DEF Work, Owes, Busy, Apart, Retries, CallState

LEMMA RepBegins == RepInit => RepInv
<1> SUFFICES ASSUME RepInit PROVE RepInv
  OBVIOUS
<1>1. call \in [Process -> CallState] /\ \A h \in Process : call[h] = NoCall
  BY NoCallIs DEF RepInit
<1>2. RepTypeOK
  BY <1>1, ReputationConstants DEF RepInit, RepTypeOK
<1>3. Threads /\ AllApart
  BY <1>1, NoCallIs, NoCallIsSound DEF Threads, AllApart
<1>4. \A k \in Skill : Count(k) = 0
  <2>1. \A k \in Skill : {x \in signals : x.skill = k} = {}
    BY DEF RepInit
  <2> QED BY <2>1, FS_EmptySet DEF Count
<1>5. Stored
  <2>1. RowsAreWhole
    BY <1>4 DEF RepInit, RowsAreWhole
  <2>2. SignalsAreTrue
    BY DEF RepInit, SignalsAreTrue
  <2> QED BY <2>1, <2>2, FS_EmptySet DEF Stored, RepInit
<1> QED BY <1>2, <1>3, <1>5 DEF RepInv

-----------------------------------------------------------------------------
(* What the others do leaves standing what a call knows.                   *)

\* Every step: what happened stays so, and no signal is lost.
Progress ==
  /\ signals \subseteq signals' /\ records \subseteq records'
  /\ \A p \in Appeal : appeal[p] = "overturned" => appeal'[p] = "overturned"
  /\ \A t \in Task :
       /\ attempt'[t] \in Nat /\ attempt'[t] >= attempt[t]
       /\ state[t] = "SUCCEEDED" => state'[t] = "SUCCEEDED" /\ attempt'[t] = attempt[t]
       /\ state[t] = "FAILED" /\ attempt'[t] = attempt[t] => state'[t] = "FAILED"

LEMMA SignalFacts ==
  ASSUME NEW x \in Signal
  PROVE  /\ x.skill \in Skill /\ x.kind \in {"outcome", "quality", "appeal"}
         /\ x.kind = "outcome" => x.of \in Task /\ x.attempt \in 0..MaxAttempts /\ x.ok \in BOOLEAN
         /\ x.kind # "outcome" => x.attempt = 0 /\ x.ok = TRUE
         /\ x.kind = "quality" => x.of \in Artifact
         /\ x.kind = "appeal" => x.of \in Appeal
<1>1. CASE x \in [kind : {"outcome"}, of : Task, attempt : 0..MaxAttempts, ok : BOOLEAN,
               skill : Skill]
  BY <1>1
<1>2. CASE x \in [kind : {"quality"}, of : Artifact, attempt : {0}, ok : {TRUE}, skill : Skill]
  BY <1>2
<1>3. CASE x \in [kind : {"appeal"}, of : Appeal, attempt : {0}, ok : {TRUE}, skill : Skill]
  BY <1>3
<1> QED BY <1>1, <1>2, <1>3 DEF Signal

LEMMA HappenedStays ==
  ASSUME RepTypeOK, Progress, NEW x \in Signal, Happened(x)
  PROVE  Happened(x)'
<1>1. \A t \in Task : attempt[t] \in Nat
  BY ReputationConstants DEF RepTypeOK
<1>2. x.kind = "quality" => x.of \in records'
  BY DEF Happened, Progress
<1>3. x.kind = "appeal" => appeal'[x.of] = "overturned"
  BY SignalFacts DEF Happened, Progress
<1>4. CASE x.kind = "outcome"
  <2>0. MaxAttempts \in Nat
    BY ReputationConstants
  <2>a. x.of \in Task /\ x.attempt \in 0..MaxAttempts
    BY <1>4, SignalFacts
  <2>1. x.of \in Task /\ x.attempt \in Nat
    BY <2>0, <2>a
  <2>2. CASE x.ok
    BY <1>4, <2>1, <2>2 DEF Happened, Progress
  <2>3. CASE ~x.ok
    <3>1. attempt[x.of] > x.attempt \/ (attempt[x.of] = x.attempt /\ state[x.of] = "FAILED")
      BY <1>4, <2>3 DEF Happened
    <3>2. attempt'[x.of] > x.attempt \/ (attempt'[x.of] = x.attempt /\ state'[x.of] = "FAILED")
      BY <1>1, <2>1, <3>1 DEF Progress
    <3> QED BY <1>4, <2>3, <3>2 DEF Happened
  <2> QED BY <2>2, <2>3
<1>5. CASE x.kind # "outcome"
  BY <1>2, <1>3, <1>5 DEF Happened
<1> QED BY <1>4, <1>5

LEMMA WorkStays ==
  ASSUME RepTypeOK, Progress, NEW l \in CallState, Work(l)
  PROVE  Work(l)'
<1>1. \A x \in l.todo \cup l.mine : x \in Signal
  BY DEF CallState
<1>2. l.doing = "each" => \A x \in l.todo \cup l.mine : x.kind # "quality" /\ Happened(x)'
  BY <1>1, HappenedStays DEF Work
<1>3. signals \subseteq signals'
  BY DEF Progress
<1>4. l.doing = "quality" =>
        \A k \in Needs[Producer[l.of]] : \E x \in signals' \cup l.todo \cup l.mine :
            x.kind = "quality" /\ x.of = l.of /\ x.skill = k
  BY <1>3 DEF Work
<1> QED BY <1>2, <1>4 DEF Work

\* Signals and rows are as they were.
LEMMA LocksStay ==
  ASSUME NEW l, Locks(l), UNCHANGED <<signals, rows, samples>>
  PROVE  Locks(l)'
  BY DEF Locks

\* What call h changes into.
LEMMA ChangeIs ==
  ASSUME call \in [Process -> CallState],
         NEW h \in Process, NEW l \in CallState, Change(h, l)
  PROVE  /\ call' \in [Process -> CallState]
         /\ \A g \in Process \ {h} : call'[g] = call[g]
         /\ (call'[h] = l /\ Busy(l)) \/ call'[h] = NoCall
  BY NoCallIs DEF Change, Busy

\* m is what another call than h is doing.
Other(h, m) == \E g \in Process \ {h} : m = call[g]

\* A call that changes into something sound, apart from the others.
LEMMA CallChanges ==
  ASSUME RepInv, Progress,
         NEW h \in Process, NEW l \in CallState, Change(h, l),
         Work(l)', Owes(l)', Locks(l)',
         \A m \in CallState : Other(h, m) => Owes(m)' /\ Locks(m)' /\ Apart(l, m)
  PROVE  Threads' /\ AllApart' /\ call' \in [Process -> CallState]
<1>1. /\ call' \in [Process -> CallState]
      /\ \A g \in Process \ {h} : call'[g] = call[g]
      /\ (call'[h] = l /\ Busy(l)) \/ call'[h] = NoCall
  BY ChangeIs DEF RepInv, RepTypeOK
<1>2. ASSUME NEW g \in Process
      PROVE  \A m \in CallState : m = call'[g] => Work(m)' /\ Owes(m)' /\ Busy(m) /\ Locks(m)'
  <2>1. CASE g = h
    <3>1. call'[g] \in {l, NoCall} /\ Busy(call'[g])
      BY <1>1, <2>1, NoCallIsSound
    <3> QED BY <3>1, NoCallIsSound
  <2>2. CASE g # h
    <3> SUFFICES ASSUME NEW m \in CallState, m = call[g]
                 PROVE  Work(m)' /\ Owes(m)' /\ Busy(m) /\ Locks(m)'
      BY <1>1, <2>2
    <3>1. Other(h, m)
      BY <2>2 DEF Other
    <3>2. Work(m) /\ Busy(m)
      BY DEF RepInv, Threads
    <3>3. Work(m)'
      BY <3>2, WorkStays DEF RepInv
    <3> QED BY <3>1, <3>2, <3>3
  <2> QED BY <2>1, <2>2
<1>3. Threads'
  <2> SUFFICES ASSUME NEW g \in Process
               PROVE  (Work(call[g]) /\ Owes(call[g]) /\ Busy(call[g]) /\ Locks(call[g]))'
    BY DEF Threads
  <2>1. PICK m \in CallState : m = call'[g]
    BY <1>1
  <2>2. Work(m)' /\ Owes(m)' /\ Busy(m) /\ Locks(m)'
    BY <1>2, <2>1
  <2>3. Work(call[g])'
    BY <2>1, <2>2 DEF Work
  <2>4. Owes(call[g])' /\ Busy(call[g])'
    BY <2>1, <2>2 DEF Owes, Retries, Busy
  <2>5. Locks(call[g])'
    BY <2>1, <2>2 DEF Locks
  <2> QED BY <2>3, <2>4, <2>5
<1>4. ASSUME NEW f \in Process, NEW g \in Process, f # g PROVE Apart(call'[f], call'[g])
  <2>1. \A m \in CallState : Apart(l, m) => Apart(m, l)
    BY DEF Apart
  <2>2. call[f] \in CallState /\ call[g] \in CallState
    BY DEF RepInv, RepTypeOK
  <2>3. CASE f = h
    <3>1. Apart(l, call[g])
      BY <1>4, <2>2, <2>3 DEF Other
    <3> QED BY <1>1, <1>4, <2>2, <2>3, <3>1, NoCallIsSound
  <2>4. CASE g = h
    <3>1. Apart(call[f], l)
      BY <1>4, <2>1, <2>2, <2>4 DEF Other
    <3> QED BY <1>1, <1>4, <2>2, <2>4, <3>1, NoCallIsSound
  <2>5. CASE f # h /\ g # h
    BY <1>1, <1>4, <2>5 DEF RepInv, AllApart
  <2> QED BY <2>3, <2>4, <2>5
<1>5. AllApart'
  <2> SUFFICES ASSUME NEW f \in Process, NEW g \in Process, f # g
               PROVE  Apart(call[f], call[g])'
    BY DEF AllApart
  <2> QED BY <1>4 DEF Apart, Retries
<1> QED BY <1>1, <1>3, <1>5

LEMMA StoredStays ==
  ASSUME RepInv, Progress, UNCHANGED table
  PROVE  Stored'
<1>1. Known \subseteq rows' /\ IsFiniteSet(signals')
  BY DEF RepInv, Stored, table
<1>2. RowsAreWhole'
  <2>1. RowsAreWhole
    BY DEF RepInv, Stored
  <2> QED BY <2>1 DEF RowsAreWhole, Count, table
<1>3. SignalsAreTrue'
  <2>1. \A x \in signals : x \in Signal /\ Happened(x)
    BY DEF RepInv, Stored, SignalsAreTrue, RepTypeOK
  <2>2. \A x \in signals' : Happened(x)'
    BY <2>1, HappenedStays DEF RepInv, table
  <2>3. SignalsAreTrue
    BY DEF RepInv, Stored
  <2> QED BY <2>2, <2>3 DEF SignalsAreTrue, table
<1> QED BY <1>1, <1>2, <1>3 DEF Stored

LEMMA NoProgress ==
  ASSUME RepInv, UNCHANGED <<state, attempt, signals, records, appeal>>
  PROVE  Progress
  BY ReputationConstants DEF RepInv, RepTypeOK, Progress

\* Another call, as the invariant has it.
LEMMA OtherFacts ==
  ASSUME RepInv, NEW h \in Process, NEW m \in CallState, Other(h, m)
  PROVE  /\ Work(m) /\ Owes(m) /\ Busy(m) /\ Locks(m)
         /\ Apart(call[h], m)
<1>1. PICK g \in Process \ {h} : m = call[g]
  BY DEF Other
<1> QED BY <1>1 DEF RepInv, Threads, AllApart

\* A call changes, and nothing in the store.
LEMMA QuietStep ==
  ASSUME RepInv, NEW h \in Process, NEW l \in CallState, Change(h, l),
         UNCHANGED <<state, attempt, table, appeal>>, faults' \in 0..MaxFault,
         Work(l), Owes(l), Locks(l), \A m \in CallState : Other(h, m) => Apart(l, m)
  PROVE  RepInv'
<1>1. UNCHANGED <<state, attempt, signals, rows, samples, records, appeal>>
  BY DEF table
<1>2. Progress
  BY <1>1, NoProgress
<1>3. \A m \in CallState : Owes(m) => Owes(m)'
  BY <1>1 DEF Owes, Retries
<1>4. \A m \in CallState : Locks(m) => Locks(m)'
  BY <1>1, LocksStay
<1>5. Work(l)'
  BY <1>2, WorkStays DEF RepInv
<1>6. Threads' /\ AllApart' /\ call' \in [Process -> CallState]
  <2>1. \A m \in CallState : Other(h, m) => Owes(m)' /\ Locks(m)' /\ Apart(l, m)
    BY <1>3, <1>4, OtherFacts
  <2> QED BY <1>2, <1>3, <1>4, <1>5, <2>1, CallChanges
<1>7. RepTypeOK'
  BY <1>1, <1>6 DEF RepInv, RepTypeOK
<1> QED BY <1>2, <1>6, <1>7, StoredStays DEF RepInv

\* A call that begins holds nothing, and is apart from the others if it will retry
\* no task that another does.
LEMMA Fresh ==
  ASSUME NEW l \in CallState, NEW m \in CallState, l.mine = {}, l.locked = {},
         Retries(l) /\ Retries(m) => l.of # m.of
  PROVE  Apart(l, m)
  BY DEF Apart

LEMMA SignalsAre ==
  ASSUME RepTypeOK, NEW kind, NEW of, NEW t \in Task, NEW n, NEW ok,
         \A k \in Skill :
           [kind |-> kind, of |-> of, attempt |-> n, ok |-> ok, skill |-> k] \in Signal
  PROVE  /\ Signals(kind, of, t, n, ok) \subseteq Signal
         /\ \A x \in Signals(kind, of, t, n, ok) :
              x.kind = kind /\ x.of = of /\ x.attempt = n /\ x.ok = ok
         /\ \A k \in Needs[t] : \E x \in signals \cup Signals(kind, of, t, n, ok) :
              x.kind = kind /\ x.of = of /\ x.skill = k
<1>1. Needs[t] \subseteq Skill
  BY ReputationConstants
<1> DEFINE Make(k) == [kind |-> kind, of |-> of, attempt |-> n, ok |-> ok, skill |-> k]
<1>2. Signals(kind, of, t, n, ok) = {Make(k) : k \in Needs[t]} \ signals
  BY DEF Signals
<1>3. ASSUME NEW k \in Needs[t]
      PROVE  \E x \in signals \cup Signals(kind, of, t, n, ok) :
               x.kind = kind /\ x.of = of /\ x.skill = k
  <2>1. Make(k) \in signals \cup Signals(kind, of, t, n, ok)
    BY <1>2
  <2>2. Make(k).kind = kind /\ Make(k).of = of /\ Make(k).skill = k
    OBVIOUS
  <2> HIDE DEF Make
  <2> QED BY <2>1, <2>2
<1> QED BY <1>1, <1>2, <1>3

\* The outcome of a task that has ended.
LEMMA OutcomeIs ==
  ASSUME RepTypeOK, NEW t \in Task, NEW ok \in BOOLEAN, NEW then \in {t, NoOne}
  PROVE  LET l == RecordOutcome(t, ok, then)
         IN  /\ l \in CallState /\ l.doing = "each" /\ l.of = then /\ l.mine = {} /\ l.locked = {}
             /\ l.todo \subseteq Signal
             /\ \A x \in l.todo : /\ x.kind = "outcome" /\ x.of = t
                                  /\ x.attempt = attempt[t] /\ x.ok = ok
<1>1. \A k \in Skill :
        [kind |-> "outcome", of |-> t, attempt |-> attempt[t], ok |-> ok, skill |-> k]
          \in Signal
  BY DEF Signal, RepTypeOK
<1>2. /\ Signals("outcome", t, t, attempt[t], ok) \subseteq Signal
      /\ \A x \in Signals("outcome", t, t, attempt[t], ok) :
           x.kind = "outcome" /\ x.of = t /\ x.attempt = attempt[t] /\ x.ok = ok
  BY <1>1, SignalsAre
<1> QED BY <1>2, NoCallIs DEF RecordOutcome, CallState, NoCall

-----------------------------------------------------------------------------
(* Calls.                                                                  *)

\* A task ends, and nobody was about to retry it.
LEMMA EndTaskStep ==
  ASSUME RepInv, NEW h \in Caller, NEW t \in Task, NEW ok \in BOOLEAN,
         EndTask(h, t, ok)
  PROVE  RepInv'
<1>a. RetryOf(t, ok) \in {t, NoOne}
  BY DEF RetryOf
<1>b. RecordOutcome(t, ok, RetryOf(t, ok)) \in CallState
  BY <1>a, OutcomeIs DEF RepInv
<1>c. PICK l \in CallState : l = RecordOutcome(t, ok, RetryOf(t, ok))
  BY <1>b
<1>0. h \in Process /\ UNCHANGED <<attempt, table, appeal, faults>> /\ Change(h, l)
  BY <1>c DEF EndTask, Process
<1>1. state' = [state EXCEPT ![t] = IF ok THEN "SUCCEEDED" ELSE "FAILED"] /\ state[t] = "RUNNING"
  BY DEF EndTask
<1>2. /\ state \in [Task -> {"RUNNING", "SUCCEEDED", "FAILED"}]
      /\ attempt \in [Task -> 0..MaxAttempts] /\ MaxAttempts \in Nat /\ NoOne \notin Task
  BY ReputationConstants DEF RepInv, RepTypeOK
<1>3. Progress
  BY <1>0, <1>1, <1>2 DEF Progress, table
<1>4. /\ l.doing = "each" /\ l.of = RetryOf(t, ok) /\ l.mine = {} /\ l.locked = {}
      /\ l.todo \subseteq Signal
      /\ \A x \in l.todo : x.kind = "outcome" /\ x.of = t /\ x.attempt = attempt[t] /\ x.ok = ok
  BY <1>a, <1>c, OutcomeIs DEF RepInv
<1>5. Work(l)'
  <2>1. attempt'[t] = attempt[t] /\ state'[t] = IF ok THEN "SUCCEEDED" ELSE "FAILED"
    BY <1>0, <1>1, <1>2
  <2>2. \A x \in l.todo : Happened(x)'
    BY <1>4, <2>1 DEF Happened
  <2> QED BY <1>4, <2>2 DEF Work
<1>6. Owes(l)'
  BY <1>0, <1>1, <1>2, <1>4 DEF Owes, Retries, RetryOf
<1>7. Locks(l)'
  BY <1>4, NothingHeld
<1>8. ASSUME NEW m \in CallState, Other(h, m)
      PROVE  Owes(m)' /\ Locks(m)' /\ Apart(l, m)
  <2>1. Owes(m) /\ Locks(m)
    BY <1>0, <1>8, OtherFacts
  <2>2. Owes(m)'
    BY <1>0, <1>1, <1>2, <2>1 DEF Owes, Retries
  <2>3. Retries(m) => m.of # t
    BY <1>1, <2>1 DEF Owes
  <2>4. Retries(l) => l.of = t
    BY <1>4 DEF Retries, RetryOf
  <2> QED BY <1>0, <1>4, <2>1, <2>2, <2>3, <2>4, LocksStay, Fresh DEF table
<1>9. Threads' /\ AllApart' /\ call' \in [Process -> CallState]
  BY <1>0, <1>3, <1>4, <1>5, <1>6, <1>7, <1>8, CallChanges
<1>10. RepTypeOK'
  BY <1>0, <1>1, <1>2, <1>9 DEF RepInv, RepTypeOK, table
<1> QED BY <1>0, <1>3, <1>9, <1>10, StoredStays DEF RepInv

\* A task is tried again by the one call that owes it that.
LEMMA RetryStep ==
  ASSUME RepInv, NEW h \in Process, Retry(h)
  PROVE  RepInv'
<1> DEFINE t == call[h].of
<1>0. UNCHANGED <<table, appeal, faults>> /\ Change(h, NoCall)
  BY DEF Retry
<1>1. /\ Retries(call[h]) /\ Owes(call[h])
      /\ t \in Task /\ state[t] = "FAILED" /\ attempt[t] < MaxAttempts
  BY DEF RepInv, Threads, Retry, Busy, Owes, Retries
<1>2. /\ state \in [Task -> {"RUNNING", "SUCCEEDED", "FAILED"}]
      /\ attempt \in [Task -> 0..MaxAttempts] /\ MaxAttempts \in Nat
  BY ReputationConstants DEF RepInv, RepTypeOK
<1>3. state' = [state EXCEPT ![t] = "RUNNING"] /\ attempt' = [attempt EXCEPT ![t] = @ + 1]
  BY DEF Retry
<1>4. Progress
  BY <1>0, <1>1, <1>2, <1>3 DEF Progress, table
<1>5. ASSUME NEW m \in CallState, Other(h, m)
      PROVE  Owes(m)' /\ Locks(m)' /\ Apart(NoCall, m)
  <2>1. Owes(m) /\ Locks(m) /\ Apart(call[h], m)
    BY <1>5, OtherFacts
  <2>2. Retries(m) => m.of # t
    BY <1>1, <2>1 DEF Apart
  <2>3. Owes(m)'
    BY <1>1, <1>2, <1>3, <2>1, <2>2 DEF Owes, Retries
  <2> QED BY <1>0, <2>1, <2>3, LocksStay, NoCallIsSound DEF table
<1>6. Threads' /\ AllApart' /\ call' \in [Process -> CallState]
  BY <1>0, <1>4, <1>5, NoCallIs, NoCallIsSound, CallChanges
<1>7. RepTypeOK'
  BY <1>0, <1>1, <1>2, <1>3, <1>6 DEF RepInv, RepTypeOK, table
<1> QED BY <1>0, <1>4, <1>6, <1>7, StoredStays DEF RepInv

LEMMA VerifyStep ==
  ASSUME RepInv, NEW h \in Caller, NEW x \in Artifact, Verify(h, x)
  PROVE  RepInv'
<1> DEFINE todo == Signals("quality", x, Producer[x], 0, TRUE)
           l == [NoCall EXCEPT !.doing = "quality", !.of = x, !.todo = todo]
<1>0. /\ h \in Process /\ Change(h, l)
      /\ UNCHANGED <<state, attempt, table, appeal, faults>>
  BY DEF Verify, Process
<1>1. /\ todo \subseteq Signal
      /\ \A s \in todo : s.kind = "quality" /\ s.of = x
      /\ \A k \in Needs[Producer[x]] : \E s \in signals \cup todo :
           s.kind = "quality" /\ s.of = x /\ s.skill = k
  <2>1. PICK yes \in BOOLEAN : yes = TRUE
    OBVIOUS
  <2>2. \A k \in Skill :
          [kind |-> "quality", of |-> x, attempt |-> 0, ok |-> yes, skill |-> k] \in Signal
    BY <2>1 DEF Signal
  <2>3. Producer[x] \in Task /\ RepTypeOK
    BY ReputationConstants DEF RepInv
  <2>4. todo = Signals("quality", x, Producer[x], 0, yes)
    BY <2>1
  <2>5. /\ Signals("quality", x, Producer[x], 0, yes) \subseteq Signal
        /\ \A s \in Signals("quality", x, Producer[x], 0, yes) : s.kind = "quality" /\ s.of = x
        /\ \A k \in Needs[Producer[x]] :
             \E s \in signals \cup Signals("quality", x, Producer[x], 0, yes) :
               s.kind = "quality" /\ s.of = x /\ s.skill = k
    BY <2>2, <2>3, SignalsAre
  <2> QED BY <2>4, <2>5
<1> HIDE DEF todo
<1>2. /\ l \in CallState /\ l.doing = "quality" /\ l.of = x /\ l.todo = todo
      /\ l.mine = {} /\ l.locked = {}
  BY <1>1, NoCallIs DEF CallState, NoCall
<1> HIDE DEF l
<1>3. Work(l) /\ Owes(l) /\ Locks(l) /\ ~Retries(l)
  BY <1>1, <1>2, NothingHeld DEF Work, Owes, Retries
<1>4. \A m \in CallState : Apart(l, m)
  BY <1>2, <1>3, Fresh
<1>5. faults' \in 0..MaxFault
  BY <1>0 DEF RepInv, RepTypeOK
<1> QED BY <1>0, <1>2, <1>3, <1>4, <1>5, QuietStep

LEMMA ListEndedStep ==
  ASSUME RepInv, NEW s \in {"SUCCEEDED", "FAILED"}, ListEnded(s)
  PROVE  RepInv'
<1> DEFINE Todo(t) == RecordOutcome(t, s = "SUCCEEDED", NoOne).todo
           l == [NoCall EXCEPT !.doing = "each", !.todo = UNION {Todo(t) : t \in Ended(s)}]
<1>0. /\ Sweeper \in Process /\ UNCHANGED <<state, attempt, table, appeal, faults>>
      /\ Change(Sweeper, l)
  BY DEF ListEnded, Process
<1>1. ASSUME NEW t \in Ended(s), NEW x \in Todo(t)
      PROVE  x \in Signal /\ x.kind # "quality" /\ Happened(x)
  <2>1. t \in Task /\ state[t] = s /\ (s = "SUCCEEDED") \in BOOLEAN
    BY DEF Ended
  <2>2. PICK ok \in BOOLEAN : ok = (s = "SUCCEEDED")
    OBVIOUS
  <2>3. x \in RecordOutcome(t, ok, NoOne).todo
    BY <2>2
  <2>4. x \in Signal /\ x.kind = "outcome" /\ x.of = t /\ x.attempt = attempt[t] /\ x.ok = ok
    BY <2>1, <2>3, OutcomeIs DEF RepInv
  <2> HIDE DEF Todo
  <2> QED BY <2>1, <2>2, <2>4 DEF Happened
<1> HIDE DEF Todo
<1>2. \A x \in UNION {Todo(t) : t \in Ended(s)} :
        x \in Signal /\ x.kind # "quality" /\ Happened(x)
  BY <1>1
<1>3. /\ l \in CallState /\ l.doing = "each" /\ l.of = NoOne /\ l.mine = {} /\ l.locked = {}
      /\ l.todo = UNION {Todo(t) : t \in Ended(s)}
  <2>1. UNION {Todo(t) : t \in Ended(s)} \subseteq Signal
    BY <1>2
  <2> QED BY <2>1, NoCallIs DEF CallState, NoCall
<1> HIDE DEF l
<1>4. Work(l) /\ Owes(l) /\ Locks(l) /\ ~Retries(l)
  BY <1>2, <1>3, NothingHeld DEF Work, Owes, Retries
<1>5. \A m \in CallState : Apart(l, m)
  BY <1>3, <1>4, Fresh
<1>6. faults' \in 0..MaxFault
  BY <1>0 DEF RepInv, RepTypeOK
<1> QED BY <1>0, <1>3, <1>4, <1>5, <1>6, QuietStep

\* What a call knows stands when nothing but an appeal changes.
LEMMA ThreadsStay ==
  ASSUME RepInv, Progress,
         UNCHANGED <<state, attempt, signals, rows, samples, records, call>>
  PROVE  Threads' /\ AllApart'
<1>1. Threads'
  <2> SUFFICES ASSUME NEW h \in Process
               PROVE  (Work(call[h]) /\ Owes(call[h]) /\ Busy(call[h]) /\ Locks(call[h]))'
    BY DEF Threads
  <2>1. PICK m \in CallState : m = call[h]
    BY DEF RepInv, RepTypeOK
  <2>2. Work(m)'
    BY <2>1, WorkStays DEF RepInv, Threads
  <2>3. Work(call[h])'
    BY <2>1, <2>2 DEF Work
  <2>4. Owes(call[h])' /\ Busy(call[h])' /\ Locks(call[h])'
    BY DEF RepInv, Threads, Owes, Retries, Busy, Locks
  <2> QED BY <2>3, <2>4
<1>2. AllApart'
  BY DEF RepInv, AllApart, Apart, Retries
<1> QED BY <1>1, <1>2

LEMMA CreateQualityAppealStep ==
  ASSUME RepInv, NEW p \in Appeal, CreateQualityAppeal(p)
  PROVE  RepInv'
<1>1. UNCHANGED <<state, attempt, signals, rows, samples, records, call, faults>>
  BY DEF CreateQualityAppeal, table
<1>2. Progress
  BY <1>1, ReputationConstants DEF CreateQualityAppeal, RepInv, RepTypeOK, Progress
<1>3. RepTypeOK'
  BY <1>1 DEF CreateQualityAppeal, RepInv, RepTypeOK
<1> QED BY <1>1, <1>2, <1>3, ThreadsStay, StoredStays DEF RepInv, table

\* The corrections of a verdict are recorded once the verdict is overturned.
LEMMA ResolveQualityAppealStep ==
  ASSUME RepInv, NEW h \in Caller, NEW p \in Appeal,
         NEW status \in {"upheld", "overturned"},
         ResolveQualityAppeal(h, p, status)
  PROVE  RepInv'
<1>0. /\ h \in Process /\ UNCHANGED <<state, attempt, signals, rows, samples, records, faults>>
      /\ appeal' = [appeal EXCEPT ![p] = status] /\ appeal[p] = "pending" /\ call[h] = NoCall
  BY DEF ResolveQualityAppeal, Resolvable, Process, table
<1>1. Progress
  BY <1>0, ReputationConstants DEF RepInv, RepTypeOK, Progress
<1>2. Threads' /\ AllApart' /\ call' \in [Process -> CallState]
  <2>1. CASE status = "overturned"
    <3>1. PICK todo : todo = Signals("appeal", p, Producer[Against[p]], 0, TRUE)
      OBVIOUS
    <3>2. todo \subseteq Signal /\ \A x \in todo : x.kind = "appeal" /\ x.of = p
      <4>1. PICK yes \in BOOLEAN : yes = TRUE
        OBVIOUS
      <4>2. \A k \in Skill :
              [kind |-> "appeal", of |-> p, attempt |-> 0, ok |-> yes, skill |-> k] \in Signal
        BY <4>1 DEF Signal
      <4>3. PICK t \in Task : t = Producer[Against[p]]
        BY ReputationConstants
      <4>4. todo = Signals("appeal", p, t, 0, yes)
        BY <3>1, <4>1, <4>3
      <4>5. /\ Signals("appeal", p, t, 0, yes) \subseteq Signal
            /\ \A s \in Signals("appeal", p, t, 0, yes) : s.kind = "appeal" /\ s.of = p
        <5>1. RepTypeOK
          BY DEF RepInv
        <5> QED BY <4>2, <5>1, SignalsAre
      <4> QED BY <4>4, <4>5
    <3>3. PICK l \in CallState : l = [NoCall EXCEPT !.doing = "each", !.todo = todo]
      BY <3>2, NoCallIs DEF CallState
    <3>4. l.doing = "each" /\ l.of = NoOne /\ l.todo = todo /\ l.mine = {} /\ l.locked = {}
      BY <3>3 DEF NoCall
    <3>5. Change(h, l)
      BY <2>1, <3>1, <3>3 DEF ResolveQualityAppeal
    <3>6. \A x \in todo : Happened(x)'
      <4>1. appeal'[p] = "overturned"
        BY <1>0, <2>1 DEF RepInv, RepTypeOK
      <4> QED BY <3>2, <4>1 DEF Happened
    <3>7. Work(l)' /\ Owes(l)' /\ Locks(l)' /\ ~Retries(l)
      BY <3>2, <3>4, <3>6, NothingHeld DEF Work, Owes, Retries
    <3>8. ASSUME NEW m \in CallState, Other(h, m) PROVE Owes(m)' /\ Locks(m)' /\ Apart(l, m)
      <4>1. Owes(m) /\ Locks(m)
        BY <1>0, <3>8, OtherFacts
      <4>2. Apart(l, m)
        BY <3>4, <3>7, Fresh
      <4>3. Owes(m)'
        BY <1>0, <4>1 DEF Owes, Retries
      <4> QED BY <1>0, <4>1, <4>2, <4>3, LocksStay
    <3> QED BY <1>0, <1>1, <3>5, <3>7, <3>8, CallChanges
  <2>2. CASE status # "overturned"
    <3>1. UNCHANGED call
      BY <2>2 DEF ResolveQualityAppeal
    <3> QED BY <1>0, <1>1, <3>1, ThreadsStay DEF RepInv, RepTypeOK
  <2> QED BY <2>1, <2>2
<1>3. RepTypeOK'
  BY <1>0, <1>2 DEF RepInv, RepTypeOK
<1> QED BY <1>0, <1>1, <1>2, <1>3, StoredStays DEF RepInv, table

-----------------------------------------------------------------------------
(* Signal transactions.                                                    *)

\* One that was applied already is passed over.
LEMMA DuplicateStep ==
  ASSUME RepInv, NEW h \in Process, NEW s \in call[h].todo, Duplicate(h, s)
  PROVE  RepInv'
<1>1. PICK c \in CallState : c = call[h]
  BY DEF RepInv, RepTypeOK
<1>2. PICK l \in CallState : l = [c EXCEPT !.todo = @ \ {s}]
  BY DEF CallState
<1>3. /\ l.doing = c.doing /\ l.of = c.of /\ l.todo = c.todo \ {s}
      /\ l.mine = c.mine /\ l.seen = c.seen /\ l.locked = c.locked
  BY <1>2 DEF CallState
<1>4. /\ UNCHANGED <<state, attempt, table, appeal, faults>> /\ Change(h, l)
      /\ s \in signals /\ s \in c.todo
  BY <1>1, <1>2 DEF Duplicate
<1>5. Work(c) /\ Owes(c) /\ Locks(c) /\ c # NoCall
  BY <1>1, <1>4, NoCallIs DEF RepInv, Threads
<1>6. Work(l) /\ Owes(l) /\ Locks(l)
  <2>1. Work(l)
    BY <1>3, <1>4, <1>5 DEF Work
  <2>2. Owes(l)
    BY <1>3, <1>5 DEF Owes, Retries
  <2>3. Locks(l)
    BY <1>3, <1>5 DEF Locks
  <2> QED BY <2>1, <2>2, <2>3
<1>7. \A m \in CallState : Other(h, m) => Apart(l, m)
  BY <1>1, <1>3, OtherFacts DEF Apart, Retries
<1>8. faults' \in 0..MaxFault
  BY <1>4 DEF RepInv, RepTypeOK
<1> QED BY <1>4, <1>6, <1>7, <1>8, QuietStep

\* A quality transaction has one signal at most for each skill, as they are about one
\* artifact.
LEMMA SameSkill ==
  ASSUME NEW x \in Signal, NEW y \in Signal, x.kind = "quality", y.kind = "quality",
         x.of = y.of, x.skill = y.skill
  PROVE  x = y
<1>1. \A z \in Signal : z.kind = "quality" =>
        z \in [kind : {"quality"}, of : Artifact, attempt : {0}, ok : {TRUE}, skill : Skill]
  BY DEF Signal
<1>2. \A z \in [kind : {"quality"}, of : Artifact, attempt : {0}, ok : {TRUE}, skill : Skill] :
        z = [kind |-> z.kind, of |-> z.of, attempt |-> z.attempt, ok |-> z.ok, skill |-> z.skill]
  OBVIOUS
<1>3. x.attempt = y.attempt
  BY <1>1
<1>4. x.ok = y.ok
  BY <1>1
<1> QED BY <1>1, <1>2, <1>3, <1>4

\* A signal is inserted whose row nobody else has locked; one that cannot be locked
\* does not exist, and has taken in nothing.
LEMMA InsertSignalStep ==
  ASSUME RepInv, NEW h \in Process, NEW s \in call[h].todo, InsertSignal(h, s)
  PROVE  RepInv'
<1>1. PICK c \in CallState : c = call[h]
  BY DEF RepInv, RepTypeOK
<1>2. s \in c.todo /\ s \in Signal /\ s \notin signals /\ s.skill \in Skill
  BY <1>1, SignalFacts DEF InsertSignal, CallState
<1>3. /\ samples \in [Skill -> Nat] /\ rows \subseteq Skill /\ Known \subseteq rows
      /\ samples[s.skill] > 0 => s.skill \in rows
  BY <1>2 DEF RepInv, RepTypeOK, Stored
<1>4. PICK l \in CallState :
        l = [c EXCEPT !.todo = @ \ {s}, !.mine = @ \cup {s}, !.seen[s.skill] = samples[s.skill],
                      !.locked = @ \cup Locked(s.skill)]
  BY <1>2, <1>3 DEF CallState, Locked
<1>5. /\ l.doing = c.doing /\ l.of = c.of /\ l.todo = c.todo \ {s} /\ l.mine = c.mine \cup {s}
      /\ l.locked = c.locked \cup ({s.skill} \cap rows)
  BY <1>4 DEF CallState, Locked
<1>6. l.seen[s.skill] = samples[s.skill] /\ \A k \in Skill \ {s.skill} : l.seen[k] = c.seen[k]
  BY <1>2, <1>4 DEF CallState
<1>7. /\ UNCHANGED <<state, attempt, table, appeal, faults>> /\ Change(h, l)
      /\ c.doing = "quality" \/ c.mine = {}
  BY <1>1, <1>4 DEF InsertSignal, MayInsert
<1>8. Work(c) /\ Owes(c) /\ Locks(c) /\ c # NoCall
  BY <1>1, <1>2, NoCallIs DEF RepInv, Threads
<1>9. Work(l) /\ Owes(l)
  BY <1>2, <1>5, <1>8 DEF Work, Owes, Retries
<1>10. Locks(l)
  <2>1. IsFiniteSet(l.mine) /\ l.mine \cap signals = {}
    BY <1>2, <1>5, <1>8, FS_AddElement DEF Locks
  <2>2. \A x \in l.mine : x \in Signal
    BY DEF CallState
  <2>3. ASSUME NEW x \in l.mine, NEW y \in l.mine, x.skill = y.skill PROVE x = y
    <3>1. CASE c.mine = {}
      BY <1>5, <3>1
    <3>2. CASE c.doing = "quality"
      <4>1. x \in c.todo \cup c.mine /\ y \in c.todo \cup c.mine
        BY <1>2, <1>5
      <4>2. x.kind = "quality" /\ x.of = c.of /\ y.kind = "quality" /\ y.of = c.of
        BY <1>8, <3>2, <4>1 DEF Work
      <4> QED BY <2>2, <2>3, <4>2, SameSkill
    <3> QED BY <1>7, <3>1, <3>2
  <2>4. l.locked \subseteq rows /\ \A k \in l.locked : l.seen[k] = samples[k]
    <3>1. \A k \in c.locked : k \in Skill /\ k \in rows /\ c.seen[k] = samples[k]
      BY <1>8 DEF Locks, CallState
    <3> QED BY <1>5, <1>6, <3>1
  <2>5. ASSUME NEW x \in l.mine, x.skill \notin l.locked
        PROVE  x.skill \notin Known /\ l.seen[x.skill] = 0
    <3>1. CASE x.skill = s.skill
      BY <1>2, <1>3, <1>5, <1>6, <2>5, <3>1
    <3>2. CASE x.skill # s.skill
      <4>1. x \in c.mine /\ x.skill \notin c.locked /\ x.skill \in Skill
        BY <1>5, <2>2, <2>5, <3>2, SignalFacts
      <4> QED BY <1>6, <1>8, <3>2, <4>1 DEF Locks
    <3> QED BY <3>1, <3>2
  <2> QED BY <2>1, <2>3, <2>4, <2>5 DEF Locks
<1>11. ASSUME NEW m \in CallState, Other(h, m) PROVE Apart(l, m)
  <2>1. Apart(c, m)
    BY <1>1, <1>11, OtherFacts
  <2>2. s \notin m.mine /\ s.skill \notin m.locked
    BY <1>11 DEF InsertSignal, MayInsert, Waits, HasSignal, HasRow, Other
  <2> QED BY <1>5, <2>1, <2>2 DEF Apart, Retries
<1>12. faults' \in 0..MaxFault
  BY <1>7 DEF RepInv, RepTypeOK
<1> QED BY <1>7, <1>9, <1>10, <1>11, <1>12, QuietStep

\* A transaction fails: what it held is free, and nothing is stored.
LEMMA FailsStep ==
  ASSUME RepInv, NEW h \in Process, Fails(h)
  PROVE  RepInv'
<1>1. PICK c \in CallState : c = call[h]
  BY DEF RepInv, RepTypeOK
<1>2. PICK on \in CallState : on = [NoCall EXCEPT !.doing = "each", !.of = c.of, !.todo = c.todo]
  BY NoCallIs DEF CallState
<1>3. on.doing = "each" /\ on.of = c.of /\ on.todo = c.todo /\ on.mine = {} /\ on.locked = {}
  BY <1>2 DEF NoCall
<1>4. PICK l \in {NoCall, on} : Change(h, l) /\ (l = on => c.doing = "each")
  <2>1. CASE Change(h, NoCall)
    BY <1>3, <2>1, NoCallIs
  <2>2. CASE c.mine # {} /\ RollBack(h)
    <3>1. c.doing \in {"each", "quality"}
      BY <1>1, <2>2, NoCallIs DEF RepInv, Threads, Work, CallState
    <3>2. CASE c.doing = "each"
      BY <1>1, <1>2, <2>2, <3>2 DEF RollBack
    <3>3. CASE c.doing = "quality"
      <4>1. Change(h, NoCall)
        BY <1>1, <2>2, <3>3 DEF RollBack
      <4> QED BY <2>1, <4>1
    <3> QED BY <3>1, <3>2, <3>3
  <2> QED BY <1>1, <2>1, <2>2 DEF Fails
<1>5. UNCHANGED <<state, attempt, table, appeal>> /\ faults' \in 0..MaxFault
  <2>1. faults < MaxFault /\ faults' = faults + 1 /\ faults \in 0..MaxFault /\ MaxFault \in Nat
    BY ReputationConstants DEF Fails, RepInv, RepTypeOK
  <2> QED BY <2>1 DEF Fails
<1>6. Work(c) /\ Owes(c)
  BY <1>1 DEF RepInv, Threads
<1>7. Work(l) /\ Owes(l) /\ Locks(l)
  <2>1. CASE l = NoCall
    BY <2>1, NoCallIsSound
  <2>2. CASE l = on
    BY <1>3, <1>4, <1>6, <2>2, NothingHeld DEF Work, Owes, Retries
  <2> QED BY <2>1, <2>2
<1>8. ASSUME NEW m \in CallState, Other(h, m) PROVE Apart(l, m)
  <2>1. Apart(c, m)
    BY <1>1, <1>8, OtherFacts
  <2>2. CASE l = NoCall
    BY <2>2, NoCallIsSound
  <2>3. CASE l = on
    BY <1>3, <1>4, <2>1, <2>3 DEF Apart, Retries
  <2> QED BY <2>2, <2>3
<1>9. l \in CallState
  BY NoCallIs
<1> QED BY <1>4, <1>5, <1>7, <1>8, <1>9, QuietStep

\* A write that commits adds one to each row that it has a signal for.
LEMMA WriteCounts ==
  ASSUME RepInv, NEW h \in Process, Write(h), NEW k \in Skill
  PROVE  /\ (\E x \in call[h].mine : x.skill = k) =>
              Count(k)' = Count(k) + 1 /\ samples'[k] = call[h].seen[k] + 1
         /\ ~(\E x \in call[h].mine : x.skill = k) =>
              Count(k)' = Count(k) /\ samples'[k] = samples[k]
         /\ Count(k) \in Nat
<1>1. PICK c \in CallState : c = call[h]
  BY DEF RepInv, RepTypeOK
<1> DEFINE of(S) == {x \in S : x.skill = k}
<1>2. Count(k) = Cardinality(of(signals)) /\ Count(k)' = Cardinality(of(signals'))
  BY DEF Count
<1>3. Locks(c) /\ IsFiniteSet(signals)
  BY <1>1 DEF RepInv, Threads, Stored
<1>4. signals' = signals \cup c.mine
  BY <1>1 DEF Write
<1>5. samples'[k] = IF \E x \in c.mine : x.skill = k THEN c.seen[k] + 1 ELSE samples[k]
  BY <1>1 DEF Write
<1>6. IsFiniteSet(of(signals)) /\ Count(k) \in Nat
  BY <1>2, <1>3, FS_Subset, FS_CardinalityType
<1>7. CASE \E x \in c.mine : x.skill = k
  <2>1. PICK x \in c.mine : x.skill = k
    BY <1>7
  <2>2. of(signals') = of(signals) \cup {x} /\ x \notin of(signals)
    BY <1>3, <1>4, <2>1 DEF Locks
  <2> HIDE DEF of
  <2>3. Cardinality(of(signals')) = Cardinality(of(signals)) + 1
    BY <1>6, <2>2, FS_AddElement
  <2> QED BY <1>1, <1>2, <1>5, <1>6, <1>7, <2>3
<1>8. CASE ~ \E x \in c.mine : x.skill = k
  <2>1. of(signals') = of(signals)
    BY <1>4, <1>8
  <2> HIDE DEF of
  <2> QED BY <1>1, <1>2, <1>5, <1>6, <1>8, <2>1
<1> QED BY <1>7, <1>8

\* No signal is left out of a row that has existed from the start, since what was read
\* of it is what it still is.
LEMMA WriteIsWhole ==
  ASSUME RepInv, NEW h \in Process, Write(h)
  PROVE  /\ Known \subseteq rows' /\ IsFiniteSet(signals') /\ signals' \subseteq Signal
         /\ rows' \subseteq Skill /\ samples' \in [Skill -> Nat]
         /\ \A k \in Skill : samples'[k] > 0 => k \in rows'
         /\ RowsAreWhole'
<1>1. PICK c \in CallState : c = call[h]
  BY DEF RepInv, RepTypeOK
<1>2. Locks(c) /\ \A x \in c.mine : x \in Signal /\ x.skill \in Skill
  BY <1>1, SignalFacts DEF RepInv, Threads, CallState
<1> DEFINE has(k) == \E x \in c.mine : x.skill = k
<1>3. /\ signals' = signals \cup c.mine
      /\ \A k \in Skill : k \in rows' <=> k \in rows \/ has(k)
      /\ rows' \subseteq rows \cup {x.skill : x \in c.mine}
      /\ samples' = [k \in Skill |-> IF k \in {x.skill : x \in c.mine}
                                     THEN c.seen[k] + 1 ELSE samples[k]]
  BY <1>1 DEF Write
<1>4. /\ signals \subseteq Signal /\ rows \subseteq Skill /\ samples \in [Skill -> Nat]
      /\ \A k \in Skill : samples[k] > 0 => k \in rows
  BY DEF RepInv, RepTypeOK
<1>5. c.seen \in [Skill -> Nat]
  BY DEF CallState
<1>6. Known \subseteq rows /\ IsFiniteSet(signals) /\ RowsAreWhole /\ Known \subseteq Skill
  BY ReputationConstants DEF RepInv, Stored
<1>7. ASSUME NEW k \in Skill
      PROVE  /\ samples'[k] > 0 => k \in rows'
             /\ k \in Known => samples'[k] = Count(k)'
             /\ samples'[k] <= Count(k)' /\ (Count(k)' > 0 => samples'[k] > 0)
  <2>1. /\ k \in Known => samples[k] = Count(k)
        /\ samples[k] <= Count(k) /\ (Count(k) > 0 => samples[k] > 0)
    BY <1>6 DEF RowsAreWhole
  <2>2. Count(k) \in Nat /\ samples[k] \in Nat /\ c.seen[k] \in Nat
    BY <1>4, <1>5, WriteCounts
  <2>3. CASE has(k)
    <3>1. Count(k)' = Count(k) + 1 /\ samples'[k] = c.seen[k] + 1
      BY <1>1, <2>3, WriteCounts
    <3>2. c.seen[k] = samples[k] \/ (k \notin Known /\ c.seen[k] = 0)
      BY <1>2, <2>3 DEF Locks
    <3> QED BY <1>3, <2>1, <2>2, <2>3, <3>1, <3>2
  <2>4. CASE ~has(k)
    <3>1. Count(k)' = Count(k) /\ samples'[k] = samples[k]
      BY <1>1, <2>4, WriteCounts
    <3> QED BY <1>3, <1>4, <2>1, <2>2, <3>1
  <2> QED BY <2>3, <2>4
<1>8. RowsAreWhole'
  BY <1>7 DEF RowsAreWhole
<1>9. IsFiniteSet(signals') /\ signals' \subseteq Signal
  BY <1>2, <1>3, <1>4, <1>6, FS_Union DEF Locks
<1>10. rows' \subseteq Skill /\ samples' \in [Skill -> Nat]
  BY <1>2, <1>3, <1>4, <1>5
<1> QED BY <1>3, <1>6, <1>7, <1>8, <1>9, <1>10

\* It touches nothing that another transaction has read and locked, and no signal of its.
LEMMA WriteLeaves ==
  ASSUME RepInv, NEW h \in Process, Write(h), NEW m \in CallState, Other(h, m)
  PROVE  Locks(m)'
<1>1. PICK c \in CallState : c = call[h]
  BY DEF RepInv, RepTypeOK
<1>2. Locks(m) /\ Apart(c, m)
  BY <1>1, OtherFacts
<1>3. m.locked \cap {x.skill : x \in c.mine} = {}
  BY <1>1 DEF Write, Other
<1>4. /\ signals' = signals \cup c.mine /\ rows \subseteq rows'
      /\ \A k \in Skill : k \notin {x.skill : x \in c.mine} => samples'[k] = samples[k]
  BY <1>1 DEF Write
<1>5. m.mine \cap signals' = {}
  BY <1>2, <1>4 DEF Locks, Apart
<1>6. m.locked \subseteq rows' /\ \A k \in m.locked : m.seen[k] = samples'[k]
  BY <1>2, <1>3, <1>4 DEF Locks, CallState
<1> QED BY <1>2, <1>5, <1>6 DEF Locks

\* A signal of an outcome or of an appeal is committed.
LEMMA CommitSignalStep ==
  ASSUME RepInv, NEW h \in Process, CommitSignal(h)
  PROVE  RepInv'
<1>1. PICK c \in CallState : c = call[h]
  BY DEF RepInv, RepTypeOK
<1>2. PICK l \in CallState : l = [NoCall EXCEPT !.doing = "each", !.of = c.of, !.todo = c.todo]
  BY NoCallIs DEF CallState
<1>3. l.doing = "each" /\ l.of = c.of /\ l.todo = c.todo /\ l.mine = {} /\ l.locked = {}
  BY <1>2 DEF NoCall
<1>4. /\ UNCHANGED <<state, attempt, records, appeal, faults>> /\ Write(h) /\ Change(h, l)
      /\ c.doing = "each" /\ signals' = signals \cup c.mine
  BY <1>1, <1>2 DEF CommitSignal, Write
<1>5. Progress
  BY <1>4, ReputationConstants DEF RepInv, RepTypeOK, Progress
<1>6. Work(c) /\ Owes(c)
  BY <1>1 DEF RepInv, Threads
<1>7. Work(l)' /\ Owes(l)' /\ Locks(l)'
  <2>1. Work(l)
    BY <1>3, <1>4, <1>6 DEF Work
  <2>2. Owes(l)'
    BY <1>3, <1>4, <1>6 DEF Owes, Retries
  <2> QED BY <1>3, <1>5, <2>1, <2>2, WorkStays, NothingHeld DEF RepInv
<1>8. ASSUME NEW m \in CallState, Other(h, m) PROVE Owes(m)' /\ Locks(m)' /\ Apart(l, m)
  <2>1. Owes(m) /\ Apart(c, m)
    BY <1>1, <1>8, OtherFacts
  <2>2. Owes(m)'
    BY <1>4, <2>1 DEF Owes, Retries
  <2>3. Apart(l, m)
    BY <1>3, <1>4, <2>1 DEF Apart, Retries
  <2> QED BY <1>4, <1>8, <2>2, <2>3, WriteLeaves
<1>9. Threads' /\ AllApart' /\ call' \in [Process -> CallState]
  BY <1>4, <1>5, <1>7, <1>8, CallChanges
<1>10. SignalsAreTrue'
  <2>1. ASSUME NEW x \in signals' PROVE Happened(x)'
    <3>1. x \in Signal /\ Happened(x)
      BY <1>4, <1>6 DEF RepInv, RepTypeOK, Stored, SignalsAreTrue, Work, CallState
    <3> QED BY <1>5, <3>1, HappenedStays DEF RepInv
  <2>2. SignalsAreTrue
    BY DEF RepInv, Stored
  <2> QED BY <1>4, <2>1, <2>2 DEF SignalsAreTrue
<1>11. Stored' /\ RepTypeOK'
  <2>1. Stored'
    BY <1>4, <1>10, WriteIsWhole DEF Stored
  <2>2. RepTypeOK'
    BY <1>4, <1>9, WriteIsWhole DEF RepInv, RepTypeOK
  <2> QED BY <2>1, <2>2
<1> QED BY <1>9, <1>11 DEF RepInv

\* A quality record is committed with the signals for all its skills.
LEMMA CommitQualityStep ==
  ASSUME RepInv, NEW h \in Process, CommitQuality(h)
  PROVE  RepInv'
<1>1. PICK c \in CallState : c = call[h]
  BY DEF RepInv, RepTypeOK
<1>2. /\ UNCHANGED <<state, attempt, appeal, faults>> /\ Write(h) /\ Change(h, NoCall)
      /\ c.doing = "quality" /\ c.todo = {} /\ signals' = signals \cup c.mine
      /\ records' = records \cup {c.of}
  BY <1>1 DEF CommitQuality, Write
<1>3. Progress
  BY <1>2, ReputationConstants DEF RepInv, RepTypeOK, Progress
<1>4. Work(c)
  BY <1>1 DEF RepInv, Threads
<1>5. ASSUME NEW m \in CallState, Other(h, m) PROVE Owes(m)' /\ Locks(m)' /\ Apart(NoCall, m)
  <2>1. Owes(m)
    BY <1>5, OtherFacts
  <2>2. Owes(m)'
    BY <1>2, <2>1 DEF Owes, Retries
  <2> QED BY <1>2, <1>5, <2>2, WriteLeaves, NoCallIsSound
<1>6. Threads' /\ AllApart' /\ call' \in [Process -> CallState]
  BY <1>2, <1>3, <1>5, NoCallIs, NoCallIsSound, CallChanges
<1>7. SignalsAreTrue'
  <2>0. SignalsAreTrue
    BY DEF RepInv, Stored
  <2>1. ASSUME NEW x \in signals' PROVE Happened(x)'
    <3>1. CASE x \in signals
      <4>1. x \in Signal /\ Happened(x)
        BY <2>0, <3>1 DEF RepInv, RepTypeOK, SignalsAreTrue
      <4> QED BY <1>3, <4>1, HappenedStays DEF RepInv
    <3>2. CASE x \in c.mine
      <4>1. x.kind = "quality" /\ x.of \in records'
        BY <1>2, <1>4, <3>2 DEF Work
      <4> QED BY <4>1 DEF Happened
    <3> QED BY <1>2, <3>1, <3>2
  <2>2. ASSUME NEW x \in records', NEW k \in Needs[Producer[x]]
        PROVE  \E s \in signals' : s.kind = "quality" /\ s.of = x /\ s.skill = k
    <3>1. CASE x \in records
      BY <1>2, <2>0, <3>1 DEF SignalsAreTrue
    <3>2. CASE x = c.of
      BY <1>2, <1>4, <3>2 DEF Work
    <3> QED BY <1>2, <3>1, <3>2
  <2> QED BY <2>1, <2>2 DEF SignalsAreTrue
<1>8. Stored' /\ RepTypeOK'
  <2>1. Stored'
    BY <1>7, <1>2, WriteIsWhole DEF Stored
  <2>2. c.of \in Artifact
    BY <1>2, <1>4 DEF Work
  <2>3. RepTypeOK'
    BY <1>2, <1>6, <2>2, WriteIsWhole DEF RepInv, RepTypeOK
  <2> QED BY <2>1, <2>3
<1> QED BY <1>6, <1>8 DEF RepInv

-----------------------------------------------------------------------------
LEMMA RepInductive == RepInv /\ [RepNext]_repVars => RepInv'
<1> SUFFICES ASSUME RepInv, [RepNext]_repVars PROVE RepInv'
  OBVIOUS
<1>1. ASSUME NEW h \in Caller, NEW t \in Task, NEW ok \in BOOLEAN,
             EndTask(h, t, ok)
      PROVE  RepInv'
  BY <1>1, EndTaskStep
<1>2. ASSUME NEW h \in Caller, NEW x \in Artifact, Verify(h, x) PROVE RepInv'
  BY <1>2, VerifyStep
<1>3. ASSUME NEW h \in Caller, NEW p \in Appeal, NEW s \in {"upheld", "overturned"},
             ResolveQualityAppeal(h, p, s)
      PROVE  RepInv'
  BY <1>3, ResolveQualityAppealStep
<1>4. ASSUME NEW p \in Appeal, CreateQualityAppeal(p) PROVE RepInv'
  BY <1>4, CreateQualityAppealStep
<1>5. ASSUME NEW s \in {"SUCCEEDED", "FAILED"}, ListEnded(s) PROVE RepInv'
  BY <1>5, ListEndedStep
<1>6. ASSUME NEW h \in Process, CallStep(h) PROVE RepInv'
  <2>1. ASSUME NEW s \in call[h].todo, Duplicate(h, s) PROVE RepInv'
    BY <2>1, DuplicateStep
  <2>2. ASSUME NEW s \in call[h].todo, InsertSignal(h, s) PROVE RepInv'
    BY <2>2, InsertSignalStep
  <2> QED BY <1>6, <2>1, <2>2, CommitSignalStep, CommitQualityStep, RetryStep DEF CallStep
<1>7. ASSUME NEW h \in Process, Fails(h) PROVE RepInv'
  BY <1>7, FailsStep
<1>8. CASE UNCHANGED repVars
  <2>1. UNCHANGED <<state, attempt, signals, rows, samples, records, appeal, call, faults>>
    BY <1>8 DEF repVars, table
  <2>2. Progress
    BY <2>1, NoProgress
  <2> QED BY <2>1, <2>2, ThreadsStay, StoredStays DEF RepInv, RepTypeOK, table
<1> QED BY <1>1, <1>2, <1>3, <1>4, <1>5, <1>6, <1>7, <1>8 DEF RepNext

\* The invariant holds in every reachable state.
THEOREM RepInvariance == RepSpec => []RepInv
<1> QED BY RepBegins, RepInductive, PTL DEF RepSpec

\* What is stored and what the calls hold is what the code can have stored and held.
THEOREM RepTypeCorrect == RepSpec => []RepTypeOK
<1>1. RepInv => RepTypeOK
  BY DEF RepInv
<1> QED BY <1>1, RepInvariance, PTL

\* A row that has existed from the start takes in every signal exactly once, whichever
\* calls and sweeps apply signals at the same time, and whatever fails.
THEOREM RowsAreKept == RepSpec => []RowsAreWhole
<1>1. RepInv => RowsAreWhole
  BY DEF RepInv, Stored
<1> QED BY <1>1, RepInvariance, PTL

\* A signal counts for what happened, and a quality record comes with its signals.
THEOREM SignalsAreKept == RepSpec => []SignalsAreTrue
<1>1. RepInv => SignalsAreTrue
  BY DEF RepInv, Stored
<1> QED BY <1>1, RepInvariance, PTL
=============================================================================
