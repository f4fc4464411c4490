------------------------------ MODULE Intents -------------------------------
(***************************************************************************)
(* Admission of create_mission intents (internal/core/intent.go), the      *)
(* creation of missions and the activation of their root tasks             *)
(* (internal/core/service.go, the store).  An intent is authorised and     *)
(* validated, then its idempotency key reserves a mission id, then the     *)
(* mission is created under that id in another transaction, then its roots *)
(* are made READY one by one.  The process may die between any two of      *)
(* these, and callers repeat what they asked for, at the same time or      *)
(* later, with the same key and perhaps with other tasks.                  *)
(*                                                                         *)
(* Wake intents are Wake's, delegate intents Delegation's.  Budgets, which *)
(* are fixed with the mission, and the contents of tasks are left out.     *)
(***************************************************************************)
EXTENDS Naturals, Sequences, FiniteSets

CONSTANTS Key,
          Mission,    \* the ids newID may give
          Name,       \* names of nodes
          Request,    \* the intents callers send, again and again
          Scoped,     \* the people, and the agents with scope trigger.create_mission
          Handler,    \* threads that serve them
          None,
          MaxCrash    \* bound: crashes of the control plane

TaskLists == {r.tasks : r \in Request}

ASSUME IntentRequests ==
  /\ \A r \in Request : DOMAIN r = {"source", "key", "tasks"} /\ r.key \in Key
  /\ TaskLists \subseteq Seq([name : Name, deps : SUBSET Name])
ASSUME IntentNothing == None \notin Key \cup Mission
ASSUME IntentBounds == MaxCrash \in Nat

VARIABLES idem,    \* idem[k]: the mission id reserved under k
          mission, \* the tasks of each mission, <<>> while there is none
          root,    \* the state of the tasks without dependencies
          thread,
          told,    \* history: the answers callers got
          crashes

vars == <<idem, mission, root, thread, told, crashes>>

\* The steps of a call; todo: the roots it still has to activate.
Local == [at : {"idle", "reserve", "create", "look", "createAgain", "lookAgain", "list", "activate"},
          key : Key \cup {None}, tasks : TaskLists \cup {<<>>}, id : Mission \cup {None},
          todo : SUBSET Name]
Idle == [at |-> "idle", key |-> None, tasks |-> <<>>, id |-> None, todo |-> {}]

Roots(tasks) == {tasks[i].name : i \in {j \in DOMAIN tasks : tasks[j].deps = {}}}

TypeOK ==
  /\ idem \in [Key -> Mission \cup {None}]
  /\ mission \in [Mission -> TaskLists \cup {<<>>}]
  /\ root \in [Mission -> [Name -> {"none", "PENDING", "READY", "beyond"}]]
  /\ thread \in [Handler -> Local]
  /\ told \in [Key -> SUBSET Mission]
  /\ crashes \in 0..MaxCrash
  /\ \A m \in Mission, n \in Name : root[m][n] # "none" <=> n \in Roots(mission[m])

Init ==
  /\ idem = [k \in Key |-> None]
  /\ mission = [m \in Mission |-> <<>>]
  /\ root = [m \in Mission |-> [n \in Name |-> "none"]]
  /\ thread = [h \in Handler |-> Idle]
  /\ told = [k \in Key |-> {}]
  /\ crashes = 0

Become(h, local) == thread' = [thread EXCEPT ![h] = local]
Go(h, point) == Become(h, [thread[h] EXCEPT !.at = point])

-----------------------------------------------------------------------------
(* Validation.                                                             *)

Declared(tasks) == {tasks[i].name : i \in DOMAIN tasks}

\* The nodes Kahn's algorithm has taken after each round.
Taken(tasks) ==
  LET after[n \in 0..Len(tasks)] ==
        IF n = 0 THEN {}
        ELSE {tasks[i].name : i \in {j \in DOMAIN tasks : tasks[j].deps \subseteq after[n - 1]}}
  IN after[Len(tasks)]

\* Fault: a graph passes once there is a root to begin with.
ValidDAG_rooted(tasks) ==
  /\ \A i, j \in DOMAIN tasks : tasks[i].name = tasks[j].name => i = j
  /\ \A i \in DOMAIN tasks : tasks[i].deps \subseteq Declared(tasks) \ {tasks[i].name}
  /\ \E i \in DOMAIN tasks : tasks[i].deps = {}

\* validateDAG: names are unique, dependencies known, none of itself, and every node
\* is taken.
ValidDAG(tasks) ==
  /\ \A i, j \in DOMAIN tasks : tasks[i].name = tasks[j].name => i = j
  /\ \A i \in DOMAIN tasks : tasks[i].deps \subseteq Declared(tasks) \ {tasks[i].name}
  /\ Taken(tasks) = Declared(tasks)

-----------------------------------------------------------------------------
(* The call.                                                               *)

Exists(m) == mission[m] # <<>>

Accept(h, r) == Become(h, [Idle EXCEPT !.at = "reserve", !.key = r.key, !.tasks = r.tasks])

\* Fault: who asks is not checked before the key is taken.
Submit_unauthorised(h, r) ==
  /\ thread[h].at = "idle"
  /\ r.tasks # <<>> /\ ValidDAG(r.tasks)
  /\ Accept(h, r) /\ UNCHANGED <<idem, mission, root, told, crashes>>

\* SubmitIntent, intentCreateMission: authorised, then validated; a call that is
\* refused changes nothing.
Submit(h, r) ==
  /\ thread[h].at = "idle"
  /\ r.source \in Scoped /\ r.tasks # <<>> /\ ValidDAG(r.tasks)
  /\ Accept(h, r) /\ UNCHANGED <<idem, mission, root, told, crashes>>

\* Fault: two statements, so that two callers may both find the key free.
PutIdempotent_overwrite(h) ==
  /\ thread[h].at = "reserve"
  /\ LET k == thread[h].key IN
     IF \A m \in {idem[k]} \cap Mission : ~Exists(m)
     THEN \E m \in Mission :
            /\ \A j \in Key : idem[j] # m
            /\ idem' = [idem EXCEPT ![k] = m]
            /\ Become(h, [thread[h] EXCEPT !.at = "create", !.id = m])
     ELSE /\ Become(h, [thread[h] EXCEPT !.at = "look", !.id = idem[k]])
          /\ UNCHANGED idem
  /\ UNCHANGED <<mission, root, told, crashes>>

\* PutIdempotent, with a fresh id; the loser of the key continues with its id.
PutIdempotent(h) ==
  /\ thread[h].at = "reserve"
  /\ LET k == thread[h].key IN
     IF idem[k] = None
     THEN \E m \in Mission :
            /\ \A j \in Key : idem[j] # m
            /\ idem' = [idem EXCEPT ![k] = m]
            /\ Become(h, [thread[h] EXCEPT !.at = "create", !.id = m])
     ELSE /\ Become(h, [thread[h] EXCEPT !.at = "look", !.id = idem[k]])
          /\ UNCHANGED idem
  /\ UNCHANGED <<mission, root, told, crashes>>

\* CreateMission: the mission and all its tasks, PENDING, in one transaction.
Insert(m, tasks) ==
  /\ mission' = [mission EXCEPT ![m] = tasks]
  /\ root' = [root EXCEPT ![m] = [n \in Name |-> IF n \in Roots(tasks) THEN "PENDING" ELSE "none"]]

\* The winner creates the mission; if it is there already that is an error.
CreateMission(h) ==
  /\ thread[h].at = "create"
  /\ IF Exists(thread[h].id)
     THEN Become(h, Idle) /\ UNCHANGED <<mission, root>>
     ELSE Insert(thread[h].id, thread[h].tasks) /\ Go(h, "list")
  /\ UNCHANGED <<idem, told, crashes>>

\* Fault: the roots of a mission that was there already are taken to be active.
LookUp_answer(h) ==
  /\ thread[h].at = "look"
  /\ Go(h, IF Exists(thread[h].id) THEN "activate" ELSE "createAgain")
  /\ UNCHANGED <<idem, mission, root, told, crashes>>

\* GetMission, for a duplicate: the winner may not have created it yet, or be dead.
LookUp(h) ==
  /\ thread[h].at = "look"
  /\ Go(h, IF Exists(thread[h].id) THEN "list" ELSE "createAgain")
  /\ UNCHANGED <<idem, mission, root, told, crashes>>

\* Fault: a mission under way is left to whoever reserved the key.
CreateAgain_never(h) ==
  /\ thread[h].at = "createAgain" /\ Become(h, Idle)
  /\ UNCHANGED <<idem, mission, root, told, crashes>>

\* The duplicate creates it under the reserved id, with its own tasks; after a
\* conflict it looks once more.
CreateAgain(h) ==
  /\ thread[h].at = "createAgain"
  /\ IF Exists(thread[h].id)
     THEN Go(h, "lookAgain") /\ UNCHANGED <<mission, root>>
     ELSE Insert(thread[h].id, thread[h].tasks) /\ Go(h, "list")
  /\ UNCHANGED <<idem, told, crashes>>

LookAgain(h) ==
  /\ thread[h].at = "lookAgain"
  /\ IF Exists(thread[h].id) THEN Go(h, "list") ELSE Become(h, Idle)
  /\ UNCHANGED <<idem, mission, root, told, crashes>>

\* activateMissionRoots: the list,
ListRoots(h) ==
  /\ thread[h].at = "list"
  /\ Become(h, [thread[h] EXCEPT !.at = "activate",
                                 !.todo = {n \in Name : root[thread[h].id][n] = "PENDING"}])
  /\ UNCHANGED <<idem, mission, root, told, crashes>>

\* one root after the other; a conflict says that somebody else moved it,
Activate(h, n) ==
  /\ thread[h].at = "activate" /\ n \in thread[h].todo
  /\ Become(h, [thread[h] EXCEPT !.todo = @ \ {n}])
  /\ root' = IF root[thread[h].id][n] = "PENDING"
             THEN [root EXCEPT ![thread[h].id][n] = "READY"] ELSE root
  /\ UNCHANGED <<idem, mission, told, crashes>>

\* and the answer.
Answer(h) ==
  /\ thread[h].at = "activate" /\ thread[h].todo = {}
  /\ told' = [told EXCEPT ![thread[h].key] = @ \cup {thread[h].id}]
  /\ Become(h, Idle)
  /\ UNCHANGED <<idem, mission, root, crashes>>

\* A root is offered, run or cancelled.
Leave(m, n) ==
  /\ root[m][n] \in {"PENDING", "READY"}
  /\ root' = [root EXCEPT ![m][n] = "beyond"] /\ UNCHANGED <<idem, mission, thread, told, crashes>>

\* reconcilePendingRoots of the sweep.
ReconcilePendingRoots(m, n) ==
  /\ root[m][n] = "PENDING"
  /\ root' = [root EXCEPT ![m][n] = "READY"] /\ UNCHANGED <<idem, mission, thread, told, crashes>>

Crash ==
  /\ crashes < MaxCrash /\ crashes' = crashes + 1
  /\ \E h \in Handler : thread[h] # Idle
  /\ thread' = [h \in Handler |-> Idle] /\ UNCHANGED <<idem, mission, root, told>>

Step(h) ==
  \/ PutIdempotent(h) \/ CreateMission(h) \/ LookUp(h) \/ CreateAgain(h) \/ LookAgain(h)
  \/ ListRoots(h) \/ (\E n \in Name : Activate(h, n)) \/ Answer(h)

Next ==
  \/ \E h \in Handler : Step(h)
  \/ \E h \in Handler, r \in Request : Submit(h, r)
  \/ \E m \in Mission, n \in Name : Leave(m, n) \/ ReconcilePendingRoots(m, n)
  \/ Crash

Spec == Init /\ [][Next]_vars

-----------------------------------------------------------------------------
(* Properties.                                                             *)

\* A key is of use to somebody who may create missions and sends a graph that can be done.
UsableKeys == {r.key : r \in {q \in Request : q.source \in Scoped /\ ValidDAG(q.tasks)}}

\* The mission a key stands for exists once it was created under the reserved id.
Promise == INSTANCE OncePerKey WITH
  Usable <- UsableKeys,
  made <- [k \in Key |-> IF idem[k] # None /\ mission[idem[k]] # <<>> THEN idem[k] ELSE None]

\* The calls together keep the promise of OncePerKey: repeated, concurrent and
\* interrupted calls with one key make one mission, and every answer names it; calls that
\* are refused make none.
KeepsPromise == Promise!Spec

\* Whoever was answered has a mission that is under way: no root is left PENDING,
\* whichever of the calls died before it had activated them (activateMissionRoots is
\* repeated for duplicates).
AnsweredIsUnderWay ==
  \A k \in Key : \A m \in told[k] : \A n \in Name : root[m][n] # "PENDING"

\* A mission's tasks can all be done in some order: no set of them waits for itself.
\* Kahn's count in validateDAG is compared with the definition of a cycle.
MissionsCanFinish ==
  \A m \in Mission : \A S \in (SUBSET Declared(mission[m])) \ {{}} :
    \E i \in DOMAIN mission[m] : mission[m][i].name \in S /\ mission[m][i].deps \cap S = {}

-----------------------------------------------------------------------------
(* Fairness: handlers go on, and a caller who was not answered asks again.  *)
(* That is strong fairness because the server has a thread for every call;   *)
(* the few of the model may be busy whenever this caller comes.              *)

Repeat(k) == told[k] = {} /\ \E h \in Handler, r \in Request : r.key = k /\ Submit(h, r)

FairSpec == /\ Spec
            /\ \A h \in Handler : WF_vars(Step(h))
            /\ \A k \in Key : SF_vars(Repeat(k))

\* A key is never stuck: a caller who keeps asking is answered, even when the process
\* died after it reserved the key (the repair for duplicates in intentCreateMission).
KeyIsNeverStuck == \A k \in Key : (idem[k] # None) ~> (told[k] # {})
=============================================================================
