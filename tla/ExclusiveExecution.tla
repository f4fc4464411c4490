------------------------- MODULE ExclusiveExecution -------------------------
(***************************************************************************)
(* What leases and fencing tokens promise, with nothing of how: a task has *)
(* at most one owner at a time, grants are numbered upwards, only the      *)
(* owner of the moment leaves a result or a checkpoint, and a result ends  *)
(* the story.  TaskLease implements this specification.                    *)
(***************************************************************************)
EXTENDS Naturals

CONSTANTS Task,     \* the tasks that can be owned
          MaxGrant  \* a bound on the number of grants

VARIABLES owner,      \* owner[t]: the grant that owns t, 0 when t is free
          granted,    \* the number of grants handed out so far
          result,     \* result[t]: the grant whose result t keeps, 0 if none
          checkpoint  \* checkpoint[t]: the grant that wrote t's checkpoint

vars == <<owner, granted, result, checkpoint>>

Grants == 0..MaxGrant

Init ==
  /\ owner = [t \in Task |-> 0]
  /\ granted = 0
  /\ result = [t \in Task |-> 0]
  /\ checkpoint = [t \in Task |-> 0]

\* A free task without a result gets an owner nobody has been before.
Grant(t) ==
  /\ owner[t] = 0 /\ result[t] = 0 /\ granted < MaxGrant
  /\ granted' = granted + 1
  /\ owner' = [owner EXCEPT ![t] = granted + 1]
  /\ UNCHANGED <<result, checkpoint>>

\* Owners lose their tasks: released, failed, expired, fenced or cancelled.
Revoke(S) ==
  /\ owner' = [t \in Task |-> IF t \in S THEN 0 ELSE owner[t]]
  /\ UNCHANGED <<granted, result, checkpoint>>

\* The owner saves its progress, and may give the task up with it.
Save(t, giveUp) ==
  /\ owner[t] # 0
  /\ checkpoint' = [checkpoint EXCEPT ![t] = owner[t]]
  /\ owner' = IF giveUp THEN [owner EXCEPT ![t] = 0] ELSE owner
  /\ UNCHANGED <<granted, result>>

\* The owner delivers the result and is done.
Deliver(t) ==
  /\ owner[t] # 0 /\ result[t] = 0
  /\ result' = [result EXCEPT ![t] = owner[t]]
  /\ owner' = [owner EXCEPT ![t] = 0]
  /\ UNCHANGED <<granted, checkpoint>>

Next ==
  \/ \E t \in Task : Grant(t) \/ Deliver(t) \/ \E giveUp \in BOOLEAN : Save(t, giveUp)
  \/ \E S \in SUBSET Task : Revoke(S)

Spec == Init /\ [][Next]_vars
=============================================================================
