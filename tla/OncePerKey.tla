----------------------------- MODULE OncePerKey -----------------------------
(***************************************************************************)
(* What the admission of create_mission intents promises to its callers    *)
(* (docs/plan/M4-trigger-pipeline.md): under one idempotency key there is  *)
(* never more than one mission, everybody who is answered is told that     *)
(* mission, whoever is answered finds it there, and none is made for calls *)
(* that are refused.                                                       *)
(***************************************************************************)
CONSTANTS Key, Mission, None,
          Usable  \* the keys under which somebody may have a mission made

VARIABLES made,  \* the mission made under each key
          told   \* the missions callers with each key were told

Init ==
  /\ made = [k \in Key |-> None]
  /\ told = [k \in Key |-> {}]

Make(k) ==
  /\ k \in Usable /\ made[k] = None
  /\ \E m \in Mission : /\ \A j \in Key : made[j] # m
                        /\ made' = [made EXCEPT ![k] = m]
  /\ UNCHANGED told

Answer(k) ==
  /\ made[k] # None
  /\ told' = [told EXCEPT ![k] = @ \cup {made[k]}]
  /\ UNCHANGED made

Next == \E k \in Key : Make(k) \/ Answer(k)

Spec == Init /\ [][Next]_<<made, told>>
=============================================================================
