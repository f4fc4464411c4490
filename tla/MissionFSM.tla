----------------------------- MODULE MissionFSM -----------------------------
(***************************************************************************)
(* The subtask state machine of internal/mission/statemachine.go and the   *)
(* derivation of a mission's status from the states of its subtasks.  Both *)
(* are pure: every store operation consults the table before it writes.    *)
(***************************************************************************)

\* The states a stored subtask can be in.
State == {"PENDING", "READY", "OFFERED", "LEASED", "RUNNING", "WAITING",
          "BLOCKED", "SUCCEEDED", "FAILED", "CANCELLED"}

Terminal == {"SUCCEEDED", "FAILED", "CANCELLED"}

\* The table `transitions`: <<state, event, next state>>.
Transitions ==
  {<<"PENDING", "deps_satisfied",    "READY">>,
   <<"READY",   "lease_offered",     "OFFERED">>,
   <<"READY",   "suspended",         "WAITING">>,
   <<"READY",   "blocked",           "BLOCKED">>,
   <<"OFFERED", "lease_accepted",    "LEASED">>,
   <<"OFFERED", "lease_expired",     "READY">>,
   <<"OFFERED", "withdrawn",         "READY">>,
   <<"LEASED",  "started",           "RUNNING">>,
   <<"LEASED",  "lease_expired",     "READY">>,
   <<"RUNNING", "succeeded",         "SUCCEEDED">>,
   <<"RUNNING", "failed",            "FAILED">>,
   <<"RUNNING", "takeover_ready",    "READY">>,
   <<"RUNNING", "suspended",         "WAITING">>,
   <<"RUNNING", "blocked",           "BLOCKED">>,
   <<"WAITING", "woken",             "READY">>,
   <<"BLOCKED", "decision_approved", "RUNNING">>,
   <<"BLOCKED", "decision_rejected", "FAILED">>,
   <<"FAILED",  "retried",           "READY">>}
  \cup {<<s, "cancelled", "CANCELLED">> : s \in State \ {"SUCCEEDED", "CANCELLED"}}

\* Apply(from, ev) as a relation: the event is legal and leads to `to`.
Applies(from, ev, to) == <<from, ev, to>> \in Transitions

MissionStatus == {"ACTIVE", "SUCCEEDED", "FAILED", "CANCELLED"}

\* MissionStatusOf: from the set of states its subtasks are in.
MissionStatusOf(states) ==
  IF states = {} \/ ~ states \subseteq Terminal THEN "ACTIVE"
  ELSE IF "FAILED" \in states THEN "FAILED"
  ELSE IF "CANCELLED" \in states THEN "CANCELLED"
  ELSE "SUCCEEDED"
=============================================================================
