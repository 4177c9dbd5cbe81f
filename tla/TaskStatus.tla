----------------------------- MODULE TaskStatus -----------------------------
(***************************************************************************)
(* What a user is promised of the status of the tasks: the life cycle of   *)
(* NM_STATUS (server/apps/nm_task/schemas.py) without workers, pods,       *)
(* database transactions or housekeeper.                                   *)
(***************************************************************************)
EXTENDS FiniteSets, Naturals

CONSTANTS Task, Realtime, MaxRunningTaskNr

VARIABLES
    status,   \* [Task -> Status]
    active    \* [Task -> BOOLEAN]: not deleted

vars == <<status, active>>

RunningStatus == {"PREPARING", "LAUNCHING", "READY", "TERMINATING"}
EndStatus     == {"COMPLETE", "FAILED", "OOMKILLED", "STOPPED", "TERMINATED"}

Running == {t \in Task : active[t] /\ status[t] \in RunningStatus}

Init ==
    /\ status = [t \in Task |-> "INIT"]
    /\ active = [t \in Task |-> TRUE]

Become(t, from, to) ==
    /\ status[t] \in from
    /\ status' = [status EXCEPT ![t] = to]
    /\ UNCHANGED active

\* A task is started when it does not run and the user has room for it.
Prepare(t) ==
    /\ Cardinality(Running) < MaxRunningTaskNr
    /\ Become(t, EndStatus \cup {"INIT"}, "PREPARING")

Launch(t) == Become(t, {"PREPARING"}, "LAUNCHING")

\* A realtime task serves queries, a batch task finishes its computation.
Work(t) == Become(t, {"LAUNCHING"}, IF t \in Realtime THEN "READY" ELSE "TERMINATING")

\* Only a computation that has finished completes.
End(t) ==
    \/ Become(t, {"TERMINATING"}, "COMPLETE")
    \/ \E s \in EndStatus \ {"COMPLETE"} :
           Become(t, {"LAUNCHING", "READY", "TERMINATING"}, s)

\* A query that was accepted in READY may put the status back after the end:
\* the match endpoint writes the row it has read.
LateQuery(t) == t \in Realtime /\ Become(t, EndStatus, "READY")

Delete(t) ==
    /\ active' = [active EXCEPT ![t] = FALSE]
    /\ UNCHANGED status

Next == \E t \in Task : Prepare(t) \/ Launch(t) \/ Work(t) \/ End(t) \/ LateQuery(t) \/ Delete(t)

Spec == Init /\ [][Next]_vars
=============================================================================
