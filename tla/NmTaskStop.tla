----------------------------- MODULE NmTaskStop -----------------------------
(* NmTask with a history of the stop requests that were answered: the stop  *)
(* endpoint answers "successfully" whoever has heard the message.           *)
EXTENDS NmTask

VARIABLE acked   \* the runs that existed, and had not ended, at some answer

StopInit == Init /\ acked = {}

\* POST /tasks/nm/{id}/stop, and its answer.
StopAnswered(t) ==
    /\ "stop" \in Method
    /\ Stop(t)
    /\ acked' = acked \cup {r \in RunsOf(t) : pod[r] \in {"pending", "running"}}

StopNext ==
    \/ \E t \in Task : StopAnswered(t)
    \/ Next /\ UNCHANGED acked

StopSpec == StopInit /\ [][StopNext]_<<vars, acked>> /\ Fairness

\* The stop endpoint answers "Stop task ... successfully" (endpoints.py): the
\* runs of the task that there were then come to an end.
AcknowledgedStopEnds ==
    \A r \in Run : r \in acked ~> wpc[r] = "exit"
=============================================================================
