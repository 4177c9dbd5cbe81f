------------------------------- MODULE MCTask -------------------------------
(* Instances of NmTask for TLC.  Two tasks of one user, a batch task with   *)
(* a TTL and a realtime task, two pods; or one realtime task with a TTL and *)
(* one pod, where every request and every fault is let loose.  A third task *)
(* asks for a computation type that there is no code for.                   *)
EXTENDS NmTask, TLC

CONSTANTS tb, tr, ts, r1, r2, h1, h2

BothTasks    == {tb, tr}
AllTasks     == {tb, tr, ts}
SparkTask    == {ts}
BatchTask    == {tb}
RealtimeTask == {tr}

TwoRuns == {r1, r2}
OneRun  == {r1}

TwoReqs == {h1, h2}
OneReq  == {h1}

RunSymmetry == Permutations(TwoRuns)
ReqSymmetry == Permutations(TwoReqs)
=============================================================================
