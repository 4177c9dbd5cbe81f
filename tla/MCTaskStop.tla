----------------------------- MODULE MCTaskStop -----------------------------
(* An instance of NmTaskStop for TLC: one realtime task, one pod.           *)
EXTENDS NmTaskStop

CONSTANTS tr, r1, h1

RealtimeTask == {tr}
OneRun       == {r1}
OneReq       == {h1}
=============================================================================
