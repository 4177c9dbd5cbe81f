------------------------------ MODULE MCTaskRq ------------------------------
(* Two tasks of different users share the worker of their type.            *)
EXTENDS NmTaskRq, TLC

CONSTANTS t1, t2, h1, h2

Alike == Permutations({t1, t2}) \cup Permutations({h1, h2})
=============================================================================
