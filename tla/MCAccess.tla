----------------------------- MODULE MCAccess -----------------------------
(* Two browsers used by a superuser, by the demo account and by someone    *)
(* with a GitHub account.                                                  *)
EXTENDS Access, TLC

CONSTANTS b1, b2, admin, demo, new1, new2, octo, p1, p2

MCSymmetry == Permutations({b1, b2}) \cup Permutations({new1, new2}) \cup Permutations({p1, p2})
=============================================================================
