----------------------------- MODULE MCAccount -----------------------------
(* Instances of Account for TLC.                                            *)
EXTENDS Account, TLC

CONSTANTS e1, e2, u1, u2, h1, h2

OneEmail  == {e1}
OneUser   == {u1}
TwoUsers  == {u1, u2}
OneReq    == {h1}
TwoReqs   == {h1, h2}

NoKind    == {}
OnlyMedia == {"media"}

Symmetry == Permutations(TwoUsers)
=============================================================================
