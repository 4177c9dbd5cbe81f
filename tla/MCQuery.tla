------------------------------ MODULE MCQuery -------------------------------
(* A realtime task with three ground truth rows, two of which score the same, *)
(* a name that is in the ground truth, one with an unknown token and one      *)
(* without a token.                                                           *)
EXTENDS Query, TLC

CONSTANTS h1, h2,                \* request threads
          same, longer, blank,   \* names
          g1, g2, g3             \* rows of the ground truth

MCTokens == (same :> {"zhe", "sun"}) @@ (longer :> {"zhe", "xi"})
            @@ (blank :> {})
            @@ (g1 :> {"zhe", "sun"}) @@ (g2 :> {"zhe"}) @@ (g3 :> {"sun"})

MCKeys        == {<<same, longer>>, <<blank>>}
MCOwnerOption == {[topN |-> 2, threshold |-> 10, cols |-> {}]}
MCSymmetry    == Permutations({h1, h2})
MCRapidOption == [topN |-> 1, threshold |-> 25, cols |-> {"country"}]
=============================================================================
