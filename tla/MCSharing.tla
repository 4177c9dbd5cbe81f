----------------------------- MODULE MCSharing -----------------------------
(* An instance of Sharing for TLC: ann shares a dataset with ben, who owns  *)
(* a group and whose datasets are public.                                   *)
EXTENDS Sharing

CONSTANTS ann, ben, dataA, groupA, groupB, h1, h2

Users    == {ann, ben}
Groups   == {groupA, groupB}
Founders == [g \in Groups |-> IF g = groupA THEN ann ELSE ben]

OneDataset == {dataA}
OneOwner   == [d \in OneDataset |-> ann]

OneReq   == {h1}
TwoReqs  == {h1, h2}
OneUser  == [h \in OneReq |-> ann]
TwoUsers == [h \in TwoReqs |-> IF h = h1 THEN ann ELSE ben]
=============================================================================
