---------------------------- MODULE Sharing_proofs ----------------------------
(* Proofs about Sharing, for any users, datasets, groups and requests.        *)
EXTENDS Sharing, TLAPS

\* A thread that serves nothing is a request record.
LEMMA IdleIsRequest == Idle \in Request
BY SharingAssumption DEF Idle, Request, ReqPc, AnyDataset, AnyGroup

\* One request is replaced: what the others are, and what this one is.
LEMMA RequestReplaced ==
    ASSUME TypeOK, NEW h \in Req, NEW q \in Request, req' = [req EXCEPT ![h] = q]
    PROVE  /\ req' \in [Req -> Request]
           /\ req'[h] = q
           /\ \A k \in Req \ {h} : req'[k] = req[k]
BY DEF TypeOK

\* What a request is made of.
LEMMA RequestFields ==
    ASSUME TypeOK, NEW h \in Req
    PROVE  /\ req[h] \in Request
           /\ req[h].ds \in Dataset
           /\ req[h].grp \in Group
           /\ req[h].groups \in SUBSET Group
           /\ req[h].users \in SUBSET User
           /\ req[h].oldGroups \in SUBSET Group
           /\ req[h].oldUsers \in SUBSET User
           /\ req[h].dropping \in SUBSET Group
BY DEF TypeOK, Request

-----------------------------------------------------------------------------
(* A share request, from its acceptance to its answer.                      *)

SharePc  == {"groups_read", "groups_add", "groups_drop",
             "users_read", "users_add", "users_drop", "share_end"}
LateShare == {"users_read", "users_add", "users_drop", "share_end"}

\* Requests of one user are served one after the other.
OneRequestPerUser == \A h, k \in Req : UserOf[h] = UserOf[k] => h = k

\* What request q of thread h knows of the shares of its dataset: those it
\* has read are still there, those it has added too, and what it is about to
\* drop is nothing it was asked to share.
Knows(h, q, groupsOf, usersOf) ==
    /\ q.pc \in SharePc => OwnerOf[q.ds] = UserOf[h]
    /\ q.pc \notin LateShare => q.dropping = {}
    /\ q.dropping \cap q.groups = {}
    /\ q.pc = "groups_add" => q.oldGroups \subseteq groupsOf[q.ds]
    /\ q.pc \in LateShare \cup {"groups_drop"} => q.groups \subseteq groupsOf[q.ds]
    /\ q.pc = "users_add" => q.oldUsers \subseteq usersOf[q.ds]
    /\ q.pc \in {"users_drop", "share_end"} => q.users \ {OwnerOf[q.ds]} \subseteq usersOf[q.ds]

ShareInv == \A h \in Req : Knows(h, req[h], sharedGroups, sharedUsers)

\* A thread that serves nothing knows nothing.
LEMMA IdleKnows ==
    ASSUME NEW h \in Req, NEW sg, NEW su
    PROVE  Knows(h, Idle, sg, su)
BY DEF Knows, Idle, SharePc, LateShare

\* A step of thread h keeps the invariant when it keeps it for h and takes no
\* shares from the datasets of the other requests.
LEMMA OthersKeep ==
    ASSUME TypeOK, ShareInv, OneRequestPerUser, NEW h \in Req, NEW q \in Request,
           req' = [req EXCEPT ![h] = q],
           Knows(h, q, sharedGroups', sharedUsers'),
           \A d \in Dataset :
              \/ sharedGroups[d] \subseteq sharedGroups'[d] /\ sharedUsers[d] \subseteq sharedUsers'[d]
              \/ req[h].pc \in SharePc /\ d = req[h].ds
    PROVE  ShareInv'
<1> SUFFICES ASSUME NEW k \in Req
             PROVE  Knows(k, req'[k], sharedGroups', sharedUsers')
  BY DEF ShareInv
<1>1. CASE k = h
  BY <1>1, RequestReplaced
<1>2. CASE k # h
  <2>1. req'[k] = req[k] /\ Knows(k, req[k], sharedGroups, sharedUsers)
    BY <1>2, RequestReplaced DEF ShareInv
  <2>2. Knows(h, req[h], sharedGroups, sharedUsers)
    BY DEF ShareInv
  <2>3. CASE req[k].pc \notin SharePc
    BY <2>1, <2>3 DEF Knows, SharePc, LateShare
  <2>4. CASE req[k].pc \in SharePc
    <3>1. ~(req[h].pc \in SharePc /\ req[k].ds = req[h].ds)
      BY <1>2, <2>1, <2>2, <2>4 DEF OneRequestPerUser, Knows
    <3>2. req[k].ds \in Dataset
      BY RequestFields
    <3>3. /\ sharedGroups[req[k].ds] \subseteq sharedGroups'[req[k].ds]
          /\ sharedUsers[req[k].ds] \subseteq sharedUsers'[req[k].ds]
      BY <3>1, <3>2
    <3> HIDE DEF ShareInv, OneRequestPerUser
    <3> QED
      BY <2>1, <2>4, <3>3 DEF Knows
  <2> QED
    BY <2>3, <2>4
<1> QED
  BY <1>1, <1>2

-----------------------------------------------------------------------------
(* The record a step of thread h leaves, and its type.                      *)

\* Every step of a thread replaces its request by a request.
LEMMA StepOfRequest ==
    ASSUME TypeOK, NEW h \in Req,
           DatasetRequest(h) \/ GroupRequest(h) \/ Serve(h) \/ RequestDies(h)
    PROVE  \E q \in Request : req' = [req EXCEPT ![h] = q]
<1> USE RequestFields DEF Request
<1>1. {"publish", "unpublish", "set_write", "groups_read", "groups_add", "groups_drop",
       "users_read", "users_add", "users_drop", "share_end"} \subseteq ReqPc
  BY DEF ReqPc
<1>2. ASSUME Return(h) PROVE \E q \in Request : req' = [req EXCEPT ![h] = q]
  BY <1>2, IdleIsRequest DEF Return
<1>3. ASSUME UNCHANGED req PROVE \E q \in Request : req' = [req EXCEPT ![h] = q]
  BY <1>3 DEF TypeOK
<1>4. ASSUME NEW pc \in ReqPc, Goto(h, pc) PROVE \E q \in Request : req' = [req EXCEPT ![h] = q]
  <2>1. [req[h] EXCEPT !.pc = pc] \in Request
    OBVIOUS
  <2> QED
    BY <1>4, <2>1 DEF Goto
<1>5. CASE DatasetRequest(h)
  <2>1. ASSUME NEW d \in Dataset, CreateDataset(h, d) \/ DestroyDataset(h, d)
        PROVE  \E q \in Request : req' = [req EXCEPT ![h] = q]
    <3>1. /\ [req[h] EXCEPT !.pc = "publish", !.ds = d] \in Request
          /\ [req[h] EXCEPT !.pc = "unpublish", !.ds = d] \in Request
      BY <1>1
    <3> QED
      BY <1>3, <2>1, <3>1 DEF CreateDataset, DestroyDataset
  <2>2. ASSUME NEW d \in Dataset, NEW gs \in SUBSET Group, NEW us \in SUBSET User,
               ShareBegin(h, d, gs, us)
        PROVE  \E q \in Request : req' = [req EXCEPT ![h] = q]
    <3>1. [req[h] EXCEPT !.pc = "groups_read", !.ds = d, !.groups = gs, !.users = us] \in Request
      BY <1>1
    <3> QED
      BY <2>2, <3>1 DEF ShareBegin
  <2> QED
    BY <1>5, <2>1, <2>2 DEF DatasetRequest
<1>6. CASE GroupRequest(h)
  <2>1. ASSUME NEW g \in Group, CreateGroup(h, g) \/ DeleteGroup(h, g)
        PROVE  \E q \in Request : req' = [req EXCEPT ![h] = q]
    BY <1>3, <2>1 DEF CreateGroup, DeleteGroup
  <2>2. ASSUME NEW g \in Group, NEW us \in SUBSET User, SetMembersRead(h, g, us)
        PROVE  \E q \in Request : req' = [req EXCEPT ![h] = q]
    <3>1. [req[h] EXCEPT !.pc = "set_write", !.grp = g, !.users = us, !.oldUsers = members[g]]
             \in Request
      BY <1>1 DEF TypeOK
    <3> QED
      BY <2>2, <3>1 DEF SetMembersRead
  <2> QED
    BY <1>6, <2>1, <2>2 DEF GroupRequest
<1>7. CASE Serve(h) \/ RequestDies(h)
  <2>1. CASE Publish(h) \/ Unpublish(h) \/ SetMembersWrite(h) \/ ShareEnd(h) \/ RequestDies(h)
    BY <1>2, <2>1 DEF Publish, Unpublish, SetMembersWrite, ShareEnd, RequestDies
  <2>2. CASE ShareGroupsRead(h)
    <3>1. [req[h] EXCEPT !.pc = "groups_add", !.oldGroups = sharedGroups[req[h].ds]] \in Request
      BY <1>1 DEF TypeOK
    <3> QED
      BY <1>1, <1>4, <2>2, <3>1 DEF ShareGroupsRead
  <2>3. CASE ShareGroupsAdd(h) \/ ShareUsersDrop(h)
    BY <1>1, <1>2, <1>4, <2>3 DEF ShareGroupsAdd, ShareUsersDrop
  <2>4. CASE ShareGroupsDrop(h)
    <3> DEFINE drop == (req[h].oldGroups \ req[h].groups) \cap sharedGroups[req[h].ds]
    <3>1. [req[h] EXCEPT !.pc = "users_read", !.dropping = drop] \in Request
      BY <1>1
    <3> QED
      BY <2>4, <3>1 DEF ShareGroupsDrop
  <2>5. CASE ShareUsersRead(h)
    <3>1. [req[h] EXCEPT !.pc = "users_add", !.oldUsers = sharedUsers[req[h].ds]] \in Request
      BY <1>1 DEF TypeOK
    <3> QED
      BY <1>1, <1>4, <2>5, <3>1 DEF ShareUsersRead
  <2>6. CASE ShareUsersAdd(h)
    <3>1. [req[h] EXCEPT !.pc = "users_drop", !.dropping = {}] \in Request
      BY <1>1
    <3> QED
      BY <1>1, <1>4, <2>6, <3>1 DEF ShareUsersAdd
  <2> QED
    BY <1>7, <2>1, <2>2, <2>3, <2>4, <2>5, <2>6 DEF Serve
<1> QED
  BY <1>5, <1>6, <1>7

\* Every step keeps the types.
LEMMA TypeNext == TypeOK /\ [Next]_vars => TypeOK'
<1> SUFFICES ASSUME TypeOK, [Next]_vars PROVE TypeOK'
  OBVIOUS
<1>1. CASE UNCHANGED vars
  BY <1>1 DEF vars, shares, TypeOK
<1>2. ASSUME NEW h \in Req,
             DatasetRequest(h) \/ GroupRequest(h) \/ Serve(h) \/ RequestDies(h)
      PROVE  TypeOK'
  <2>1. req' \in [Req -> Request]
    BY <1>2, StepOfRequest, RequestReplaced
  <2>2. CASE DatasetRequest(h)
    BY <2>1, <2>2 DEF DatasetRequest, CreateDataset, DestroyDataset, ShareBegin, shares, TypeOK,
                      Existence
  <2>3. CASE GroupRequest(h)
    BY <2>1, <2>3 DEF GroupRequest, CreateGroup, DeleteGroup, SetMembersRead, shares, TypeOK,
                      Existence
  <2>4. CASE Serve(h)
    <3> USE RequestFields
    <3>1. CASE Publish(h) \/ Unpublish(h)
      BY <2>1, <3>1 DEF Publish, Unpublish, shares, TypeOK
    <3>2. CASE SetMembersWrite(h)
      BY <2>1, <3>2 DEF SetMembersWrite, shares, TypeOK
    <3>3. CASE ShareGroupsAdd(h)
      BY <2>1, <3>3 DEF ShareGroupsAdd, TypeOK
    <3>4. CASE ShareUsersAdd(h)
      BY <2>1, <3>4 DEF ShareUsersAdd, shares, TypeOK
    <3>5. CASE ShareGroupsRead(h) \/ ShareGroupsDrop(h) \/ ShareUsersRead(h) \/ ShareUsersDrop(h)
               \/ ShareEnd(h)
      BY <2>1, <3>5 DEF ShareGroupsRead, ShareGroupsDrop, ShareUsersRead, ShareUsersDrop, ShareEnd,
                        shares, TypeOK
    <3> QED
      BY <2>4, <3>1, <3>2, <3>3, <3>4, <3>5 DEF Serve
  <2>5. CASE RequestDies(h)
    BY <2>1, <2>5 DEF RequestDies, shares, TypeOK
  <2> QED
    BY <1>2, <2>2, <2>3, <2>4, <2>5
<1> QED
  BY <1>1, <1>2 DEF Next

\* Every variable keeps its type.
THEOREM TypeCorrect == Spec => []TypeOK
<1>1. Init => TypeOK
  BY IdleIsRequest DEF Init, TypeOK, Existence
<1> QED
  BY <1>1, TypeNext, PTL DEF Spec

-----------------------------------------------------------------------------
(* Nothing refers to a group that is gone.                                  *)

\* The foreign keys, and the locks of the shares that are being dropped, keep
\* every share and every member with a group that exists.
LEMMA SharesExistNext == TypeOK /\ SharesExist /\ [Next]_vars => SharesExist'
<1> SUFFICES ASSUME TypeOK, SharesExist, [Next]_vars PROVE SharesExist'
  OBVIOUS
<1>1. CASE UNCHANGED <<group, members, sharedGroups>>
  BY <1>1 DEF SharesExist
<1>2. ASSUME NEW h \in Req, NEW d \in Dataset, CreateDataset(h, d) \/ DestroyDataset(h, d)
      PROVE  UNCHANGED <<group, members, sharedGroups>>
  BY <1>2 DEF CreateDataset, DestroyDataset, shares
<1>3. ASSUME NEW h \in Req, NEW d \in Dataset, NEW gs, NEW us, ShareBegin(h, d, gs, us)
      PROVE  UNCHANGED <<group, members, sharedGroups>>
  BY <1>3 DEF ShareBegin, shares
<1>4. ASSUME NEW h \in Req, NEW g \in Group, CreateGroup(h, g)
      PROVE  SharesExist'
  BY <1>4 DEF CreateGroup, SharesExist, shares, TypeOK
<1>5. ASSUME NEW h \in Req, NEW g \in Group, DeleteGroup(h, g)
      PROVE  SharesExist'
  BY <1>5 DEF DeleteGroup, SharesExist, shares, TypeOK
<1>6. ASSUME NEW h \in Req, NEW g \in Group, NEW us, SetMembersRead(h, g, us)
      PROVE  UNCHANGED <<group, members, sharedGroups>>
  BY <1>6 DEF SetMembersRead, shares
<1>7. ASSUME NEW h \in Req, SetMembersWrite(h)
      PROVE  SharesExist'
  <2> DEFINE g   == req[h].grp
             new == req[h].users \ req[h].oldUsers
  <2>1. CASE new = {} \/ group[g] = "there"
    <3>1. members' = [members EXCEPT ![g] = (members[g] \ (req[h].oldUsers \ req[h].users)) \cup new]
      BY <1>7, <2>1 DEF SetMembersWrite
    <3>2. group' = group /\ sharedGroups' = sharedGroups
      BY <1>7 DEF SetMembersWrite, shares
    <3>3. \A k \in Group : members'[k] # {} => members[k] # {} \/ (k = g /\ new # {})
      BY <3>1, RequestFields DEF TypeOK
    <3> QED
      BY <2>1, <3>2, <3>3 DEF SharesExist
  <2>2. CASE ~(new = {} \/ group[g] = "there")
    BY <1>7, <2>2 DEF SetMembersWrite, SharesExist, shares
  <2> QED
    BY <2>1, <2>2
<1>8. ASSUME NEW h \in Req, ShareGroupsAdd(h)
      PROVE  SharesExist'
  BY <1>8, RequestFields DEF ShareGroupsAdd, SharesExist, TypeOK
<1>9. ASSUME NEW h \in Req, ShareUsersAdd(h)
      PROVE  SharesExist'
  <2>1. \A d \in Dataset : sharedGroups'[d] \subseteq sharedGroups[d]
    BY <1>9, RequestFields DEF ShareUsersAdd, shares, TypeOK
  <2>2. UNCHANGED <<group, members>>
    BY <1>9 DEF ShareUsersAdd
  <2> QED
    BY <2>1, <2>2 DEF SharesExist
<1>10. ASSUME NEW h \in Req, Serve(h), ~SetMembersWrite(h), ~ShareGroupsAdd(h), ~ShareUsersAdd(h)
       PROVE  UNCHANGED <<group, members, sharedGroups>>
  BY <1>10 DEF Serve, Publish, Unpublish, ShareGroupsRead, ShareGroupsDrop, ShareUsersRead,
               ShareUsersDrop, ShareEnd, shares
<1>11. ASSUME NEW h \in Req, RequestDies(h)
       PROVE  UNCHANGED <<group, members, sharedGroups>>
  BY <1>11 DEF RequestDies, shares
<1>12. ASSUME UNCHANGED vars
       PROVE  UNCHANGED <<group, members, sharedGroups>>
  BY <1>12 DEF vars, shares
<1> QED
  BY <1>1, <1>2, <1>3, <1>4, <1>5, <1>6, <1>7, <1>8, <1>9, <1>10, <1>11, <1>12
     DEF Next, DatasetRequest, GroupRequest

\* However requests interleave and die, shares and members belong to groups
\* that exist.
THEOREM SharesExistAlways == Spec => []SharesExist
<1>1. Init => SharesExist
  BY DEF Init, SharesExist
<1> QED
  BY <1>1, SharesExistNext, TypeCorrect, PTL DEF Spec

-----------------------------------------------------------------------------
(* A share request does what it was asked for.                              *)

\* Every step that serves a request keeps what the share requests know.
LEMMA KnowsServe ==
    ASSUME TypeOK, ShareInv, OneRequestPerUser, NEW h \in Req, Serve(h)
    PROVE  ShareInv'
<1> USE RequestFields
<1>1. Knows(h, req[h], sharedGroups, sharedUsers)
  BY DEF ShareInv
<1>2. ASSUME Return(h), UNCHANGED shares PROVE ShareInv'
  BY <1>2, IdleIsRequest, IdleKnows, OthersKeep DEF Return, shares
<1>3. PICK q \in Request : req' = [req EXCEPT ![h] = q]
  BY StepOfRequest
<1>4. req'[h] = q
  BY <1>3, RequestReplaced
<1>5. CASE Publish(h) \/ Unpublish(h) \/ SetMembersWrite(h) \/ ShareEnd(h)
  BY <1>2, <1>5 DEF Publish, Unpublish, SetMembersWrite, ShareEnd
<1>6. CASE ShareGroupsRead(h)
  <2>1. CASE req[h].groups = {}
    <3>1. q = [req[h] EXCEPT !.pc = "users_read"]
      BY <1>4, <1>6, <2>1 DEF ShareGroupsRead, Goto, TypeOK
    <3>2. Knows(h, q, sharedGroups, sharedUsers)
      BY <1>1, <1>6, <2>1, <3>1 DEF ShareGroupsRead, Knows, SharePc, LateShare, Request
    <3> QED
      BY <1>3, <1>6, <3>2, OthersKeep DEF ShareGroupsRead, shares
  <2>2. CASE req[h].groups # {}
    <3>1. q = [req[h] EXCEPT !.pc = "groups_add", !.oldGroups = sharedGroups[req[h].ds]]
      BY <1>4, <1>6, <2>2 DEF ShareGroupsRead, TypeOK
    <3>2. Knows(h, q, sharedGroups, sharedUsers)
      BY <1>1, <1>6, <3>1 DEF ShareGroupsRead, Knows, SharePc, LateShare, Request
    <3> QED
      BY <1>3, <1>6, <3>2, OthersKeep DEF ShareGroupsRead, shares
  <2> QED
    BY <2>1, <2>2
<1>7. CASE ShareGroupsAdd(h)
  <2> DEFINE d   == req[h].ds
             new == req[h].groups \ req[h].oldGroups
  <2>1. CASE \A g \in new : group[g] = "there"
    <3>1. sharedGroups' = [sharedGroups EXCEPT ![d] = sharedGroups[d] \cup new]
          /\ Goto(h, "groups_drop") /\ sharedUsers' = sharedUsers
      BY <1>7, <2>1 DEF ShareGroupsAdd
    <3>2. \A e \in Dataset : sharedGroups[e] \subseteq sharedGroups'[e]
      BY <3>1 DEF TypeOK
    <3>3. req[h].groups \subseteq sharedGroups'[d]
      BY <1>1, <1>7, <3>1 DEF ShareGroupsAdd, Knows, TypeOK
    <3>4. q = [req[h] EXCEPT !.pc = "groups_drop"]
      BY <1>4, <3>1 DEF Goto, TypeOK
    <3>5. Knows(h, q, sharedGroups', sharedUsers')
      BY <1>1, <1>7, <3>3, <3>4 DEF ShareGroupsAdd, Knows, SharePc, LateShare, Request
    <3> QED
      BY <1>3, <3>1, <3>2, <3>5, OthersKeep
  <2>2. CASE ~(\A g \in new : group[g] = "there")
    BY <1>2, <1>7, <2>2 DEF ShareGroupsAdd, shares
  <2> QED
    BY <2>1, <2>2
<1>8. CASE ShareGroupsDrop(h)
  <2>1. q = [req[h] EXCEPT !.pc = "users_read",
                !.dropping = (req[h].oldGroups \ req[h].groups) \cap sharedGroups[req[h].ds]]
    BY <1>4, <1>8 DEF ShareGroupsDrop, TypeOK
  <2>2. Knows(h, q, sharedGroups, sharedUsers)
    BY <1>1, <1>8, <2>1 DEF ShareGroupsDrop, Knows, SharePc, LateShare, Request
  <2> QED
    BY <1>3, <1>8, <2>2, OthersKeep DEF ShareGroupsDrop, shares
<1>9. CASE ShareUsersRead(h)
  <2>1. CASE req[h].users = {}
    <3>1. q = [req[h] EXCEPT !.pc = "share_end"]
      BY <1>4, <1>9, <2>1 DEF ShareUsersRead, Goto, TypeOK
    <3>2. Knows(h, q, sharedGroups, sharedUsers)
      BY <1>1, <1>9, <2>1, <3>1 DEF ShareUsersRead, Knows, SharePc, LateShare, Request
    <3> QED
      BY <1>3, <1>9, <3>2, OthersKeep DEF ShareUsersRead, shares
  <2>2. CASE req[h].users # {}
    <3>1. q = [req[h] EXCEPT !.pc = "users_add", !.oldUsers = sharedUsers[req[h].ds]]
      BY <1>4, <1>9, <2>2 DEF ShareUsersRead, TypeOK
    <3>2. Knows(h, q, sharedGroups, sharedUsers)
      BY <1>1, <1>9, <3>1 DEF ShareUsersRead, Knows, SharePc, LateShare, Request
    <3> QED
      BY <1>3, <1>9, <3>2, OthersKeep DEF ShareUsersRead, shares
  <2> QED
    BY <2>1, <2>2
<1>10. CASE ShareUsersAdd(h)
  <2> DEFINE d   == req[h].ds
             new == (req[h].users \ req[h].oldUsers) \ {OwnerOf[d]}
  <2>1. CASE new = {}
    <3>1. Goto(h, "users_drop") /\ UNCHANGED shares
      BY <1>10, <2>1 DEF ShareUsersAdd
    <3>2. q = [req[h] EXCEPT !.pc = "users_drop"]
      BY <1>4, <3>1 DEF Goto, TypeOK
    <3>3. Knows(h, q, sharedGroups, sharedUsers)
      BY <1>1, <1>10, <2>1, <3>2 DEF ShareUsersAdd, Knows, SharePc, LateShare, Request
    <3> QED
      BY <1>3, <3>1, <3>3, OthersKeep DEF shares
  <2>2. CASE new # {}
    <3>1. /\ sharedUsers' = [sharedUsers EXCEPT ![d] = sharedUsers[d] \cup new]
          /\ sharedGroups' = [sharedGroups EXCEPT ![d] = sharedGroups[d] \ req[h].dropping]
          /\ req' = [req EXCEPT ![h] = [req[h] EXCEPT !.pc = "users_drop", !.dropping = {}]]
      BY <1>10, <2>2 DEF ShareUsersAdd
    <3>2. q = [req[h] EXCEPT !.pc = "users_drop", !.dropping = {}]
      BY <1>4, <3>1 DEF TypeOK
    <3>3. /\ sharedUsers'[d] = sharedUsers[d] \cup new
          /\ sharedGroups'[d] = sharedGroups[d] \ req[h].dropping
      BY <3>1 DEF TypeOK
    <3>4. Knows(h, q, sharedGroups', sharedUsers')
      BY <1>1, <1>10, <3>2, <3>3 DEF ShareUsersAdd, Knows, SharePc, LateShare, Request
    <3>5. \A e \in Dataset \ {d} : sharedUsers'[e] = sharedUsers[e] /\ sharedGroups'[e] = sharedGroups[e]
      BY <3>1 DEF TypeOK
    <3>6. req[h].pc \in SharePc
      BY <1>10 DEF ShareUsersAdd, SharePc
    <3> QED
      BY <1>3, <3>4, <3>5, <3>6, OthersKeep
  <2> QED
    BY <2>1, <2>2
<1>11. CASE ShareUsersDrop(h)
  <2>1. Knows(h, q, sharedGroups, sharedUsers)
    BY <1>1, <1>4, <1>11 DEF ShareUsersDrop, Goto, Knows, SharePc, LateShare, TypeOK, Request
  <2> QED
    BY <1>3, <1>11, <2>1, OthersKeep DEF ShareUsersDrop, shares
<1> QED
  BY <1>5, <1>6, <1>7, <1>8, <1>9, <1>10, <1>11 DEF Serve

\* Every step keeps what the share requests know.
LEMMA KnowsNext ==
    ASSUME OneRequestPerUser
    PROVE  TypeOK /\ ShareInv /\ [Next]_vars => ShareInv'
<1> SUFFICES ASSUME TypeOK, ShareInv, [Next]_vars PROVE ShareInv'
  OBVIOUS
<1>1. CASE UNCHANGED vars
  BY <1>1 DEF vars, shares, ShareInv
<1>2. ASSUME NEW h \in Req, Serve(h)
      PROVE  ShareInv'
  BY <1>2, KnowsServe
<1>3. ASSUME NEW h \in Req, RequestDies(h)
      PROVE  ShareInv'
  BY <1>3, IdleIsRequest, IdleKnows, OthersKeep DEF RequestDies, Return, shares
<1>4. ASSUME NEW h \in Req, DatasetRequest(h) \/ GroupRequest(h)
      PROVE  ShareInv'
  <2>1. PICK q \in Request : req' = [req EXCEPT ![h] = q]
    BY <1>4, StepOfRequest
  <2>2. req'[h] = q
    BY <2>1, RequestReplaced
  <2>3. UNCHANGED shares
    BY <1>4 DEF DatasetRequest, CreateDataset, DestroyDataset, ShareBegin, GroupRequest,
                CreateGroup, DeleteGroup, SetMembersRead
  <2>4. Knows(h, req[h], sharedGroups, sharedUsers) /\ req[h].pc = "idle"
    BY <1>4 DEF ShareInv, DatasetRequest, CreateDataset, DestroyDataset, ShareBegin, GroupRequest,
                CreateGroup, DeleteGroup, SetMembersRead
  <2>5. req[h].dropping = {}
    BY <2>4 DEF Knows, LateShare
  <2>6. ASSUME NEW d \in Dataset, NEW gs, NEW us, ShareBegin(h, d, gs, us)
        PROVE  Knows(h, q, sharedGroups, sharedUsers)
    <3>1. /\ q = [req[h] EXCEPT !.pc = "groups_read", !.ds = d, !.groups = gs, !.users = us]
          /\ OwnerOf[d] = UserOf[h]
      BY <2>2, <2>6 DEF ShareBegin, TypeOK
    <3>2. q.pc = "groups_read" /\ q.ds = d /\ q.dropping = {}
      BY <2>5, <3>1, RequestFields DEF Request
    <3> QED
      BY <3>1, <3>2 DEF Knows, SharePc, LateShare
  <2>7. ASSUME ~(\E d \in Dataset, gs \in SUBSET Group, us \in SUBSET User : ShareBegin(h, d, gs, us))
        PROVE  Knows(h, q, sharedGroups, sharedUsers)
    <3>1. q.pc \in {"idle", "publish", "unpublish", "set_write"} /\ q.dropping = {}
      <4>1. CASE UNCHANGED req
        BY <2>2, <2>4, <2>5, <4>1
      <4>2. ASSUME NEW d \in Dataset, q = [req[h] EXCEPT !.pc = "publish", !.ds = d]
            PROVE  q.pc = "publish" /\ q.dropping = {}
        BY <2>5, <4>2, RequestFields DEF Request
      <4>3. ASSUME NEW d \in Dataset, q = [req[h] EXCEPT !.pc = "unpublish", !.ds = d]
            PROVE  q.pc = "unpublish" /\ q.dropping = {}
        BY <2>5, <4>3, RequestFields DEF Request
      <4>4. ASSUME NEW d \in Dataset, CreateDataset(h, d) \/ DestroyDataset(h, d)
            PROVE  \/ UNCHANGED req
                   \/ q = [req[h] EXCEPT !.pc = "publish", !.ds = d]
                   \/ q = [req[h] EXCEPT !.pc = "unpublish", !.ds = d]
        BY <2>2, <4>4 DEF CreateDataset, DestroyDataset, TypeOK
      <4>5. ASSUME NEW g \in Group, NEW us \in SUBSET User, SetMembersRead(h, g, us)
            PROVE  q.pc = "set_write" /\ q.dropping = {}
        <5>1. q = [req[h] EXCEPT !.pc = "set_write", !.grp = g, !.users = us,
                                 !.oldUsers = members[g]]
          BY <2>2, <4>5 DEF SetMembersRead, TypeOK
        <5> QED
          BY <2>5, <5>1, RequestFields DEF Request
      <4>6. ASSUME NEW g \in Group, CreateGroup(h, g) \/ DeleteGroup(h, g)
            PROVE  UNCHANGED req
        BY <4>6 DEF CreateGroup, DeleteGroup
      <4> QED
        BY <1>4, <2>7, <4>1, <4>2, <4>3, <4>4, <4>5, <4>6 DEF DatasetRequest, GroupRequest
    <3> QED
      BY <3>1 DEF Knows, SharePc, LateShare
  <2>8. Knows(h, q, sharedGroups', sharedUsers')
    BY <2>3, <2>6, <2>7 DEF shares
  <2> QED
    BY <2>1, <2>3, <2>8, OthersKeep DEF shares
<1> QED
  BY <1>1, <1>2, <1>3, <1>4 DEF Next

\* While each user has one request served at a time, an answered share request
\* has shared the dataset with every group and user it names, whatever the
\* owners of the groups do meanwhile and whatever requests die.
THEOREM SharedAsAskedAlways ==
    ASSUME OneRequestPerUser
    PROVE  Spec => []SharedAsAsked
<1>1. Init => ShareInv
  BY IdleKnows DEF Init, ShareInv
<1>2. TypeOK /\ ShareInv /\ [Next]_vars => ShareInv'
  BY KnowsNext
<1>3. ShareInv => SharedAsAsked
  BY DEF ShareInv, SharedAsAsked, Knows, LateShare
<1> QED
  BY <1>1, <1>2, <1>3, TypeCorrect, PTL DEF Spec
-----------------------------------------------------------------------------
(* check_access asks for the member's row alone, list_dataset also for the *)
(* group's: they agree because a share never refers to a group that is gone.*)

\* A dataset one may retrieve (check_access) is on one's list (list_dataset).
THEOREM AccessibleIsListedAlways == Spec => []AccessibleIsListed
<1>1. TypeOK /\ SharesExist => AccessibleIsListed
  <2> SUFFICES ASSUME TypeOK, SharesExist, NEW u \in User, NEW d \in Dataset,
                      dataset[d] = "there", HasAccess(u, d)
               PROVE  d \in Listed(u)
    BY DEF AccessibleIsListed, CanRetrieve
  <2>1. CASE OwnerOf[d] = u \/ u \in sharedUsers[d] \/ d \in public
    BY <2>1 DEF Listed
  <2>2. CASE \E g \in sharedGroups[d] : u \in members[g]
    <3>1. PICK g \in sharedGroups[d] : u \in members[g]
      BY <2>2
    <3>2. g \in Group /\ group[g] = "there"
      BY DEF TypeOK, SharesExist
    <3>3. QED
      BY <3>1, <3>2 DEF Listed
  <2>3. QED
    BY <2>1, <2>2 DEF HasAccess
<1>2. QED
  BY <1>1, TypeCorrect, SharesExistAlways, PTL
=============================================================================
