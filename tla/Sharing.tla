------------------------------ MODULE Sharing ------------------------------
(***************************************************************************)
(* Datasets, the groups of users, and who a dataset is shared with         *)
(* (server/apps/dataset, server/apps/group).                               *)
(*                                                                         *)
(* A request works in one database session: what it has not committed when *)
(* the session closes is rolled back, and other sessions see committed     *)
(* rows only.  Each statement with the commit that follows it is a step.   *)
(***************************************************************************)
EXTENDS FiniteSets

CONSTANTS
    User, Dataset, Group,
    Req,          \* request threads of the API server
    UserOf,       \* [Req -> User]: the user who is logged in
    OwnerOf,      \* [Dataset -> User]
    FounderOf,    \* [Group -> User]: the owner of a group
    OpsUser,      \* the account whose datasets are public
    Crash         \* requests may die half way

ASSUME SharingAssumption ==
    /\ Dataset # {} /\ Group # {}
    /\ UserOf \in [Req -> User]
    /\ OwnerOf \in [Dataset -> User]
    /\ FounderOf \in [Group -> User]
    /\ Crash \in BOOLEAN

VARIABLES
    dataset,       \* [Dataset -> Existence]: the row and its is_active
    public,        \* the rows of public_datasets
    group,         \* [Group -> Existence]
    members,       \* [Group -> SUBSET User]: group_members
    sharedGroups,  \* [Dataset -> SUBSET Group]: dataset_shared_groups
    sharedUsers,   \* [Dataset -> SUBSET User]: dataset_shared_users
    req            \* [Req -> Request]

shares == <<sharedGroups, sharedUsers>>
vars   == <<dataset, public, group, members, shares, req>>

Existence == {"absent", "there", "deleted"}
AnyDataset == CHOOSE d \in Dataset : TRUE
AnyGroup   == CHOOSE g \in Group : TRUE

ReqPc == {"idle", "publish", "unpublish", "set_write",
          "groups_read", "groups_add", "groups_drop",
          "users_read", "users_add", "users_drop", "share_end"}

\* groups, users: the lists of a share request, or the members of a group to
\* set.  oldGroups, oldUsers: what the request has read.  dropping: the shares
\* it has deleted and not committed; their rows stay locked.
Request == [pc: ReqPc, ds: Dataset, grp: Group,
            groups: SUBSET Group, users: SUBSET User,
            oldGroups: SUBSET Group, oldUsers: SUBSET User,
            dropping: SUBSET Group]

Idle == [pc |-> "idle", ds |-> AnyDataset, grp |-> AnyGroup, groups |-> {}, users |-> {},
         oldGroups |-> {}, oldUsers |-> {}, dropping |-> {}]

TypeOK ==
    /\ dataset \in [Dataset -> Existence]
    /\ public \in SUBSET Dataset
    /\ group \in [Group -> Existence]
    /\ members \in [Group -> SUBSET User]
    /\ sharedGroups \in [Dataset -> SUBSET Group]
    /\ sharedUsers \in [Dataset -> SUBSET User]
    /\ req \in [Req -> Request]

Init ==
    /\ dataset = [d \in Dataset |-> "absent"]
    /\ public = {}
    /\ group = [g \in Group |-> "absent"]
    /\ members = [g \in Group |-> {}]
    /\ sharedGroups = [d \in Dataset |-> {}]
    /\ sharedUsers = [d \in Dataset |-> {}]
    /\ req = [h \in Req |-> Idle]

-----------------------------------------------------------------------------
(* What a user can retrieve, and what the list of datasets shows.          *)

\* check_access: owner, shared user, member of a shared group, or public.
HasAccess(u, d) ==
    \/ OwnerOf[d] = u
    \/ u \in sharedUsers[d]
    \/ \E g \in sharedGroups[d] : u \in members[g]
    \/ d \in public

CanRetrieve(u, d) == dataset[d] # "absent" /\ HasAccess(u, d)

\* Mutant: only the groups a user owns are looked up.
ListedOfOwnGroups(u) ==
    LET groups == {g \in Group : group[g] = "there" /\ FounderOf[g] = u}
    IN  {d \in Dataset : \/ dataset[d] = "there" /\ OwnerOf[d] = u
                         \/ sharedGroups[d] \cap groups # {}
                         \/ u \in sharedUsers[d]
                         \/ d \in public}

\* list_dataset looks up the groups the user belongs to or owns.
Listed(u) ==
    LET groups == {g \in Group : group[g] = "there" /\ (u \in members[g] \/ FounderOf[g] = u)}
    IN  {d \in Dataset : \/ dataset[d] = "there" /\ OwnerOf[d] = u
                         \/ sharedGroups[d] \cap groups # {}
                         \/ u \in sharedUsers[d]
                         \/ d \in public}

-----------------------------------------------------------------------------
Goto(h, pc) == req' = [req EXCEPT ![h].pc = pc]
Return(h)   == req' = [req EXCEPT ![h] = Idle]

\* Some session has deleted, and not committed, shares with group g.
Locked(g) == \E h \in Req : g \in req[h].dropping

\* POST /datasets, and for the operations account the public row after it.
CreateDataset(h, d) ==
    /\ req[h].pc = "idle"
    /\ dataset[d] = "absent"
    /\ OwnerOf[d] = UserOf[h]
    /\ dataset' = [dataset EXCEPT ![d] = "there"]
    /\ IF UserOf[h] = OpsUser
       THEN req' = [req EXCEPT ![h] = [@ EXCEPT !.pc = "publish", !.ds = d]]
       ELSE UNCHANGED req
    /\ UNCHANGED <<public, group, members, shares>>

Publish(h) ==
    /\ req[h].pc = "publish"
    /\ public' = public \cup {req[h].ds}
    /\ Return(h)
    /\ UNCHANGED <<dataset, group, members, shares>>

\* DELETE /datasets/{did}, when no task of the owner that runs refers to it.
DestroyDataset(h, d) ==
    /\ req[h].pc = "idle"
    /\ dataset[d] = "there"
    /\ OwnerOf[d] = UserOf[h]
    /\ dataset' = [dataset EXCEPT ![d] = "deleted"]
    /\ req' = [req EXCEPT ![h] = [@ EXCEPT !.pc = "unpublish", !.ds = d]]
    /\ UNCHANGED <<public, group, members, shares>>

Unpublish(h) ==
    /\ req[h].pc = "unpublish"
    /\ public' = public \ {req[h].ds}
    /\ Return(h)
    /\ UNCHANGED <<dataset, group, members, shares>>

\* PUT /datasets/{did}/share: an empty list leaves its kind of shares alone.
ShareBegin(h, d, gs, us) ==
    /\ req[h].pc = "idle"
    /\ dataset[d] # "absent"
    /\ OwnerOf[d] = UserOf[h]
    /\ req' = [req EXCEPT ![h] = [@ EXCEPT !.pc = "groups_read", !.ds = d,
                                           !.groups = gs, !.users = us]]
    /\ UNCHANGED <<dataset, public, group, members, shares>>

ShareGroupsRead(h) ==
    /\ req[h].pc = "groups_read"
    /\ IF req[h].groups = {}
       THEN Goto(h, "users_read")
       ELSE req' = [req EXCEPT ![h] = [@ EXCEPT !.pc = "groups_add",
                                                !.oldGroups = sharedGroups[req[h].ds]]]
    /\ UNCHANGED <<dataset, public, group, members, shares>>

\* Mutant: the difference is taken the wrong way round.
ShareGroupsAddOld(h) ==
    /\ req[h].pc = "groups_add"
    /\ LET new == req[h].oldGroups \ req[h].groups
       IN  IF \A g \in new : group[g] = "there"
           THEN /\ sharedGroups' = [sharedGroups EXCEPT ![req[h].ds] = @ \cup new]
                /\ Goto(h, "groups_drop")
           ELSE Return(h) /\ UNCHANGED sharedGroups
    /\ UNCHANGED <<dataset, public, group, members, sharedUsers>>

\* The foreign key refuses a group that does not exist.
ShareGroupsAdd(h) ==
    /\ req[h].pc = "groups_add"
    /\ LET new == req[h].groups \ req[h].oldGroups
       IN  IF \A g \in new : group[g] = "there"
           THEN /\ sharedGroups' = [sharedGroups EXCEPT ![req[h].ds] = @ \cup new]
                /\ Goto(h, "groups_drop")
           ELSE Return(h) /\ UNCHANGED sharedGroups
    /\ UNCHANGED <<dataset, public, group, members, sharedUsers>>

\* remove_shared_groups deletes rows and does not commit.
ShareGroupsDrop(h) ==
    /\ req[h].pc = "groups_drop"
    /\ LET drop == (req[h].oldGroups \ req[h].groups) \cap sharedGroups[req[h].ds]
       IN  /\ \A g \in drop : ~Locked(g)
           /\ req' = [req EXCEPT ![h] = [@ EXCEPT !.pc = "users_read", !.dropping = drop]]
    /\ UNCHANGED <<dataset, public, group, members, shares>>

ShareUsersRead(h) ==
    /\ req[h].pc = "users_read"
    /\ IF req[h].users = {}
       THEN Goto(h, "share_end")
       ELSE req' = [req EXCEPT ![h] = [@ EXCEPT !.pc = "users_add",
                                                !.oldUsers = sharedUsers[req[h].ds]]]
    /\ UNCHANGED <<dataset, public, group, members, shares>>

\* Its commit is also that of the groups dropped in the same session.
ShareUsersAdd(h) ==
    /\ req[h].pc = "users_add"
    /\ LET d   == req[h].ds
           new == (req[h].users \ req[h].oldUsers) \ {OwnerOf[d]}
       IN  IF new = {}
           THEN Goto(h, "users_drop") /\ UNCHANGED shares
           ELSE /\ sharedUsers' = [sharedUsers EXCEPT ![d] = @ \cup new]
                /\ sharedGroups' = [sharedGroups EXCEPT ![d] = @ \ req[h].dropping]
                /\ req' = [req EXCEPT ![h] = [@ EXCEPT !.pc = "users_drop", !.dropping = {}]]
    /\ UNCHANGED <<dataset, public, group, members>>

\* remove_shared_users deletes rows, does not commit, and nothing follows
\* that does: no other session ever sees it.
ShareUsersDrop(h) ==
    /\ req[h].pc = "users_drop"
    /\ Goto(h, "share_end")
    /\ UNCHANGED <<dataset, public, group, members, shares>>

\* The request is answered and its session closed.
ShareEnd(h) ==
    /\ req[h].pc = "share_end"
    /\ Return(h)
    /\ UNCHANGED <<dataset, public, group, members, shares>>

-----------------------------------------------------------------------------
(* The groups.                                                             *)

\* POST /groups
CreateGroup(h, g) ==
    /\ req[h].pc = "idle"
    /\ group[g] = "absent"
    /\ FounderOf[g] = UserOf[h]
    /\ group' = [group EXCEPT ![g] = "there"]
    /\ UNCHANGED <<dataset, public, members, shares, req>>

\* POST /groups/{group_id}/members: read the members, then one transaction
\* that deletes and inserts the differences.
SetMembersRead(h, g, us) ==
    /\ req[h].pc = "idle"
    /\ group[g] = "there"
    /\ FounderOf[g] = UserOf[h]
    /\ req' = [req EXCEPT ![h] = [@ EXCEPT !.pc = "set_write", !.grp = g, !.users = us,
                                           !.oldUsers = members[g]]]
    /\ UNCHANGED <<dataset, public, group, members, shares>>

\* The foreign key refuses a member of a group that was deleted meanwhile.
SetMembersWrite(h) ==
    /\ req[h].pc = "set_write"
    /\ LET g   == req[h].grp
           new == req[h].users \ req[h].oldUsers
       IN  IF new = {} \/ group[g] = "there"
           THEN members' = [members EXCEPT ![g] = (@ \ (req[h].oldUsers \ req[h].users)) \cup new]
           ELSE UNCHANGED members
    /\ Return(h)
    /\ UNCHANGED <<dataset, public, group, shares>>

\* Mutant: the foreign key of dataset_shared_groups is missing.
DeleteGroupShared(h, g) ==
    /\ req[h].pc = "idle"
    /\ group[g] = "there"
    /\ FounderOf[g] = UserOf[h]
    /\ members[g] = {}
    /\ group' = [group EXCEPT ![g] = "deleted"]
    /\ UNCHANGED <<dataset, public, members, shares, req>>

\* DELETE /groups/{group_id}: refused while a member or a share refers to the
\* group; a share that another session is dropping is waited for.
DeleteGroup(h, g) ==
    /\ req[h].pc = "idle"
    /\ group[g] = "there"
    /\ FounderOf[g] = UserOf[h]
    /\ members[g] = {}
    /\ ~Locked(g) /\ \A d \in Dataset : g \notin sharedGroups[d]
    /\ group' = [group EXCEPT ![g] = "deleted"]
    /\ UNCHANGED <<dataset, public, members, shares, req>>

\* An exception or the end of the server: the session is rolled back.
RequestDies(h) ==
    /\ Crash
    /\ req[h].pc # "idle"
    /\ Return(h)
    /\ UNCHANGED <<dataset, public, group, members, shares>>

-----------------------------------------------------------------------------
DatasetRequest(h) ==
    \/ \E d \in Dataset : CreateDataset(h, d) \/ DestroyDataset(h, d)
    \/ \E d \in Dataset, gs \in SUBSET Group, us \in SUBSET User : ShareBegin(h, d, gs, us)

GroupRequest(h) ==
    \/ \E g \in Group : CreateGroup(h, g) \/ DeleteGroup(h, g)
    \/ \E g \in Group, us \in SUBSET User : SetMembersRead(h, g, us)

Serve(h) ==
    \/ Publish(h) \/ Unpublish(h) \/ SetMembersWrite(h)
    \/ ShareGroupsRead(h) \/ ShareGroupsAdd(h) \/ ShareGroupsDrop(h)
    \/ ShareUsersRead(h) \/ ShareUsersAdd(h) \/ ShareUsersDrop(h) \/ ShareEnd(h)

Next == \E h \in Req : DatasetRequest(h) \/ GroupRequest(h) \/ Serve(h) \/ RequestDies(h)

Spec == Init /\ [][Next]_vars

-----------------------------------------------------------------------------
(* Properties.                                                             *)

\* Nothing refers to a group that does not exist, however the requests of
\* the owners of datasets and groups interleave and die.
SharesExist ==
    /\ \A d \in Dataset : \A g \in sharedGroups[d] : group[g] = "there"
    /\ \A g \in Group : members[g] # {} => group[g] = "there"

\* When a share request is answered, everyone it names has been granted
\* access, even when the owners of the groups were at work meanwhile.
SharedAsAsked ==
    \A h \in Req : req[h].pc = "share_end" =>
        LET d == req[h].ds
        IN  /\ req[h].groups \subseteq sharedGroups[d]
            /\ req[h].users \ {OwnerOf[d]} \subseteq sharedUsers[d]

\* A dataset that check_access lets a user retrieve is on that user's list,
\* although the two ask different questions of the tables.
AccessibleIsListed ==
    \A u \in User, d \in Dataset :
        dataset[d] = "there" /\ CanRetrieve(u, d) => d \in Listed(u)

\* When a share request that names users is answered, nobody it does not
\* name keeps a share ("get users that should be removed", endpoints.py).
UnsharedAsAsked ==
    \A h \in Req : req[h].pc = "share_end" /\ req[h].users # {} =>
        sharedUsers[req[h].ds] \subseteq req[h].users
=============================================================================
