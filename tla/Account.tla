------------------------------ MODULE Account ------------------------------
(***************************************************************************)
(* The accounts: verification codes sent by email, sign-up, users that a   *)
(* superuser creates, recovery and reset of a password, and deactivation   *)
(* with everything a user owns (server/apps/oauth, server/apps/user).      *)
(*                                                                         *)
(* Every function of the CRUD layer commits by itself, so that each one is *)
(* a step, and a request that dies leaves what it has committed so far.    *)
(***************************************************************************)
EXTENDS FiniteSets, Naturals, Sequences

CONSTANTS
    Email,       \* the email addresses
    User,        \* the rows of users that can be created (in TLC: a bound)
    NoUser,
    NoEmail,     \* instead of the email of a row that does not exist
    GoneEmail,   \* the email that deactivation puts into a row
    Req,         \* request threads of the API server
    SignUpReq,   \* those that serve sign-ups and superusers
    DayLimit,    \* VCODE_DAY_LIMIT
    MaxCodes,    \* bound: the verification codes ever sent
    Kind,        \* bound: the kinds of things the users create
    Crash        \* requests may die half way

ASSUME AccountAssumption ==
    /\ Email # {} /\ User # {}
    /\ NoUser \notin User
    /\ NoEmail \notin Email /\ GoneEmail \notin Email \cup {NoEmail}
    /\ SignUpReq \subseteq Req
    /\ DayLimit \in Nat /\ MaxCodes \in Nat
    /\ Kind \subseteq {"task", "dataset", "media"}
    /\ Crash \in BOOLEAN
    /\ Email \cap {"signup", "forget_password"} = {}

VARIABLES
    email,      \* [User -> ..]: the email of its row, NoEmail without a row
    enabled,    \* [User -> BOOLEAN]: is_active of its row
    changedBy,  \* [User -> Nat]: the code its password was last set with, or 0
    codes,      \* the rows of verification_codes in the order of created_at
    owned,      \* [User -> SUBSET Resource]: what is active of what it owns
    files,      \* [User -> BOOLEAN]: the uploaded files are stored
    req         \* [Req -> Request]

vars == <<email, enabled, changedBy, codes, owned, files, req>>

Action   == {"signup", "forget_password"}
Resource == {"task", "dataset", "media"}

\* A code expires after VCODE_EXPIRE_MINUTE and leaves the window in which
\* codes are counted after an hour.
Age  == {"valid", "expired", "old"}
Code == [email: Email, action: Action, active: BOOLEAN, age: Age]

ReqPc == {"idle", "send", "signup_check", "signup_create", "signup_close", "admin_create",
          "recover_verify", "recover_update", "recover_close",
          "reset", "upload", "own", "deact_tasks", "deact_datasets", "deact_media", "deact_files"}
Request == [pc: ReqPc, email: Email \cup {NoEmail}, user: User \cup {NoUser},
            action: Action, code: Nat, what: Resource]

Idle == [pc |-> "idle", email |-> NoEmail, user |-> NoUser, action |-> "signup",
         code |-> 0, what |-> "media"]

TypeOK ==
    /\ email \in [User -> Email \cup {NoEmail, GoneEmail}]
    /\ enabled \in [User -> BOOLEAN]
    /\ changedBy \in [User -> Nat]
    /\ codes \in Seq(Code)
    /\ owned \in [User -> SUBSET Resource]
    /\ files \in [User -> BOOLEAN]
    /\ req \in [Req -> Request]

Init ==
    /\ email = [u \in User |-> NoEmail]
    /\ enabled = [u \in User |-> FALSE]
    /\ changedBy = [u \in User |-> 0]
    /\ codes = <<>>
    /\ owned = [u \in User |-> {}]
    /\ files = [u \in User |-> FALSE]
    /\ req = [h \in Req |-> Idle]

Goto(h, pc) == req' = [req EXCEPT ![h].pc = pc]
Return(h)   == req' = [req EXCEPT ![h] = Idle]

-----------------------------------------------------------------------------
(* The queries of the CRUD layer, and create_user.                         *)

\* get_user_by_email, whether the user is active or not.
UsersOf(e) == {u \in User : email[u] = e}

\* create_user: nothing in the table forbids a second row with the email.
CreateUser(e) ==
    \E u \in User :
        /\ email[u] = NoEmail
        /\ email' = [email EXCEPT ![u] = e]
        /\ enabled' = [enabled EXCEPT ![u] = TRUE]

\* get_vcode takes the last active code, and only that one can be right.
Candidates(action, e) ==
    {i \in DOMAIN codes : /\ codes[i].email = e
                          /\ codes[i].action = action
                          /\ codes[i].active}

\* Mutant: a code sent for another purpose is as good.
VerifiedForAnything(action, e, i) ==
    /\ i \in DOMAIN codes /\ codes[i].active /\ codes[i].email = e
    /\ \A j \in DOMAIN codes : codes[j].active /\ codes[j].email = e => j <= i
    /\ codes[i].age = "valid"

\* verify_vcode
Verified(action, e, i) ==
    /\ i \in Candidates(action, e)
    /\ \A j \in Candidates(action, e) : j <= i
    /\ codes[i].age = "valid"

\* get_vcode_count: the codes of an email and an action of the last hour.
VcodeCount(action, e) ==
    Cardinality({i \in DOMAIN codes : /\ codes[i].email = e
                                      /\ codes[i].action = action
                                      /\ codes[i].age # "old"})

\* delete_vcode_by_action
Spent(action, e) ==
    [i \in DOMAIN codes |->
        IF codes[i].action = action /\ codes[i].email = e
        THEN [codes[i] EXCEPT !.active = FALSE]
        ELSE codes[i]]

-----------------------------------------------------------------------------
(* POST /vcode/send.  The count is asked with its arguments the other way  *)
(* round: for the email equal to the action and the action equal to the    *)
(* email.                                                                  *)

SendCheck(h, action, e) ==
    /\ req[h].pc = "idle"
    /\ Len(codes) + Cardinality({k \in Req : req[k].pc = "send"}) < MaxCodes
    /\ IF action = "signup" THEN UsersOf(e) = {} ELSE UsersOf(e) # {}
    /\ VcodeCount(e, action) <= DayLimit
    /\ req' = [req EXCEPT ![h] = [@ EXCEPT !.pc = "send", !.email = e, !.action = action]]
    /\ UNCHANGED <<email, enabled, changedBy, codes, owned, files>>

SendCreate(h) ==
    /\ req[h].pc = "send"
    /\ codes' = Append(codes, [email |-> req[h].email, action |-> req[h].action,
                               active |-> TRUE, age |-> "valid"])
    /\ Return(h)
    /\ UNCHANGED <<email, enabled, changedBy, owned, files>>

\* Time passes for a code, not before it has for the codes sent earlier.
GrowOld(i) ==
    /\ i \in DOMAIN codes
    /\ \E age \in Age :
          /\ \/ codes[i].age = "valid" /\ age = "expired"
             \/ codes[i].age = "expired" /\ age = "old"
          /\ \A j \in 1 .. i - 1 : codes[j].age \in {age, "old"}
          /\ codes' = [codes EXCEPT ![i].age = age]
    /\ UNCHANGED <<email, enabled, changedBy, owned, files, req>>

-----------------------------------------------------------------------------
(* POST /signup: verify the code, look for the email, hash the password,   *)
(* create the user, then spend the codes.                                  *)

SignupVerify(h, e, i) ==
    /\ req[h].pc = "idle"
    /\ h \in SignUpReq
    /\ Verified("signup", e, i)
    /\ req' = [req EXCEPT ![h] = [@ EXCEPT !.pc = "signup_check", !.email = e]]
    /\ UNCHANGED <<email, enabled, changedBy, codes, owned, files>>

\* Mutant: nobody looks for the email.
SignupUnchecked(h) ==
    /\ req[h].pc = "signup_check"
    /\ Goto(h, "signup_create")
    /\ UNCHANGED <<email, enabled, changedBy, codes, owned, files>>

SignupCheck(h) ==
    /\ req[h].pc = "signup_check"
    /\ IF UsersOf(req[h].email) = {} THEN Goto(h, "signup_create") ELSE Return(h)
    /\ UNCHANGED <<email, enabled, changedBy, codes, owned, files>>

SignupCreate(h) ==
    /\ req[h].pc = "signup_create"
    /\ CreateUser(req[h].email)
    /\ Goto(h, "signup_close")
    /\ UNCHANGED <<changedBy, codes, owned, files>>

SignupClose(h) ==
    /\ req[h].pc = "signup_close"
    /\ codes' = Spent("signup", req[h].email)
    /\ Return(h)
    /\ UNCHANGED <<email, enabled, changedBy, owned, files>>

-----------------------------------------------------------------------------
(* POST /users, for superusers only (whose rows are not among User): look  *)
(* for the email, hash the password, create the user.  No code is asked    *)
(* for, and the codes sent to the email stay as they are.                  *)

AdminCheck(h, e) ==
    /\ req[h].pc = "idle"
    /\ h \in SignUpReq
    /\ UsersOf(e) = {}
    /\ req' = [req EXCEPT ![h] = [@ EXCEPT !.pc = "admin_create", !.email = e]]
    /\ UNCHANGED <<email, enabled, changedBy, codes, owned, files>>

AdminCreate(h) ==
    /\ req[h].pc = "admin_create"
    /\ CreateUser(req[h].email)
    /\ Return(h)
    /\ UNCHANGED <<changedBy, codes, owned, files>>

-----------------------------------------------------------------------------
(* POST /password/recover: find the user, verify the code, update the user *)
(* found, then spend the codes.                                            *)

RecoverFind(h, u, i) ==
    /\ req[h].pc = "idle"
    /\ email[u] \in Email
    /\ req' = [req EXCEPT ![h] = [@ EXCEPT !.pc = "recover_verify", !.email = email[u],
                                           !.user = u, !.code = i]]
    /\ UNCHANGED <<email, enabled, changedBy, codes, owned, files>>

RecoverVerify(h) ==
    /\ req[h].pc = "recover_verify"
    /\ IF Verified("forget_password", req[h].email, req[h].code)
       THEN Goto(h, "recover_update")
       ELSE Return(h)
    /\ UNCHANGED <<email, enabled, changedBy, codes, owned, files>>

\* UserUpdateDO has is_active = True unless it is said otherwise, and
\* update_user writes every field that is not None.
RecoverUpdate(h) ==
    /\ req[h].pc = "recover_update"
    /\ changedBy' = [changedBy EXCEPT ![req[h].user] = req[h].code]
    /\ enabled' = [enabled EXCEPT ![req[h].user] = TRUE]
    /\ Goto(h, "recover_close")
    /\ UNCHANGED <<email, codes, owned, files>>

RecoverClose(h) ==
    /\ req[h].pc = "recover_close"
    /\ codes' = Spent("forget_password", req[h].email)
    /\ Return(h)
    /\ UNCHANGED <<email, enabled, changedBy, owned, files>>

-----------------------------------------------------------------------------
(* The requests of a user who is logged in.  get_current_active_user reads *)
(* is_active once, when the request begins.                                *)

\* POST /reset-password: the old password is verified when it begins.
ResetBegin(h, u) ==
    /\ req[h].pc = "idle"
    /\ enabled[u]
    /\ req' = [req EXCEPT ![h] = [@ EXCEPT !.pc = "reset", !.user = u]]
    /\ UNCHANGED <<email, enabled, changedBy, codes, owned, files>>

ResetUpdate(h) ==
    /\ req[h].pc = "reset"
    /\ changedBy' = [changedBy EXCEPT ![req[h].user] = 0]
    /\ enabled' = [enabled EXCEPT ![req[h].user] = TRUE]
    /\ Return(h)
    /\ UNCHANGED <<email, codes, owned, files>>

\* The endpoints that create a task, a dataset or a media; the file of a
\* media is stored before its row is inserted.
OwnBegin(h, u, what) ==
    /\ req[h].pc = "idle"
    /\ enabled[u]
    /\ what \notin owned[u]
    /\ req' = [req EXCEPT ![h] = [@ EXCEPT !.pc = IF what = "media" THEN "upload" ELSE "own",
                                           !.user = u, !.what = what]]
    /\ UNCHANGED <<email, enabled, changedBy, codes, owned, files>>

Upload(h) ==
    /\ req[h].pc = "upload"
    /\ files' = [files EXCEPT ![req[h].user] = TRUE]
    /\ Goto(h, "own")
    /\ UNCHANGED <<email, enabled, changedBy, codes, owned>>

OwnCreate(h) ==
    /\ req[h].pc = "own"
    /\ owned' = [owned EXCEPT ![req[h].user] = @ \cup {req[h].what}]
    /\ Return(h)
    /\ UNCHANGED <<email, enabled, changedBy, codes, files>>

\* Mutant: the user stays as it is while what it owns is deleted.
DeactivateNoUser(h, u) ==
    /\ req[h].pc = "idle"
    /\ enabled[u]
    /\ req' = [req EXCEPT ![h] = [@ EXCEPT !.pc = "deact_tasks", !.user = u]]
    /\ UNCHANGED <<email, enabled, changedBy, codes, owned, files>>

\* POST /deactivate: the user first.
DeactivateUser(h, u) ==
    /\ req[h].pc = "idle"
    /\ enabled[u]
    /\ enabled' = [enabled EXCEPT ![u] = FALSE]
    /\ email' = [email EXCEPT ![u] = GoneEmail]
    /\ req' = [req EXCEPT ![h] = [@ EXCEPT !.pc = "deact_tasks", !.user = u]]
    /\ UNCHANGED <<changedBy, codes, owned, files>>

Disown(h, at, what, next) ==
    /\ req[h].pc = at
    /\ owned' = [owned EXCEPT ![req[h].user] = @ \ {what}]
    /\ Goto(h, next)
    /\ UNCHANGED <<email, enabled, changedBy, codes, files>>

DeactivateTasks(h)    == Disown(h, "deact_tasks", "task", "deact_datasets")
DeactivateDatasets(h) == Disown(h, "deact_datasets", "dataset", "deact_media")
DeactivateMedia(h)    == Disown(h, "deact_media", "media", "deact_files")

\* At last the files of all media, found in rows that are inactive by now.
DeactivateFiles(h) ==
    /\ req[h].pc = "deact_files"
    /\ files' = [files EXCEPT ![req[h].user] = FALSE]
    /\ Return(h)
    /\ UNCHANGED <<email, enabled, changedBy, codes, owned>>

RequestDies(h) ==
    /\ Crash
    /\ req[h].pc # "idle"
    /\ Return(h)
    /\ UNCHANGED <<email, enabled, changedBy, codes, owned, files>>

-----------------------------------------------------------------------------
Anonymous(h) ==
    \/ \E action \in Action, e \in Email : SendCheck(h, action, e)
    \/ \E e \in Email, i \in DOMAIN codes : SignupVerify(h, e, i)
    \/ \E u \in User, i \in DOMAIN codes : RecoverFind(h, u, i)
    \/ SendCreate(h) \/ SignupCheck(h) \/ SignupCreate(h) \/ SignupClose(h)
    \/ RecoverVerify(h) \/ RecoverUpdate(h) \/ RecoverClose(h)

Superuser(h) ==
    \/ \E e \in Email : AdminCheck(h, e)
    \/ AdminCreate(h)

LoggedIn(h) ==
    \/ \E u \in User : ResetBegin(h, u) \/ DeactivateUser(h, u)
    \/ \E u \in User, what \in Kind : OwnBegin(h, u, what)
    \/ ResetUpdate(h) \/ Upload(h) \/ OwnCreate(h)
    \/ DeactivateTasks(h) \/ DeactivateDatasets(h) \/ DeactivateMedia(h) \/ DeactivateFiles(h)

Next ==
    \/ \E h \in Req : Anonymous(h) \/ Superuser(h) \/ LoggedIn(h) \/ RequestDies(h)
    \/ \E i \in 1 .. MaxCodes : GrowOld(i)

Spec == Init /\ [][Next]_vars

-----------------------------------------------------------------------------
(* Properties.                                                             *)

\* Neither signing up nor a superuser creates a second user of an email, also
\* after requests that died before their codes were spent, and with codes that
\* are still good for an email a superuser took; no index of users keeps it so.
OneUserPerEmail ==
    \A e \in Email : Cardinality(UsersOf(e)) <= 1

\* A password set by a code was set by one that was sent to recover the
\* password of that user's own email.
PasswordFromCode ==
    \A u \in User : changedBy[u] # 0 =>
        /\ codes[changedBy[u]].action = "forget_password"
        /\ email[u] \in {codes[changedBy[u]].email, GoneEmail}

\* Files are deleted only from under users that were deactivated before: a user
\* who was not never has a media whose file is gone, whatever requests it has
\* under way ("So here put update_user first is a better choice").
FilesOutliveUser ==
    \A u \in User : email[u] \in Email /\ "media" \in owned[u] => files[u]

\* A user whose account was deactivated stays inactive ("In user table, set
\* is_active as False"), whatever other requests of the user were under way.
DeactivatedStaysInactive ==
    \A u \in User : email[u] = GoneEmail => ~enabled[u]
=============================================================================
