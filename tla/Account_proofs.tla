--------------------------- MODULE Account_proofs ---------------------------
(***************************************************************************)
(* Theorems about Account, for any emails, users, requests, bounds and     *)
(* requests that die: variables keep their types, a password is set by a   *)
(* code for that purpose and email, and no user who was not deactivated    *)
(* loses a file.                                                           *)
(*                                                                         *)
(* A request remembers a user, an email or a code it looked at before, and *)
(* writes by that memory.  The inductive invariant says what of it is      *)
(* still true at each place of the handler (Knows), and Later says what no *)
(* step of another request takes back.                                     *)
(***************************************************************************)
EXTENDS Account, FiniteSetTheorems, TLAPS

Signing      == {"send", "signup_check", "signup_create", "signup_close", "admin_create"}
Recovering   == {"recover_verify", "recover_update", "recover_close"}
Deactivating == {"deact_tasks", "deact_datasets", "deact_media", "deact_files"}
OfUser       == Recovering \cup Deactivating \cup {"reset", "upload", "own"}

\* What request h still knows of the tables, by where it is.
Knows(h) ==
    /\ req[h].pc \in Signing \cup Recovering => req[h].email \in Email
    /\ req[h].pc \in OfUser => req[h].user \in User /\ email[req[h].user] # NoEmail
    /\ req[h].pc \in Recovering => email[req[h].user] \in {req[h].email, GoneEmail}
    /\ req[h].pc \in Recovering => req[h].code \in DOMAIN codes
    /\ req[h].pc = "recover_update" =>
          /\ codes[req[h].code].action = "forget_password"
          /\ codes[req[h].code].email = req[h].email
    /\ req[h].pc = "own" /\ req[h].what = "media" /\ email[req[h].user] \in Email
          => files[req[h].user]
    /\ req[h].pc \in Deactivating => email[req[h].user] = GoneEmail

\* A row that does not exist has nothing, and a password names a code.
Fresh ==
    \A u \in User :
        /\ email[u] = NoEmail => owned[u] = {} /\ ~enabled[u] /\ changedBy[u] = 0
        /\ changedBy[u] # 0 => changedBy[u] \in DOMAIN codes

AccountInv ==
    /\ TypeOK
    /\ Fresh
    /\ \A h \in Req : Knows(h)
    /\ PasswordFromCode
    /\ FilesOutliveUser

\* Rows and codes stay what they are, except that a user is deactivated and
\* the files of a deactivated user go.
EmailsStay ==
    \A u \in User : email[u] # NoEmail => email'[u] \in {email[u], GoneEmail}
CodesStay ==
    \A i \in DOMAIN codes : /\ i \in DOMAIN codes'
                            /\ codes'[i].email = codes[i].email
                            /\ codes'[i].action = codes[i].action
FilesStay ==
    \A u \in User : files[u] => files'[u] \/ email'[u] = GoneEmail
Later == EmailsStay /\ CodesStay /\ FilesStay

-----------------------------------------------------------------------------
\* Another request's knowledge survives any step that is Later.
LEMMA KnowsKept ==
    ASSUME TypeOK, Later, NEW h \in Req, Knows(h), req'[h] = req[h]
    PROVE  Knows(h)'
<1>1. \A u \in User : email[u] # NoEmail =>
          /\ email'[u] \in {email[u], GoneEmail}
          /\ email'[u] # NoEmail
          /\ email'[u] \in Email => email[u] \in Email
  BY AccountAssumption DEF Later, EmailsStay, TypeOK
<1>2. \A i \in DOMAIN codes : /\ i \in DOMAIN codes'
                              /\ codes'[i].email = codes[i].email
                              /\ codes'[i].action = codes[i].action
  BY DEF Later, CodesStay
<1>3. \A u \in User : files[u] /\ email'[u] \in Email => files'[u]
  BY AccountAssumption DEF Later, FilesStay
<1>4. req[h].pc \in OfUser => req[h].user \in User /\ email'[req[h].user] # NoEmail
  BY <1>1 DEF Knows
<1>5. req[h].pc \in Recovering =>
          /\ email'[req[h].user] \in {req[h].email, GoneEmail}
          /\ req[h].code \in DOMAIN codes'
  BY <1>1, <1>2 DEF Knows, OfUser
<1>6. req[h].pc = "recover_update" =>
          /\ codes'[req[h].code].action = "forget_password"
          /\ codes'[req[h].code].email = req[h].email
  BY <1>2 DEF Knows, Recovering
<1>7. req[h].pc = "own" /\ req[h].what = "media" /\ email'[req[h].user] \in Email
          => files'[req[h].user]
  BY <1>1, <1>3 DEF Knows, OfUser
<1>8. req[h].pc \in Deactivating => email'[req[h].user] = GoneEmail
  BY <1>1 DEF Knows, OfUser
<1>9. QED
  BY <1>4, <1>5, <1>6, <1>7, <1>8 DEF Knows

\* What is Later keeps the two properties of users nobody writes.
LEMMA UntouchedKept ==
    ASSUME AccountInv, Later, NEW u \in User,
           changedBy'[u] = changedBy[u], owned'[u] \subseteq owned[u]
    PROVE  /\ changedBy'[u] # 0 =>
                 /\ changedBy'[u] \in DOMAIN codes'
                 /\ codes'[changedBy'[u]].action = "forget_password"
                 /\ email'[u] \in {codes'[changedBy'[u]].email, GoneEmail}
           /\ email'[u] \in Email /\ "media" \in owned'[u] => files'[u]
<1>1. CASE email[u] = NoEmail
  BY <1>1 DEF AccountInv, Fresh
<1>2. CASE email[u] # NoEmail
  <2>1. /\ email'[u] \in {email[u], GoneEmail}
        /\ email'[u] \in Email => email[u] \in Email
    BY <1>2, AccountAssumption DEF Later, EmailsStay
  <2>2. changedBy[u] # 0 => /\ changedBy[u] \in DOMAIN codes'
                            /\ codes'[changedBy[u]].action = "forget_password"
                            /\ codes'[changedBy[u]].email = codes[changedBy[u]].email
    BY DEF AccountInv, Fresh, PasswordFromCode, Later, CodesStay
  <2>3. email'[u] \in Email /\ "media" \in owned'[u] => files'[u]
    BY <2>1, AccountAssumption DEF AccountInv, FilesOutliveUser, Later, FilesStay
  <2>4. changedBy[u] # 0 => email[u] \in {codes[changedBy[u]].email, GoneEmail}
    BY DEF AccountInv, PasswordFromCode
  <2>5. QED
    BY <2>1, <2>2, <2>3, <2>4
<1>3. QED
  BY <1>1, <1>2

\* The shape of a step of request h: all that is to be shown of it is about h.
Mine(h) ==
    /\ TypeOK'
    /\ Later
    /\ Knows(h)'
    /\ \A k \in Req \ {h} : req'[k] = req[k]

LEMMA OneRequestSuffices ==
    ASSUME AccountInv, NEW h \in Req, Mine(h)
    PROVE  \A k \in Req : Knows(k)'
<1>1. ASSUME NEW k \in Req, k # h PROVE Knows(k)'
  BY <1>1, KnowsKept DEF AccountInv, Mine
<1>2. QED
  BY <1>1 DEF Mine

\* A step that leaves the passwords, what is owned and who exists alone.
LEMMA QuietStep ==
    ASSUME AccountInv, NEW h \in Req, Mine(h),
           UNCHANGED <<email, enabled, changedBy, owned>>
    PROVE  AccountInv'
<1>1. \A k \in Req : Knows(k)'
  BY OneRequestSuffices
<1>2. Fresh' /\ PasswordFromCode' /\ FilesOutliveUser'
  BY UntouchedKept DEF AccountInv, Fresh, PasswordFromCode, FilesOutliveUser, Mine
<1>3. QED
  BY <1>1, <1>2 DEF AccountInv, Mine

-----------------------------------------------------------------------------
(* A request that only moves or ends.                                      *)

LEMMA IdleKnows ==
    ASSUME TypeOK, NEW h \in Req, Return(h)
    PROVE  /\ req' \in [Req -> Request]
           /\ Knows(h)'
           /\ \A k \in Req \ {h} : req'[k] = req[k]
<1>1. Idle \in Request
  BY DEF Idle, Request, ReqPc, Action, Resource
<1>2. req'[h] = Idle
  BY DEF TypeOK, Return
<1>3. Knows(h)'
  BY <1>2 DEF Knows, Idle, Signing, Recovering, Deactivating, OfUser
<1>4. QED
  BY <1>1, <1>3 DEF TypeOK, Return

LEMMA MovedRequest ==
    ASSUME TypeOK, NEW h \in Req, NEW pc \in ReqPc, Goto(h, pc)
    PROVE  /\ req' \in [Req -> Request]
           /\ req'[h].pc = pc
           /\ req'[h].email = req[h].email
           /\ req'[h].user = req[h].user
           /\ req'[h].code = req[h].code
           /\ req'[h].what = req[h].what
           /\ \A k \in Req \ {h} : req'[k] = req[k]
  BY DEF TypeOK, Goto, Request

LEMMA NothingIsLater ==
    ASSUME TypeOK, UNCHANGED <<email, codes, files>>
    PROVE  Later
  BY DEF Later, EmailsStay, CodesStay, FilesStay

\* Spending codes leaves emails and purposes.
LEMMA SpentCodes ==
    ASSUME TypeOK, NEW action \in Action, NEW e \in Email,
           codes' = Spent(action, e)
    PROVE  /\ codes' \in Seq(Code)
           /\ CodesStay
<1>1. Len(codes) \in Nat /\ DOMAIN codes = 1 .. Len(codes)
      /\ \A i \in 1 .. Len(codes) : codes[i] \in Code
  BY DEF TypeOK
<1>2. /\ DOMAIN codes' = 1 .. Len(codes)
      /\ \A i \in 1 .. Len(codes) : /\ codes'[i] \in Code
                                    /\ codes'[i].email = codes[i].email
                                    /\ codes'[i].action = codes[i].action
  BY <1>1 DEF Spent, Code
<1>3. codes' = [i \in 1 .. Len(codes) |-> codes'[i]]
  BY <1>1 DEF Spent
<1>4. QED
  BY <1>1, <1>2, <1>3 DEF CodesStay

-----------------------------------------------------------------------------
(* The steps of signing up and of sending a code.                          *)

LEMMA SignKept ==
    ASSUME AccountInv, NEW h \in Req,
           \/ \E action \in Action, e \in Email : SendCheck(h, action, e)
           \/ \E e \in Email, i \in DOMAIN codes : SignupVerify(h, e, i)
           \/ \E e \in Email : AdminCheck(h, e)
           \/ SendCreate(h) \/ SignupCheck(h) \/ SignupClose(h)
    PROVE  AccountInv'
<1>0. TypeOK /\ Knows(h)
  BY DEF AccountInv
<1>1. ASSUME NEW e \in Email, NEW action \in Action, NEW pc \in {"send", "signup_check", "admin_create"},
             req' = [req EXCEPT ![h] = [@ EXCEPT !.pc = pc, !.email = e, !.action = action]],
             UNCHANGED <<email, enabled, changedBy, codes, owned, files>>
      PROVE  AccountInv'
  <2>1. Later
    BY <1>0, <1>1, NothingIsLater
  <2>2. TypeOK' /\ \A k \in Req \ {h} : req'[k] = req[k]
    <3>1. req[h] \in Request /\ pc \in ReqPc /\ e \in Email \cup {NoEmail}
      BY <1>0 DEF TypeOK, ReqPc
    <3>2. [req[h] EXCEPT !.pc = pc, !.email = e, !.action = action] \in Request
      BY <3>1 DEF Request
    <3>3. QED
      BY <1>0, <1>1, <3>2 DEF TypeOK
  <2>3. Knows(h)'
    <3>1. req'[h].pc = pc /\ req'[h].email = e
      BY <1>0, <1>1 DEF TypeOK, Request
    <3>2. QED
      BY <3>1 DEF Knows, Recovering, Deactivating, OfUser
  <2>4. QED
    BY <1>1, <2>1, <2>2, <2>3, QuietStep DEF Mine
<1>2. ASSUME NEW action \in Action, NEW e \in Email, SendCheck(h, action, e) PROVE AccountInv'
  BY <1>1, <1>2 DEF SendCheck
<1>3. ASSUME NEW e \in Email, NEW i \in DOMAIN codes, SignupVerify(h, e, i) PROVE AccountInv'
  <2>1. req' = [req EXCEPT ![h] = [@ EXCEPT !.pc = "signup_check", !.email = e,
                                            !.action = req[h].action]]
        /\ req[h].action \in Action
    BY <1>0, <1>3 DEF SignupVerify, TypeOK, Request
  <2>2. QED
    BY <1>1, <1>3, <2>1 DEF SignupVerify
<1>4. CASE SendCreate(h)
  <2>1. PICK c \in Code : codes' = Append(codes, c)
    <3>1. req[h].email \in Email /\ req[h].action \in Action
      BY <1>0, <1>4 DEF SendCreate, TypeOK, Request, Knows, Signing
    <3>2. QED
      BY <1>4, <3>1 DEF SendCreate, Code, Age
  <2>2. codes' \in Seq(Code) /\ CodesStay
    BY <1>0, <2>1 DEF TypeOK, CodesStay
  <2>3. Later
    BY <1>4, <2>2 DEF SendCreate, Later, EmailsStay, FilesStay
  <2>4. QED
    BY <1>0, <1>4, <2>2, <2>3, IdleKnows, QuietStep DEF SendCreate, TypeOK, Mine
<1>5. CASE SignupCheck(h)
  <2>1. Later
    BY <1>0, <1>5, NothingIsLater DEF SignupCheck
  <2>2. CASE Return(h)
    BY <1>0, <1>5, <2>1, <2>2, IdleKnows, QuietStep DEF SignupCheck, TypeOK, Mine
  <2>3. CASE Goto(h, "signup_create")
    <3>1. "signup_create" \in ReqPc
      BY DEF ReqPc
    <3>2. TypeOK' /\ \A k \in Req \ {h} : req'[k] = req[k]
      BY <1>0, <1>5, <2>3, <3>1, MovedRequest DEF SignupCheck, TypeOK
    <3>3. req'[h].pc = "signup_create" /\ req'[h].email = req[h].email
      BY <1>0, <2>3, <3>1, MovedRequest
    <3>4. req[h].email \in Email
      BY <1>0, <1>5 DEF SignupCheck, Knows, Signing
    <3>5. Knows(h)'
      BY <3>3, <3>4 DEF Knows, Recovering, Deactivating, OfUser
    <3>6. QED
      BY <1>5, <2>1, <3>2, <3>5, QuietStep DEF SignupCheck, Mine
  <2>4. QED
    BY <1>5, <2>2, <2>3 DEF SignupCheck
<1>6. CASE SignupClose(h)
  <2>1. codes' \in Seq(Code) /\ CodesStay
    BY <1>0, <1>6, SpentCodes DEF SignupClose, Knows, Signing, Action
  <2>2. Later
    BY <1>6, <2>1 DEF SignupClose, Later, EmailsStay, FilesStay
  <2>3. QED
    BY <1>0, <1>6, <2>1, <2>2, IdleKnows, QuietStep DEF SignupClose, TypeOK, Mine
<1>7. ASSUME NEW e \in Email, AdminCheck(h, e) PROVE AccountInv'
  <2>1. req' = [req EXCEPT ![h] = [@ EXCEPT !.pc = "admin_create", !.email = e,
                                            !.action = req[h].action]]
        /\ req[h].action \in Action
    BY <1>0, <1>7 DEF AdminCheck, TypeOK, Request
  <2>2. QED
    BY <1>1, <1>7, <2>1 DEF AdminCheck
<1>8. QED
  BY <1>2, <1>3, <1>4, <1>5, <1>6, <1>7

\* The new row was nobody's: nothing was known of it, and it has nothing.
LEMMA CreateKept ==
    ASSUME AccountInv, NEW h \in Req, SignupCreate(h) \/ AdminCreate(h)
    PROVE  AccountInv'
<1>0. TypeOK /\ Knows(h)
  BY DEF AccountInv
<1>1. /\ CreateUser(req[h].email)
      /\ UNCHANGED <<changedBy, codes, owned, files>>
      /\ req[h].email \in Email
  BY <1>0 DEF SignupCreate, AdminCreate, Knows, Signing
<1>2. PICK u \in User : /\ email[u] = NoEmail
                        /\ email' = [email EXCEPT ![u] = req[h].email]
                        /\ enabled' = [enabled EXCEPT ![u] = TRUE]
  BY <1>1 DEF CreateUser
<1>3. email'[u] = req[h].email
      /\ \A v \in User \ {u} : email'[v] = email[v] /\ enabled'[v] = enabled[v]
  BY <1>0, <1>2 DEF TypeOK
<1>4. Later
  BY <1>0, <1>1, <1>2, <1>3 DEF Later, EmailsStay, CodesStay, FilesStay
<1>5. /\ req' \in [Req -> Request]
      /\ \A k \in Req \ {h} : req'[k] = req[k]
      /\ Knows(h)'
  <2>1. CASE SignupCreate(h)
    <3>1. "signup_close" \in ReqPc
      BY DEF ReqPc
    <3>2. /\ req' \in [Req -> Request]
          /\ \A k \in Req \ {h} : req'[k] = req[k]
      BY <1>0, <2>1, <3>1, MovedRequest DEF SignupCreate
    <3>3. req'[h].pc = "signup_close" /\ req'[h].email = req[h].email
      BY <1>0, <2>1, <3>1, MovedRequest DEF SignupCreate
    <3>4. Knows(h)'
      BY <1>1, <3>3 DEF Knows, Recovering, Deactivating, OfUser
    <3>5. QED
      BY <3>2, <3>4
  <2>2. CASE AdminCreate(h)
    BY <1>0, <2>2, IdleKnows DEF AdminCreate
  <2>3. QED
    BY <2>1, <2>2
<1>6. TypeOK'
  BY <1>0, <1>1, <1>2, <1>5 DEF TypeOK
<1>7. \A k \in Req : Knows(k)'
  BY <1>4, <1>5, <1>6, OneRequestSuffices DEF Mine
<1>8. Fresh'
  BY <1>1, <1>2, <1>3, AccountAssumption DEF AccountInv, Fresh
<1>9. PasswordFromCode' /\ FilesOutliveUser'
  BY <1>1, <1>4, UntouchedKept DEF PasswordFromCode, FilesOutliveUser
<1>10. QED
  BY <1>6, <1>7, <1>8, <1>9 DEF AccountInv

-----------------------------------------------------------------------------
(* The steps of recovering a password.                                     *)

LEMMA RecoverKept ==
    ASSUME AccountInv, NEW h \in Req,
           \/ \E u \in User, i \in DOMAIN codes : RecoverFind(h, u, i)
           \/ RecoverVerify(h) \/ RecoverClose(h)
    PROVE  AccountInv'
<1>0. TypeOK /\ Knows(h)
  BY DEF AccountInv
<1>1. ASSUME NEW u \in User, NEW i \in DOMAIN codes, RecoverFind(h, u, i) PROVE AccountInv'
  <2>1. Later
    BY <1>0, <1>1, NothingIsLater DEF RecoverFind
  <2>2. email[u] \in Email /\ i \in Nat
    <3>1. codes \in Seq(Code)
      BY <1>0 DEF TypeOK
    <3>2. email[u] \in Email
      BY <1>1 DEF RecoverFind
    <3>3. DOMAIN codes = 1 .. Len(codes)
      BY <3>1
    <3>4. i \in Nat
      BY <3>3
    <3>5. QED
      BY <3>2, <3>4
  <2>3. TypeOK' /\ \A k \in Req \ {h} : req'[k] = req[k]
    <3>1. [req[h] EXCEPT !.pc = "recover_verify", !.email = email[u], !.user = u, !.code = i]
             \in Request
      <4>1. /\ req[h] \in Request /\ "recover_verify" \in ReqPc
            /\ email[u] \in Email \cup {NoEmail} /\ u \in User \cup {NoUser}
        BY <1>0, <2>2 DEF TypeOK, ReqPc
      <4>2. QED
        BY <2>2, <4>1 DEF Request
    <3>2. QED
      BY <1>0, <1>1, <3>1 DEF RecoverFind, TypeOK
  <2>4. /\ req'[h].pc = "recover_verify" /\ req'[h].email = email[u]
        /\ req'[h].user = u /\ req'[h].code = i
    BY <1>0, <1>1 DEF RecoverFind, TypeOK, Request
  <2>5. Knows(h)'
    BY <1>1, <2>2, <2>4, AccountAssumption
    DEF RecoverFind, Knows, Signing, Recovering, Deactivating, OfUser
  <2>6. QED
    BY <1>1, <2>1, <2>3, <2>5, QuietStep DEF RecoverFind, Mine
<1>2. CASE RecoverVerify(h)
  <2>1. Later
    BY <1>0, <1>2, NothingIsLater DEF RecoverVerify
  <2>2. CASE Return(h)
    BY <1>0, <1>2, <2>1, <2>2, IdleKnows, QuietStep DEF RecoverVerify, TypeOK, Mine
  <2>3. CASE Verified("forget_password", req[h].email, req[h].code) /\ Goto(h, "recover_update")
    <3>1. "recover_update" \in ReqPc
      BY DEF ReqPc
    <3>2. TypeOK' /\ \A k \in Req \ {h} : req'[k] = req[k]
      BY <1>0, <1>2, <2>3, <3>1, MovedRequest DEF RecoverVerify, TypeOK
    <3>3. /\ req'[h].pc = "recover_update" /\ req'[h].email = req[h].email
          /\ req'[h].user = req[h].user /\ req'[h].code = req[h].code
      BY <1>0, <2>3, <3>1, MovedRequest
    <3>4. /\ codes[req[h].code].action = "forget_password"
          /\ codes[req[h].code].email = req[h].email
      BY <2>3 DEF Verified, Candidates
    <3>5. Knows(h)'
      BY <1>0, <1>2, <3>3, <3>4
      DEF RecoverVerify, Knows, Signing, Recovering, Deactivating, OfUser
    <3>6. QED
      BY <1>2, <2>1, <3>2, <3>5, QuietStep DEF RecoverVerify, Mine
  <2>4. QED
    BY <1>2, <2>2, <2>3 DEF RecoverVerify
<1>3. CASE RecoverClose(h)
  <2>1. codes' \in Seq(Code) /\ CodesStay
    BY <1>0, <1>3, SpentCodes DEF RecoverClose, Knows, Recovering, Action
  <2>2. Later
    BY <1>3, <2>1 DEF RecoverClose, Later, EmailsStay, FilesStay
  <2>3. QED
    BY <1>0, <1>3, <2>1, <2>2, IdleKnows, QuietStep DEF RecoverClose, TypeOK, Mine
<1>4. QED
  BY <1>1, <1>2, <1>3

\* The password is written with the code that was verified for its user.
LEMMA RecoverUpdateKept ==
    ASSUME AccountInv, NEW h \in Req, RecoverUpdate(h)
    PROVE  AccountInv'
<1>0. TypeOK /\ Knows(h)
  BY DEF AccountInv
<1> DEFINE u == req[h].user
<1>1. /\ u \in User /\ email[u] # NoEmail /\ req[h].code \in DOMAIN codes
      /\ req[h].code \in Nat
      /\ email[u] \in {codes[req[h].code].email, GoneEmail}
      /\ codes[req[h].code].action = "forget_password"
  BY <1>0 DEF RecoverUpdate, Knows, Recovering, OfUser, TypeOK, Request
<1>2. /\ changedBy'[u] = req[h].code /\ enabled'[u] = TRUE
      /\ \A v \in User \ {u} : changedBy'[v] = changedBy[v] /\ enabled'[v] = enabled[v]
  BY <1>0, <1>1 DEF RecoverUpdate, TypeOK
<1>3. Later
  BY <1>0, NothingIsLater DEF RecoverUpdate
<1>4. "recover_close" \in ReqPc
  BY DEF ReqPc
<1>5. TypeOK' /\ \A k \in Req \ {h} : req'[k] = req[k]
  BY <1>0, <1>1, <1>4, MovedRequest DEF RecoverUpdate, TypeOK
<1>6. Knows(h)'
  <2>1. /\ req'[h].pc = "recover_close" /\ req'[h].email = req[h].email
        /\ req'[h].user = req[h].user /\ req'[h].code = req[h].code
    BY <1>0, <1>4, MovedRequest DEF RecoverUpdate
  <2>2. QED
    BY <1>0, <2>1 DEF RecoverUpdate, Knows, Signing, Recovering, Deactivating, OfUser
<1>7. \A k \in Req : Knows(k)'
  BY <1>3, <1>5, <1>6, OneRequestSuffices DEF Mine
<1>8. Fresh'
  BY <1>1, <1>2 DEF AccountInv, Fresh, RecoverUpdate
<1>9. PasswordFromCode'
  BY <1>1, <1>2 DEF AccountInv, PasswordFromCode, RecoverUpdate
<1>10. FilesOutliveUser'
  BY DEF AccountInv, FilesOutliveUser, RecoverUpdate
<1>11. QED
  BY <1>5, <1>7, <1>8, <1>9, <1>10 DEF AccountInv

-----------------------------------------------------------------------------
(* The steps of a user who is logged in.                                   *)

LEMMA LoggedInKept ==
    ASSUME AccountInv, NEW h \in Req,
           \/ \E u \in User : ResetBegin(h, u)
           \/ \E u \in User, what \in Kind : OwnBegin(h, u, what)
           \/ Upload(h) \/ DeactivateFiles(h) \/ RequestDies(h)
    PROVE  AccountInv'
<1>0. TypeOK /\ Knows(h) /\ Fresh
  BY DEF AccountInv
<1>1. ASSUME NEW u \in User, ResetBegin(h, u) PROVE AccountInv'
  <2>1. Later
    BY <1>0, <1>1, NothingIsLater DEF ResetBegin
  <2>2. email[u] # NoEmail
    BY <1>0, <1>1 DEF ResetBegin, Fresh
  <2>3. TypeOK' /\ \A k \in Req \ {h} : req'[k] = req[k]
    <3>1. [req[h] EXCEPT !.pc = "reset", !.user = u] \in Request
      BY <1>0 DEF TypeOK, Request, ReqPc
    <3>2. QED
      BY <1>0, <1>1, <3>1 DEF ResetBegin, TypeOK
  <2>4. req'[h].pc = "reset" /\ req'[h].user = u
    BY <1>0, <1>1 DEF ResetBegin, TypeOK, Request
  <2>5. Knows(h)'
    BY <1>1, <2>2, <2>4 DEF ResetBegin, Knows, Signing, Recovering, Deactivating, OfUser
  <2>6. QED
    BY <1>1, <2>1, <2>3, <2>5, QuietStep DEF ResetBegin, Mine
<1>2. ASSUME NEW u \in User, NEW what \in Kind, OwnBegin(h, u, what) PROVE AccountInv'
  <2>1. Later
    BY <1>0, <1>2, NothingIsLater DEF OwnBegin
  <2>2. email[u] # NoEmail /\ what \in Resource
    BY <1>0, <1>2, AccountAssumption DEF OwnBegin, Fresh, Resource
  <2>3. TypeOK' /\ \A k \in Req \ {h} : req'[k] = req[k]
    <3>1. [req[h] EXCEPT !.pc = IF what = "media" THEN "upload" ELSE "own",
                         !.user = u, !.what = what] \in Request
      BY <1>0, <2>2 DEF TypeOK, Request, ReqPc
    <3>2. QED
      BY <1>0, <1>2, <3>1 DEF OwnBegin, TypeOK
  <2>4. /\ req'[h].pc = IF what = "media" THEN "upload" ELSE "own"
        /\ req'[h].user = u /\ req'[h].what = what
    BY <1>0, <1>2 DEF OwnBegin, TypeOK, Request
  <2>5. Knows(h)'
    <3>1. \/ req'[h].pc = "upload"
          \/ req'[h].pc = "own" /\ req'[h].what # "media"
      BY <2>4
    <3>2. req'[h].user \in User /\ email'[req'[h].user] # NoEmail
      BY <1>2, <2>2, <2>4 DEF OwnBegin
    <3>3. QED
      BY <3>1, <3>2 DEF Knows, Signing, Recovering, Deactivating, OfUser
  <2>6. QED
    BY <1>2, <2>1, <2>3, <2>5, QuietStep DEF OwnBegin, Mine
<1>3. CASE Upload(h)
  <2>1. req[h].user \in User /\ email[req[h].user] # NoEmail
    BY <1>0, <1>3 DEF Upload, Knows, OfUser
  <2>2. files'[req[h].user] /\ \A u \in User : files[u] => files'[u]
    BY <1>0, <1>3, <2>1 DEF Upload, TypeOK
  <2>3. Later
    BY <1>3, <2>2 DEF Upload, Later, EmailsStay, CodesStay, FilesStay
  <2>4. "own" \in ReqPc
    BY DEF ReqPc
  <2>5. TypeOK' /\ \A k \in Req \ {h} : req'[k] = req[k]
    BY <1>0, <1>3, <2>4, MovedRequest DEF Upload, TypeOK
  <2>6. req'[h].pc = "own" /\ req'[h].user = req[h].user
    BY <1>0, <1>3, <2>4, MovedRequest DEF Upload
  <2>7. Knows(h)'
    BY <1>3, <2>1, <2>2, <2>6 DEF Upload, Knows, Signing, Recovering, Deactivating, OfUser
  <2>8. QED
    BY <1>3, <2>3, <2>5, <2>7, QuietStep DEF Upload, Mine
<1>4. CASE DeactivateFiles(h)
  <2>1. req[h].user \in User /\ email[req[h].user] = GoneEmail
    BY <1>0, <1>4 DEF DeactivateFiles, Knows, OfUser, Deactivating
  <2>2. Later
    BY <1>0, <1>4, <2>1 DEF DeactivateFiles, TypeOK, Later, EmailsStay, CodesStay, FilesStay
  <2>3. QED
    BY <1>0, <1>4, <2>2, IdleKnows, QuietStep DEF DeactivateFiles, TypeOK, Mine
<1>5. CASE RequestDies(h)
  <2>1. Later
    BY <1>0, <1>5, NothingIsLater DEF RequestDies
  <2>2. QED
    BY <1>0, <1>5, <2>1, IdleKnows, QuietStep DEF RequestDies, TypeOK, Mine
<1>6. QED
  BY <1>1, <1>2, <1>3, <1>4, <1>5

-----------------------------------------------------------------------------
(* The steps that write a user or what it owns, and time.                  *)

\* A reset writes a password of no code, and enables the user.
LEMMA ResetKept ==
    ASSUME AccountInv, NEW h \in Req, ResetUpdate(h)
    PROVE  AccountInv'
<1>0. TypeOK /\ Knows(h)
  BY DEF AccountInv
<1> DEFINE u == req[h].user
<1>1. u \in User /\ email[u] # NoEmail
  BY <1>0 DEF ResetUpdate, Knows, OfUser
<1>2. /\ changedBy'[u] = 0 /\ enabled'[u] = TRUE
      /\ \A v \in User \ {u} : changedBy'[v] = changedBy[v] /\ enabled'[v] = enabled[v]
  BY <1>0, <1>1 DEF ResetUpdate, TypeOK
<1>3. Later
  BY <1>0, NothingIsLater DEF ResetUpdate
<1>4. Mine(h)
  BY <1>0, <1>3, IdleKnows DEF ResetUpdate, TypeOK, Mine
<1>5. \A k \in Req : Knows(k)'
  BY <1>4, OneRequestSuffices
<1>6. Fresh'
  BY <1>1, <1>2 DEF AccountInv, Fresh, ResetUpdate
<1>7. PasswordFromCode' /\ FilesOutliveUser'
  BY <1>2 DEF AccountInv, PasswordFromCode, FilesOutliveUser, ResetUpdate
<1>8. QED
  BY <1>4, <1>5, <1>6, <1>7 DEF AccountInv, Mine

\* A media is inserted when its file is there, or its user deactivated.
LEMMA OwnKept ==
    ASSUME AccountInv, NEW h \in Req, OwnCreate(h)
    PROVE  AccountInv'
<1>0. TypeOK /\ Knows(h)
  BY DEF AccountInv
<1> DEFINE u == req[h].user
<1>1. u \in User /\ email[u] # NoEmail
  BY <1>0 DEF OwnCreate, Knows, OfUser
<1>2. /\ owned'[u] = owned[u] \cup {req[h].what}
      /\ \A v \in User \ {u} : owned'[v] = owned[v]
  BY <1>0, <1>1 DEF OwnCreate, TypeOK
<1>3. Later
  BY <1>0, NothingIsLater DEF OwnCreate
<1>4. owned' \in [User -> SUBSET Resource]
  <2>1. req[h].what \in Resource
    BY <1>0 DEF TypeOK, Request
  <2>2. QED
    BY <1>0, <2>1 DEF OwnCreate, TypeOK
<1>5. Mine(h)
  BY <1>0, <1>3, <1>4, IdleKnows DEF OwnCreate, TypeOK, Mine
<1>6. \A k \in Req : Knows(k)'
  BY <1>5, OneRequestSuffices
<1>7. Fresh' /\ PasswordFromCode'
  BY <1>1, <1>2 DEF AccountInv, Fresh, PasswordFromCode, OwnCreate
<1>8. FilesOutliveUser'
  BY <1>0, <1>1, <1>2 DEF AccountInv, FilesOutliveUser, OwnCreate, Knows
<1>9. QED
  BY <1>5, <1>6, <1>7, <1>8 DEF AccountInv, Mine

LEMMA DeactivateKept ==
    ASSUME AccountInv, NEW h \in Req, NEW u \in User, DeactivateUser(h, u)
    PROVE  AccountInv'
<1>0. TypeOK /\ Knows(h) /\ Fresh
  BY DEF AccountInv
<1>1. email[u] # NoEmail
  BY <1>0 DEF DeactivateUser, Fresh
<1>2. /\ email'[u] = GoneEmail /\ enabled'[u] = FALSE
      /\ \A v \in User \ {u} : email'[v] = email[v] /\ enabled'[v] = enabled[v]
  BY <1>0 DEF DeactivateUser, TypeOK
<1>3. Later
  BY <1>2 DEF DeactivateUser, Later, EmailsStay, CodesStay, FilesStay
<1>4. [req[h] EXCEPT !.pc = "deact_tasks", !.user = u] \in Request
  BY <1>0 DEF TypeOK, Request, ReqPc
<1>5. TypeOK' /\ \A k \in Req \ {h} : req'[k] = req[k]
  BY <1>0, <1>4 DEF DeactivateUser, TypeOK
<1>6. req'[h].pc = "deact_tasks" /\ req'[h].user = u
  BY <1>0 DEF DeactivateUser, TypeOK, Request
<1>7. Knows(h)'
  BY <1>2, <1>6, AccountAssumption DEF Knows, Signing, Recovering, Deactivating, OfUser
<1>8. \A k \in Req : Knows(k)'
  BY <1>3, <1>5, <1>7, OneRequestSuffices DEF Mine
<1>9. Fresh'
  BY <1>0, <1>1, <1>2, AccountAssumption DEF Fresh, DeactivateUser
<1>10. PasswordFromCode' /\ FilesOutliveUser'
  BY <1>3, UntouchedKept DEF DeactivateUser, PasswordFromCode, FilesOutliveUser
<1>11. QED
  BY <1>5, <1>8, <1>9, <1>10 DEF AccountInv

LEMMA DisownKept ==
    ASSUME AccountInv, NEW h \in Req, NEW at \in Deactivating, NEW what \in Resource,
           NEW next \in Deactivating, Disown(h, at, what, next)
    PROVE  AccountInv'
<1>0. TypeOK /\ Knows(h)
  BY DEF AccountInv
<1>1. req[h].user \in User /\ email[req[h].user] = GoneEmail
  BY <1>0 DEF Disown, Knows, OfUser
<1>2. \A v \in User : owned'[v] \subseteq owned[v]
  BY <1>0 DEF Disown, TypeOK
<1>3. Later
  BY <1>0, NothingIsLater DEF Disown
<1>4. next \in ReqPc
  BY DEF Deactivating, ReqPc
<1>5. TypeOK' /\ \A k \in Req \ {h} : req'[k] = req[k]
  BY <1>0, <1>4, MovedRequest DEF Disown, TypeOK
<1>6. req'[h].pc = next /\ req'[h].user = req[h].user
  BY <1>0, <1>4, MovedRequest DEF Disown
<1>7. Knows(h)'
  BY <1>1, <1>6, AccountAssumption
  DEF Disown, Knows, Signing, Recovering, Deactivating, OfUser
<1>8. \A k \in Req : Knows(k)'
  BY <1>3, <1>5, <1>7, OneRequestSuffices DEF Mine
<1>9. Fresh'
  BY <1>2 DEF AccountInv, Fresh, Disown
<1>10. PasswordFromCode' /\ FilesOutliveUser'
  BY <1>2, <1>3, UntouchedKept DEF Disown, PasswordFromCode, FilesOutliveUser
<1>11. QED
  BY <1>5, <1>8, <1>9, <1>10 DEF AccountInv

\* Nobody knows the age of a code from before.
LEMMA GrowOldKept ==
    ASSUME AccountInv, NEW i \in DOMAIN codes, GrowOld(i)
    PROVE  AccountInv'
<1>0. TypeOK
  BY DEF AccountInv
<1>1. PICK age \in Age : codes' = [codes EXCEPT ![i].age = age]
  BY DEF GrowOld
<1>2. codes' \in Seq(Code) /\ CodesStay
  <2>1. codes \in Seq(Code) /\ codes[i] \in Code
    BY <1>0 DEF TypeOK
  <2>2. [codes[i] EXCEPT !.age = age] \in Code
    BY <2>1 DEF Code
  <2>3. codes' \in Seq(Code) /\ DOMAIN codes' = DOMAIN codes
    BY <1>1, <2>1, <2>2
  <2>4. \A j \in DOMAIN codes : /\ codes'[j].email = codes[j].email
                                 /\ codes'[j].action = codes[j].action
    BY <1>1, <2>1, <2>2 DEF Code
  <2>5. QED
    BY <2>3, <2>4 DEF CodesStay
<1>3. Later
  BY <1>2 DEF GrowOld, Later, EmailsStay, FilesStay
<1>4. TypeOK'
  BY <1>0, <1>2 DEF GrowOld, TypeOK
<1>5. \A k \in Req : Knows(k)'
  BY <1>3, KnowsKept DEF AccountInv, GrowOld
<1>6. Fresh' /\ PasswordFromCode' /\ FilesOutliveUser'
  BY <1>3, UntouchedKept DEF AccountInv, Fresh, PasswordFromCode, FilesOutliveUser, GrowOld
<1>7. QED
  BY <1>4, <1>5, <1>6 DEF AccountInv

-----------------------------------------------------------------------------
LEMMA InitInv ==
    ASSUME Init
    PROVE  AccountInv
<1>1. Idle \in Request
  BY DEF Idle, Request, ReqPc, Action, Resource
<1>2. TypeOK
  BY <1>1 DEF Init, TypeOK
<1>3. \A h \in Req : Knows(h)
  BY DEF Init, Knows, Idle, Signing, Recovering, Deactivating, OfUser
<1>4. Fresh /\ PasswordFromCode /\ FilesOutliveUser
  BY DEF Init, Fresh, PasswordFromCode, FilesOutliveUser
<1>5. QED
  BY <1>2, <1>3, <1>4 DEF AccountInv

LEMMA StutterKept ==
    ASSUME AccountInv, UNCHANGED vars
    PROVE  AccountInv'
<1>1. TypeOK' /\ Fresh' /\ PasswordFromCode' /\ FilesOutliveUser'
  BY DEF AccountInv, TypeOK, Fresh, PasswordFromCode, FilesOutliveUser, vars
<1>2. \A h \in Req : Knows(h)'
  BY DEF AccountInv, Knows, vars
<1>3. QED
  BY <1>1, <1>2 DEF AccountInv

LEMMA NextKept ==
    ASSUME AccountInv, Next
    PROVE  AccountInv'
<1>1. ASSUME NEW h \in Req, Anonymous(h) PROVE AccountInv'
  BY <1>1, SignKept, CreateKept, RecoverKept, RecoverUpdateKept DEF Anonymous
<1>2. ASSUME NEW h \in Req, Superuser(h) PROVE AccountInv'
  BY <1>2, SignKept, CreateKept DEF Superuser
<1>3. ASSUME NEW h \in Req, LoggedIn(h) PROVE AccountInv'
  <2>1. ASSUME DeactivateTasks(h) \/ DeactivateDatasets(h) \/ DeactivateMedia(h)
        PROVE  AccountInv'
    BY <2>1, DisownKept
    DEF DeactivateTasks, DeactivateDatasets, DeactivateMedia, Deactivating, Resource
  <2>2. QED
    BY <1>3, <2>1, LoggedInKept, ResetKept, OwnKept, DeactivateKept DEF LoggedIn
<1>4. ASSUME NEW h \in Req, RequestDies(h) PROVE AccountInv'
  BY <1>4, LoggedInKept
<1>5. ASSUME NEW i \in 1 .. MaxCodes, GrowOld(i) PROVE AccountInv'
  BY <1>5, GrowOldKept DEF GrowOld
<1>6. QED
  BY <1>1, <1>2, <1>3, <1>4, <1>5 DEF Next

\* The inductive invariant holds in every reachable state: what requests of
\* server/apps/oauth remember of users and codes is still true when they write.
THEOREM AccountInvariant == Spec => []AccountInv
<1>1. Init => AccountInv
  BY InitInv
<1>2. AccountInv /\ [Next]_vars => AccountInv'
  BY NextKept, StutterKept
<1>3. QED
  BY <1>1, <1>2, PTL DEF Spec

\* Every variable keeps its type.
THEOREM TypeCorrect == Spec => []TypeOK
<1>1. AccountInv => TypeOK
  BY DEF AccountInv
<1>2. QED
  BY <1>1, AccountInvariant, PTL

\* For any number of users, codes and requests that may die, a password set by
\* a code (recover_password) was set by one sent to that user for recovery.
THEOREM PasswordFromCodeAlways == Spec => []PasswordFromCode
<1>1. AccountInv => PasswordFromCode
  BY DEF AccountInv
<1>2. QED
  BY <1>1, AccountInvariant, PTL

\* For any users and interleaving of uploads with deactivations that may die
\* half way, a user who was not deactivated has the files of its media.
THEOREM FilesOutliveUserAlways == Spec => []FilesOutliveUser
<1>1. AccountInv => FilesOutliveUser
  BY DEF AccountInv
<1>2. QED
  BY <1>1, AccountInvariant, PTL

-----------------------------------------------------------------------------
(* One user per email.  SignupCheck and AdminCheck look, SignupCreate and   *)
(* AdminCreate insert: between the two nobody else may, which is where the  *)
(* assumption that sign-ups and superusers come one at a time enters.       *)

OneSignUp == \A g, h \in SignUpReq : g = h

Creating  == {"signup_create", "admin_create"}
SigningUp == Creating \cup {"signup_check", "signup_close"}

SoleOwners == \A u, v \in User : email[u] = email[v] /\ email[u] \in Email => u = v

SoleInv ==
    /\ AccountInv
    /\ SoleOwners
    /\ \A h \in Req : /\ req[h].pc \in SigningUp => h \in SignUpReq
                      /\ req[h].pc \in Creating => UsersOf(req[h].email) = {}

\* A step that gives nobody an email and brings no request into a sign-up.
Aside ==
    /\ \A u \in User : email'[u] \in Email => email'[u] = email[u]
    /\ \A k \in Req : req'[k].pc \in SigningUp => req'[k] = req[k]

LEMMA AsideKept ==
    ASSUME SoleInv, Aside, AccountInv'
    PROVE  SoleInv'
<1>1. SoleOwners'
  BY DEF SoleInv, SoleOwners, Aside
<1>2. \A h \in Req : req'[h].pc \in SigningUp => h \in SignUpReq
  BY DEF SoleInv, Aside
<1>3. ASSUME NEW h \in Req, req'[h].pc \in Creating
      PROVE  UsersOf(req[h].email)'= {} /\ req'[h] = req[h]
  <2>1. /\ req'[h] = req[h] /\ req[h].email \in Email
        /\ UsersOf(req[h].email) = {}
    BY <1>3 DEF SoleInv, AccountInv, Knows, Aside, SigningUp, Creating, Signing
  <2>2. QED
    BY <2>1 DEF UsersOf, Aside
<1>4. QED
  BY <1>1, <1>2, <1>3 DEF SoleInv, UsersOf

LEMMA RequestLeft ==
    ASSUME TypeOK, NEW h \in Req, NEW r \in Request, r.pc \notin SigningUp,
           req' = [req EXCEPT ![h] = r],
           \A u \in User : email'[u] \in Email => email'[u] = email[u]
    PROVE  Aside
  BY DEF TypeOK, Aside

LEMMA IdleAside ==
    ASSUME TypeOK, NEW h \in Req, Return(h), UNCHANGED email
    PROVE  Aside
  BY DEF TypeOK, Aside, Return, Idle, SigningUp, Creating

LEMMA MovedAside ==
    ASSUME TypeOK, NEW h \in Req, NEW pc \in ReqPc \ SigningUp, Goto(h, pc), UNCHANGED email
    PROVE  Aside
  BY MovedRequest DEF TypeOK, Aside

\* A user is created by the only request that may, for an email it has looked up.
LEMMA CreateSole ==
    ASSUME SoleInv, OneSignUp, AccountInv',
           NEW h \in Req, req[h].pc \in Creating, CreateUser(req[h].email),
           req'[h].pc \notin Creating,
           \A k \in Req \ {h} : req'[k] = req[k]
    PROVE  SoleInv'
<1>0. TypeOK
  BY DEF SoleInv, AccountInv
<1>1. PICK u \in User : email' = [email EXCEPT ![u] = req[h].email]
  BY DEF CreateUser
<1>2. /\ email'[u] = req[h].email
      /\ \A v \in User \ {u} : email'[v] = email[v]
  BY <1>0, <1>1 DEF TypeOK
<1>3. h \in SignUpReq /\ \A v \in User : email[v] # req[h].email
  BY DEF SoleInv, SigningUp, UsersOf
<1>4. SoleOwners'
  BY <1>2, <1>3 DEF SoleInv, SoleOwners
<1>5. \A k \in Req \ {h} : req'[k].pc \notin SigningUp
  BY <1>3 DEF SoleInv, OneSignUp
<1>6. QED
  BY <1>3, <1>4, <1>5 DEF SoleInv, SigningUp

LEMMA AnonymousSole ==
    ASSUME SoleInv, OneSignUp, NEW h \in Req, Anonymous(h), AccountInv'
    PROVE  SoleInv'
<1>0. TypeOK /\ Knows(h)
  BY DEF SoleInv, AccountInv
<1>1. ASSUME NEW action \in Action, NEW e \in Email, SendCheck(h, action, e) PROVE SoleInv'
  <2>1. /\ req'[h].pc = "send"
        /\ \A k \in Req \ {h} : req'[k] = req[k]
    BY <1>0, <1>1 DEF SendCheck, TypeOK, Request
  <2>2. Aside
    BY <1>1, <2>1 DEF SendCheck, Aside, SigningUp, Creating
  <2>3. QED
    BY <2>2, AsideKept
<1>2. ASSUME NEW u \in User, NEW i \in DOMAIN codes, RecoverFind(h, u, i) PROVE SoleInv'
  <2>1. /\ req'[h].pc = "recover_verify"
        /\ \A k \in Req \ {h} : req'[k] = req[k]
    BY <1>0, <1>2 DEF RecoverFind, TypeOK, Request
  <2>2. Aside
    BY <1>2, <2>1 DEF RecoverFind, Aside, SigningUp, Creating
  <2>3. QED
    BY <2>2, AsideKept
<1>3. CASE SendCreate(h) \/ SignupClose(h) \/ RecoverClose(h)
  <2>1. Return(h) /\ UNCHANGED email
    BY <1>3 DEF SendCreate, SignupClose, RecoverClose
  <2>2. QED
    BY <1>0, <2>1, IdleAside, AsideKept
<1>4. CASE RecoverVerify(h) \/ RecoverUpdate(h)
  <2>1. /\ UNCHANGED email
        /\ Return(h) \/ Goto(h, "recover_update") \/ Goto(h, "recover_close")
    BY <1>4 DEF RecoverVerify, RecoverUpdate
  <2>2. {"recover_update", "recover_close"} \subseteq ReqPc \ SigningUp
    BY DEF ReqPc, SigningUp, Creating
  <2>3. QED
    BY <1>0, <2>1, <2>2, IdleAside, MovedAside, AsideKept
<1>5. ASSUME NEW e \in Email, NEW i \in DOMAIN codes, SignupVerify(h, e, i) PROVE SoleInv'
  <2>1. /\ h \in SignUpReq /\ UNCHANGED email
        /\ req'[h].pc = "signup_check" /\ req'[h].pc \notin Creating
        /\ \A k \in Req \ {h} : req'[k] = req[k]
    BY <1>0, <1>5 DEF SignupVerify, TypeOK, Request, Creating
  <2>2. QED
    BY <2>1 DEF SoleInv, SoleOwners, UsersOf
<1>6. CASE SignupCheck(h)
  <2>1. UNCHANGED email
    BY <1>6 DEF SignupCheck
  <2>2. CASE Return(h)
    BY <1>0, <2>1, <2>2, IdleAside, AsideKept
  <2>3. CASE UsersOf(req[h].email) = {} /\ Goto(h, "signup_create")
    <3>1. "signup_create" \in ReqPc
      BY DEF ReqPc
    <3>2. /\ req'[h].pc = "signup_create" /\ req'[h].email = req[h].email
          /\ \A k \in Req \ {h} : req'[k] = req[k]
      BY <1>0, <2>3, <3>1, MovedRequest
    <3>3. h \in SignUpReq
      BY <1>6 DEF SignupCheck, SoleInv, SigningUp, Creating
    <3>4. QED
      BY <2>1, <2>3, <3>2, <3>3 DEF SoleInv, SoleOwners, UsersOf
  <2>4. QED
    BY <1>6, <2>2, <2>3 DEF SignupCheck
<1>7. CASE SignupCreate(h)
  <2>1. "signup_close" \in ReqPc
    BY DEF ReqPc
  <2>2. /\ req'[h].pc \notin Creating
        /\ \A k \in Req \ {h} : req'[k] = req[k]
    BY <1>0, <1>7, <2>1, MovedRequest DEF SignupCreate, Creating
  <2>3. QED
    BY <1>7, <2>2, CreateSole DEF SignupCreate, Creating
<1>8. QED
  BY <1>1, <1>2, <1>3, <1>4, <1>5, <1>6, <1>7 DEF Anonymous

LEMMA SuperuserSole ==
    ASSUME SoleInv, OneSignUp, NEW h \in Req, Superuser(h), AccountInv'
    PROVE  SoleInv'
<1>0. TypeOK
  BY DEF SoleInv, AccountInv
<1>1. ASSUME NEW e \in Email, AdminCheck(h, e) PROVE SoleInv'
  <2>1. /\ h \in SignUpReq /\ UNCHANGED email /\ UsersOf(e) = {}
        /\ req'[h].pc = "admin_create" /\ req'[h].email = e
        /\ \A k \in Req \ {h} : req'[k] = req[k]
    BY <1>0, <1>1 DEF AdminCheck, TypeOK, Request
  <2>2. QED
    BY <2>1 DEF SoleInv, SoleOwners, UsersOf
<1>2. CASE AdminCreate(h)
  <2>1. /\ req'[h].pc \notin Creating
        /\ \A k \in Req \ {h} : req'[k] = req[k]
    BY <1>0, <1>2 DEF AdminCreate, TypeOK, Return, Idle, Creating
  <2>2. QED
    BY <1>2, <2>1, CreateSole DEF AdminCreate, Creating
<1>3. QED
  BY <1>1, <1>2 DEF Superuser

LEMMA LoggedInSole ==
    ASSUME SoleInv, NEW h \in Req, LoggedIn(h), AccountInv'
    PROVE  SoleInv'
<1>0. TypeOK
  BY DEF SoleInv, AccountInv
<1>1. ASSUME NEW u \in User, ResetBegin(h, u) \/ DeactivateUser(h, u) PROVE SoleInv'
  <2>1. /\ req'[h].pc \in {"reset", "deact_tasks"}
        /\ \A k \in Req \ {h} : req'[k] = req[k]
    <3>1. CASE ResetBegin(h, u)
      BY <1>0, <3>1 DEF ResetBegin, TypeOK, Request
    <3>2. CASE DeactivateUser(h, u)
      BY <1>0, <3>2 DEF DeactivateUser, TypeOK, Request
    <3>3. QED
      BY <1>1, <3>1, <3>2
  <2>2. \A v \in User : email'[v] \in Email => email'[v] = email[v]
    BY <1>0, <1>1, AccountAssumption DEF ResetBegin, DeactivateUser, TypeOK
  <2>3. Aside
    BY <2>1, <2>2 DEF Aside, SigningUp, Creating
  <2>4. QED
    BY <2>3, AsideKept
<1>2. ASSUME NEW u \in User, NEW what \in Kind, OwnBegin(h, u, what) PROVE SoleInv'
  <2>1. /\ req'[h].pc = IF what = "media" THEN "upload" ELSE "own"
        /\ \A k \in Req \ {h} : req'[k] = req[k]
    BY <1>0, <1>2 DEF OwnBegin, TypeOK, Request
  <2>2. Aside
    BY <1>2, <2>1 DEF OwnBegin, Aside, SigningUp, Creating
  <2>3. QED
    BY <2>2, AsideKept
<1>3. CASE ResetUpdate(h) \/ OwnCreate(h) \/ DeactivateFiles(h)
  <2>1. Return(h) /\ UNCHANGED email
    BY <1>3 DEF ResetUpdate, OwnCreate, DeactivateFiles
  <2>2. QED
    BY <1>0, <2>1, IdleAside, AsideKept
<1>4. CASE Upload(h) \/ DeactivateTasks(h) \/ DeactivateDatasets(h) \/ DeactivateMedia(h)
  <2>1. UNCHANGED email /\ \E pc \in {"own"} \cup Deactivating : Goto(h, pc)
    BY <1>4
    DEF Upload, DeactivateTasks, DeactivateDatasets, DeactivateMedia, Disown, Deactivating
  <2>2. {"own"} \cup Deactivating \subseteq ReqPc \ SigningUp
    BY DEF Deactivating, ReqPc, SigningUp, Creating
  <2>3. QED
    BY <1>0, <2>1, <2>2, MovedAside, AsideKept
<1>5. QED
  BY <1>1, <1>2, <1>3, <1>4 DEF LoggedIn

\* While sign-ups come one at a time, an email has one user at most, whatever
\* dies after the user was created and before its codes were spent (signup).
THEOREM OneUserPerEmailAlways ==
    ASSUME OneSignUp
    PROVE  Spec => []OneUserPerEmail
<1>1. Init => SoleInv
  <2>1. Init => SoleOwners
    BY AccountAssumption DEF Init, SoleOwners
  <2>2. QED
    BY <2>1, InitInv DEF Init, SoleInv, Idle, SigningUp, Creating
<1>2. SoleInv /\ [Next]_vars => SoleInv'
  <2> SUFFICES ASSUME SoleInv, [Next]_vars PROVE SoleInv'
    OBVIOUS
  <2>1. AccountInv'
    BY NextKept, StutterKept DEF SoleInv
  <2>2. ASSUME NEW h \in Req, RequestDies(h) PROVE SoleInv'
    BY <2>1, <2>2, IdleAside, AsideKept DEF RequestDies, SoleInv, AccountInv
  <2>3. ASSUME NEW i \in 1 .. MaxCodes, GrowOld(i) PROVE SoleInv'
    BY <2>1, <2>3, AsideKept DEF GrowOld, Aside
  <2>4. CASE UNCHANGED vars
    BY <2>1, <2>4, AsideKept DEF vars, Aside
  <2>5. QED
    BY <2>1, <2>2, <2>3, <2>4, AnonymousSole, SuperuserSole, LoggedInSole DEF Next
<1>3. SoleInv => OneUserPerEmail
  <2>1. SUFFICES ASSUME SoleInv, NEW e \in Email
                 PROVE  Cardinality(UsersOf(e)) <= 1
    BY DEF OneUserPerEmail
  <2>2. CASE UsersOf(e) = {}
    BY <2>2, FS_EmptySet
  <2>3. ASSUME NEW u \in UsersOf(e) PROVE Cardinality(UsersOf(e)) <= 1
    <3>1. UsersOf(e) = {u}
      BY <2>1, <2>3 DEF UsersOf, SoleInv, SoleOwners
    <3>2. Cardinality({u}) = 1
      BY FS_Singleton
    <3>3. QED
      BY <3>1, <3>2
  <2>4. QED
    BY <2>2, <2>3
<1>4. QED
  BY <1>1, <1>2, <1>3, PTL DEF Spec

=============================================================================
