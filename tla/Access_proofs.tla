---------------------------- MODULE Access_proofs ----------------------------
(* Proofs about Access, for any browsers, users, GitHub accounts and secrets. *)
EXTENDS Access, FiniteSetTheorems, TLAPS

USE AccessAssumption

\* What a request is made of.
LEMMA RequestFields ==
    ASSUME TypeOK, NEW b \in Browser
    PROVE  /\ req[b] \in Request
           /\ req[b].pc \in ReqPc
           /\ req[b].of \in User \cup Identity \cup {NoUser}
           /\ req[b].user \in User \cup {NoUser}
           /\ req[b].set \in Token
BY DEF TypeOK, Request

\* A thread that serves nothing is a request record.
LEMMA IdleIsRequest == Idle \in Request
BY DEF Idle, Request, ReqPc, Token

\* What a server signs is a token.
LEMMA TokenOfIsToken ==
    ASSUME TypeOK, NEW u \in User PROVE TokenOf(u) \in Token
BY DEF TypeOK, TokenOf, Token

-----------------------------------------------------------------------------
(* Types.                                                                  *)

LEMMA TypeInit == Init => TypeOK
<1> SUFFICES ASSUME Init PROVE TypeOK
  OBVIOUS
<1>1. [user |-> NoUser, life |-> "none"] \in Permission
  BY DEF Permission
<1>2. NoToken \in Token /\ Idle \in Request
  BY IdleIsRequest DEF Token
<1> QED
  BY <1>1, <1>2 DEF Init, TypeOK

\* The request of one browser is replaced by another.
LEMMA RequestReplaced ==
    ASSUME TypeOK, NEW b \in Browser, NEW q \in Request, req' = [req EXCEPT ![b] = q]
    PROVE  req' \in [Browser -> Request]
BY DEF TypeOK

LEMMA GotoTyped ==
    ASSUME TypeOK, NEW b \in Browser, NEW pc \in ReqPc, Goto(b, pc)
    PROVE  req' \in [Browser -> Request]
<1>1. [req[b] EXCEPT !.pc = pc] \in Request
  BY RequestFields DEF Request
<1> QED
  BY <1>1, RequestReplaced DEF Goto

LEMMA EnterTyped ==
    ASSUME TypeOK, NEW b \in Browser, NEW who \in User \cup Identity, NEW pc \in ReqPc,
           NEW stage, Enter(b, who, pc, stage)
    PROVE  TypeOK'
<1>1. [Idle EXCEPT !.pc = pc, !.of = who] \in Request
  BY IdleIsRequest DEF Request, Idle
<1>2. req' \in [Browser -> Request]
  BY <1>1, RequestReplaced DEF Enter
<1>3. overlap' \subseteq User \cup Identity
  BY DEF Enter, TypeOK
<1> QED
  BY <1>2, <1>3 DEF Enter, TypeOK, rows

LEMMA AnswerWithTyped ==
    ASSUME TypeOK, NEW b \in Browser, NEW token \in Token, AnswerWith(b, token)
    PROVE  req' \in [Browser -> Request]
<1>1. [Idle EXCEPT !.pc = "leave", !.set = token, !.sets = TRUE] \in Request
  BY IdleIsRequest DEF Request, Idle, ReqPc
<1> QED
  BY <1>1, RequestReplaced DEF AnswerWith

LEMMA SignInTyped ==
    ASSUME TypeOK, NEW b \in Browser, NEW u \in User, req[b].of \in Identity, SignIn(b, u)
    PROVE  req' \in [Browser -> Request] /\ signedAs' \in [Identity -> SUBSET User]
<1>1. [req[b] EXCEPT !.pc = "leave", !.set = TokenOf(u), !.sets = TRUE] \in Request
  BY RequestFields, TokenOfIsToken DEF Request, ReqPc
<1>2. req' \in [Browser -> Request]
  BY <1>1, RequestReplaced DEF SignIn
<1>3. signedAs' \in [Identity -> SUBSET User]
  BY DEF SignIn, TypeOK
<1> QED
  BY <1>2, <1>3

\* Whom a request is about, by what it does, and which user it has created.
About(q) ==
    /\ q.pc \in SignIns => q.of \in Identity
    /\ q.pc \in Asks \cup {"grant_look", "grant_write"} => q.of \in User
    /\ q.pc = "gh_link" => q.user \in User

AllAbout == \A b \in Browser : About(req[b])
Typed    == TypeOK /\ AllAbout

\* A step replaces at most the request of one browser, by one that is about the
\* right things; or all of them die.
LEMMA OneAbout ==
    ASSUME Typed, NEW b \in Browser, NEW q, About(q), req' = [req EXCEPT ![b] = q]
    PROVE  AllAbout'
BY DEF Typed, TypeOK, AllAbout

LEMMA GotoAbout ==
    ASSUME Typed, NEW b \in Browser, NEW pc \in ReqPc, Goto(b, pc),
           pc \in SignIns => req[b].of \in Identity,
           pc \in Asks \cup {"grant_look", "grant_write"} => req[b].of \in User,
           pc # "gh_link"
    PROVE  AllAbout'
<1>1. About([req[b] EXCEPT !.pc = pc])
  BY RequestFields DEF About, Typed, Request
<1> QED
  BY <1>1, OneAbout DEF Goto

LEMMA EnterAbout ==
    ASSUME Typed, NEW b \in Browser, NEW who, NEW pc, NEW stage, Enter(b, who, pc, stage),
           pc \in SignIns => who \in Identity,
           pc \in Asks \cup {"grant_look", "grant_write"} => who \in User,
           pc # "gh_link"
    PROVE  AllAbout'
<1>1. About([Idle EXCEPT !.pc = pc, !.of = who])
  BY DEF About, Idle
<1> QED
  BY <1>1, OneAbout DEF Enter

LEMMA LeaveAbout ==
    ASSUME Typed, NEW b \in Browser, NEW q, q.pc = "leave", req' = [req EXCEPT ![b] = q]
    PROVE  AllAbout'
BY OneAbout DEF About, SignIns, Asks

LEMMA IdleAbout == About(Idle)
BY DEF About, Idle, SignIns, Asks

\* Login, logout, deactivation and the end of any request.
LEMMA SessionTyped ==
    ASSUME Typed, NEW b \in Browser, Session(b)
    PROVE  Typed'
<1> USE DEF Typed, rows, history
<1>1. ASSUME NEW u \in User, Login(b, u) PROVE Typed'
  <2>1. req' \in [Browser -> Request]
    BY <1>1, TokenOfIsToken, AnswerWithTyped DEF Login
  <2>2. AllAbout'
    BY <1>1, LeaveAbout DEF Login, AnswerWith, Idle
  <2> QED
    BY <1>1, <2>1, <2>2 DEF Login, TypeOK
<1>2. CASE Logout(b)
  <2>1. req' \in [Browser -> Request]
    BY <1>2, AnswerWithTyped DEF Logout, Token
  <2>2. AllAbout'
    BY <1>2, LeaveAbout DEF Logout, AnswerWith, Idle
  <2> QED
    BY <1>2, <2>1, <2>2 DEF Logout, TypeOK
<1>3. CASE Deactivate(b)
  <2>1. req' \in [Browser -> Request]
    BY <1>3, AnswerWithTyped DEF Deactivate, Token
  <2>2. AllAbout'
    BY <1>3, LeaveAbout DEF Deactivate, AnswerWith, Idle
  <2> QED
    BY <1>3, <2>1, <2>2 DEF Deactivate, CurrentUser, TypeOK
<1>4. CASE Log(b)
  <2>1. req' \in [Browser -> Request]
    BY <1>4, IdleIsRequest, RequestReplaced DEF Log
  <2>2. AllAbout'
    BY <1>4, IdleAbout, OneAbout DEF Log
  <2>3. jar' \in [Browser -> Token]
    BY <1>4, RequestFields DEF Log, TypeOK
  <2> QED
    BY <1>4, <2>1, <2>2, <2>3 DEF Log, TypeOK
<1> QED
  BY <1>1, <1>2, <1>3, <1>4 DEF Session

LEMMA GithubTyped ==
    ASSUME Typed, NEW b \in Browser, Github(b)
    PROVE  Typed'
<1> USE DEF Typed, rows, history
<1>0. {"gh_lookup", "gh_user", "gh_link", "leave"} \subseteq ReqPc
  BY DEF ReqPc
<1>1. ASSUME NEW g \in Identity, GithubBegin(b, g) PROVE Typed'
  BY <1>0, <1>1, EnterTyped, EnterAbout DEF GithubBegin, SignIns, Asks
<1>2. ASSUME NEW u \in User, SignIn(b, u) PROVE AllAbout'
  <2>1. [req[b] EXCEPT !.pc = "leave", !.set = TokenOf(u), !.sets = TRUE].pc = "leave"
    BY RequestFields DEF Request
  <2> QED
    BY <1>2, <2>1, LeaveAbout DEF SignIn
<1>3. CASE GithubLookup(b)
  <2>1. req[b].of \in Identity
    BY <1>3 DEF GithubLookup, AllAbout, About, SignIns
  <2>2. CASE links[req[b].of] # {}
    <3>1. PICK u \in User : SignIn(b, u)
      BY <1>3, <2>1, <2>2 DEF GithubLookup, TypeOK
    <3> QED
      BY <1>2, <1>3, <2>1, <3>1, SignInTyped DEF GithubLookup, TypeOK
  <2>3. CASE links[req[b].of] = {}
    <3>1. Goto(b, "gh_user") /\ UNCHANGED signedAs
      BY <1>3, <2>3 DEF GithubLookup
    <3> QED
      BY <1>0, <1>3, <2>1, <3>1, GotoTyped, GotoAbout DEF GithubLookup, TypeOK, Asks
  <2> QED
    BY <2>2, <2>3
<1>4. CASE GithubCreateUser(b)
  <2>1. PICK u \in User : /\ enabled' = enabled \cup {u}
                          /\ req' = [req EXCEPT ![b] = [@ EXCEPT !.pc = "gh_link", !.user = u]]
    BY <1>4 DEF GithubCreateUser
  <2>2. req[b].of \in Identity
    BY <1>4 DEF GithubCreateUser, AllAbout, About, SignIns
  <2>3. /\ [req[b] EXCEPT !.pc = "gh_link", !.user = u] \in Request
        /\ About([req[b] EXCEPT !.pc = "gh_link", !.user = u])
    BY <1>0, <2>2, RequestFields DEF Request, About, Asks
  <2> QED
    BY <1>4, <2>1, <2>3, RequestReplaced, OneAbout DEF GithubCreateUser, TypeOK
<1>5. CASE GithubCreateLink(b)
  <2>1. req[b].of \in Identity /\ req[b].user \in User
    BY <1>5 DEF GithubCreateLink, AllAbout, About, SignIns
  <2> QED
    BY <1>2, <1>5, <2>1, SignInTyped DEF GithubCreateLink, TypeOK
<1> QED
  BY <1>1, <1>3, <1>4, <1>5 DEF Github

LEMMA LocalDeployTyped ==
    ASSUME Typed, NEW b \in Browser, LocalDeploy(b)
    PROVE  Typed'
<1> USE DEF Typed, rows, history
<1>0. {"ask_look", "ask_create", "grant_look", "grant_write", "leave"} \subseteq ReqPc
  BY DEF ReqPc
<1>1. ASSUME Leave(b) PROVE req' \in [Browser -> Request] /\ AllAbout'
  BY <1>0, <1>1, GotoTyped, GotoAbout DEF Leave, SignIns, Asks
<1>2. CASE AskBegin(b)
  <2>1. PICK u \in User : Enter(b, u, "ask_look", Asks)
    BY <1>2 DEF AskBegin
  <2> QED
    BY <1>0, <2>1, EnterTyped, EnterAbout DEF SignIns
<1>3. CASE AskLook(b)
  <2>1. req[b].of \in User
    BY <1>3 DEF AskLook, AllAbout, About, Asks
  <2>2. req' \in [Browser -> Request] /\ AllAbout'
    BY <1>0, <1>1, <1>3, <2>1, GotoTyped, GotoAbout DEF AskLook, SignIns
  <2> QED
    BY <1>3, <2>2 DEF AskLook, TypeOK
<1>4. CASE AskCreate(b)
  <2>1. req[b].of \in User
    BY <1>4 DEF AskCreate, AllAbout, About, Asks
  <2>2. [user |-> req[b].of, life |-> "asked"] \in Permission
    BY <2>1 DEF Permission
  <2> QED
    BY <1>1, <1>4, <2>2 DEF AskCreate, TypeOK
<1>5. ASSUME NEW u \in Asker, GrantBegin(b, u) PROVE Typed'
  BY <1>0, <1>5, EnterTyped, EnterAbout DEF GrantBegin, SignIns
<1>6. CASE GrantLook(b)
  <2>1. req[b].of \in User
    BY <1>6 DEF GrantLook, AllAbout, About
  <2>2. req' \in [Browser -> Request] /\ AllAbout'
    BY <1>0, <1>1, <1>6, <2>1, GotoTyped, GotoAbout DEF GrantLook, SignIns
  <2> QED
    BY <1>6, <2>2 DEF GrantLook, TypeOK
<1>7. CASE GrantWrite(b)
  <2>1. req[b].of \in User
    BY <1>7 DEF GrantWrite, AllAbout, About
  <2>2. \A p \in PermRow : [perm[p] EXCEPT !.life = "runs"] \in Permission
    BY DEF TypeOK, Permission
  <2>3. perm' \in [PermRow -> Permission] /\ granted' \subseteq User
    BY <1>7, <2>1, <2>2 DEF GrantWrite, TypeOK
  <2> QED
    BY <1>1, <1>7, <2>3 DEF GrantWrite, TypeOK
<1>8. CASE PullToken(b)
  <2>1. PICK u \in User, p \in PermRow :
           req' = [req EXCEPT ![b] = [Idle EXCEPT !.pc = "leave", !.of = u,
                                        !.pulls = perm[p].life = "runs"]]
    BY <1>8 DEF PullToken, CurrentUser, TypeOK, PermissionsOf
  <2>2. (perm[p].life = "runs") \in BOOLEAN
    OBVIOUS
  <2>3. [Idle EXCEPT !.pc = "leave", !.of = u, !.pulls = perm[p].life = "runs"] \in Request
    BY <1>0, <2>2, IdleIsRequest DEF Request, Idle
  <2>4. req' \in [Browser -> Request]
    BY <2>1, <2>3, RequestReplaced
  <2>5. [Idle EXCEPT !.pc = "leave", !.of = u, !.pulls = perm[p].life = "runs"].pc = "leave"
    BY DEF Idle
  <2>6. AllAbout'
    BY <2>1, <2>5, LeaveAbout
  <2> QED
    BY <1>8, <2>4, <2>6 DEF PullToken, TypeOK
<1> QED
  BY <1>2, <1>3, <1>4, <1>5, <1>6, <1>7, <1>8 DEF LocalDeploy

LEMMA WorldTyped ==
    ASSUME Typed,
           \/ \E b \in Browser : CookieExpires(b)
           \/ \E p \in PermRow : PermissionExpires(p)
           \/ NewSecret
    PROVE  Typed'
<1> USE DEF Typed, rows, history
<1>1. ASSUME NEW b \in Browser, CookieExpires(b) PROVE Typed'
  BY <1>1 DEF CookieExpires, TypeOK, AllAbout, Token
<1>2. ASSUME NEW p \in PermRow, PermissionExpires(p) PROVE Typed'
  <2>1. [perm[p] EXCEPT !.life = "expired"] \in Permission
    BY DEF TypeOK, Permission
  <2> QED
    BY <1>2, <2>1 DEF PermissionExpires, TypeOK, AllAbout
<1>3. CASE NewSecret
  <2>1. AllAbout'
    BY <1>3, IdleAbout DEF NewSecret, AllAbout
  <2> QED
    BY <1>3, <2>1, IdleIsRequest DEF NewSecret, TypeOK
<1> QED
  BY <1>1, <1>2, <1>3

LEMMA TypedNext == Typed /\ [Next]_vars => Typed'
<1> SUFFICES ASSUME Typed, [Next]_vars PROVE Typed'
  OBVIOUS
<1>1. CASE UNCHANGED vars
  BY <1>1 DEF Typed, TypeOK, AllAbout, vars, history
<1> QED
  BY <1>1, SessionTyped, GithubTyped, LocalDeployTyped, WorldTyped DEF Next

LEMMA TypedAlways == Spec => []Typed
<1>1. Init => Typed
  <2> SUFFICES ASSUME Init PROVE Typed
    OBVIOUS
  <2>1. AllAbout
    BY IdleAbout DEF Init, AllAbout
  <2> QED
    BY <2>1, TypeInit DEF Typed
<1> QED
  BY <1>1, TypedNext, PTL DEF Spec

\* Types are kept: whatever a request is about, a user or a GitHub account, and
\* a sign-in that links a user has created one.
THEOREM TypeCorrect == Spec => []TypeOK
BY TypedAlways, PTL DEF Typed

-----------------------------------------------------------------------------
(* The permission of a local deployment.                                   *)

Granted == {"runs", "expired"}

\* What is behind PullsGranted: no row has been approved but of a user who was
\* granted, and a token is in the answers to such users only.
GrantedRows ==
    /\ \A p \in PermRow : perm[p].life \in Granted => perm[p].user \in granted
    /\ \A b \in Browser : req[b].pulls => req[b].of \in granted

\* A request replaced by one that pulls nothing.
LEMMA PullsNothing ==
    ASSUME TypeOK, GrantedRows, NEW b \in Browser, NEW q, ~q.pulls,
           req' = [req EXCEPT ![b] = q], granted \subseteq granted',
           \A p \in PermRow : perm'[p].life \in Granted => perm'[p].user \in granted'
    PROVE  GrantedRows'
BY DEF GrantedRows, TypeOK

LEMMA GrantedRowsNext == Typed /\ GrantedRows /\ [Next]_vars => GrantedRows'
<1> SUFFICES ASSUME TypeOK, AllAbout, GrantedRows, [Next]_vars PROVE GrantedRows'
  BY DEF Typed
<1> USE DEF rows, history
<1>1. ASSUME NEW b \in Browser, Session(b) PROVE GrantedRows'
  <2>1. ASSUME NEW token, AnswerWith(b, token), UNCHANGED <<perm, granted>> PROVE GrantedRows'
    <3>1. ~[Idle EXCEPT !.pc = "leave", !.set = token, !.sets = TRUE].pulls
      BY DEF Idle
    <3> QED
      BY <2>1, <3>1, PullsNothing DEF AnswerWith, GrantedRows
  <2>2. CASE Log(b)
    BY <2>2, PullsNothing DEF Log, Idle, GrantedRows
  <2> QED
    BY <1>1, <2>1, <2>2 DEF Session, Login, Logout, Deactivate
<1>2. ASSUME NEW b \in Browser, NEW pc, Goto(b, pc), UNCHANGED <<perm, granted>> PROVE GrantedRows'
  BY <1>2, RequestFields DEF Goto, GrantedRows, TypeOK, Request
<1>3. ASSUME NEW b \in Browser, NEW who, NEW pc, NEW stage, Enter(b, who, pc, stage)
      PROVE  GrantedRows'
  <2>1. ~[Idle EXCEPT !.pc = pc, !.of = who].pulls
    BY DEF Idle
  <2> QED
    BY <1>3, <2>1, PullsNothing DEF Enter, GrantedRows
<1>4. ASSUME NEW b \in Browser, Github(b) PROVE GrantedRows'
  <2>1. ASSUME NEW u \in User, SignIn(b, u), UNCHANGED <<perm, granted>> PROVE GrantedRows'
    BY <2>1, RequestFields DEF SignIn, GrantedRows, TypeOK, Request
  <2>2. CASE GithubLookup(b)
    <3>1. req[b].of \in Identity
      BY <2>2 DEF GithubLookup, AllAbout, About, SignIns
    <3> QED
      BY <1>2, <2>1, <2>2, <3>1 DEF GithubLookup, TypeOK
  <2>3. CASE GithubCreateUser(b)
    BY <2>3, RequestFields DEF GithubCreateUser, GrantedRows, TypeOK, Request
  <2>4. CASE GithubCreateLink(b)
    <3>1. req[b].user \in User
      BY <2>4 DEF GithubCreateLink, AllAbout, About
    <3> QED
      BY <2>1, <2>4, <3>1 DEF GithubCreateLink
  <2> QED
    BY <1>3, <1>4, <2>2, <2>3, <2>4 DEF Github, GithubBegin
<1>5. ASSUME NEW b \in Browser, LocalDeploy(b) PROVE GrantedRows'
  <2>1. CASE AskLook(b) \/ GrantLook(b)
    BY <1>2, <2>1 DEF AskLook, GrantLook, Leave
  <2>2. CASE AskCreate(b)
    <3>1. PICK p \in PermRow :
             perm' = [perm EXCEPT ![p] = [user |-> req[b].of, life |-> "asked"]]
      BY <2>2 DEF AskCreate
    <3> QED
      BY <2>2, <3>1, RequestFields DEF AskCreate, Leave, Goto, GrantedRows, Granted, TypeOK, Request
  <2>3. CASE GrantWrite(b)
    <3>1. \A p \in PermRow : perm'[p].life \in Granted => perm'[p].user \in granted'
      BY <2>3 DEF GrantWrite, PermissionsOf, GrantedRows, TypeOK, Permission
    <3>2. granted \subseteq granted'
      BY <2>3 DEF GrantWrite
    <3> QED
      BY <2>3, <3>1, <3>2, RequestFields DEF GrantWrite, Leave, Goto, GrantedRows, TypeOK, Request
  <2>4. CASE PullToken(b)
    <3>0. PICK u \in User : \E p \in PermissionsOf(u) :
             req' = [req EXCEPT ![b] = [Idle EXCEPT !.pc = "leave", !.of = u,
                                          !.pulls = perm[p].life = "runs"]]
      BY <2>4 DEF PullToken, CurrentUser, TypeOK
    <3>1. PICK p \in PermissionsOf(u) :
             req' = [req EXCEPT ![b] = [Idle EXCEPT !.pc = "leave", !.of = u,
                                          !.pulls = perm[p].life = "runs"]]
      BY <3>0
    <3>2. req'[b].pulls => u \in granted
      BY <3>1 DEF PermissionsOf, GrantedRows, Granted, TypeOK, Idle
    <3>3. req'[b].of = u
      BY <3>1 DEF TypeOK, Idle
    <3> QED
      BY <2>4, <3>1, <3>2, <3>3 DEF PullToken, GrantedRows, TypeOK
  <2> QED
    BY <1>3, <1>5, <2>1, <2>2, <2>3, <2>4 DEF LocalDeploy, AskBegin, GrantBegin
<1>6. ASSUME NEW b \in Browser, CookieExpires(b) PROVE GrantedRows'
  BY <1>6 DEF CookieExpires, GrantedRows
<1>7. ASSUME NEW p \in PermRow, PermissionExpires(p) PROVE GrantedRows'
  BY <1>7 DEF PermissionExpires, GrantedRows, Granted, TypeOK, Permission
<1>8. CASE NewSecret
  BY <1>8 DEF NewSecret, GrantedRows, Idle
<1>9. CASE UNCHANGED vars
  BY <1>9 DEF vars, GrantedRows
<1> QED
  BY <1>1, <1>4, <1>5, <1>6, <1>7, <1>8, <1>9 DEF Next

\* A token of the registry is in the answer to no user of whom no request was
\* approved, for any number of rows that concurrent requests have created.
THEOREM PullsGrantedAlways == Spec => []PullsGranted
<1>1. Init => GrantedRows
  BY DEF Init, GrantedRows, Granted, Idle
<1>2. GrantedRows => PullsGranted
  BY DEF GrantedRows, PullsGranted
<1> QED
  BY <1>1, <1>2, GrantedRowsNext, TypedAlways, PTL DEF Spec

-----------------------------------------------------------------------------
(* A grant holds: why no second request comes after it.                    *)

Granting == Asks \cup {"grant_write"}

\* A row, as it is or will be, is one of user u.
IsOf(r, u) == r.life # "none" /\ r.user = u

\* Two requests of one user at a time are noted, a single one that goes on to
\* create a row has found none, an approval has found one, and a user who was
\* granted has rows, all of which were approved.
AskInv ==
    /\ \A b, c \in Browser :
          b # c /\ req[b].pc \in Asks /\ req[c].pc \in Asks /\ req[b].of = req[c].of
             => req[b].of \in overlap
    /\ \A b \in Browser : req[b].pc = "ask_create" /\ req[b].of \notin overlap
             => \A p \in PermRow : ~IsOf(perm[p], req[b].of)
    /\ \A b \in Browser : req[b].pc = "grant_write" => \E p \in PermRow : IsOf(perm[p], req[b].of)
    /\ \A u \in granted : \E p \in PermRow : IsOf(perm[p], u)
    /\ \A u \in granted \ overlap : \A p \in PermRow : IsOf(perm[p], u) => perm[p].life \in Granted

\* A step that touches no permission and brings no request to a stage of one.
LEMMA AskInvKept ==
    ASSUME AskInv, UNCHANGED <<perm, granted>>, overlap \subseteq overlap',
           \A b \in Browser : req'[b].pc \in Granting =>
              req'[b].pc = req[b].pc /\ req'[b].of = req[b].of
    PROVE  AskInv'
BY DEF AskInv, IsOf, Granting, Asks

LEMMA AskInvNext == Typed /\ AskInv /\ [Next]_vars => AskInv'
<1> SUFFICES ASSUME TypeOK, AllAbout, AskInv, [Next]_vars PROVE AskInv'
  BY DEF Typed
<1> USE DEF rows, history
\* A request is replaced by one that has nothing to do with permissions.
<1>1. ASSUME NEW b \in Browser, NEW q, q.pc \notin Granting, req' = [req EXCEPT ![b] = q],
             UNCHANGED <<perm, granted>>, overlap \subseteq overlap'
      PROVE  AskInv'
  <2>1. \A c \in Browser : req'[c].pc \in Granting =>
              req'[c].pc = req[c].pc /\ req'[c].of = req[c].of
    BY <1>1 DEF TypeOK
  <2> QED
    BY <1>1, <2>1, AskInvKept
<1>2. ASSUME NEW b \in Browser, Session(b) PROVE AskInv'
  <2>1. ASSUME NEW token, AnswerWith(b, token), UNCHANGED <<perm, granted, overlap>> PROVE AskInv'
    <3>1. [Idle EXCEPT !.pc = "leave", !.set = token, !.sets = TRUE].pc \notin Granting
      BY DEF Idle, Granting, Asks
    <3> QED
      BY <1>1, <2>1, <3>1 DEF AnswerWith
  <2>2. CASE Log(b)
    <3>1. Idle.pc \notin Granting
      BY DEF Idle, Granting, Asks
    <3> QED
      BY <1>1, <2>2, <3>1 DEF Log
  <2> QED
    BY <1>2, <2>1, <2>2 DEF Session, Login, Logout, Deactivate
<1>3. ASSUME NEW b \in Browser, NEW pc, pc \notin Granting, Goto(b, pc),
             UNCHANGED <<perm, granted, overlap>>
      PROVE  AskInv'
  <2>1. [req[b] EXCEPT !.pc = pc].pc = pc
    BY RequestFields DEF Request
  <2> QED
    BY <1>1, <1>3, <2>1 DEF Goto
<1>4. ASSUME NEW b \in Browser, Github(b) PROVE AskInv'
  <2>1. ASSUME NEW u \in User, SignIn(b, u), UNCHANGED <<perm, granted, overlap>> PROVE AskInv'
    <3>1. [req[b] EXCEPT !.pc = "leave", !.set = TokenOf(u), !.sets = TRUE].pc \notin Granting
      BY RequestFields DEF Request, Granting, Asks
    <3> QED
      BY <1>1, <2>1, <3>1 DEF SignIn
  <2>2. ASSUME NEW g \in Identity, GithubBegin(b, g) PROVE AskInv'
    <3>1. [Idle EXCEPT !.pc = "gh_lookup", !.of = g].pc \notin Granting
      BY DEF Idle, Granting, Asks
    <3>2. overlap \subseteq overlap'
      BY <2>2 DEF GithubBegin, Enter
    <3> QED
      BY <1>1, <2>2, <3>1, <3>2 DEF GithubBegin, Enter
  <2>3. CASE GithubLookup(b)
    <3>1. req[b].of \in Identity
      BY <2>3 DEF GithubLookup, AllAbout, About, SignIns
    <3> QED
      BY <1>3, <2>1, <2>3, <3>1 DEF GithubLookup, TypeOK, Granting, Asks
  <2>4. CASE GithubCreateUser(b)
    <3>1. \A u \in User : [req[b] EXCEPT !.pc = "gh_link", !.user = u].pc \notin Granting
      BY RequestFields DEF Request, Granting, Asks
    <3> QED
      BY <1>1, <2>4, <3>1 DEF GithubCreateUser
  <2>5. CASE GithubCreateLink(b)
    <3>1. req[b].user \in User
      BY <2>5 DEF GithubCreateLink, AllAbout, About
    <3> QED
      BY <2>1, <2>5, <3>1 DEF GithubCreateLink
  <2> QED
    BY <1>4, <2>2, <2>3, <2>4, <2>5 DEF Github
<1>5. ASSUME NEW b \in Browser, Leave(b), UNCHANGED <<perm, granted, overlap>> PROVE AskInv'
  BY <1>3, <1>5 DEF Leave, Granting, Asks
<1>6. ASSUME NEW b \in Browser, AskBegin(b) PROVE AskInv'
  <2>1. PICK u \in User : Enter(b, u, "ask_look", Asks)
    BY <1>6 DEF AskBegin
  <2>2. /\ req'[b].pc = "ask_look" /\ req'[b].of = u
        /\ \A c \in Browser \ {b} : req'[c] = req[c]
    BY <2>1 DEF Enter, TypeOK, Idle
  <2>3. UNCHANGED <<perm, granted>> /\ overlap \subseteq overlap'
    BY <2>1 DEF Enter
  <2>4. \A c \in Browser \ {b} : req[c].pc \in Asks /\ req[c].of = u => u \in overlap'
    BY <2>1 DEF Enter
  <2>5. \A c, d \in Browser :
           c # d /\ req'[c].pc \in Asks /\ req'[d].pc \in Asks /\ req'[c].of = req'[d].of
              => req'[c].of \in overlap'
    BY <2>2, <2>3, <2>4 DEF AskInv
  <2> QED
    BY <2>2, <2>3, <2>5 DEF AskInv, IsOf
<1>7. ASSUME NEW b \in Browser, AskLook(b) PROVE AskInv'
  <2>1. CASE PermissionsOf(req[b].of) # {}
    BY <1>5, <1>7, <2>1 DEF AskLook
  <2>2. CASE PermissionsOf(req[b].of) = {}
    <3>1. \A p \in PermRow : ~IsOf(perm[p], req[b].of)
      BY <2>2 DEF PermissionsOf, IsOf
    <3>2. /\ req[b].pc \in Asks
          /\ req'[b].pc = "ask_create" /\ req'[b].of = req[b].of
          /\ \A c \in Browser \ {b} : req'[c] = req[c]
      BY <1>7, <2>2, RequestFields DEF AskLook, Goto, TypeOK, Asks, Request
    <3> QED
      BY <1>7, <3>1, <3>2 DEF AskLook, AskInv, IsOf
  <2> QED
    BY <2>1, <2>2
<1>8. ASSUME NEW b \in Browser, AskCreate(b) PROVE AskInv'
  <2>1. PICK p \in PermRow :
           /\ perm[p].life = "none"
           /\ perm' = [perm EXCEPT ![p] = [user |-> req[b].of, life |-> "asked"]]
    BY <1>8 DEF AskCreate
  <2>2. /\ req[b].pc = "ask_create" /\ req'[b].pc = "leave"
        /\ \A c \in Browser \ {b} : req'[c] = req[c]
    BY <1>8, RequestFields DEF AskCreate, Leave, Goto, TypeOK, Request
  <2>3. UNCHANGED <<granted, overlap>>
    BY <1>8 DEF AskCreate
  <2>4. /\ perm'[p].life = "asked" /\ perm'[p].user = req[b].of
        /\ \A o \in PermRow \ {p} : perm'[o] = perm[o]
    BY <2>1 DEF TypeOK
  <2>5. \A c \in Browser : req'[c].pc = "ask_create" /\ req'[c].of \notin overlap
             => \A o \in PermRow : ~IsOf(perm'[o], req'[c].of)
    BY <2>2, <2>4 DEF AskInv, IsOf, Asks
  <2>6. \A u \in granted \ overlap : u # req[b].of
    BY <2>2 DEF AskInv
  <2>7. \A u \in granted \ overlap : \A o \in PermRow :
           IsOf(perm'[o], u) => perm'[o].life \in Granted
    BY <2>4, <2>6 DEF AskInv, IsOf
  <2>8. \A u : (\E o \in PermRow : IsOf(perm[o], u)) => \E o \in PermRow : IsOf(perm'[o], u)
    BY <2>1, <2>4 DEF IsOf
  <2>9. /\ \A c \in Browser : req'[c].pc = "grant_write" => \E o \in PermRow : IsOf(perm'[o], req'[c].of)
        /\ \A u \in granted : \E o \in PermRow : IsOf(perm'[o], u)
    BY <2>2, <2>8 DEF AskInv
  <2>10. \A c, d \in Browser :
           c # d /\ req'[c].pc \in Asks /\ req'[d].pc \in Asks /\ req'[c].of = req'[d].of
              => req'[c].of \in overlap
    BY <2>2 DEF AskInv, Asks
  <2> QED
    BY <2>3, <2>5, <2>7, <2>9, <2>10 DEF AskInv, IsOf
<1>9. ASSUME NEW b \in Browser, NEW u \in Asker, GrantBegin(b, u) PROVE AskInv'
  <2>1. [Idle EXCEPT !.pc = "grant_look", !.of = u].pc \notin Granting
    BY DEF Idle, Granting, Asks
  <2>2. overlap \subseteq overlap'
    BY <1>9 DEF GrantBegin, Enter
  <2> QED
    BY <1>1, <1>9, <2>1, <2>2 DEF GrantBegin, Enter
<1>10. ASSUME NEW b \in Browser, GrantLook(b) PROVE AskInv'
  <2>1. CASE PermissionsOf(req[b].of) = {}
    BY <1>5, <1>10, <2>1 DEF GrantLook
  <2>2. CASE PermissionsOf(req[b].of) # {}
    <3>1. \E p \in PermRow : IsOf(perm[p], req[b].of)
      BY <2>2 DEF PermissionsOf, IsOf
    <3>2. /\ req'[b].pc = "grant_write" /\ req'[b].of = req[b].of
          /\ \A c \in Browser \ {b} : req'[c] = req[c]
      BY <1>10, <2>2, RequestFields DEF GrantLook, Goto, TypeOK, Request
    <3> QED
      BY <1>10, <3>1, <3>2 DEF GrantLook, AskInv, IsOf, Asks
  <2> QED
    BY <2>1, <2>2
<1>11. ASSUME NEW b \in Browser, GrantWrite(b) PROVE AskInv'
  <2>1. CASE UNCHANGED <<perm, granted>>
    BY <1>5, <1>11, <2>1 DEF GrantWrite
  <2>2. CASE ~UNCHANGED <<perm, granted>>
    <3>1. /\ perm' = [p \in PermRow |->
                         IF p \in PermissionsOf(req[b].of)
                         THEN [perm[p] EXCEPT !.life = "runs"] ELSE perm[p]]
          /\ granted' = granted \cup {req[b].of}
      BY <1>11, <2>2 DEF GrantWrite
    <3>2. /\ req[b].pc = "grant_write" /\ req'[b].pc = "leave"
          /\ \A c \in Browser \ {b} : req'[c] = req[c]
          /\ UNCHANGED overlap
      BY <1>11, RequestFields DEF GrantWrite, Leave, Goto, TypeOK, Request
    <3>3. \A p \in PermRow :
             /\ perm'[p].user = perm[p].user
             /\ IF IsOf(perm[p], req[b].of) THEN perm'[p].life = "runs" ELSE perm'[p] = perm[p]
      BY <3>1 DEF TypeOK, Permission, PermissionsOf, IsOf
    <3>4. \A p \in PermRow, u \in User \cup Identity \cup {NoUser} : IsOf(perm'[p], u) <=> IsOf(perm[p], u)
      BY <3>3 DEF IsOf
    <3>5. \A c \in Browser : req[c].of \in User \cup Identity \cup {NoUser}
      BY RequestFields
    <3>6. ASSUME NEW u \in granted' PROVE \E p \in PermRow : IsOf(perm'[p], u)
      <4>1. u \in User \cup Identity \cup {NoUser}
        BY <3>1, <3>5 DEF TypeOK
      <4>2. \E p \in PermRow : IsOf(perm[p], u)
        BY <3>1, <3>2 DEF AskInv
      <4> QED
        BY <3>4, <4>1, <4>2
    <3>7. ASSUME NEW u \in granted' \ overlap, NEW p \in PermRow, IsOf(perm'[p], u)
          PROVE  perm'[p].life \in Granted
      <4>1. CASE IsOf(perm[p], req[b].of)
        BY <3>3, <4>1 DEF Granted
      <4>2. CASE ~IsOf(perm[p], req[b].of)
        <5>1. perm'[p] = perm[p] /\ u # req[b].of
          BY <3>3, <3>7, <4>2 DEF IsOf
        <5> QED
          BY <3>1, <3>7, <5>1 DEF AskInv
      <4> QED
        BY <4>1, <4>2
    <3>8. /\ \A c \in Browser : req'[c].pc = "ask_create" /\ req'[c].of \notin overlap
                => \A p \in PermRow : ~IsOf(perm'[p], req'[c].of)
          /\ \A c \in Browser : req'[c].pc = "grant_write" => \E p \in PermRow : IsOf(perm'[p], req'[c].of)
      BY <3>2, <3>4, <3>5 DEF AskInv
    <3>9. \A c, d \in Browser :
             c # d /\ req'[c].pc \in Asks /\ req'[d].pc \in Asks /\ req'[c].of = req'[d].of
                => req'[c].of \in overlap
      BY <3>2 DEF AskInv, Asks
    <3> QED
      BY <3>2, <3>6, <3>7, <3>8, <3>9 DEF AskInv, IsOf
  <2> QED
    BY <2>1, <2>2
<1>12. ASSUME NEW b \in Browser, PullToken(b) PROVE AskInv'
  <2>1. PICK u \in User : \E p \in PermissionsOf(u) :
           req' = [req EXCEPT ![b] = [Idle EXCEPT !.pc = "leave", !.of = u,
                                        !.pulls = perm[p].life = "runs"]]
    BY <1>12 DEF PullToken, CurrentUser, TypeOK
  <2>2. PICK p \in PermissionsOf(u) :
           req' = [req EXCEPT ![b] = [Idle EXCEPT !.pc = "leave", !.of = u,
                                        !.pulls = perm[p].life = "runs"]]
    BY <2>1
  <2>3. [Idle EXCEPT !.pc = "leave", !.of = u, !.pulls = perm[p].life = "runs"].pc \notin Granting
    BY DEF Idle, Granting, Asks
  <2> QED
    BY <1>1, <1>12, <2>2, <2>3 DEF PullToken
<1>13. ASSUME NEW b \in Browser, CookieExpires(b) PROVE AskInv'
  BY <1>13 DEF CookieExpires, AskInv, IsOf
<1>14. ASSUME NEW p \in PermRow, PermissionExpires(p) PROVE AskInv'
  <2>1. /\ perm[p].life = "runs" /\ perm'[p].life = "expired" /\ perm'[p].user = perm[p].user
        /\ \A o \in PermRow \ {p} : perm'[o] = perm[o]
    BY <1>14 DEF PermissionExpires, TypeOK, Permission
  <2>2. \A o \in PermRow, u \in User \cup Identity \cup {NoUser} : IsOf(perm'[o], u) <=> IsOf(perm[o], u)
    BY <2>1 DEF IsOf
  <2>3. \A c \in Browser : req[c].of \in User \cup Identity \cup {NoUser}
    BY RequestFields
  <2>4. granted \subseteq User \cup Identity \cup {NoUser} /\ UNCHANGED <<req, granted, overlap>>
    BY <1>14 DEF PermissionExpires, TypeOK
  <2>5. \A u \in granted \ overlap : \A o \in PermRow : IsOf(perm'[o], u) => perm'[o].life \in Granted
    BY <2>1, <2>2, <2>4 DEF AskInv, Granted
  <2> QED
    BY <2>2, <2>3, <2>4, <2>5 DEF AskInv
<1>15. CASE NewSecret
  <2>1. \A b \in Browser : req'[b].pc \notin Granting
    BY <1>15 DEF NewSecret, Idle, Granting, Asks
  <2> QED
    BY <1>15, <2>1, AskInvKept DEF NewSecret
<1>16. CASE UNCHANGED vars
  BY <1>16 DEF vars, AskInv, IsOf
<1> QED
  BY <1>2, <1>4, <1>6, <1>7, <1>8, <1>9, <1>10, <1>11, <1>12, <1>13, <1>14, <1>15, <1>16
  DEF Next, LocalDeploy

\* What a superuser has approved holds for every user who did not ask from two
\* browsers at once: whichever row of the user is taken, it was approved.
THEOREM GrantHoldsAlways == Spec => []GrantHolds
<1>1. Init => AskInv
  BY DEF Init, AskInv, IsOf, Asks, Idle
<1>2. AskInv => GrantHolds
  BY DEF AskInv, IsOf, GrantHolds, PermissionsOf, Granted
<1> QED
  BY <1>1, <1>2, AskInvNext, TypedAlways, PTL DEF Spec

-----------------------------------------------------------------------------
(* One user for a GitHub account.                                          *)

\* Two sign-ins with one GitHub account at a time are noted, a single one that
\* goes on to create a user has found no row, there is one row at most, and
\* whoever was signed in is in one.
LinkInv ==
    /\ \A b, c \in Browser :
          b # c /\ req[b].pc \in SignIns /\ req[c].pc \in SignIns /\ req[b].of = req[c].of
             => req[b].of \in overlap
    /\ \A b \in Browser : req[b].pc \in {"gh_user", "gh_link"} /\ req[b].of \notin overlap
             => links[req[b].of] = {}
    /\ \A g \in Identity \ overlap : \A u, v \in links[g] : u = v
    /\ \A g \in Identity : signedAs[g] \subseteq links[g]

\* A step that links nobody, signs nobody in, and brings no request to a stage
\* of a sign-in.
LEMMA LinkInvKept ==
    ASSUME LinkInv, UNCHANGED <<links, signedAs>>, overlap \subseteq overlap',
           \A b \in Browser : req'[b].pc \in SignIns =>
              req'[b].pc = req[b].pc /\ req'[b].of = req[b].of
    PROVE  LinkInv'
BY DEF LinkInv, SignIns

LEMMA LinkInvNext == Typed /\ LinkInv /\ [Next]_vars => LinkInv'
<1> SUFFICES ASSUME TypeOK, AllAbout, LinkInv, [Next]_vars PROVE LinkInv'
  BY DEF Typed
<1> USE DEF rows, history
\* A request is replaced by one that is no sign-in.
<1>1. ASSUME NEW b \in Browser, NEW q, q.pc \notin SignIns, req' = [req EXCEPT ![b] = q],
             UNCHANGED <<links, signedAs>>, overlap \subseteq overlap'
      PROVE  LinkInv'
  <2>1. \A c \in Browser : req'[c].pc \in SignIns =>
              req'[c].pc = req[c].pc /\ req'[c].of = req[c].of
    BY <1>1 DEF TypeOK
  <2> QED
    BY <1>1, <2>1, LinkInvKept
<1>2. ASSUME NEW b \in Browser, Session(b) PROVE LinkInv'
  <2>1. ASSUME NEW token, AnswerWith(b, token), UNCHANGED <<links, signedAs, overlap>>
        PROVE  LinkInv'
    <3>1. [Idle EXCEPT !.pc = "leave", !.set = token, !.sets = TRUE].pc \notin SignIns
      BY DEF Idle, SignIns
    <3> QED
      BY <1>1, <2>1, <3>1 DEF AnswerWith
  <2>2. CASE Log(b)
    <3>1. Idle.pc \notin SignIns
      BY DEF Idle, SignIns
    <3> QED
      BY <1>1, <2>2, <3>1 DEF Log
  <2> QED
    BY <1>2, <2>1, <2>2 DEF Session, Login, Logout, Deactivate
<1>3. ASSUME NEW b \in Browser, NEW pc, pc \notin SignIns, Goto(b, pc),
             UNCHANGED <<links, signedAs, overlap>>
      PROVE  LinkInv'
  <2>1. [req[b] EXCEPT !.pc = pc].pc = pc
    BY RequestFields DEF Request
  <2> QED
    BY <1>1, <1>3, <2>1 DEF Goto
<1>4. ASSUME NEW b \in Browser, NEW who, NEW pc, pc \notin SignIns, NEW stage,
             Enter(b, who, pc, stage)
      PROVE  LinkInv'
  <2>1. [Idle EXCEPT !.pc = pc, !.of = who].pc \notin SignIns
    BY <1>4 DEF Idle
  <2>2. overlap \subseteq overlap'
    BY <1>4 DEF Enter
  <2> QED
    BY <1>1, <1>4, <2>1, <2>2 DEF Enter
<1>5. ASSUME NEW b \in Browser, LocalDeploy(b) PROVE LinkInv'
  <2>1. CASE AskBegin(b)
    BY <1>4, <2>1 DEF AskBegin, SignIns
  <2>2. CASE \E u \in Asker : GrantBegin(b, u)
    BY <1>4, <2>2 DEF GrantBegin, SignIns
  <2>3. CASE AskLook(b) \/ AskCreate(b) \/ GrantLook(b) \/ GrantWrite(b)
    BY <1>3, <2>3 DEF AskLook, AskCreate, GrantLook, GrantWrite, Leave, SignIns
  <2>4. CASE PullToken(b)
    <3>1. PICK u \in User : \E p \in PermissionsOf(u) :
             req' = [req EXCEPT ![b] = [Idle EXCEPT !.pc = "leave", !.of = u,
                                          !.pulls = perm[p].life = "runs"]]
      BY <2>4 DEF PullToken, CurrentUser, TypeOK
    <3>2. PICK p \in PermissionsOf(u) :
             req' = [req EXCEPT ![b] = [Idle EXCEPT !.pc = "leave", !.of = u,
                                          !.pulls = perm[p].life = "runs"]]
      BY <3>1
    <3>3. [Idle EXCEPT !.pc = "leave", !.of = u, !.pulls = perm[p].life = "runs"].pc \notin SignIns
      BY DEF Idle, SignIns
    <3> QED
      BY <1>1, <2>4, <3>2, <3>3 DEF PullToken
  <2> QED
    BY <1>5, <2>1, <2>2, <2>3, <2>4 DEF LocalDeploy
<1>6. ASSUME NEW b \in Browser, NEW g \in Identity, GithubBegin(b, g) PROVE LinkInv'
  <2>1. /\ req'[b].pc = "gh_lookup" /\ req'[b].of = g
        /\ \A c \in Browser \ {b} : req'[c] = req[c]
    BY <1>6 DEF GithubBegin, Enter, TypeOK, Idle
  <2>2. UNCHANGED <<links, signedAs>> /\ overlap \subseteq overlap'
    BY <1>6 DEF GithubBegin, Enter
  <2>3. \A c \in Browser \ {b} : req[c].pc \in SignIns /\ req[c].of = g => g \in overlap'
    BY <1>6 DEF GithubBegin, Enter
  <2>4. \A c, d \in Browser :
           c # d /\ req'[c].pc \in SignIns /\ req'[d].pc \in SignIns /\ req'[c].of = req'[d].of
              => req'[c].of \in overlap'
    BY <2>1, <2>2, <2>3 DEF LinkInv
  <2> QED
    BY <2>1, <2>2, <2>4 DEF LinkInv
<1>7. ASSUME NEW b \in Browser, GithubLookup(b) PROVE LinkInv'
  <2>1. req[b].of \in Identity /\ req[b].pc = "gh_lookup"
    BY <1>7 DEF GithubLookup, AllAbout, About, SignIns
  <2>2. CASE links[req[b].of] # {}
    <3>1. PICK u \in links[req[b].of] : SignIn(b, u)
      BY <1>7, <2>2 DEF GithubLookup
    <3>2. /\ req'[b].pc = "leave"
          /\ \A c \in Browser \ {b} : req'[c] = req[c]
      BY <3>1, RequestFields DEF SignIn, TypeOK, Request
    <3>3. \A g \in Identity : signedAs'[g] \subseteq links[g]
      BY <2>1, <3>1 DEF SignIn, LinkInv, TypeOK
    <3> QED
      BY <1>7, <3>2, <3>3 DEF GithubLookup, LinkInv, SignIns
  <2>3. CASE links[req[b].of] = {}
    <3>1. /\ req'[b].pc = "gh_user" /\ req'[b].of = req[b].of
          /\ \A c \in Browser \ {b} : req'[c] = req[c]
      BY <1>7, <2>3, RequestFields DEF GithubLookup, Goto, TypeOK, Request
    <3> QED
      BY <1>7, <2>1, <2>3, <3>1 DEF GithubLookup, LinkInv, SignIns
  <2> QED
    BY <2>2, <2>3
<1>8. ASSUME NEW b \in Browser, GithubCreateUser(b) PROVE LinkInv'
  <2>1. /\ req[b].pc = "gh_user"
        /\ req'[b].pc = "gh_link" /\ req'[b].of = req[b].of
        /\ \A c \in Browser \ {b} : req'[c] = req[c]
    BY <1>8, RequestFields DEF GithubCreateUser, TypeOK, Request
  <2> QED
    BY <1>8, <2>1 DEF GithubCreateUser, LinkInv, SignIns
<1>9. ASSUME NEW b \in Browser, GithubCreateLink(b) PROVE LinkInv'
  <2> DEFINE g == req[b].of
             u == req[b].user
  <2>1. g \in Identity /\ u \in User /\ req[b].pc = "gh_link"
    BY <1>9 DEF GithubCreateLink, AllAbout, About, SignIns
  <2>2. /\ links'[g] = links[g] \cup {u}
        /\ signedAs'[g] = signedAs[g] \cup {u}
        /\ \A k \in Identity \ {g} : links'[k] = links[k] /\ signedAs'[k] = signedAs[k]
        /\ UNCHANGED overlap
    BY <1>9, <2>1 DEF GithubCreateLink, SignIn, TypeOK
  <2>3. /\ req'[b].pc = "leave"
        /\ \A c \in Browser \ {b} : req'[c] = req[c]
    BY <1>9, RequestFields DEF GithubCreateLink, SignIn, TypeOK, Request
  <2>4. g \notin overlap => links[g] = {}
    BY <2>1 DEF LinkInv
  <2>5. \A c \in Browser \ {b} : req[c].pc \in SignIns /\ req[c].of = g => g \in overlap
    BY <2>1 DEF LinkInv, SignIns
  <2>6. \A c \in Browser : req'[c].pc \in {"gh_user", "gh_link"} /\ req'[c].of \notin overlap
             => links'[req'[c].of] = {}
    <3> SUFFICES ASSUME NEW c \in Browser, req'[c].pc \in {"gh_user", "gh_link"},
                        req'[c].of \notin overlap
                 PROVE  links'[req'[c].of] = {}
      OBVIOUS
    <3>1. c # b /\ req'[c] = req[c]
      BY <2>3
    <3>2. req[c].of \in Identity /\ req[c].of # g /\ links[req[c].of] = {}
      BY <2>5, <3>1 DEF LinkInv, SignIns, AllAbout, About
    <3> QED
      BY <2>2, <3>1, <3>2
  <2>7. \A k \in Identity \ overlap : \A v, w \in links'[k] : v = w
    BY <2>2, <2>4 DEF LinkInv
  <2>8. \A k \in Identity : signedAs'[k] \subseteq links'[k]
    BY <2>1, <2>2 DEF LinkInv
  <2>9. \A c, d \in Browser :
           c # d /\ req'[c].pc \in SignIns /\ req'[d].pc \in SignIns /\ req'[c].of = req'[d].of
              => req'[c].of \in overlap
    BY <2>3 DEF LinkInv, SignIns
  <2> QED
    BY <2>2, <2>6, <2>7, <2>8, <2>9 DEF LinkInv
<1>10. ASSUME NEW b \in Browser, CookieExpires(b) PROVE LinkInv'
  BY <1>10 DEF CookieExpires, LinkInv
<1>11. ASSUME NEW p \in PermRow, PermissionExpires(p) PROVE LinkInv'
  BY <1>11 DEF PermissionExpires, LinkInv
<1>12. CASE NewSecret
  <2>1. \A b \in Browser : req'[b].pc \notin SignIns
    BY <1>12 DEF NewSecret, Idle, SignIns
  <2> QED
    BY <1>12, <2>1, LinkInvKept DEF NewSecret
<1>13. CASE UNCHANGED vars
  BY <1>13 DEF vars, LinkInv
<1> QED
  BY <1>2, <1>5, <1>6, <1>7, <1>8, <1>9, <1>10, <1>11, <1>12, <1>13 DEF Next, Github

\* Sets without two different elements have one at most.
LEMMA OneAtMost ==
    ASSUME NEW S, \A u, v \in S : u = v
    PROVE  Cardinality(S) <= 1
<1>1. CASE S = {}
  BY <1>1, FS_EmptySet
<1>2. CASE S # {}
  <2>1. PICK u \in S : S = {u}
    BY <1>2
  <2> QED
    BY <2>1, FS_Singleton
<1> QED
  BY <1>1, <1>2

\* All sign-ins with a GitHub account lead to one user, also after a sign-in
\* that died between its commits and after a deactivation, unless two were
\* served at the same time.
THEOREM SameUserEachTimeAlways == Spec => []SameUserEachTime
<1>1. Init => LinkInv
  BY DEF Init, LinkInv, SignIns, Idle
<1>2. LinkInv => SameUserEachTime
  <2> SUFFICES ASSUME LinkInv, NEW g \in Identity \ overlap
               PROVE  Cardinality(signedAs[g]) <= 1
    BY DEF SameUserEachTime
  <2>1. \A u, v \in signedAs[g] : u = v
    BY DEF LinkInv
  <2> QED
    BY <2>1, OneAtMost
<1> QED
  BY <1>1, <1>2, LinkInvNext, TypedAlways, PTL DEF Spec
=============================================================================
