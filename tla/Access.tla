------------------------------- MODULE Access -------------------------------
(***************************************************************************)
(* Who a request belongs to, and what only a superuser may grant: tokens   *)
(* in cookies and the middleware that reads them (server/core, server/api),*)
(* login, logout, the sign-in with GitHub and the deactivation of an       *)
(* account (server/apps/oauth), and the permission of a local deployment   *)
(* (server/apps/permission).                                               *)
(*                                                                         *)
(* A browser waits for each answer, so that requests are kept by browser;  *)
(* one person may use several.  Steps are those that commit or call GitHub. *)
(***************************************************************************)
EXTENDS FiniteSets, Naturals

CONSTANTS
    Browser,
    User,         \* rows of users, there from the start or yet to be created
    WithPassword, \* users who signed up with a password
    Identity,     \* GitHub accounts
    Superuser,    \* users with is_superuser
    Demo,         \* users with DEMO_ACCOUNT_EMAIL
    Asker,        \* bound: the users who use the endpoints of local deployment
    PermRow,      \* rows of local_deploy_users
    NoUser,
    NoToken,      \* a browser without a cookie
    MaxSecret     \* bound: how often the API server gets another secret

ASSUME AccessAssumption ==
    /\ NoUser \notin User \cup Identity
    /\ User \cap Identity = {}
    /\ WithPassword \subseteq User
    /\ Asker \subseteq User
    /\ Superuser \subseteq WithPassword /\ Demo \subseteq WithPassword
    /\ NoToken \notin [user: User, secret: 0 .. MaxSecret]
    /\ MaxSecret \in Nat

VARIABLES
    secret,     \* SECRET_KEY of the API server
    limited,    \* DEMO_ACCOUNT_LIMITATION, as the middleware sees it
    enabled,    \* the users with a row whose is_active is set
    gone,       \* the users who were deactivated
    links,      \* [Identity -> SUBSET User]: owners in the rows of oauth2_users
    perm,       \* [PermRow -> Permission]
    jar,        \* [Browser -> Token]: the cookie
    req,        \* [Browser -> Request]
    signedAs,   \* history: [Identity -> SUBSET User], users GitHub sign-ins gave
    granted,    \* history: users of whom a request has been approved
    overlap     \* history: the users who asked, and the identities that signed
                \* in, from two browsers at the same time

history == <<signedAs, granted, overlap>>
vars    == <<secret, limited, enabled, gone, links, perm, jar, req, history>>
rows    == <<enabled, gone, links, perm>>

Token  == [user: User, secret: 0 .. MaxSecret] \cup {NoToken}
\* life: is_active is false ("asked"), expire_at is to come, or it has passed.
Permission == [user: User \cup {NoUser}, life: {"none", "asked", "runs", "expired"}]

ReqPc == {"idle", "gh_lookup", "gh_user", "gh_link", "ask_look", "ask_create",
          "grant_look", "grant_write", "leave"}
Request == [pc: ReqPc,
            of: User \cup Identity \cup {NoUser},   \* whom it is about
            user: User \cup {NoUser},       \* the user created by a sign-in
            set: Token, sets: BOOLEAN,      \* the cookie the response sets, if any
            pulls: BOOLEAN]                 \* the response has a token of the registry

Idle == [pc |-> "idle", of |-> NoUser, user |-> NoUser,
         set |-> NoToken, sets |-> FALSE, pulls |-> FALSE]

TypeOK ==
    /\ secret \in 0 .. MaxSecret
    /\ limited \in BOOLEAN
    /\ enabled \subseteq User
    /\ gone \subseteq User
    /\ links \in [Identity -> SUBSET User]
    /\ perm \in [PermRow -> Permission]
    /\ jar \in [Browser -> Token]
    /\ req \in [Browser -> Request]
    /\ signedAs \in [Identity -> SUBSET User]
    /\ granted \subseteq User
    /\ overlap \subseteq User \cup Identity

Init ==
    /\ secret = 0
    /\ limited \in BOOLEAN
    /\ enabled = WithPassword
    /\ gone = {}
    /\ links = [g \in Identity |-> {}]
    /\ perm = [p \in PermRow |-> [user |-> NoUser, life |-> "none"]]
    /\ jar = [b \in Browser |-> NoToken]
    /\ req = [b \in Browser |-> Idle]
    /\ signedAs = [g \in Identity |-> {}]
    /\ granted = {}
    /\ overlap = {}

-----------------------------------------------------------------------------
(* The middleware.                                                         *)

\* encode: what the server signs for u.
TokenOf(u) == [user |-> u, secret |-> secret]

\* jwt.decode in parse_user_from_request: a token of another secret raises.
Valid(token) == token \in {NoToken} \cup [user: User, secret: {secret}]

\* check_demo_account_route: the token is decoded before the route is looked
\* at, and the demo account may post to match, logout and test-token only.
DemoMayPass(b, allowed) ==
    limited => /\ Valid(jar[b])
               /\ jar[b] \in [user: Demo, secret: 0 .. MaxSecret] => allowed

\* get_current_active_user
CurrentUser(b) ==
    {u \in enabled : jar[b] = TokenOf(u)}

SignIns == {"gh_lookup", "gh_user", "gh_link"}
Asks    == {"ask_look", "ask_create"}

\* A request about who that is let through; its next step is the first of stage.
Enter(b, who, pc, stage) ==
    /\ req[b].pc = "idle"
    /\ req' = [req EXCEPT ![b] = [Idle EXCEPT !.pc = pc, !.of = who]]
    /\ overlap' = IF \E c \in Browser : req[c].pc \in stage /\ req[c].of = who
                  THEN overlap \cup {who} ELSE overlap
    /\ UNCHANGED <<secret, limited, rows, jar, signedAs, granted>>

\* A request of one step that answers with a cookie.
AnswerWith(b, token) ==
    /\ req[b].pc = "idle"
    /\ req' = [req EXCEPT ![b] = [Idle EXCEPT !.pc = "leave", !.set = token, !.sets = TRUE]]

Goto(b, pc) == req' = [req EXCEPT ![b].pc = pc]
Leave(b)    == Goto(b, "leave")

\* RouteLoggerMiddleware decodes the token of the request once more when the
\* response is there: if it cannot, the response is lost, with its cookie.
Log(b) ==
    /\ req[b].pc = "leave"
    /\ jar' = IF req[b].sets /\ Valid(jar[b])
              THEN [jar EXCEPT ![b] = req[b].set] ELSE jar
    /\ req' = [req EXCEPT ![b] = Idle]
    /\ UNCHANGED <<secret, limited, rows, history>>

-----------------------------------------------------------------------------
(* Login, logout and deactivation.                                         *)

\* POST /login with the right password.
Login(b, u) ==
    /\ DemoMayPass(b, FALSE)
    /\ u \in WithPassword \cap enabled
    /\ AnswerWith(b, TokenOf(u))
    /\ UNCHANGED <<secret, limited, rows, jar, history>>

\* POST /logout asks for no user.
Logout(b) ==
    /\ DemoMayPass(b, TRUE)
    /\ AnswerWith(b, NoToken)
    /\ UNCHANGED <<secret, limited, rows, jar, history>>

\* POST /deactivate: the rows of users and oauth2_users; the latter keeps its
\* owner.  Account has the rest of it.
Deactivate(b) ==
    /\ DemoMayPass(b, FALSE)
    /\ \E u \in CurrentUser(b) :
         /\ enabled' = enabled \ {u}
         /\ gone' = gone \cup {u}
    /\ AnswerWith(b, NoToken)
    /\ UNCHANGED <<secret, limited, links, perm, jar, history>>

-----------------------------------------------------------------------------
(* GET /oauth2/github/redirect                                             *)

GithubBegin(b, g) ==
    /\ DemoMayPass(b, TRUE)
    /\ Enter(b, g, "gh_lookup", SignIns)

SignIn(b, u) ==
    /\ req' = [req EXCEPT ![b] = [@ EXCEPT !.pc = "leave", !.set = TokenOf(u), !.sets = TRUE]]
    /\ signedAs' = [signedAs EXCEPT ![req[b].of] = @ \cup {u}]

\* Mutant: only rows that are active are looked for.
GithubLookupActive(b) ==
    /\ req[b].pc = "gh_lookup"
    /\ IF links[req[b].of] \ gone # {}
       THEN \E u \in links[req[b].of] \ gone : SignIn(b, u)
       ELSE Goto(b, "gh_user") /\ UNCHANGED signedAs
    /\ UNCHANGED <<secret, limited, rows, jar, granted, overlap>>

\* get_oauth2_user takes any row of the identity, be it active or not.
GithubLookup(b) ==
    /\ req[b].pc = "gh_lookup"
    /\ IF links[req[b].of] # {}
       THEN \E u \in links[req[b].of] : SignIn(b, u)
       ELSE Goto(b, "gh_user") /\ UNCHANGED signedAs
    /\ UNCHANGED <<secret, limited, rows, jar, granted, overlap>>

\* create_oauth2_user commits twice: the user first,
GithubCreateUser(b) ==
    /\ req[b].pc = "gh_user"
    /\ \E u \in User \ (enabled \cup gone) :
         /\ enabled' = enabled \cup {u}
         /\ req' = [req EXCEPT ![b] = [@ EXCEPT !.pc = "gh_link", !.user = u]]
    /\ UNCHANGED <<secret, limited, gone, links, perm, jar, history>>

\* Mutant: the row is given the id of GitHub for the id of its owner.
GithubLinkSwapped(b) ==
    /\ req[b].pc = "gh_link"
    /\ links' = [links EXCEPT ![req[b].of] = @ \cup {req[b].of}]
    /\ SignIn(b, req[b].user)
    /\ UNCHANGED <<secret, limited, enabled, gone, perm, jar, granted, overlap>>

\* and then the row that links it to the identity.
GithubCreateLink(b) ==
    /\ req[b].pc = "gh_link"
    /\ links' = [links EXCEPT ![req[b].of] = @ \cup {req[b].user}]
    /\ SignIn(b, req[b].user)
    /\ UNCHANGED <<secret, limited, enabled, gone, perm, jar, granted, overlap>>

-----------------------------------------------------------------------------
(* The permission of a local deployment.                                   *)

\* get_local_deploy_user takes one of them.
PermissionsOf(u) == {p \in PermRow : perm[p].life # "none" /\ perm[p].user = u}

\* POST /permission/local-deploy/request
AskBegin(b) ==
    /\ DemoMayPass(b, FALSE)
    /\ \E u \in CurrentUser(b) \cap Asker : Enter(b, u, "ask_look", Asks)

\* Mutant: only a request that has not been approved counts as one.
AskLookApproved(b) ==
    /\ req[b].pc = "ask_look"
    /\ IF \A p \in PermissionsOf(req[b].of) : perm[p].life # "asked"
       THEN Goto(b, "ask_create") ELSE Leave(b)
    /\ UNCHANGED <<secret, limited, rows, jar, history>>

AskLook(b) ==
    /\ req[b].pc = "ask_look"
    /\ IF PermissionsOf(req[b].of) = {} THEN Goto(b, "ask_create") ELSE Leave(b)
    /\ UNCHANGED <<secret, limited, rows, jar, history>>

\* The row is committed; the email to the administrators may fail after it.
AskCreate(b) ==
    /\ req[b].pc = "ask_create"
    /\ \E p \in PermRow :
         /\ perm[p].life = "none"
         /\ perm' = [perm EXCEPT ![p] = [user |-> req[b].of, life |-> "asked"]]
    /\ Leave(b)
    /\ UNCHANGED <<secret, limited, enabled, gone, links, jar, history>>

\* POST /permission/local-deploy/{user_id}/approve, and /renew
GrantBegin(b, u) ==
    /\ DemoMayPass(b, FALSE)
    /\ CurrentUser(b) \cap Superuser # {}
    /\ Enter(b, u, "grant_look", {})

GrantLook(b) ==
    /\ req[b].pc = "grant_look"
    /\ IF PermissionsOf(req[b].of) = {} THEN Leave(b) ELSE Goto(b, "grant_write")
    /\ UNCHANGED <<secret, limited, rows, jar, history>>

\* update_local_deploy_user writes the columns of one row, its id included, to
\* all rows of the user: two rows violate the primary key.
GrantWrite(b) ==
    /\ req[b].pc = "grant_write"
    /\ IF Cardinality(PermissionsOf(req[b].of)) > 1
       THEN UNCHANGED <<perm, granted>>
       ELSE /\ perm' = [p \in PermRow |->
                          IF p \in PermissionsOf(req[b].of)
                          THEN [perm[p] EXCEPT !.life = "runs"] ELSE perm[p]]
            /\ granted' = granted \cup {req[b].of}
    /\ Leave(b)
    /\ UNCHANGED <<secret, limited, enabled, gone, links, jar, signedAs, overlap>>

\* Mutant: the flag of the row is not looked at, and no expiry counts as one to come.
PullAnyRow(b) ==
    /\ DemoMayPass(b, TRUE)
    /\ req[b].pc = "idle"
    /\ \E u \in CurrentUser(b) : \E p \in PermissionsOf(u) :
         req' = [req EXCEPT ![b] = [Idle EXCEPT !.pc = "leave", !.of = u,
                                      !.pulls = perm[p].life # "expired"]]
    /\ UNCHANGED <<secret, limited, rows, jar, history>>

\* GET /permission/local-deploy/request-token: the token of the registry is
\* given out when the row taken has been approved and has not expired.
PullToken(b) ==
    /\ DemoMayPass(b, TRUE)
    /\ req[b].pc = "idle"
    /\ \E u \in CurrentUser(b) : \E p \in PermissionsOf(u) :
         req' = [req EXCEPT ![b] = [Idle EXCEPT !.pc = "leave", !.of = u,
                                      !.pulls = perm[p].life = "runs"]]
    /\ UNCHANGED <<secret, limited, rows, jar, history>>

\* expire_at passes.
PermissionExpires(p) ==
    /\ perm[p].life = "runs"
    /\ perm' = [perm EXCEPT ![p].life = "expired"]
    /\ UNCHANGED <<secret, limited, enabled, gone, links, jar, req, history>>

-----------------------------------------------------------------------------
(* The rest of the world.                                                  *)

\* The API server is deployed again with another secret, and the requests it
\* was serving die with it.
NewSecret ==
    /\ secret < MaxSecret
    /\ secret' = secret + 1
    /\ req' = [b \in Browser |-> Idle]
    /\ UNCHANGED <<limited, rows, jar, history>>

\* max_age of the cookie passes, and the token in it expires.
CookieExpires(b) ==
    /\ jar[b] # NoToken
    /\ req[b].pc = "idle"
    /\ jar' = [jar EXCEPT ![b] = NoToken]
    /\ UNCHANGED <<secret, limited, rows, req, history>>

Session(b) == (\E u \in User : Login(b, u)) \/ Logout(b) \/ Deactivate(b) \/ Log(b)

Github(b) == \/ \E g \in Identity : GithubBegin(b, g)
             \/ GithubLookup(b) \/ GithubCreateUser(b) \/ GithubCreateLink(b)

LocalDeploy(b) ==
    \/ AskBegin(b) \/ AskLook(b) \/ AskCreate(b)
    \/ \E u \in Asker : GrantBegin(b, u)
    \/ GrantLook(b) \/ GrantWrite(b) \/ PullToken(b)

Next ==
    \/ \E b \in Browser : Session(b) \/ Github(b) \/ LocalDeploy(b) \/ CookieExpires(b)
    \/ \E p \in PermRow : PermissionExpires(p)
    \/ NewSecret

Spec == Init /\ [][Next]_vars

-----------------------------------------------------------------------------
(* Properties.                                                             *)

\* Every sign-in with a GitHub account leads to the same user, also after
\* sign-ins that died between their two commits, and after a deactivation,
\* which a new sign-in cannot be used to get around; unless two sign-ins with
\* the account were served at the same time.
SameUserEachTime ==
    \A g \in Identity \ overlap : Cardinality(signedAs[g]) <= 1

\* What a superuser has approved is neither taken back nor put in doubt by a
\* later request of the user: whichever row get_local_deploy_user takes, it is
\* one that was approved ("renew the request" is for the superuser).  Only a
\* user who asked from two browsers at the same time may be in doubt.
GrantHolds ==
    \A u \in granted \ overlap : \A p \in PermissionsOf(u) :
       perm[p].life \in {"runs", "expired"}

\* A token of the registry goes to no one of whom no request was approved,
\* however many rows the user has.
PullsGranted == \A b \in Browser : req[b].pulls => req[b].of \in granted
=============================================================================
