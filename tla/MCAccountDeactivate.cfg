\* An account is deactivated while another request of the user is served.
CONSTANTS
    e1 = e1
    e2 = e2
    u1 = u1
    u2 = u2
    h1 = h1
    h2 = h2
    NoUser = NoUser
    NoEmail = NoEmail
    GoneEmail = GoneEmail
    Email <- OneEmail
    User <- OneUser
    Req <- TwoReqs
    SignUpReq <- OneReq
    Kind <- NoKind
    DayLimit = 1
    MaxCodes = 1
    Crash = FALSE
SPECIFICATION Spec
INVARIANT DeactivatedStaysInactive
CHECK_DEADLOCK FALSE
