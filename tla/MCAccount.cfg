\* Two requests at a time, one sign-up at a time, requests that die.
CONSTANTS
    e1 = e1
    e2 = e2
    u1 = u1
    u2 = u2
    h1 = h1
    h2 = h2
    NoUser = NoUser
    NoEmail = NoEmail
    GoneEmail = GoneEmail
    Email <- OneEmail
    User <- TwoUsers
    Req <- TwoReqs
    SignUpReq <- OneReq
    Kind <- OnlyMedia
    DayLimit = 1
    MaxCodes = 2
    Crash = TRUE
SYMMETRY Symmetry
SPECIFICATION Spec
INVARIANTS OneUserPerEmail PasswordFromCode FilesOutliveUser
CHECK_DEADLOCK FALSE
