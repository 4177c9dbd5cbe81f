\* Each user has one request at a time.
CONSTANTS
    ann = ann
    ben = ben
    dataA = dataA
    groupA = groupA
    groupB = groupB
    h1 = h1
    h2 = h2
    User <- Users
    Dataset <- OneDataset
    Group <- Groups
    Req <- TwoReqs
    UserOf <- TwoUsers
    OwnerOf <- OneOwner
    FounderOf <- Founders
    OpsUser = ann
    Crash = TRUE
SPECIFICATION Spec
INVARIANTS SharesExist SharedAsAsked AccessibleIsListed
