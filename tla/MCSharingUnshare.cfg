\* A share request that takes users off the list.
CONSTANTS
    ann = ann
    ben = ben
    dataA = dataA
    groupA = groupA
    groupB = groupB
    h1 = h1
    h2 = h2
    User <- Users
    Dataset <- OneDataset
    Group <- Groups
    Req <- OneReq
    UserOf <- OneUser
    OwnerOf <- OneOwner
    FounderOf <- Founders
    OpsUser = ann
    Crash = FALSE
SPECIFICATION Spec
INVARIANT UnsharedAsAsked
