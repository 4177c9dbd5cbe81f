\* Two queries at a time, of the owner or of RapidAPI, against one realtime task.
SPECIFICATION Spec
CONSTANTS
    h1 = h1
    h2 = h2
    same = same
    longer = longer
    blank = blank
    g1 = g1
    g2 = g2
    g3 = g3
    NoRow = none
    Req = {h1, h2}
    Name = {same, longer, blank}
    GtRow = {g1, g2, g3}
    GtColumn = {"country", "name"}
    Full = 100
    Unit = 10
    MaxRtNrQueries = 2
    Tokens <- MCTokens
    Keys <- MCKeys
    OwnerOption <- MCOwnerOption
    RapidOption <- MCRapidOption
SYMMETRY MCSymmetry
INVARIANTS
    TypeOK
    AnswerIsRight
    UsedWasHeld
    AloneReportsUsed
    UnknownIsNotFull
