SPECIFICATION FairSpec
CONSTANTS
    c1 = c1
    c2 = c2
    c3 = c3
    r1 = r1
    r2 = r2
    r3 = r3
    i1 = i1
    Cards = {c1, c2, c3}
    LockKey <- Key
    Requests = {r1, r2, r3}
    Imports = {}
    Posts <- CrossingPosts
    Packages <- NoPackages
    ResetDecks = {}
    Touched = {}
    Revoked = {}
    MaxNow = 0
    ForwardWindow = 0
    PastWindow = 0
    Free = Free
    Never = Never
    NoRow = NoRow
    Unwritten = Unwritten
    Nothing = Nothing
    Unsettled = Unsettled
INVARIANTS
    CardExclusion
PROPERTIES
    EveryBatchEnds
