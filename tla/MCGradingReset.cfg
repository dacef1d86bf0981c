SPECIFICATION Spec
CONSTANTS
    c1 = c1
    c2 = c2
    c3 = c3
    r1 = r1
    r2 = r2
    r3 = r3
    i1 = i1
    Cards = {c1, c2}
    LockKey <- Key
    Requests = {r1, r2, r3}
    Imports = {}
    Posts <- LatePosts
    Packages <- NoPackages
    ResetDecks = {{c1}}
    Touched = {}
    Revoked = {}
    MaxNow = 2
    ForwardWindow = 1
    PastWindow = 2
    Free = Free
    Never = Never
    NoRow = NoRow
    Unwritten = Unwritten
    Nothing = Nothing
    Unsettled = Unsettled
INVARIANTS
    ResetStartsFresh
