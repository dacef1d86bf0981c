SPECIFICATION FairSpec
CONSTANTS
    b1 = b1
    b2 = b2
    d1f = d1f
    d1g = d1g
    d2f = d2f
    ann = ann
    Blobs = {b1, b2}
    Slots = {d1f, d1g, d2f}
    Decks <- TwoDecks
    Users = {ann}
    Uploads = {1, 2}
    Bodies <- SharedBodies
    Crashes = TRUE
    MaxFaults = 1
    NoBlob = NoBlob
    None = None
INVARIANTS
    EveryRefHasRow
    LossNeedsOverlap
    NovelContentIsSafe
PROPERTIES
    GarbageIsCollected
