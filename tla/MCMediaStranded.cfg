SPECIFICATION Spec
CONSTANTS
    b1 = b1
    b2 = b2
    d1f = d1f
    d1g = d1g
    d2f = d2f
    ann = ann
    Blobs = {b1, b2}
    Slots = {d1f, d1g}
    Decks <- OneDeck
    Users = {}
    Uploads = {1, 2}
    Bodies <- DeckBodies
    Crashes = FALSE
    MaxFaults = 0
    NoBlob = NoBlob
    None = None
INVARIANTS
    NoRowIsStranded
