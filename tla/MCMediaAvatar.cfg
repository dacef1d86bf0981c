SPECIFICATION Spec
CONSTANTS
    b1 = b1
    b2 = b2
    d1f = d1f
    d1g = d1g
    d2f = d2f
    ann = ann
    Blobs = {b1, b2}
    Slots = {}
    Decks <- NoDecks
    Users = {ann}
    Uploads = {1, 2, 3}
    Bodies <- AvatarBodies
    Crashes = FALSE
    MaxFaults = 0
    NoBlob = NoBlob
    None = None
INVARIANTS
    NoAvatarIsStranded
