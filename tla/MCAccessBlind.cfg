SPECIFICATION Spec
CONSTANTS
    ann = ann
    bob = bob
    r1 = r1
    r2 = r2
    r3 = r3
    Users = {ann, bob}
    Requests = {r1, r2}
    Changes <- BlindChanges
    Creator = ann
    MaxFaults = 0
    Free = Free
    NoRow = NoRow
    None = None
INVARIANTS
    SomebodyCan
