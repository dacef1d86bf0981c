SPECIFICATION FairSpec
CONSTANTS
    ann = ann
    bob = bob
    r1 = r1
    r2 = r2
    r3 = r3
    Users = {ann, bob}
    Requests = {r1, r2, r3}
    Changes <- SharedChanges
    Creator = ann
    MaxFaults = 1
    Free = Free
    NoRow = NoRow
    None = None
INVARIANTS
    TypeOK
    NeverStranded
    NoOrphanRow
PROPERTIES
    GrantOnlyAdds
    EveryChangeEnds
