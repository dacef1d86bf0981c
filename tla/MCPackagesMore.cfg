CONSTANTS
    ann = ann  ben = ben  g1 = g1  g2 = g2  g3 = g3  v1 = v1  v2 = v2  seed = seed
    None = None
    User = {ann, ben}
    Guid = {g1, g2, g3}
    Value = {v1}
    DeckName = {"one", "two"}
    TypeName = {"basic", "other"}
    Anki <- MCAnki
    Stored <- MCStored
    Start = 56
    DayTicks = 4
    epochSecondsThreshold = 40
    Uuid <- MCUuid
    Interval <- MCInterval
    Retentions = {1}
    DefaultRetention = 2
    MaxEdits = 2
    MaxGrades = 2
    MaxExports = 1
    MaxImports = 2
    MaxChanges = 3
SPECIFICATION Spec
CHECK_DEADLOCK FALSE
INVARIANTS
    TypeOK
