SPECIFICATION Spec
CONSTANTS
    MaxReleaseDay = 9
    MaxCalendarSkipDates = 2
    Card <- MCCard
    Notes <- MCNotes
    Position <- MCPosition
    NoPosition <- MCNoPosition
    Lesson <- MCLesson
    Shuffle <- MCShuffle
    TicksPerDay = 2
    Page = 2
    RefillThreshold = 2
    maxExtraRounds = 1
    DefaultNewPerDay = 2
    MaxNewPerDay = 9
    DefaultRevPerDay = 3
    MaxRevPerDay = 9
    MaxLookAhead = 2
    Rating = {1, 3}
    InitPreset <- MCInitPreset
    InitRow <- MCInitRow
    Edit <- MCEdit
    InitTick = 1
    MaxEvents = 2
    MaxSlots = 3
    MaxRounds = 1
    MaxUnsent = 2
INVARIANT TotalCapHolds
CHECK_DEADLOCK FALSE
