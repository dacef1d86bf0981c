SPECIFICATION FairSpec
CONSTANTS
    LastEvent = 3
    Overlong = {2}
    Refused = {1}
    MaxEventsPerPost = 2
    Tickets = {1, 2, 3}
    MaxFaults = 2
    Sessions = {"other", "none"}
    MaxSwitches = 2
    MaxTimers = 2
    TabLife = {"hide", "unload", "refuse", "restore", "truncate"}
INVARIANTS
    GradesInOneHand
    NeverMisattributed
    OnlyBeaconsOvertake
PROPERTIES
    SettlesUnlessRefused
