SPECIFICATION Spec
CONSTANTS
    LastEvent = 2
    Overlong = {}
    Refused = {}
    MaxEventsPerPost = 3
    Tickets = {1, 2, 3}
    MaxFaults = 0
    Sessions = {"other", "none"}
    MaxSwitches = 0
    MaxTimers = 2
    TabLife = {"unload"}
INVARIANTS
    SenderIsFIFO
