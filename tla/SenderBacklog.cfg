SPECIFICATION Spec
CONSTANTS
    LastEvent = 2
    Overlong = {}
    Refused = {}
    MaxEventsPerPost = 1
    Tickets = {1, 2, 3}
    MaxFaults = 1
    Sessions = {"other", "none"}
    MaxSwitches = 0
    MaxTimers = 2
    TabLife = {}
INVARIANTS
    ValidIsNotDropped
