SPECIFICATION FairSpec
CONSTANTS
    LastEvent = 2
    Overlong = {1}
    Refused = {}
    MaxEventsPerPost = 2
    Tickets = {1, 2, 3}
    MaxFaults = 0
    Sessions = {"other", "none"}
    MaxSwitches = 0
    MaxTimers = 2
    TabLife = {}
PROPERTIES
    EverythingSettles
