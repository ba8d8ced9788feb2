SPECIFICATION LiveSpec
CONSTANTS
    r1 = r1
    r2 = r2
    r3 = r3
    k1 = k1
    Requests = {r1, r2}
    Keys = {k1}
    KeyOf <- OneKey
    GlobalLimits = {2}
    KeyLimit = 1
    Outcomes = {"ok"}
    Invalid = {}
    MaxTries = 1
    MaxFaults = 3
    ReaperOn = TRUE
    None = None
PROPERTIES SlotsReturned EveryRowSettles ShutdownEnds
