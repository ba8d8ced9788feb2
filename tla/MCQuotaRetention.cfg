SPECIFICATION Spec
CONSTANTS
    k1 = k1  g1 = g1  g2 = g2  None = None
    Settings = {}
    Initial <- Unlimited
    Keys = {k1}
    Groups = {g1}
    KeyQuota = 1
    KeyConcurrency = 1
    RPMLimit = 9
    Costs = {1}
    Charges = {1}
    Second = 2
    Minute = 2
    FiveHours = 2
    Day = 2
    Week = 4
    Retention = 4
    Deletions = FALSE
    MaxTime = 15
    MaxRows = 4
INVARIANTS KeyLifeBounded
