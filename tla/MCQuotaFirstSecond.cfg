SPECIFICATION Spec
CONSTANTS
    k1 = k1  g1 = g1  g2 = g2  None = None
    Settings = {}
    Initial <- WeekOnlyGroup
    Keys = {k1}
    Groups = {g1}
    KeyQuota = 0
    KeyConcurrency = 1
    RPMLimit = 9
    Costs = {1}
    Charges = {1}
    Second = 4
    Minute = 4
    FiveHours = 8
    Day = 8
    Week = 16
    Retention = 16
    Deletions = FALSE
    MaxTime = 20
    MaxRows = 4
INVARIANTS WeeklyBounded
