SPECIFICATION Spec
CONSTANTS
    k1 = k1  g1 = g1  g2 = g2  None = None
    Settings <- Unlimited
    Initial <- EveryWindow
    Keys = {k1}
    Groups = {g1, g2}
    KeyQuota = 8
    KeyConcurrency = 2
    RPMLimit = 2
    Costs = {4}
    Charges = {3, 5}
    Second = 2
    Minute = 4
    FiveHours = 2
    Day = 4
    Week = 8
    Retention = 8
    Deletions = TRUE
    MaxTime = 10
    MaxRows = 3
INVARIANTS TypeOK RateBounded FiveHourBounded DailyBounded PeriodBounded KeyTotalBounded
PROPERTY PruneKeepsWindows
SYMMETRY Symmetry
