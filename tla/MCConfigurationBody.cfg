SPECIFICATION Spec
CONSTANTS
    g1 = g1
    g2 = g2
    g3 = g3
    None = None
    Megabyte = 4
    FirstFiles <- Installations
    FirstLimits <- OldLimits
    FreshKeys <- Generated
    Patches <- Saves
    HandEdits <- ByHand
    NewGroups = {g3}
    Limits = {0, 2}
    MaxEdits = 3
INVARIANT BodyLimitTakesEffect
