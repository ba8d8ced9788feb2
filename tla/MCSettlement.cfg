SPECIFICATION Spec
CONSTANTS
    r1 = r1
    r2 = r2
    r3 = r3
    k1 = k1
    Requests = {r1, r2, r3}
    Keys = {k1}
    KeyOf <- OneKey
    GlobalLimits = {1, 2}
    KeyLimit = 3
    Outcomes = {"ok", "bad"}
    Invalid = {"bad"}
    MaxTries = 2
    MaxFaults = 2
    ReaperOn = TRUE
    None = None
SYMMETRY Symmetry
INVARIANTS TypeOK SlotsExact QueueBounded OwnedRowIntact ClosedStoreUnused BilledAsDecided
PROPERTIES FinalRowsImmutable ImplementsBilling
