SPECIFICATION Spec
CONSTANTS
    Procs = {p1, p2, p3, p4}
    Keys = {k1, k2}
    Entries = {e1, e2, e3}
    Limits = {0, 2}
    SetLimits = {1, 3}
    None = None
INVARIANTS TypeOK GateIsCurrent CountsExact
PROPERTIES LastUserTakesGate ImplementsSemaphore
SYMMETRY Symmetry
