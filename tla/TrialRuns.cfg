CONSTANTS
    p1 = p1  p2 = p2  c1 = c1  c2 = c2
    None = None
    Procs = {p1, p2}
    Slots = 3
    Priced = {1, 2}
    Codes = {c1, c2}
    MaxRuns = 3
    MaxFaults = 2
SYMMETRY Symmetry
SPECIFICATION Spec
INVARIANTS
    LedgerSound
    SlotSpentOnce
    ExposureIsAnnounced
    RerunOnlyTogether
CHECK_DEADLOCK FALSE
