CONSTANTS
    p1 = p1  p2 = p2  p3 = p3
    Procs = {p1, p2, p3}
    Slots = {"FORCE_FLAT", "RECONCILE", "POST_CLOSE_REPORT"}
    DueAt <- EndOfDay
    MaxTime = 2
    Faults = TRUE
    Nobody = Nobody
SPECIFICATION Spec
SYMMETRY Symmetry
INVARIANTS
    TypeOK
    PerformedOnce
    HandoffContinuity
    NewestRunWins
    CommittedBeforeNotified
    UnnamedMeansClaimed
CHECK_DEADLOCK FALSE
