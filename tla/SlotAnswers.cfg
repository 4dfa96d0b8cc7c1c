CONSTANTS
    p1 = p1  p2 = p2  p3 = p3
    Procs = {p1, p2}
    Slots = {"FORCE_FLAT", "RECONCILE", "POST_CLOSE_REPORT"}
    DueAt <- EndOfDay
    MaxTime = 2
    Faults = FALSE
    Nobody = Nobody
SPECIFICATION FairSpec
PROPERTIES
    ClaimIsAnswered
CHECK_DEADLOCK FALSE
