CONSTANTS
    CharCounts = {0, 39, 40, 500}
    VisualCounts = {0, 1, 3, 4}
    ImageCounts = {0, 1, 5}
SPECIFICATION Spec
INVARIANTS
    GeminiBudget
    AcceptedIsDurable
PROPERTIES
    EvidenceIsKept
CHECK_DEADLOCK FALSE
