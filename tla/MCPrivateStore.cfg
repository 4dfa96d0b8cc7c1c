CONSTANTS
    Callers = {c1, c2, c3}
    Paths = {claim}
    Keys = {k1, k2}
    OwnerValues = {v1, v2}
    Nobody = Nobody
    Attempts = 2
    MaxOwnerEdits = 2
SPECIFICATION Spec
INVARIANTS
    TypeOK
    AcknowledgedIsDurable
    ExhaustedMeansContention
PROPERTIES
    OwnerPartKept
    ImplementsAtomicStore
CHECK_DEADLOCK FALSE
