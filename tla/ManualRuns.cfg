CONSTANTS
    Cloud = Cloud  Operator = Operator  None = None
    pA = pA  pB = pB  dA = dA  dB = dB
    Protocols = {pA, pB}
    Documents = {dA, dB}
    Policies = {1}
    Attempts = 2
    MaxJobs = 3
    MaxEdits = 2
    MaxFaults = 1
SYMMETRY Symmetry
SPECIFICATION Spec
INVARIANTS
    EachPlaceOpensOnce
    ReadinessHasEvidence
    ResultsAreTraceable
PROPERTIES
    ReadinessNeverGoesBack
CHECK_DEADLOCK FALSE
