CONSTANTS
    a = a  b = b  ea = ea  eb = eb
    Symbols = {a, b}
    Entries = {ea, eb}
    SymbolOf <- TwoSymbols
    Qty = 1
    MaxPositions = 1
    MaxNew = 2
    DailyRisk = 1
    MaxKills = 0
    MaxUserMoves = 0
    Faults = TRUE
    NoRun = NoRun
SPECIFICATION Spec
INVARIANTS
    TypeOK
    IntentBeforeOrder
    SubmittedOnce
    NeverShort
    PositionLimit
    DailyRiskBound
    FlatMeansFlat
CHECK_DEADLOCK FALSE
