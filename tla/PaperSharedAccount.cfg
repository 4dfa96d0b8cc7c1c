CONSTANTS
    a = a  b = b  ea = ea  eb = eb
    Symbols = {a}
    Entries = {ea}
    SymbolOf <- OneSymbol
    Qty = 2
    MaxPositions = 1
    MaxNew = 2
    DailyRisk = 2
    MaxKills = 1
    MaxUserMoves = 2
    Faults = TRUE
    NoRun = NoRun
SPECIFICATION Spec
INVARIANTS
    NeverShort
    FlatMeansFlat
CHECK_DEADLOCK FALSE
