CONSTANTS
    a = a  b = b  ea = ea  eb = eb
    Symbols = {a, b}
    Entries = {ea, eb}
    SymbolOf <- TwoSymbols
    Qty = 1
    MaxPositions = 2
    MaxNew = 2
    DailyRisk = 2
    MaxKills = 1
    MaxUserMoves = 0
    Faults = FALSE
    NoRun = NoRun
SPECIFICATION Spec
INVARIANTS
    KillSwitchDoesNotBlockExits
CHECK_DEADLOCK FALSE
