CONSTANTS
    x = x
    y = y
    Symbols = {x, y}
    Close <- TwoDays
    Step = 2
    Decision = 4
    Lookback = 4
    Delays = {2}
    Holding = 4
    BeforeClose = 4
    GapShare = 5
    DayShare = 2
    Events <- HaltsOfDayOne
    MaxMissing = 2
    MaxHalts = 2
SYMMETRY AnySymbol
SPECIFICATION DaySpec
INVARIANTS
    MaskCoversGaps
    TradesEndInTime
CHECK_DEADLOCK FALSE
