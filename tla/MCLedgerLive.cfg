SPECIFICATION FairSpec
CONSTANTS
    TxIds = {1, 2}
    Symbols = {"AAPL"}
    Quantities = {1}
    Prices = {1}
    Fees = {0}
    Days = {1}
    NoRow = NoRow
    MaxAmount = 3
    MaxPositions = 1
    NewRows <- LimitRows
    Patches <- LimitPatches
    NoPosition = NoPosition
    Requests = {r1, r2}
    NoRequest = NoRequest
PROPERTY EveryCallReturns
CHECK_DEADLOCK FALSE
