SPECIFICATION Spec
CONSTANTS
    TxIds = {1, 2, 3}
    Symbols = {"AAPL", "MSFT"}
    Quantities = {1, 2}
    Prices = {1}
    Fees = {0}
    Days = {1, 2}
    NoRow = NoRow
    MaxAmount = 3
    MaxPositions = 1
    NewRows <- RaceRows
    Patches <- RacePatches
    NoPosition = NoPosition
    Requests = {r1, r2}
    NoRequest = NoRequest
SYMMETRY Symmetry
INVARIANT PositionsMatchLedger
INVARIANT StoredLedgerReplays
INVARIANT OpenPositionsWithinLimit
PROPERTY EditsMerge
PROPERTY ImplementsAtomicLedger
CHECK_DEADLOCK FALSE
