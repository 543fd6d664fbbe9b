SPECIFICATION ReplaySpec
CONSTANTS
    TxIds = {1, 2, 3}
    Symbols = {"AAPL"}
    Quantities = {1, 2, 3}
    Prices = {1, 4}
    Fees = {0, 1}
    Days = {1, 2}
    NoRow = NoRow
INVARIANT ReplayAgreesWithDailyTotals
INVARIANT FiguresIgnoreCreationOrder
INVARIANT CashIsConserved
CHECK_DEADLOCK FALSE
