SPECIFICATION Spec
CONSTANTS
    TxIds = {1, 2, 3}
    Symbols = {"AAPL", "MSFT"}
    Quantities = {1, 2, 3}
    Prices = {1, 2, 3, 4, 5}
    Fees = {0, 1}
    Days = {1, 2, 3}
    NoRow = NoRow
    Portfolios = {"main", "other"}
    Lookback = 1
    Unavailable = Unavailable
    NotFound = NotFound
    LongLookback = 3
    Slack = 1
    YearDays = 2
    MonthDays = 1
    MinVolatilityMonths = 2
    Rate <- SimpleRate
    Trades <- SomeTrades
    Markets <- SomeMarkets
INVARIANT DailyGainExplained
INVARIANT ActiveSymbolsSuffice
INVARIANT GainMatchesProfit
INVARIANT OutagesShowAsUnknown
INVARIANT ViewsAgree
INVARIANT SuggestionIsAccountedFor
CHECK_DEADLOCK FALSE
