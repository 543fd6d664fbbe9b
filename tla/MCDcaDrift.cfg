SPECIFICATION DcaSpec
CONSTANTS
    WeekDays = 3
    Months <- SomeMonths
    MaxRange <- AnyRange
    Unlisted = Unlisted
    Outage = Outage
    Assets = {"AAPL", "MSFT"}
    Entries <- SomeEntries
    Plans <- SomePlans
    Providers <- SomeProviders
    MaxWeight = 2
    MaxEntries = 3
    LatestDay = 17
INVARIANT MonthlyDatesKeepTheirDay
CHECK_DEADLOCK FALSE
