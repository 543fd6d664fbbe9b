SPECIFICATION Spec
CONSTANTS
    Requests = {r1, r2}
    NoRequest = NoRequest
    Today = 5
    MonthDays = 4
    DefaultForward = 3
    MaxSpanDays = 5
    BoundMonths = 1
    Lookback = 2
    RowCap = 2
    TileDays = 3
    Concurrency = 2
    None = None
    NoDate = None
    Calendars <- TheCalendars
    Asked <- TheWindows
    NoBucket = NoBucket
SYMMETRY Symmetry
INVARIANTS AnswersAreWhole
PROPERTIES BucketsGoForward ErrorsComeFromTheProvider
