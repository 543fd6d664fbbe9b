SPECIFICATION FairSpec
CONSTANTS
    Instances = {i1}
    Users = {u1, u2}
    Symbols = {s1, s2}
    NoSnapshot = NoSnapshot
    FetchConcurrency = 2
    MaxDay = 1
    MaxTrades = 1
INVARIANTS TotalsAreComplete RowsAreOfTheirDay StoppedMeansQuiet
PROPERTIES DaysGoForward ShutdownCompletes
