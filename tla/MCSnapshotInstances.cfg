SPECIFICATION Spec
CONSTANTS
    Instances = {i1, i2}
    Users = {u1}
    Symbols = {s1, s2}
    NoSnapshot = NoSnapshot
    FetchConcurrency = 1
    MaxDay = 0
    MaxTrades = 1
PROPERTY DaysGoForward
