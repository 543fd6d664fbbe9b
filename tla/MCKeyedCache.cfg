SPECIFICATION FairSpec
CONSTANTS
    Callers = {c1, c2}
    NoCaller = NoCaller
    Keys = {k1, k2}
    NoKey = NoKey
    Failed = Failed
    TimeToLive = 1
    MaxSize = 1
    MaxTime = 2
    MaxVersion = 1
INVARIANT FetchesAreNeeded
INVARIANT AnswersWereFresh
INVARIANT ReadsAreMonotonic
PROPERTY EveryFillReturns
