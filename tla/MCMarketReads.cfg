SPECIFICATION MarketSpec
CONSTANTS
    Callers = {c1, c2}
    NoCaller = NoCaller
    NoAnswer = NoAnswer
    Outcomes <- SomeOutcomes
    TimeToLive = 2
    NegativeTimeToLive = 1
    MaxTime = 3
    NotFound = NotFound
    Outage = Outage
    MaxRetries = 3
    Providers <- SomeProviders
    Upper <- Cased
    Unknown = Unknown
    PopularAssets <- Curated
    MostActive = 3
    MaxBatch = 2
    Tradable = {"AAPL", "MSFT", "SPY"}
    Parts <- SomeParts
    Limits = {0, 1, 2, 4, 5, 6, 7, 20}
SYMMETRY Symmetry
INVARIANT OutagesAreForgotten
INVARIANT SearchesLoseNothing
INVARIANT PopularKeepsItsShares
INVARIANT ScoresFollowTheMarket
INVARIANT BatchesAgreeWithSingles
PROPERTY ImplementsWindows
