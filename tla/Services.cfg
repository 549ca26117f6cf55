\* One behaviour of one service; three requests of a shared fetch, two of the
\* market cache, two workers of an intraday load, two of an
\* option chain.
SPECIFICATION ServicesSpec
CONSTANTS
    Callers = {c1, c2, c3}
    TTL = 1
    MaxNow = 3
    Requests = {r1, r2}
    Ids = {i1, i2}
    CacheMaxNow = 4
    MaxCommits = 3
    MaxSignals = 3
    Calendar <- Week
    Symbols = {s1, s2}
    Workers = {w1, w2}
    Instruments = {"VIX", "SPY", "HYG"}
    ShockDays <- PanicOrCalm
    Spreads <- NoneOrWide
    OptionChains <- SkewOrNoSpot
    Watchlists <- Lists
    Curated = {2}
    Industries <- ThreeIndustries
    Windows <- Loads
    Feeds <- IntradayLoads
    Statements <- Texts
    Tones <- ThreeTones
    GapMaxNow = 4
    Books <- Accounts
    Sectors <- TwoSectors
    Configs <- Files
    MaxAge = 1
    Grids <- StrikeGrids
    Prices <- SpotPrices
    Samplers = {o1, o2}
SYMMETRY Symmetry
INVARIANTS HealthyIsServed CacheTellsTheMarket ShutdownNeedsNobody
INVARIANTS TransitionIsNextChange RowsAreHonest  MissingIsNamed RiskIsFounded
INVARIANTS ChainIsFounded
PROPERTY MigrationIsAtomic
\* A command ends, and time is bounded.
CHECK_DEADLOCK FALSE
