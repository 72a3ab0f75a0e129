SPECIFICATION ServingSpec
CONSTANTS
    Connections = {c1, c2, c3}
    Capacity = 2
    Limit = 1
    MaxStrays = 1
    Inputs <- SomeInputs
    MaxRetries = 2
    MaxRuns = 3
    MaxReleases = 1
    Budget = 120
    ReadTime = 60
    ProxyGrace = 4
    BrowserGrace = 8
    Latency = 1
INVARIANTS SlotsAreConserved ChargedOnceAndFirst AnswersAreWhole DriftIsExplained PageTellsTheTruth
PROPERTIES EverythingEnds KeepsPromise
CHECK_DEADLOCK FALSE
