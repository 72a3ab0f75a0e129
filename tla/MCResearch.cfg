SPECIFICATION ResearchSpec
CONSTANTS
    Versions <- MCVersions
    Frozen = 1
    Drafted = 1
    Families <- MCFamilies
    Blocks <- MCBlocks
    FamilyRank <- MCFamilyRank
    BlockRank <- MCBlockRank
    Grid <- MCGrid
    Inner <- MCInner
    Outer <- MCOuter
    Failed <- MCFailed
    Machines <- MCMachines
    Windows <- MCWindows
    GenerationLock <- MCGenerationLock
    Libraries <- MCLibraries
    MaxEvents = 3
    MaxCommits = 1
    LastStage = 3
    CohortStage = 1
    PredictionStage = 2
    UnlockStage = 3
    Items = {"config", "packet"}
    TreeVersions <- MCVersions
    Identity <- MCIdentity
    Null = Null
    MaxMishaps = 2
    MaxClock = 1
    Clients = {1, 2}
    Jobs <- SomeJobs
    NoObservation = 0
    Acquirer = 1
    MaxRetries = 1
    MaxVersions = 2
    MaxCrashes = 1
    Plan <- SomePlan
    Archives <- SomeArchives
    FactArchives <- SomeFactArchives
    TwelveMonths = 40
    YearOf <- DayYear
INVARIANTS PublishedIsOneStudy VerifiedChainIsOneStudy AcquiredIsAuthentic
PROPERTY LabelsAreFinal
CHECK_DEADLOCK FALSE
