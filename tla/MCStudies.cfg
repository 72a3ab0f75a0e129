SPECIFICATION StudiesSpec
CONSTANTS
    MaxKills = 2
    MaxRemovals = 2
    Representations <- MCRepresentations
    CaseCount = 3
    MaxBatch = 3
    Budget = 4
    Tokens <- MCTokens
    MaxFaults = 4
    Filings <- MCFilings
    Barred <- MCBarred
    Ranks <- MCRanks
    Limit = 3
    AgentLimit = 2
    StabilityLimit = 1
    Packets = {1, 2, 3}
    Labels <- MCLabels
    Leaking = {3}
    Configs = {1, 2}
    MaxRuns = 2
    MaxEdits = 2
    Datasets <- MCDatasets
    Columns = {1, 2}
    Coverage = 4
    Outer = 3
    Grid <- MCGrid
    Marks = {1, 2}
INVARIANTS ReproducedStudyIsOneRun EveryCaseAnsweredOnce CohortIsFair VerifiedHeadlinesAgree ScoresAreBlind
PROPERTY StudyFinishes
CHECK_DEADLOCK FALSE
