SPECIFICATION MCSpec
CONSTANTS
    p1 = p1
    p2 = p2
    u1 = u1
    u2 = u2
    f1 = f1
    Listers <- Two
    Files <- MCFiles
    MaxVersion = 3
    MaxTrouble = 1
    Runs <- Others
    GhRuns = {u1}
    Human = Human
    None = None
    PerPage = 1
    MaxComments = 4
    Installers <- Two
    Uninstallers <- Others
    MaxWrites = 1
    Backfillers <- Two
    Recorded <- MCRecorded
    SlugOf <- MCSlugOf
    EndedAt <- MCEndedAt
    Unreadable = {"c"}
    Filters <- MCFilters
    Taken <- MCTaken
    Wide = 2
    MaxMeddling = 1
    Bars <- Two
    Sessions <- MCSessions
    AgentOf <- MCAgentOf
    CwdOf <- MCCwdOf
    Home <- MCHome
    Uses <- MCUses
    MaxLoads = 2
    Gap = 1
    Levels = {60}
    WindowLong = 3
    LastMoment = 3
    MaxStates = 3
    MaxSpoilt = 1
    MaxOff = 1
    Processes <- Two
    Envs <- MCEnvs
SYMMETRY Symmetry
INVARIANTS ListingIsRight DuplicatesNeedARace FinishedMeansIndexed EtaSound RightSession
    OnlyTheToldIsSent
PROPERTIES SoloRunIsCurrent NothingOfTheirsIsLost NeverClobbers
CHECK_DEADLOCK FALSE
