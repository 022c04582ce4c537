SPECIFICATION MachineSpec
CONSTANTS
    \* Cron: both builds, the files of the model, one tool call, and two commands
    \* of two processes, over three instants of a daemon.
    Ids <- SmallIds
    Schedules <- SmallSchedules
    Builds = {TRUE, FALSE}
    Fine = 2
    Files <- SmallFiles
    ConfigJobs <- SmallConfigs
    Commands = {p1, p2}
    FirstCap = 1
    MaxInstant = 3
    MaxEdits = 1
    MaxCommands = 2
    MaxBoots = 1
    \* Tools
    Configs <- MCConfigs
    Calls <- MCCalls
    Available = {"firejail"}
    MaxCalls = 2
    MaxLives = 2
    MaxTrips = 1
    MaxOut = 2
    \* Gateway: one connection besides the calls inside the process; windows of
    \* two seconds in which two requests and two pairing attempts pass.
    AcpMaxSessions = 1
    AcpIdle = 1
    Requests <- AllRequests
    Envs <- AllEnvs
    RateWindow = 2
    RateLimit = 2
    PairLimit = 1
    PairTtl = 1
    MaxSse = 1
    MaxWsQueued = 1
    InitialToken = "none"
    PairOrigin = ""
    Events <- AllEvents
    Clients = {c}
    Times = {0, 1, 3}
    PairCreated = 1
    MaxRequests = 3
    MaxEmits = 2
    MaxWork = 4
    MaxStarts = 1
INVARIANTS JobsKept FilesSound ProcessSettled NoEffectUnderStop ServerSound
PROPERTIES PassRunsAllDue AckedRunsOnce
CHECK_DEADLOCK FALSE
SYMMETRY Processes
