\* The code's first capacity of 4 and a fifth job: the block may move under the running turn.
CONSTANTS
    Keys = {k1}
    JobLimits = {0}
    DefaultLimit = 5
    CancelModes = {TRUE}
    FirstCap = 4
    ReallocMoves = {TRUE, FALSE}
    AllocMayFail = FALSE
    DrainInFlight = FALSE
    DrainMax = {0}
    MaxJobs = 5
SPECIFICATION Spec
PROPERTY CancelledNeverOk
CHECK_DEADLOCK FALSE
