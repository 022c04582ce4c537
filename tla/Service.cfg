\* Callers of every kind, both outcomes of realloc, failing allocations; and
\* the Telegram channel with a crash, failing requests and an approval.
SPECIFICATION ServiceSpec
CONSTANTS
    \* TurnQueue
    Keys = {k1, k2}
    JobLimits = {0, 1}
    DefaultLimit = 2
    CancelModes = {TRUE, FALSE}
    FirstCap = 1
    ReallocMoves = {TRUE, FALSE}
    AllocMayFail = TRUE
    DrainInFlight = FALSE
    DrainMax = {0, 1}
    MaxJobs = 3
    \* Telegram
    Updates <- MCUpdates
    Messages <- MCMessages
    Options <- MCOptions
    Window = 1
    Budgets <- MCBudgets
INVARIANTS QueueSound WindowSound UpdatesTaken SentStands
PROPERTIES ImplementsMailbox CancelReachesUnmoved EventuallyAnswered EveryUpdateSettled
CHECK_DEADLOCK FALSE
