\* A service, a service with hard shutdown, and once mode.
CONSTANTS
    Tasks = {"a", "b", "timer"}
    Setups <- AllSetups
    OldLibuv = FALSE
    MaxFires = 4
    MaxShutdowns = 2
SPECIFICATION FairSpec
INVARIANTS LoopSound ErrorReported OnceRunsEach
PROPERTIES NoRunAfterRequest StopReturns
CHECK_DEADLOCK FALSE
