SPECIFICATION BootSpec
CONSTANTS
    Configs <- MCConfigs
    Absent = Absent
    MaxReliable = 3
    MaxRoutes = 2
    MaxHandles = 4
    MaxTools = 36
    MaxTurns = 2
INVARIANTS TurnsSeeTheirConfig
CHECK_DEADLOCK FALSE
