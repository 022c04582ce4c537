\* Both implementations: a user who can be asked, a restricted turn, an unattended one.
CONSTANTS
    Calls = {"shot1", "shot2", "read1"}
    ToolOf <- ShotCalls
    Attaching = {"shot"}
    MaxIterations = 2
    Setups <- AllTurns
    MaxCalls = 2
SPECIFICATION FairSpec
INVARIANTS TurnSound TurnReported
PROPERTIES DeclinedStaysDeclined NoUnaskedToolAfterCancel TurnEnds
CHECK_DEADLOCK FALSE
