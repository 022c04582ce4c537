SPECIFICATION Spec
CONSTANTS
    Setups <- MCSetups
    Presets <- MCPresets
    Env <- MCEnv
    Addresses <- MCAddresses
    Prompts <- MCPrompts
    Answers <- WithInvalid
    Results <- MCResults
    Docs <- MCDocs
    MaxPartial = 8
    MaxBytes = 9
    ReliableRetries = 1
    MaxCalls = 1
INVARIANTS RefusalsNotRetried
CHECK_DEADLOCK FALSE
