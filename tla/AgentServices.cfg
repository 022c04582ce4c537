SPECIFICATION ServicesSpec
CONSTANTS
    \* Providers
    Setups <- MCSetups
    Presets <- MCPresets
    Env <- MCEnv
    Addresses <- MCAddresses
    Prompts <- MCPrompts
    Answers <- MCAnswers
    Results <- MCResults
    Docs <- MCDocs
    MaxPartial = 8
    MaxBytes = 9
    ReliableRetries = 1
    MaxCalls = 1
    \* Memory
    Namespaces = {"n"}
    Sessions = {"s"}
    Keys <- MCKeys
    Contents <- MCContents
    SecretKeys = {"api_token"}
    ReservedKeys = {}
    KeyOrder <- MCOrder
    SearchTexts <- MCTexts
    Contained <- MCContained
    Phrased <- MCPhrased
    MaxContent = 4
    DefaultResults = 1
    ImportMax = 2
    Budget <- MCBudget
INVARIANTS RetriesSound StreamFaithful MemorySound
PROPERTIES EveryCallEnds
CHECK_DEADLOCK FALSE
