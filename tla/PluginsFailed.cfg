SPECIFICATION PluginSpec
CONSTANTS
    Artifacts <- MCArtifacts
    HostOptions <- MCOptions
    BuiltIn <- MCBuiltIn
    Abi = 1
    MaxPlugins = 2
    MaxObjects = 2
    MaxRegistrations = 2
INVARIANTS FailedLoadLeavesNothing
CHECK_DEADLOCK FALSE
