SPECIFICATION LiveSpec
CONSTANTS
    Pipelines <- MCPipelines
    PipeCapacity = 1
    CaptureLimits = {1, 3}
    Width = 3
    MaxOutput = 4
    StreamLimit = 1
    Faults = {"open", "spawn", "capture", "wait"}
INVARIANTS  NothingLost
PROPERTIES RefinesCommandRunner Termination
