\* The removal of a committed journal fails half way.
SPECIFICATION Spec
CONSTANTS
    Path <- MCPath
    NoPath = "-"
    Content <- MCContent
    NoContent = "-"
    Foreign <- MCForeign
    Requests <- ChainRequests
    InitialWorkspaces <- MCWorkspaces
    FirstInode = 3
    MaxActions = 2
    MaxTransactions = 1
    MaxCrashes = 0
    MaxFaults = 1
    MaxExternal = 0
    ExternalAt = {}
INVARIANTS CommitIsFinal
CHECK_DEADLOCK FALSE
