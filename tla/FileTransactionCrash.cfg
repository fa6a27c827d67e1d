\* Crashes, failing file-system calls, and other programs that work on the files except
\* between a check and its system call.
SPECIFICATION Spec
CONSTANTS
    Path <- MCPath
    NoPath = "-"
    Content <- MCContent
    NoContent = "-"
    Foreign <- MCForeign
    Requests <- MixedRequests
    InitialWorkspaces <- MCWorkspaces
    FirstInode = 3
    MaxActions = 2
    MaxTransactions = 1
    MaxCrashes = 2
    MaxFaults = 2
    MaxExternal = 1
    ExternalAt <- CheckedLabels
INVARIANTS Atomic Recoverable RowsTruthful OutcomeConsistent
PROPERTIES ForeignKept
CHECK_DEADLOCK FALSE
