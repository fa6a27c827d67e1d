\* Two transactions in a row, crashes, a failing call, and another program that
\* interferes between any two steps; fair.
SPECIFICATION FairSpec
CONSTANTS
    Path <- MCPath
    NoPath = "-"
    Content <- MCContent
    NoContent = "-"
    Foreign <- MCForeign
    Requests <- ChainRequests
    InitialWorkspaces <- MCWorkspaces
    FirstInode = 3
    MaxActions = 2
    MaxTransactions = 2
    MaxCrashes = 2
    MaxFaults = 1
    MaxExternal = 1
    ExternalAt <- Labels
INVARIANT Sound
PROPERTIES CallsReturn JournalSettles
CHECK_DEADLOCK FALSE
