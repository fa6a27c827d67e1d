SPECIFICATION Spec
CONSTANTS
    Clients = {c1, c2}
    Streams = {1}
    Bytes = {"a", "b"}
    Chunks <- MCChunks
    Groups <- MCGroups
    MaxBytes = 4
    MaxEntries = 2
    MemoryLimit = 2
    MaxLength = 4
    MaxAlias = 3
    MaxFaults = 1
    Documents <- MCDocuments
    MaxUnread = 1
    MaxInFlight = 2
    MaxPending = 3
    MaxPaths = 2
    MaxBroken = 1
    Nodes <- MCNodes
    Graphs <- MCGraphs
    Budgets <- MCBudgets
    MaxEdges = 5
    BaseSize = 20
    StatusSize = 4
    ReferenceSize = 6
    Callers = {p1, p2}
    Actions = {"a", "b", "c", "d"}
    Required <- MCRequired
    Granted = {"r"}
    ApprovalRequired = {"w"}
    Ttl = 1
    MaxClock = 1
    MaxPendingPermits = 1
    MaxUsedPermits = 1
    MaxNonce = 2
    Jobs <- MCValid
    EmptyWidth = 4
    RowWidth = 2
    DigestWidth = 3
    PathWidth = 2
    ErrorWidth = 2
    WideId = 2
INVARIANTS
    StoreSound
    GatewaySound
    PermitSound
    HandlersSound
PROPERTIES
    AliasesRetired
    BatchImplements
    GatewayEnds
