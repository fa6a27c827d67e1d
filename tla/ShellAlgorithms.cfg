SPECIFICATION Spec
CHECK_DEADLOCK FALSE
CONSTANTS
    MaxDepth = 2
    DebugAssertions = TRUE
    MaxPatternUnits = 4
    MaxEntries = 8
    MaxMatches = 4
    MaxListEntries = 9
    MaxFileMatches = 2
    MaxSearchMatches = 2
    MaxProjectedLine = 11
    MaxRead = 5
    MaxSearchFile = 3
    HeaderWidth = 3
    MarkWidth = 1
    MaxPatchFile = 4
    SampleLimit = 8
    CutWidth = 5
    LeastCut = 8
    ParallelLines = 5
    PartitionLines = 2
    MaxBlockLines = 3
    ContextBefore = 1
    ContextAfter = 1
    EdgeLines = 1
INVARIANTS  WordsAgree PortableAgrees PlansAgree RangesAgree  OutputAgrees
