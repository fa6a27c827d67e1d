CONSTANTS
    MaxDepth = 3
    DebugAssertions = TRUE
    MaxPatternUnits = 4
    MaxEntries = 6
    MaxMatches = 4
    MaxListEntries = 4
    MaxFileMatches = 2
    MaxSearchMatches = 2
    MaxProjectedLine = 8
    MaxRead = 6
    MaxSearchFile = 6
    MaxStages = 3
    MaxErr = 1
    CaptureLimit = 4
    MaxLines = 2
    WindowsHost = FALSE
    Sources <- MCSources
    Profiles <- MCProfiles
    Outputs <- MCOutputs
    Directories <- MCDirectories
    Executables <- MCExecutables
    InitialFiles <- MCFiles
    InitialEnvironment <- MCEnvironment
SPECIFICATION LiveSpec
INVARIANTS ListSemantics  SubstitutionsInOrder
PROPERTIES Isolated SourcesEnd
