SPECIFICATION Spec
CONSTANTS
 Version = {1,2,3}
 Releases <- MCReleases
 Processes = {1,2,3}
 Platforms = {"unix","windows"}
 Broken = {3}
 FlakyCalls = {"install", "rollback"}
 OneTakeover = TRUE
 PromptOwners = TRUE
 MaxRunning = 2
 MaxFailures = 2
 
PROPERTIES JournalFirst
CHECK_DEADLOCK FALSE
