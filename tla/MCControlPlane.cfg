SPECIFICATION Spec
CONSTANTS
    Script = script
    Viewers = {viewer}
    own = own
    other = other
    Slugs = {own}
    script = script
    viewer = viewer
    ViewerOps <- MCViewerOps
    Own = own
    TokenChoices <- MCTokens
    Folders <- MCFolders
    Files <- MCFiles
    Locations <- MCLocations
    Tracks <- MCTracks
    Remembered = 1
    MaxCalls = 3
    MaxLate = 1
    MaxStations = 2
INVARIANTS
    AnswersHold
    BrowsingReaches
PROPERTIES
    OnlyAuthorizedChange
    SnapshotsAdvance
CHECK_DEADLOCK FALSE
