SPECIFICATION FairSpec
CONSTANTS
    c1 = c1
    c2 = c2
    MaxItems = 2
    MaxCalls = 3
    Clients <- MCClients
    Ops = {"Append", "Skip", "Pause", "Resume", "Seek", "Stop"}
    FileChunks = 1
    SeekArgs = {0}
    HistoryMax = 2
    FileErrors = TRUE
PROPERTIES
    SkipEndsItem
    ResumeLeavesHold
    NoStarvation
    StopEndsRun
