SPECIFICATION Spec
CONSTANTS
    c1 = c1
    c2 = c2
    MaxItems = 2
    MaxCalls = 3
    Clients = {c1}
    Ops = {"Append", "PlayNow"}
    FileChunks = 2
    SeekArgs = {0}
    HistoryMax = 2
    FileErrors = FALSE
INVARIANT
    PlaysOnlyReady
