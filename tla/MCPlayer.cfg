SPECIFICATION Spec
CONSTANTS
    c1 = c1
    c2 = c2
    MaxItems = 2
    MaxCalls = 3
    Clients <- MCClients
    Ops = {"Append", "PlayNext", "PlayNow", "Remove", "Clear", "ClearStop", "Skip", "SkipTo", "Pause", "Resume", "Seek", "Stop"}
    FileChunks = 2
    SeekArgs <- MCSeekArgs
    HistoryMax = 1
    FileErrors = FALSE
SYMMETRY Handlers
INVARIANTS
    QueueOrder
    ItemConservation
    UntouchedTrackCompletes
    HeardInOrder
    EventsMatchAir
PROPERTIES
    KeepsStationContract
