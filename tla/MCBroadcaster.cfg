SPECIFICATION ReadingSpec
CONSTANTS
    l1 = l1
    l2 = l2
    Listeners <- MCListeners
    BufferSize = 1
    MaxDrops = 2
    MaxChunks = 4
INVARIANTS
    ChannelClosedOnce
    GapsBounded
    CountReported
PROPERTIES
    EvictedOnlyWhenStuck
    DisconnectedHandlersEnd
CHECK_DEADLOCK FALSE
