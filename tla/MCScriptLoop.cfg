SPECIFICATION FairSpec
CONSTANTS
    MaxTimers = 2
    MaxRequests = 2
    MaxMessages = 3
    MaxLost = 1
    MsgCap = 1
    InboxCap = 1
INVARIANTS
    TimersKept
    RequestsInOrder
    MessagesInOrder
PROPERTIES
    RequestsServed
    ShutsDown
CHECK_DEADLOCK FALSE
