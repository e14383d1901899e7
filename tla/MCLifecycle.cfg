SPECIFICATION FairSpec
CONSTANTS
    o1 = o1
    o2 = o2
    Owners <- MCOwners
    Listeners = {listener}
    Watchers = {watcher}
    MaxStations = 3
    MaxRestarts = 1
INVARIANTS
    NoOrphanPlayer
    StoppedOnce
    StopDisconnects
PROPERTIES
    UnregisteredEnds
    DisconnectedLeave
CHECK_DEADLOCK FALSE
