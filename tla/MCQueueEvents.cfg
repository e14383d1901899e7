SPECIFICATION FairSpec
CONSTANTS
    Player = player
    Handlers = {handler}
    MaxLength = 2
    Thresholds = {0, 1}
    MaxTaken = 1
    MaxTurns = 1
    BusCap = 1
    OutCap = 1
INVARIANTS
    LowTracked
PROPERTIES
    RefillKeepsUp
    PlayerGoesOn
CHECK_DEADLOCK FALSE
