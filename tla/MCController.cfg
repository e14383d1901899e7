SPECIFICATION FairControllerSpec
CONSTANTS
    Owners = {main, loop}
    Listeners = {}
    Watchers = {stream}
    Main = main
    Loop = loop
    Stream = stream
    MaxStations = 4
    MaxRestarts = 1
    MaxCalls = 3
    MayRefuse = TRUE
PROPERTIES
    ComesBack
    RestartIsPrimed
    HearsItsStation
CHECK_DEADLOCK FALSE
