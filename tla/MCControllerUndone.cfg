SPECIFICATION ControllerSpec
CONSTANTS
    Owners = {main, loop}
    Listeners = {}
    Watchers = {stream}
    Main = main
    Loop = loop
    Stream = stream
    MaxStations = 2
    MaxRestarts = 0
    MaxCalls = 2
    MayRefuse = FALSE
INVARIANTS
    UnregisterSticks
CHECK_DEADLOCK FALSE
