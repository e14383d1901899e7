SPECIFICATION FairSpec
CONSTANTS
    i1 = i1
    i2 = i2
    i3 = i3
    w1 = w1
    w2 = w2
    file = file
    url = url
    Items <- MCItems
    Workers <- MCWorkers
    LocalFiles = {file}
    Urls = {url}
    JobsCap = 1
    MaxFailures = 1
    MaxRestarts = 1
    NoItem = NoItem
    NoWorker = NoWorker
INVARIANTS
    ReadyIsComplete
    OneEncoder
    EncodedOnce
    DownloadsInHand
PROPERTIES
    KeepsContract
CHECK_DEADLOCK FALSE
