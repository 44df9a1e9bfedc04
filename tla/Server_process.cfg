SPECIFICATION Spec
CONSTANTS
    Parts = {"issuing", "batch", "keys", "samples"}
    i1 = i1
    i2 = i2
    i3 = i3
    x1 = x1
    k1 = k1
    k2 = k2
    d1 = d1
    d2 = d2
    NoOne = NoOne
    Issues = {i1, i2, i3}
    Reindexes = {x1}
    Keys = {k1, k2}
    KeyOf <- MCKeyOf
    Docs = {d1, d2}
    DocOf <- MCDocOf
    Fingerprinted <- MCFingerprinted
    Bands = 2
    StoreFaults = FALSE
    Hangups = TRUE
    Crashes = TRUE
    j1 = j1
    j2 = j2
    p1 = p1
    p2 = p2
    p3 = p3
    Jobs = {j1, j2}
    ItemsOf <- MCItemsOf
    Polls = {p1, p2, p3}
    JobOf <- MCJobOf
    NoJob = NoJob
    MaxKeys = 7
    MaxStarts = 3
    l1 = l1
    l2 = l2
    Loads = {l1, l2}
    Manifests <- MCManifests
    MaxFails = 1
    SeenLimit = 2
    NoLoad = NoLoad
INVARIANTS
    OneIssuePerKey
    IndexIsComplete
    StatusIsTrue
    KeyStoreKeeps
    LoadsConverge
PROPERTIES
    JobsEnd
CHECK_DEADLOCK FALSE
