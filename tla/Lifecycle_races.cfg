SPECIFICATION Spec
CONSTANTS
    d1 = d1
    d2 = d2
    h1 = h1
    h2 = h2
    t1 = t1
    Docs = {d1, d2}
    Hashes = {h1, h2, t1}
    NoHash = NoHash
    NoOne = NoOne
    ApiIssues = {i1}
    OtherIssues = {i2}
    Regrades = {g1}
    Revokes = {v1}
    Destroys = {x1}
    IssueArgs <- MixedIssueArgs
    RegradeArgs <- UpAndDown
    KeyShredder = TRUE
    Serialised = FALSE
INVARIANTS
    RefsAreLawful
    NoLiveKeyDestroyed
    RootIsIssued
CHECK_DEADLOCK FALSE
