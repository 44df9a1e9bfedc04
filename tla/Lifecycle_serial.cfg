SPECIFICATION FairSpec
CONSTANTS
    d1 = d1
    d2 = d2
    h1 = h1
    h2 = h2
    t1 = t1
    Docs = {d1, d2}
    Hashes = {h1, h2, t1}
    NoHash = NoHash
    NoOne = NoOne
    ApiIssues = {i1, i2}
    OtherIssues = {}
    Regrades = {g1}
    Revokes = {v1, v2}
    Destroys = {x1}
    IssueArgs <- OriginalOnly
    RegradeArgs <- UpAndDown
    KeyShredder = FALSE
    Serialised = TRUE
INVARIANTS
    RevokedNeedsReissue
PROPERTIES
    Answered
CHECK_DEADLOCK FALSE
