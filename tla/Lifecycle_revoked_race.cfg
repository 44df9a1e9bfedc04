SPECIFICATION Spec
CONSTANTS
    d1 = d1
    d2 = d2
    h1 = h1
    h2 = h2
    t1 = t1
    Docs = {d1, d2}
    Hashes = {h1, h2, t1}
    NoHash = NoHash
    NoOne = NoOne
    ApiIssues = {i1}
    OtherIssues = {}
    Regrades = {g1}
    Revokes = {v1}
    Destroys = {}
    IssueArgs <- OriginalOnly
    RegradeArgs <- Upwards
    KeyShredder = FALSE
    Serialised = FALSE
INVARIANTS
    RevokedNeedsReissue
CHECK_DEADLOCK FALSE
