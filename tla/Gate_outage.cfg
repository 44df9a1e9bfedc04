SPECIFICATION GateSpec
CONSTANTS
    d1 = d1
    d2 = d2
    h1 = h1
    h2 = h2
    h3 = h3
    t1 = t1
    Docs = {d1, d2}
    Hashes = {h1, h2, h3, t1}
    NoHash = NoHash
    NoOne = NoOne
    i1 = i1
    i2 = i2
    ApiIssues = {i1}
    OtherIssues = {}
    Regrades = {}
    Revokes = {v1}
    Destroys = {}
    IssueArgs <- TwoDocuments
    RegradeArgs <- NoRegrades
    KeyShredder = FALSE
    Serialised = FALSE
    Gates = {q1}
    Presented <- MCPresented
    LedgerFails = TRUE
INVARIANTS
    OutageIsUnavailable
CHECK_DEADLOCK FALSE
