SPECIFICATION GateSpec
CONSTANTS
    d1 = d1
    d2 = d2
    h1 = h1
    h2 = h2
    h3 = h3
    t1 = t1
    Docs = {d1, d2}
    Hashes = {h1, h2, h3, t1}
    NoHash = NoHash
    NoOne = NoOne
    i1 = i1
    i2 = i2
    ApiIssues = {}
    OtherIssues = {i1, i2}
    Regrades = {g1}
    Revokes = {v1}
    Destroys = {x1}
    IssueArgs <- TwoDocuments
    RegradeArgs <- Upwards
    KeyShredder = FALSE
    Serialised = FALSE
    Gates = {q1}
    Presented <- MCPresented
    LedgerFails = TRUE
SYMMETRY IssueSymmetry
INVARIANTS
    ClosedIsDenied
    RegisteredIsFound
PROPERTIES
    AllowIsCurrent
CHECK_DEADLOCK FALSE
