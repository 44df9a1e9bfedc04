SPECIFICATION Spec
CONSTANTS
    a1 = a1
    a2 = a2
    a3 = a3
    s1 = s1
    v1 = v1
    NoOne = NoOne
    Appends = {a1, a2, a3}
    Bodies = {a1, a2, a3}
    Seals = {s1}
    Audits = {v1}
    SealRanges <- DefaultRange
    AuditRanges <- DefaultRange
    LateCommit = TRUE
SYMMETRY AppendSymmetry
INVARIANTS
    OneTree
    AckedStored
CHECK_DEADLOCK FALSE
