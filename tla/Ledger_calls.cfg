SPECIFICATION FairSpec
CONSTANTS
    a1 = a1
    a2 = a2
    s1 = s1
    s2 = s2
    v1 = v1
    NoOne = NoOne
    Appends = {a1, a2}
    Bodies = {a1, a2}
    Seals = {s1, s2}
    Audits = {v1}
    SealRanges <- MCSealRanges
    AuditRanges <- MCAuditRanges
    LateCommit = FALSE
INVARIANTS
    TypeOK
    OneChain
    AnswersMatchRows
    NoFalseAlarm
    SealsHold
PROPERTIES
    ImplementsLog
    EveryCallReturns
CHECK_DEADLOCK FALSE
