SPECIFICATION Spec
CONSTANTS
    Kinds <- AllKinds
    Texts <- PlainTexts
    Comments <- Foreigns
    LegacyKinds <- Outside
    MaxRows = 3
    MaxSaves = 1
    Marks = FALSE
    Unsigned = FALSE
    Declared <- TextAndPackage
    Outages = FALSE
INVARIANTS
    IssuedLabelFits
    OneLabelInside
    ClientsAgree
    NotItsOwnParent
PROPERTIES
    HashKept
CHECK_DEADLOCK FALSE
