SPECIFICATION Spec
CONSTANTS
    Kinds <- AllKinds
    Texts <- OneText
    Comments <- Foreigns
    LegacyKinds = {}
    MaxRows = 2
    MaxSaves = 1
    Marks = FALSE
    Unsigned = FALSE
    Declared = {}
    Outages = FALSE
INVARIANTS
    RestoredLabelFits
CHECK_DEADLOCK FALSE
