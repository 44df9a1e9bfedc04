SPECIFICATION Spec
CONSTANTS
    f1 = f1
    f2 = f2
    Files = {f1, f2}
    Orgs = {"hq", "branch"}
    Home = "hq"
    Pages = {"verify", "inbox", "issue", "ledger", "similarity", "caches"}
    MaxClicks = 4
    MaxCalls = 2
    MaxObservations = 3
    InboxLimit = 2
    Drops <- MCDrops
    Labelled = {f2}
    LabelledFiles = {f2}
    Known = {f2}
    Texts = {f1}
    Sidecars = {f2}
    Limits = {50, 500}
    MaxVersion = 3
INVARIANTS
    PanelsFit
    InboxIsTrue
    AnswersFit
    CachesKeep
PROPERTIES
    PagesSettle
CHECK_DEADLOCK FALSE
