SPECIFICATION Spec
CONSTANTS
    Nodes = {1, 2}
    Events = {"presence", "sos"}
    Priority <- MCPriority
    MAX_ATTEMPTS = 3
    Runs <- MCRuns
    Presence = "presence"
    Sos = "sos"
INVARIANTS
    RestartAddsOnlyUnheard
    EachTapIsFedOnce
    ReadyIsItsOwn
    OnlyNodeB2Outlives
    InjectedIsNews
    ReportIsTrue
    VerdictIsTrue
    WindowIsNodeAs
CHECK_DEADLOCK FALSE
