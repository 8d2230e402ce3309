SPECIFICATION Spec
CONSTANTS
    Inbounds <- MCInbounds
    MaxRoutes = 4
INVARIANTS
    ReportIsComplete
    ReceivedIsRecoverable
PROPERTIES
    StoreSpec
