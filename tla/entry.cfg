SPECIFICATION Spec
CHECK_DEADLOCK FALSE
CONSTANTS
    EngineScale = 4
    UIScale = 1
    Instrument <- Registry
    Request <- Requests
    Batches <- Groups
    Account = {"a"}
INVARIANTS
    TypeOK
    PriceSurvives
    EchoRestoresIntent
    ExecutionHonoursSignatures
    AcceptedCanExecute
    CustodyEnforced
