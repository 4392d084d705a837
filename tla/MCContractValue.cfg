SPECIFICATION ContractSpec
CONSTANTS
    Schemas <- MCSchemas
    Retries <- MCRetries
    BaseBackoff = 1
    MaxBackoff = 2
    TokenLife = 2
INVARIANTS
    RaisesOnlyWhenItMust
    AcceptedIsLoadedAsHashed
    StrategiesAgree
CHECK_DEADLOCK FALSE
