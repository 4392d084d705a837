SPECIFICATION FairSpec
CONSTANTS
    a = a
    b = b
    Pipelines = {a, b}
    Deployments <- MCDeployments
    DesiredSlots = 2
    DesiredSenders = 2
    MaxFaults = 2
INVARIANTS
    StreamNeverBreaks
    ReadyMissesNothing
    ServerStartsAgain
PROPERTY
    EverySetupGetsThrough
