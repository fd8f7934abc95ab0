SPECIFICATION FairSpec
CONSTANTS
    Request = {r1, r2}
    Rival = {x1}
    MaxVersion = 3
    MaxFail = 1
    MaxDeploy = 1
INVARIANTS
    ReadySession
    IInv
    ContextFirst
    UpgradesAccounted
PROPERTIES
    EveryRequestEnds
CHECK_DEADLOCK FALSE
