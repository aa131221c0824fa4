\* The suites of one run follow each other, with one request that fails.
SPECIFICATION RetryFairSpec
CONSTANTS
    Processes = {p1}
    Keys = {owner, k1, k2, k3, k4}
    NoKey = NoKey
    NoAccount = NoAccount
    U16Max = 2
    wallet = owner
    MembersId = MembersId
    ControllerId = ControllerId
    FactoryId = FactoryId
    ControllerPda = ControllerPda
    Starts = {1}
    MaxMints = 3
    MaxFaults = 1
CHECK_DEADLOCK FALSE
PROPERTY
    DeploymentComesUp
