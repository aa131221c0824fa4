\* Two processes set the same system up, one beside the other; one request
\* fails, and a process whose run failed may be replaced. No behaviour draws more
\* than five key pairs for mints.
SPECIFICATION FairSpec
CONSTANTS
    Processes = {p1, p2}
    Keys = {owner, k1, k2, k3, k4}
    NoKey = NoKey
    NoAccount = NoAccount
    U16Max = 2
    wallet = owner
    MembersId = MembersId
    ControllerId = ControllerId
    FactoryId = FactoryId
    ControllerPda = ControllerPda
    Starts = {1}
    MaxMints = 6
    MaxFaults = 1
CHECK_DEADLOCK FALSE
INVARIANTS
    TypeOK
    FlagsAreTrue
    NothingRunsHalfReady
PROPERTY
    DeploymentComesUp
