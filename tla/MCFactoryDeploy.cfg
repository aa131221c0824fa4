\* One wallet plays every role, from the empty chain: every order of the
\* initializations, of the configuration and of the requests.
SPECIFICATION Spec
CONSTANTS
    Keys = {k1}
    NoKey = NoKey
    NoAccount = NoAccount
    ControllerPda = ControllerPda
    MembersId = MembersId
    ControllerId = ControllerId
    FactoryId = FactoryId
    ForeignIds = {otherProgram}
    BtcAddresses <- OneAddress
    TxIds <- OneTxId
    U16Max = 1
    U64Max = 1
    owner = k1
    custodian = k1
    merchants = {k1}
INVARIANTS
    TypeOK
    RequestsFillCounters
    MiswiredFactoryIsInert
    PendingMintsCanBeCanceled
PROPERTIES
    IssuanceIsBooked
    NothingUnbookedIsIssued
