\* The same callers make and drop mint requests for ever, under fairness.
SPECIFICATION PersistentSpec
CONSTANTS
    Keys = {m1, o}
    NoKey = NoKey
    NoAccount = NoAccount
    ControllerPda = ControllerPda
    MembersId = MembersId
    ControllerId = ControllerId
    FactoryId = FactoryId
    ForeignIds = {otherProgram}
    BtcAddresses <- OneAddress
    TxIds <- OneTxId
    U16Max = 2
    U64Max = 2
    owner = o
    custodian = o
    merchants = {m1, o}
    Methods <- Minting
    CallAmounts = {1}
    MaxLate = 1
PROPERTY
    RequestsGetThrough
