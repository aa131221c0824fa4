\* One merchant and a custodian settle requests while they are listed.
SPECIFICATION ListSpec
CONSTANTS
    Keys = {m1, o}
    NoKey = NoKey
    NoAccount = NoAccount
    ControllerPda = ControllerPda
    MembersId = MembersId
    ControllerId = ControllerId
    FactoryId = FactoryId
    ForeignIds = {}
    BtcAddresses <- OneAddress
    TxIds <- OneTxId
    U16Max = 2
    U64Max = 2
    owner = o
    custodian = o
    merchants = {m1}
INVARIANTS
    ListTypeOK
    ListedIsPast
    AuditNeverOverstates

    
