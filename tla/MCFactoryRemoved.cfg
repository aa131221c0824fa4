\* A merchant is removed while its mint request is pending.
SPECIFICATION OperatingSpec
CONSTANTS
    Keys = {m1, m2, o}
    NoKey = NoKey
    NoAccount = NoAccount
    ControllerPda = ControllerPda
    MembersId = MembersId
    ControllerId = ControllerId
    FactoryId = FactoryId
    ForeignIds = {otherProgram}
    BtcAddresses <- OneAddress
    TxIds <- OneTxId
    U16Max = 2
    U64Max = 2
    owner = o
    custodian = o
    merchants = {m1, m2}
PROPERTIES
    MintsOnlyToMerchants
