\* A merchant, and a custodian that is a merchant too, race through the client,
\* each with one call at a time and one transaction that outlived its call.
SPECIFICATION ClientSpec
CONSTANTS
    Keys = {m1, o}
    NoKey = NoKey
    NoAccount = NoAccount
    ControllerPda = ControllerPda
    MembersId = MembersId
    ControllerId = ControllerId
    FactoryId = FactoryId
    ForeignIds = {otherProgram}
    BtcAddresses <- OneAddress
    TxIds <- OneTxId
    U16Max = 2
    U64Max = 2
    owner = o
    custodian = o
    merchants = {m1, o}
    Methods <- Everything
    CallAmounts = {1}
    MaxLate = 1
INVARIANTS
    ClientTypeOK
    ReturnedMeansDone
    InFlightMeansReviewed
    RefusedMeansOvertaken
