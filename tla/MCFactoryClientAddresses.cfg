\* A merchant and the custodian race to initialize the factory, with any
\* controller, then set deposit addresses over and over around a burn request.
SPECIFICATION OpeningSpec
CONSTANTS
    Keys = {m1, o}
    NoKey = NoKey
    NoAccount = NoAccount
    ControllerPda = ControllerPda
    MembersId = MembersId
    ControllerId = ControllerId
    FactoryId = FactoryId
    ForeignIds = {}
    BtcAddresses <- TwoAddresses
    TxIds <- OneTxId
    U16Max = 2
    U64Max = 1
    owner = o
    custodian = o
    merchants = {m1}
    Methods <- Opening
    CallAmounts = {1}
    MaxLate = 1
INVARIANTS
    ReturnedMeansDone
    InFlightMeansReviewed
PROPERTIES
    TermsAreFixed
