\* A merchant and a custodian on the deployed system, while the owner removes
\* and admits the merchant. Nonces 0 and 1 are usable, and a third unit in
\* circulation overflows. The addresses and txids concatenate ambiguously.
SPECIFICATION OperatingSpec
CONSTANTS
    Keys = {m1, o}
    NoKey = NoKey
    NoAccount = NoAccount
    ControllerPda = ControllerPda
    MembersId = MembersId
    ControllerId = ControllerId
    FactoryId = FactoryId
    ForeignIds = {otherProgram}
    BtcAddresses <- TwoAddresses
    TxIds <- OneTxId
    U16Max = 2
    U64Max = 2
    owner = o
    custodian = o
    merchants = {m1}
INVARIANTS
    CirculationIsBooked
    RequestsFillCounters
    HashPinsTerms
PROPERTIES
    IssuanceIsBooked
    TermsAreFixed
