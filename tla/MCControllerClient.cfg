\* Two wallets that race to initialize and own the Controller, choose its factory,
\* and pass the mint authority around, with one transaction that outlives its call.
SPECIFICATION ClientSpec
CONSTANTS
    Keys = {k1, k2}
    NoKey = NoKey
    NoAccount = NoAccount
    ControllerPda = ControllerPda
    Programs = {p1, p2}
    U64Max = 1
    Methods <- Everything
    MaxLate = 1
SYMMETRY NameSymmetry
INVARIANTS
    ClientTypeOK
    LastWordStands
PROPERTIES
    AuthorityIsHandedOver
    OwnershipHandover
