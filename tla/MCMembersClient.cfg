\* Two wallets that race to initialize and own the program, and hand it over
\* to each other; the second merchant saturates the count, and one transaction
\* outlives its call.
SPECIFICATION ClientSpec
CONSTANTS
    Keys = {k1, k2}
    NoKey = NoKey
    NoAccount = NoAccount
    U16Max = 1
    MaxLate = 1
SYMMETRY KeySymmetry
INVARIANTS
    ClientTypeOK
    CountNeverOverstates
    LastWordStands
PROPERTY
    OwnershipHandover
