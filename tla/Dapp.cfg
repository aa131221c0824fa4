\* The members page, with merchants added by this interface and elsewhere;
\* two changes of each account.
SPECIFICATION Spec
CONSTANTS
    NoData = NoData
    Shown = {"get-members-store", "get-merchants"}
    Used = {"add-merchant", "initialize-members"}
    MaxVersion = 2
INVARIANTS
    TypeOK
    ReadYourWrites
