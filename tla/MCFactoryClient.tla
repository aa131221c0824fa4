--------------------------- MODULE MCFactoryClient ---------------------------
(***************************************************************************)
(* FactoryClient driven by merchants and a custodian, on the system as it  *)
(* is deployed or with the factory still to be initialized; the owner      *)
(* changes nothing meanwhile.                                              *)
(***************************************************************************)
EXTENDS FactoryClient, MCFactory

\* What each role calls. (A custodian that is a merchant too makes requests
\* but leaves it to the other merchants to cancel.)
Everything ==
    [k \in Keys |->
        (IF k \in merchants THEN {"addMintRequest", "burn"} ELSE {})
          \union
        (IF k = custodian THEN {"confirmMintRequest"}
         ELSE {"cancelMintRequest"})]

\* Everybody may initialize the factory; then addresses are set, and set anew,
\* under burn requests.
Opening ==
    [k \in Keys |->
        {"initialize"}
          \union
        (IF k \in merchants THEN {"setMerchantBtcDepositAddress", "burn"} ELSE {})
          \union
        (IF k = custodian
         THEN {"setCustodianBtcDepositAddress", "confirmBurnRequest"} ELSE {})]

\* Addresses rotate under the merchants' requests.
Rotating ==
    [k \in Keys |->
        IF k = custodian THEN {"setCustodianBtcDepositAddress"} ELSE {"addMintRequest"}]

\* Only mint requests are made, and canceled or rejected.
Minting ==
    [k \in Keys |->
        {"addMintRequest",
         IF k = custodian THEN "rejectMintRequest" ELSE "cancelMintRequest"}]

\* The same, and their accounts are to be closed.
Closing == [k \in Keys |-> Minting[k] \union {"closeRequest"}]

ClientInit == Deployed /\ RpcInit

ClientSpec == ClientInit /\ [][ClientNext]_allVars

OpeningInit == WithoutFactory /\ RpcInit

OpeningSpec == OpeningInit /\ [][ClientNext]_allVars

FairSpec == ClientSpec /\ ClientFairness

PersistentSpec == FairSpec /\ NetworkRecovers /\ Persistence
=============================================================================
