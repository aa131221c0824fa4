--------------------------- MODULE FactoryProofs ----------------------------
(***************************************************************************)
(* Theorems about Factory, that is about the three programs together, for  *)
(* every set of keys, addresses, txids and foreign programs and every      *)
(* width of the counters.                                                  *)
(***************************************************************************)
EXTENDS Factory, FiniteSetTheorems, TLAPS

-----------------------------------------------------------------------------
(* What is already proved about Members and Controller carries over: the   *)
(* instances below are those of Factory, under another name.               *)

MProofs == INSTANCE MembersProofs
CProofs == INSTANCE ControllerProofs WITH Programs <- ProgramIds

LEMMA MembersType ==
  ASSUME Members!TypeOK, NEW signer \in Keys, Members!Instruction(signer)
  PROVE  Members!TypeOK'
<1>1. MProofs!KeysAssumption /\ MProofs!U16Assumption
  BY KeysAssumption, WidthAssumption
  DEF MProofs!KeysAssumption, MProofs!U16Assumption
<1>2. MProofs!StoreAssumption
  BY StoreAssumption
  DEF MProofs!StoreAssumption, MProofs!MembersStore, MProofs!Pubkeys,
      Members!MembersStore, Members!Pubkeys
<1>3. /\ MProofs!TypeOK <=> Members!TypeOK
      /\ MProofs!Next <=> Members!Next
    BY DEF MProofs!CanInitialize, MProofs!CanSetCustodian, MProofs!CanAddMerchant,
         MProofs!CanRemoveMerchant, MProofs!CanTransferOwnership,
         MProofs!CanClaimOwnership, Members!CanInitialize, Members!CanSetCustodian,
         Members!CanAddMerchant, Members!CanRemoveMerchant,
         Members!CanTransferOwnership, Members!CanClaimOwnership,
         MProofs!TypeOK, MProofs!MembersStore, MProofs!Pubkeys, MProofs!Next,
         MProofs!Instruction, MProofs!Initialize, MProofs!ClaimOwnership,
         MProofs!SetCustodian, MProofs!AddMerchant, MProofs!RemoveMerchant,
         MProofs!TransferOwnership, MProofs!OwnedBy, MProofs!SaturatingInc,
         MProofs!SaturatingDec,
         Members!TypeOK, Members!MembersStore, Members!Pubkeys, Members!Next,
         Members!Instruction, Members!Initialize, Members!ClaimOwnership,
         Members!SetCustodian, Members!AddMerchant, Members!RemoveMerchant,
         Members!TransferOwnership, Members!OwnedBy, Members!SaturatingInc,
         Members!SaturatingDec
<1>4. MProofs!TypeOK'  <=> Members!TypeOK'
  BY DEF MProofs!TypeOK, MProofs!MembersStore, MProofs!Pubkeys,
         Members!TypeOK, Members!MembersStore, Members!Pubkeys
<1>5. Members!Next
  BY DEF Members!Next
<1> QED  BY <1>1, <1>2, <1>3, <1>4, <1>5, MProofs!TypeStep

LEMMA ControllerAssumptions ==
  /\ CProofs!KeysAssumption
  /\ CProofs!StoreAssumption
  /\ CProofs!U64Assumption
  BY KeysAssumption, StoreAssumption, WidthAssumption
  DEF CProofs!KeysAssumption, CProofs!StoreAssumption, CProofs!U64Assumption,
      CProofs!ControllerStore, CProofs!Pubkeys, CProofs!ProgramIds,
      Controller!ControllerStore, Controller!Pubkeys, Controller!ProgramIds

LEMMA ControllerSame ==
  /\ CProofs!TypeOK <=> Controller!TypeOK
  /\ \A signer : CProofs!Instruction(signer) <=> Controller!Instruction(signer)
  /\ \A factory, to, amount :
        CProofs!Mint(factory, to, amount) <=> Controller!Mint(factory, to, amount)
    BY DEF CProofs!CanInitialize, CProofs!CanSetMembers, CProofs!CanSetFactory,
         CProofs!CanTransferOwnership, CProofs!CanClaimOwnership,
         CProofs!CanTransferMintAuthority, CProofs!CanClaimMintAuthority,
         Controller!CanInitialize, Controller!CanSetMembers,
         Controller!CanSetFactory, Controller!CanTransferOwnership,
         Controller!CanClaimOwnership, Controller!CanTransferMintAuthority,
         Controller!CanClaimMintAuthority,
         CProofs!TypeOK, CProofs!ControllerStore, CProofs!Pubkeys, CProofs!ProgramIds,
         CProofs!Instruction, CProofs!Initialize, CProofs!ClaimOwnership,
         CProofs!ClaimMintAuthority, CProofs!SetMembers, CProofs!SetFactory,
         CProofs!TransferOwnership, CProofs!TransferMintAuthority, CProofs!OwnedBy,
         CProofs!Mint, CProofs!CanMint, CProofs!tokenVars, CProofs!Token!TypeOK,
         CProofs!Token!Authorities,
         CProofs!Token!SetAuthority, CProofs!Token!MintTo, CProofs!Token!CanMintTo,
         Controller!TypeOK, Controller!ControllerStore, Controller!Pubkeys,
         Controller!ProgramIds, Controller!Instruction, Controller!Initialize,
         Controller!ClaimOwnership, Controller!ClaimMintAuthority,
         Controller!SetMembers, Controller!SetFactory, Controller!TransferOwnership,
         Controller!TransferMintAuthority, Controller!OwnedBy, Controller!Mint,
         Controller!CanMint,
         Controller!tokenVars, Controller!Token!TypeOK, Controller!Token!Authorities,
         Controller!Token!SetAuthority, Controller!Token!MintTo,
         Controller!Token!CanMintTo

LEMMA ControllerTypePrimed == CProofs!TypeOK' <=> Controller!TypeOK'
  BY DEF CProofs!TypeOK, CProofs!ControllerStore, CProofs!Pubkeys, CProofs!ProgramIds,
         CProofs!Token!TypeOK, CProofs!Token!Authorities,
         Controller!TypeOK, Controller!ControllerStore, Controller!Pubkeys,
         Controller!ProgramIds, Controller!Token!TypeOK, Controller!Token!Authorities

LEMMA ControllerType ==
  ASSUME Controller!TypeOK, NEW signer \in Keys, Controller!Instruction(signer)
  PROVE  Controller!TypeOK'
  BY ControllerAssumptions, ControllerSame, ControllerTypePrimed,
     CProofs!InstructionType

LEMMA ControllerMintType ==
  ASSUME Controller!TypeOK, NEW factory, NEW to \in Keys, NEW amount \in Amounts,
         Controller!Mint(factory, to, amount)
  PROVE  Controller!TypeOK'
  BY ControllerAssumptions, ControllerSame, ControllerTypePrimed,
     CProofs!MintType DEF Amounts

\* The wallets' own use of the token.
LEMMA TokenType ==
  ASSUME Controller!TypeOK, UNCHANGED controller_store, NEW k \in Keys,
         \/ Token!Wallet(k)
         \/ \E amount \in Amounts : Token!BurnChecked(k, amount)
  PROVE  Controller!TypeOK'
<1> USE WidthAssumption
        DEF Controller!TypeOK, Controller!Token!TypeOK, Controller!Token!Authorities,
            Token!Authorities, Amounts
<1>1. ASSUME NEW new_authority \in Token!Authorities, Token!SetAuthority(k, new_authority)
      PROVE  Controller!TypeOK'
  BY <1>1 DEF Token!SetAuthority
<1>2. ASSUME NEW amount \in Amounts, Token!BurnChecked(k, amount)
      PROVE  Controller!TypeOK'
  BY <1>2 DEF Token!BurnChecked, Token!CanBurnChecked
<1>3. ASSUME NEW amount \in 1..U64Max, NEW to \in Keys, Token!MintTo(k, to, amount)
      PROVE  Controller!TypeOK'
  BY <1>3 DEF Token!MintTo, Token!CanMintTo
<1>4. ASSUME NEW amount \in 1..U64Max, NEW to \in Keys, Token!Transfer(k, to, amount)
      PROVE  Controller!TypeOK'
  BY <1>4 DEF Token!Transfer
<1>5. 1..U64Max \subseteq Amounts
  OBVIOUS
<1> QED  BY <1>1, <1>2, <1>3, <1>4, <1>5 DEF Token!Wallet

LEMMA UnchangedTypes ==
  /\ Members!TypeOK /\ UNCHANGED membersVars => Members!TypeOK'
  /\ Controller!TypeOK /\ UNCHANGED <<controller_store, tokenVars>>
        => Controller!TypeOK'
  BY DEF membersVars, tokenVars, Members!TypeOK, Controller!TypeOK,
         Controller!Token!TypeOK

-----------------------------------------------------------------------------
(* Requests                                                                *)

\* A new request is well formed.
LEMMA NewRequestType ==
  ASSUME NEW type \in RequestType, NEW requester \in Keys, NEW amount \in Amounts,
         NEW address \in BtcAddresses, NEW txid \in BtcTxIds, NEW nonce \in Nonces
  PROVE  NewRequest(type, requester, amount, address, txid, nonce) \in RequestAccount
<1>1. calculate_hash(requester, amount, address, txid, nonce) \in RequestHash
  BY DEF calculate_hash, RequestHash
<1> QED  BY <1>1 DEF NewRequest, RequestAccount, RequestStatus

LEMMA EmptyIsTxId == EmptyString \in BtcTxIds
  BY DEF BtcTxIds

\* Settling a request, with or without a txid, keeps it well formed.
LEMMA SettledType ==
  ASSUME NEW r \in RequestAccount, NEW s \in RequestStatus, NEW t \in BtcTxIds
  PROVE  /\ [r EXCEPT !.status = s] \in RequestAccount
         /\ [r EXCEPT !.btc_txid = t, !.status = s] \in RequestAccount
         /\ \A q \in {[r EXCEPT !.status = s],
                     [r EXCEPT !.btc_txid = t, !.status = s]} :
               /\ q.nonce = r.nonce /\ q.request_type = r.request_type
               /\ q.requester = r.requester /\ q.amount = r.amount
               /\ q.btc_deposit_address = r.btc_deposit_address
               /\ q.hash = r.hash /\ q.status = s
         /\ [r EXCEPT !.status = s].btc_txid = r.btc_txid
  BY DEF RequestAccount

\* The factory's own accounts are well formed.
FactoryType ==
    /\ factory_store \in Existing(FactoryStore)
    /\ mint_requests \in [Nonces -> Existing(RequestAccount)]
    /\ burn_requests \in [Nonces -> Existing(RequestAccount)]
    /\ custodian_btc_address \in [Keys -> Existing(BtcAddresses)]
    /\ merchant_btc_address \in [Keys -> Existing(BtcAddresses)]

LEMMA CounterType ==
  ASSUME FactoryType, factory_store # NoAccount
  PROVE  /\ factory_store \in FactoryStore
         /\ factory_store.mint_request_counter \in Nonces
         /\ factory_store.burn_request_counter \in Nonces
         /\ factory_store.mint_request_counter < U64Max =>
              [factory_store EXCEPT !.mint_request_counter = @ + 1] \in FactoryStore
         /\ factory_store.burn_request_counter < U64Max =>
              [factory_store EXCEPT !.burn_request_counter = @ + 1] \in FactoryStore
<1>1. factory_store \in FactoryStore
  BY DEF FactoryType, Existing
<1>2. /\ factory_store.mint_request_counter \in Nonces
      /\ factory_store.burn_request_counter \in Nonces
  BY <1>1 DEF FactoryStore
<1> QED  BY <1>1, <1>2, WidthAssumption DEF FactoryStore, Nonces

-----------------------------------------------------------------------------
(* What a step can do to the factory's accounts. Every proof below goes    *)
(* through these cases, whoever signed and whatever else the step did.     *)

Idle == UNCHANGED factoryVars

Created ==
    /\ factory_store = NoAccount
    /\ \E c \in ProgramIds \union {NoKey} :
          factory_store' = [mint_request_counter |-> 0, burn_request_counter |-> 0,
                            controller |-> c]
    /\ UNCHANGED <<mint_requests, burn_requests, addressVars>>

AddressSet ==
    /\ ControllerResolved
    /\ \E k \in Keys, a \in BtcAddresses :
          \/ /\ custodian_btc_address' = [custodian_btc_address EXCEPT ![k] = a]
             /\ UNCHANGED merchant_btc_address
          \/ /\ merchant_btc_address' = [merchant_btc_address EXCEPT ![k] = a]
             /\ UNCHANGED custodian_btc_address
    /\ UNCHANGED <<factory_store, mint_requests, burn_requests>>

MintAdded ==
    /\ ControllerResolved
    /\ \E n \in Nonces, k \in Keys, m \in Amounts, a \in BtcAddresses, t \in BtcTxIds :
          /\ n = factory_store.mint_request_counter
          /\ n < U64Max
          /\ mint_requests[n] = NoAccount
          /\ mint_requests' = [mint_requests EXCEPT ![n] =
                                  NewRequest("Mint", k, m, a, t, n)]
    /\ factory_store' = [factory_store EXCEPT !.mint_request_counter = @ + 1]
    /\ UNCHANGED <<burn_requests, addressVars>>

BurnAdded ==
    /\ ControllerResolved
    /\ \E n \in Nonces, k \in Keys, m \in Amounts \ {0}, a \in BtcAddresses :
          /\ n = factory_store.burn_request_counter
          /\ n < U64Max
          /\ burn_requests[n] = NoAccount
          /\ burn_requests' = [burn_requests EXCEPT ![n] =
                                  NewRequest("Burn", k, m, a, EmptyString, n)]
          /\ Token!BurnChecked(k, m)
    /\ factory_store' = [factory_store EXCEPT !.burn_request_counter = @ + 1]
    /\ UNCHANGED <<mint_requests, addressVars>>

MintSettled ==
    /\ \E n \in Nonces, s \in RequestStatus \ {"Pending"} :
          /\ mint_requests[n] # NoAccount
          /\ mint_requests[n].status = "Pending"
          /\ mint_requests' = [mint_requests EXCEPT ![n].status = s]
    /\ UNCHANGED <<factory_store, burn_requests, addressVars>>

BurnSettled ==
    /\ \E n \in Nonces, t \in BtcTxIds :
          /\ burn_requests[n] # NoAccount
          /\ burn_requests[n].request_type = "Burn"
          /\ burn_requests[n].status = "Pending"
          /\ burn_requests' = [burn_requests EXCEPT ![n] =
                                  [@ EXCEPT !.btc_txid = t, !.status = "Approved"]]
    /\ UNCHANGED <<factory_store, mint_requests, addressVars>>

LEMMA AddMintShape ==
  ASSUME TypeOK, NEW k \in Keys, NEW m \in Amounts,
         NEW a \in BtcAddresses \union {EmptyString}, NEW t \in BtcTxIds,
         AddMintRequest(k, m, a, t)
  PROVE  MintAdded
<1>1. /\ ControllerResolved /\ a \in BtcAddresses
      /\ factory_store.mint_request_counter \in Nonces
  BY CounterType
  DEF AddMintRequest, CanAddMintRequest, IsMerchant, MembersResolved,
      ControllerResolved, TypeOK, FactoryType
<1> QED  BY <1>1 DEF AddMintRequest, CanAddMintRequest, MintAdded

LEMMA BurnShape ==
  ASSUME TypeOK, NEW k \in Keys, NEW m \in Amounts, Burn(k, m)
  PROVE  BurnAdded
<1>1. /\ ControllerResolved /\ m \in Amounts \ {0}
      /\ factory_store.burn_request_counter \in Nonces
  BY CounterType
  DEF Burn, CanBurn, IsMerchant, MembersResolved, ControllerResolved, TypeOK,
      FactoryType, Amounts
<1>2. merchant_btc_address[k] \in BtcAddresses
  BY DEF Burn, CanBurn, TypeOK, Existing
<1> QED  BY <1>1, <1>2 DEF Burn, CanBurn, BurnAdded

LEMMA Shapes ==
  ASSUME TypeOK, [Next]_vars
  PROVE  \/ Idle \/ Created \/ AddressSet \/ MintAdded \/ BurnAdded
         \/ MintSettled \/ BurnSettled
<1> USE DEF IsMerchant, IsCustodian, MembersResolved
<1>0. FactoryType
  BY DEF TypeOK, FactoryType
<1>1. CASE UNCHANGED vars
  BY <1>1 DEF vars, Idle, factoryVars
<1>2. ASSUME NEW signer \in Keys, NEW c \in ProgramIds \union {NoKey},
             Initialize(signer, c)
      PROVE  Created
  BY <1>2 DEF Initialize, CanInitialize, Created
<1>3. ASSUME NEW signer \in Keys, MerchantInstruction(signer)
      PROVE  AddressSet \/ MintAdded \/ MintSettled \/ BurnAdded
  <2>1. ASSUME NEW a \in BtcAddresses \union {EmptyString},
               SetMerchantBtcDepositAddress(signer, a)
        PROVE  AddressSet
    BY <2>1 DEF SetMerchantBtcDepositAddress, CanSetMerchantBtcDepositAddress,
                AddressSet
  <2>2. ASSUME NEW a \in BtcAddresses \union {EmptyString},
               NEW m \in Amounts, NEW t \in BtcTxIds,
               AddMintRequest(signer, m, a, t)
        PROVE  MintAdded
    BY <2>2, AddMintShape
  <2>3. ASSUME NEW n \in Nonces, NEW h \in KnownHashes,
               CancelMintRequest(signer, n, h)
        PROVE  MintSettled
    BY <2>3 DEF CancelMintRequest, CanCancelMintRequest, IsPending, MintSettled,
                RequestStatus
  <2>4. ASSUME NEW m \in Amounts, Burn(signer, m)
        PROVE  BurnAdded
    BY <2>4, BurnShape
  <2> QED  BY <1>3, <2>1, <2>2, <2>3, <2>4 DEF MerchantInstruction
<1>4. ASSUME NEW signer \in Keys, CustodianInstruction(signer)
      PROVE  AddressSet \/ MintSettled \/ BurnSettled
  <2>1. ASSUME NEW k \in Keys, NEW a \in BtcAddresses \union {EmptyString},
               SetCustodianBtcDepositAddress(signer, k, a)
        PROVE  AddressSet
    BY <2>1 DEF SetCustodianBtcDepositAddress, CanSetCustodianBtcDepositAddress,
                AddressSet
  <2>2. ASSUME NEW n \in Nonces, NEW h \in KnownHashes,
               ConfirmMintRequest(signer, n, h) \/ RejectMintRequest(signer, n, h)
        PROVE  MintSettled
    BY <2>2 DEF ConfirmMintRequest, CanConfirmMintRequest, RejectMintRequest,
                CanRejectMintRequest, IsPending, MintSettled,
                RequestStatus
  <2>3. ASSUME NEW n \in Nonces, NEW h \in KnownHashes, NEW t \in BtcTxIds,
               ConfirmBurnRequest(signer, n, t, h)
        PROVE  BurnSettled
    BY <2>3 DEF ConfirmBurnRequest, CanConfirmBurnRequest, IsPending, BurnSettled
  <2> QED  BY <1>4, <2>1, <2>2, <2>3 DEF CustodianInstruction
<1>5. ASSUME NEW signer \in Keys,
             \/ MembersInstruction(signer) \/ ControllerInstruction(signer)
             \/ WalletInstruction(signer)
      PROVE  Idle
  BY <1>5 DEF MembersInstruction, ControllerInstruction, WalletInstruction, Idle
<1>6. CASE ForeignMint
  BY <1>6 DEF ForeignMint, Idle
<1> QED  BY <1>1, <1>2, <1>3, <1>4, <1>5, <1>6 DEF Next

-----------------------------------------------------------------------------
(* Type correctness                                                        *)

LEMMA FactoryTypeStep ==
  ASSUME TypeOK, [Next]_vars
  PROVE  FactoryType'
<1>0. FactoryType
  BY DEF TypeOK, FactoryType
<1>1. CASE Idle
  BY <1>0, <1>1 DEF Idle, factoryVars, FactoryType
<1>2. CASE Created
  BY <1>0, <1>2, WidthAssumption
  DEF Created, FactoryType, FactoryStore, Existing, Nonces, addressVars
<1>3. CASE AddressSet
  BY <1>0, <1>3 DEF AddressSet, FactoryType, Existing
<1>4. CASE MintAdded
  <2>1. mint_requests' \in [Nonces -> Existing(RequestAccount)]
    BY <1>0, <1>4, NewRequestType DEF MintAdded, FactoryType, Existing, RequestType
  <2>2. factory_store' \in FactoryStore
    BY <1>0, <1>4, CounterType DEF MintAdded, ControllerResolved
  <2> QED  BY <1>0, <1>4, <2>1, <2>2 DEF MintAdded, FactoryType, Existing, addressVars
<1>5. CASE BurnAdded
  <2>1. burn_requests' \in [Nonces -> Existing(RequestAccount)]
    BY <1>0, <1>5, NewRequestType
    DEF BurnAdded, FactoryType, Existing, RequestType, BtcTxIds
  <2>2. factory_store' \in FactoryStore
    BY <1>0, <1>5, CounterType DEF BurnAdded, ControllerResolved
  <2> QED  BY <1>0, <1>5, <2>1, <2>2 DEF BurnAdded, FactoryType, Existing, addressVars
<1>6. CASE MintSettled
  <2>1. PICK n \in Nonces, x \in RequestStatus :
          /\ mint_requests[n] # NoAccount
          /\ mint_requests' = [mint_requests EXCEPT ![n].status = x]
    BY <1>6 DEF MintSettled
  <2> DEFINE q == [mint_requests[n] EXCEPT !.status = x]
  <2>0. mint_requests[n] \in RequestAccount
    BY <1>0, <2>1 DEF FactoryType, Existing
  <2>2. q \in RequestAccount
    BY <2>0 DEF RequestAccount
  <2>3. mint_requests' = [mint_requests EXCEPT ![n] = q]
    BY <2>1
  <2> HIDE DEF q
  <2>4. mint_requests' \in [Nonces -> Existing(RequestAccount)]
    BY <1>0, <2>2, <2>3 DEF FactoryType, Existing
  <2> QED  BY <1>0, <1>6, <2>4 DEF MintSettled, FactoryType, addressVars
<1>7. CASE BurnSettled
  <2>1. PICK n \in Nonces, t \in BtcTxIds :
          /\ burn_requests[n] # NoAccount
          /\ burn_requests' = [burn_requests EXCEPT ![n] =
                                  [@ EXCEPT !.btc_txid = t, !.status = "Approved"]]
    BY <1>7 DEF BurnSettled
  <2> DEFINE q == [burn_requests[n] EXCEPT !.btc_txid = t, !.status = "Approved"]
  <2>0. burn_requests[n] \in RequestAccount
    BY <1>0, <2>1 DEF FactoryType, Existing
  <2>2. q \in RequestAccount
    BY <2>0 DEF RequestAccount, RequestStatus
  <2>3. burn_requests' = [burn_requests EXCEPT ![n] = q]
    BY <2>1
  <2> HIDE DEF q
  <2>4. burn_requests' \in [Nonces -> Existing(RequestAccount)]
    BY <1>0, <2>2, <2>3 DEF FactoryType, Existing
  <2> QED  BY <1>0, <1>7, <2>4 DEF BurnSettled, FactoryType, addressVars
<1> QED  BY <1>1, <1>2, <1>3, <1>4, <1>5, <1>6, <1>7, Shapes

LEMMA ProgramsTypeStep ==
  ASSUME TypeOK, [Next]_vars
  PROVE  Members!TypeOK' /\ Controller!TypeOK'
<1>0. Members!TypeOK /\ Controller!TypeOK
  BY DEF TypeOK
<1>1. CASE UNCHANGED <<membersVars, controller_store, tokenVars>>
  BY <1>0, <1>1, UnchangedTypes
<1>2. ASSUME NEW signer \in Keys, MembersInstruction(signer)
      PROVE  Members!TypeOK' /\ Controller!TypeOK'
  BY <1>0, <1>2, MembersType, UnchangedTypes DEF MembersInstruction
<1>3. ASSUME NEW signer \in Keys, ControllerInstruction(signer)
      PROVE  Members!TypeOK' /\ Controller!TypeOK'
  BY <1>0, <1>3, ControllerType, UnchangedTypes DEF ControllerInstruction
<1>4. ASSUME NEW signer \in Keys, WalletInstruction(signer)
      PROVE  Members!TypeOK' /\ Controller!TypeOK'
  BY <1>0, <1>4, TokenType, UnchangedTypes DEF WalletInstruction
<1>5. CASE ForeignMint
  BY <1>0, <1>5, ControllerMintType, UnchangedTypes DEF ForeignMint
<1>6. ASSUME NEW signer \in Keys, NEW m \in Amounts, Burn(signer, m)
      PROVE  Members!TypeOK' /\ Controller!TypeOK'
  BY <1>0, <1>6, TokenType, UnchangedTypes DEF Burn, CanBurn
<1>7. ASSUME NEW signer \in Keys, NEW n \in Nonces, NEW h \in KnownHashes,
             ConfirmMintRequest(signer, n, h)
      PROVE  Members!TypeOK' /\ Controller!TypeOK'
  <2>1. mint_requests[n] \in RequestAccount
    BY <1>7 DEF ConfirmMintRequest, CanConfirmMintRequest, IsPending, TypeOK, Existing
  <2>2. mint_requests[n].requester \in Keys /\ mint_requests[n].amount \in Amounts
    BY <2>1 DEF RequestAccount
  <2> QED  BY <1>0, <1>7, <2>2, ControllerMintType, UnchangedTypes
           DEF ConfirmMintRequest, CanConfirmMintRequest
<1> QED  BY <1>1, <1>2, <1>3, <1>4, <1>5, <1>6, <1>7
         DEF Next, vars, membersVars, tokenVars, MerchantInstruction,
             CustodianInstruction, Initialize, SetMerchantBtcDepositAddress,
             CanSetMerchantBtcDepositAddress,
             AddMintRequest, CanAddMintRequest, CancelMintRequest,
             CanCancelMintRequest, SetCustodianBtcDepositAddress,
             CanSetCustodianBtcDepositAddress,
             RejectMintRequest, CanRejectMintRequest, ConfirmBurnRequest,
             CanConfirmBurnRequest

LEMMA TypeInit == Init => TypeOK
  BY WidthAssumption
  DEF Init, TypeOK, Existing, Members!Init, Members!TypeOK, Controller!Init,
      Controller!TypeOK, Controller!Token!Init, Controller!Token!TypeOK,
      Controller!Token!Authorities

LEMMA TypeStep == TypeOK /\ [Next]_vars => TypeOK'
  BY FactoryTypeStep, ProgramsTypeStep DEF TypeOK, FactoryType

\* Type correctness of the whole system: no instruction of any of the three
\* programs, and nothing the wallets or other programs do, leaves an account
\* with a value its type does not have. In particular no u64 overflows.
THEOREM SystemTypeCorrect == Spec => []TypeOK
  BY TypeInit, TypeStep, PTL DEF Spec

-----------------------------------------------------------------------------
(* The requests fill their counters                                        *)

LEMMA NotMissing ==
  /\ NoAccount \notin RequestAccount
  /\ NoAccount \notin FactoryStore
  BY StoreAssumption

\* Adding the request of the counter and counting it keeps the numbering.
LEMMA NumberingGrows ==
  ASSUME NEW requests \in [Nonces -> Existing(RequestAccount)], NEW type,
         NEW n \in Nonces, n < U64Max, Numbered(requests, type, n),
         NEW r \in RequestAccount, r.nonce = n, r.request_type = type
  PROVE  Numbered([requests EXCEPT ![n] = r], type, n + 1)
<1>1. r # NoAccount
  BY NotMissing
<1>2. \A m \in Nonces : m < n + 1 <=> m = n \/ m < n
  BY WidthAssumption DEF Nonces
<1> QED  BY <1>1, <1>2 DEF Numbered

\* Replacing a request that exists by one of the same nonce and type keeps it.
LEMMA NumberingStays ==
  ASSUME NEW requests \in [Nonces -> Existing(RequestAccount)], NEW type,
         NEW counter, NEW n \in Nonces, Numbered(requests, type, counter),
         requests[n] # NoAccount, NEW q \in RequestAccount,
         q.nonce = requests[n].nonce, q.request_type = requests[n].request_type
  PROVE  Numbered([requests EXCEPT ![n] = q], type, counter)
  BY NotMissing DEF Numbered

LEMMA CountersInit == Init => RequestsFillCounters
  BY DEF Init, RequestsFillCounters

LEMMA CountersStep ==
  ASSUME TypeOK, RequestsFillCounters, [Next]_vars
  PROVE  RequestsFillCounters'
<1> USE DEF RequestsFillCounters
<1>0. FactoryType /\ FactoryType'
  BY FactoryTypeStep DEF TypeOK, FactoryType
<1>1. CASE Idle
  BY <1>1 DEF Idle, factoryVars, Numbered
<1>2. CASE Created
  <2>1. /\ factory_store'.mint_request_counter = 0
        /\ factory_store'.burn_request_counter = 0
    BY <1>2 DEF Created
  <2>2. \A n \in Nonces : ~(n < 0)
    BY WidthAssumption DEF Nonces
  <2> QED  BY <1>2, <2>1, <2>2 DEF Created, Numbered
<1>3. CASE AddressSet
  BY <1>3 DEF AddressSet, Numbered
<1>4. CASE MintAdded
  <2>1. PICK n \in Nonces, k \in Keys, m \in Amounts, a \in BtcAddresses, t \in BtcTxIds :
          /\ n = factory_store.mint_request_counter
          /\ n < U64Max
          /\ mint_requests' = [mint_requests EXCEPT ![n] =
                                  NewRequest("Mint", k, m, a, t, n)]
    BY <1>4 DEF MintAdded
  <2> DEFINE r == NewRequest("Mint", k, m, a, t, n)
  <2>2. /\ r \in RequestAccount
        /\ r.nonce = n /\ r.request_type = "Mint"
    BY NewRequestType DEF NewRequest, RequestType
  <2>3. /\ factory_store # NoAccount /\ factory_store' # NoAccount
        /\ factory_store'.mint_request_counter = n + 1
        /\ factory_store'.burn_request_counter = factory_store.burn_request_counter
    BY <1>0, <1>4, <2>1, CounterType, NotMissing
    DEF MintAdded, ControllerResolved, FactoryStore
  <2> HIDE DEF r
  <2>4. Numbered(mint_requests', "Mint", n + 1)
    BY <1>0, <2>1, <2>2, <2>3, NumberingGrows DEF FactoryType, r
  <2> QED  BY <1>4, <2>3, <2>4 DEF MintAdded, Numbered
<1>5. CASE BurnAdded
  <2>1. PICK n \in Nonces, k \in Keys, m \in Amounts, a \in BtcAddresses :
          /\ n = factory_store.burn_request_counter
          /\ n < U64Max
          /\ burn_requests' = [burn_requests EXCEPT ![n] =
                                  NewRequest("Burn", k, m, a, EmptyString, n)]
    BY <1>5 DEF BurnAdded
  <2> DEFINE r == NewRequest("Burn", k, m, a, EmptyString, n)
  <2>2. /\ r \in RequestAccount
        /\ r.nonce = n /\ r.request_type = "Burn"
    BY NewRequestType, EmptyIsTxId DEF NewRequest, RequestType
  <2>3. /\ factory_store # NoAccount /\ factory_store' # NoAccount
        /\ factory_store'.burn_request_counter = n + 1
        /\ factory_store'.mint_request_counter = factory_store.mint_request_counter
    BY <1>0, <1>5, <2>1, CounterType, NotMissing
    DEF BurnAdded, ControllerResolved, FactoryStore
  <2> HIDE DEF r
  <2>4. Numbered(burn_requests', "Burn", n + 1)
    BY <1>0, <2>1, <2>2, <2>3, NumberingGrows DEF FactoryType, r
  <2> QED  BY <1>5, <2>3, <2>4 DEF BurnAdded, Numbered
<1>6. CASE MintSettled
  <2>1. PICK n \in Nonces, x \in RequestStatus :
          /\ mint_requests[n] # NoAccount
          /\ mint_requests' = [mint_requests EXCEPT ![n].status = x]
    BY <1>6 DEF MintSettled
  <2>0. mint_requests[n] \in RequestAccount
    BY <1>0, <2>1 DEF FactoryType, Existing
  <2> DEFINE q == [mint_requests[n] EXCEPT !.status = x]
  <2>2. /\ q \in RequestAccount
        /\ q.nonce = mint_requests[n].nonce
        /\ q.request_type = mint_requests[n].request_type
    BY <1>0, <2>1, <2>0, SettledType, EmptyIsTxId
  <2>3. factory_store # NoAccount
    BY <2>1
  <2> HIDE DEF q
  <2>4. Numbered([mint_requests EXCEPT ![n] = q], "Mint", factory_store.mint_request_counter)
    BY <1>0, <2>1, <2>2, <2>3, NumberingStays DEF FactoryType
  <2>5. mint_requests' = [mint_requests EXCEPT ![n] = q]
    BY <2>1 DEF q
  <2>6. UNCHANGED factory_store
    BY <1>6 DEF MintSettled
  <2>7. Numbered(burn_requests', "Burn", factory_store'.burn_request_counter)
    BY <1>6, <2>3, <2>6 DEF MintSettled
  <2>8. Numbered(mint_requests', "Mint", factory_store'.mint_request_counter)
    BY <2>4, <2>5, <2>6
  <2> QED  BY <2>3, <2>6, <2>7, <2>8
<1>7. CASE BurnSettled
  <2>1. PICK n \in Nonces, t \in BtcTxIds :
          /\ burn_requests[n] # NoAccount
          /\ burn_requests' = [burn_requests EXCEPT ![n] =
                                  [@ EXCEPT !.btc_txid = t, !.status = "Approved"]]
    BY <1>7 DEF BurnSettled
  <2>0. burn_requests[n] \in RequestAccount
    BY <1>0, <2>1 DEF FactoryType, Existing
  <2> DEFINE q == [burn_requests[n] EXCEPT !.btc_txid = t, !.status = "Approved"]
  <2>2. /\ q \in RequestAccount
        /\ q.nonce = burn_requests[n].nonce
        /\ q.request_type = burn_requests[n].request_type
    BY <2>0 DEF RequestAccount, RequestStatus
  <2>3. factory_store # NoAccount
    BY <2>1
  <2> HIDE DEF q
  <2>4. Numbered([burn_requests EXCEPT ![n] = q], "Burn", factory_store.burn_request_counter)
    BY <1>0, <2>1, <2>2, <2>3, NumberingStays DEF FactoryType
  <2>5. burn_requests' = [burn_requests EXCEPT ![n] = q]
    BY <2>1 DEF q
  <2>6. UNCHANGED factory_store
    BY <1>7 DEF BurnSettled
  <2>7. Numbered(mint_requests', "Mint", factory_store'.mint_request_counter)
    BY <1>7, <2>3, <2>6 DEF BurnSettled
  <2>8. Numbered(burn_requests', "Burn", factory_store'.burn_request_counter)
    BY <2>4, <2>5, <2>6
  <2> QED  BY <2>3, <2>6, <2>7, <2>8
<1> QED  BY <1>1, <1>2, <1>3, <1>4, <1>5, <1>6, <1>7, Shapes

\* The request accounts of each type are exactly those of the nonces below its
\* counter: a new request never meets an existing account, nor skips a nonce.
THEOREM RequestsAreNumbered == Spec => []RequestsFillCounters
<1>1. Init => TypeOK /\ RequestsFillCounters
  BY TypeInit, CountersInit
<1>2. TypeOK /\ RequestsFillCounters /\ [Next]_vars
        => (TypeOK /\ RequestsFillCounters)'
  BY TypeStep, CountersStep
<1> QED  BY <1>1, <1>2, PTL DEF Spec

-----------------------------------------------------------------------------
(* A factory wired to anything but the controller stays inert              *)

LEMMA InertInit == Init => MiswiredFactoryIsInert
  BY DEF Init, MiswiredFactoryIsInert

LEMMA InertStep ==
  ASSUME TypeOK, MiswiredFactoryIsInert, [Next]_vars
  PROVE  MiswiredFactoryIsInert'
<1> USE DEF MiswiredFactoryIsInert
<1>0. FactoryType
  BY DEF TypeOK, FactoryType
<1>1. CASE Idle
  BY <1>1 DEF Idle, factoryVars
<1>2. CASE Created
  BY <1>2 DEF Created, addressVars
<1>3. CASE AddressSet
  BY <1>3 DEF AddressSet, ControllerResolved
<1>4. CASE MintAdded
  <2>1. factory_store # NoAccount /\ factory_store.controller = ControllerId
    BY <1>4 DEF MintAdded, ControllerResolved
  <2>2. factory_store' \in FactoryStore /\ factory_store'.controller = ControllerId
    BY <1>0, <1>4, <2>1, CounterType DEF MintAdded, FactoryStore
  <2> QED  BY <2>2, NotMissing
<1>5. CASE BurnAdded
  <2>1. factory_store # NoAccount /\ factory_store.controller = ControllerId
    BY <1>5 DEF BurnAdded, ControllerResolved
  <2>2. factory_store' \in FactoryStore /\ factory_store'.controller = ControllerId
    BY <1>0, <1>5, <2>1, CounterType DEF BurnAdded, FactoryStore
  <2> QED  BY <2>2, NotMissing
<1>6. CASE MintSettled
  BY <1>6 DEF MintSettled
<1>7. CASE BurnSettled
  BY <1>7 DEF BurnSettled
<1> QED  BY <1>1, <1>2, <1>3, <1>4, <1>5, <1>6, <1>7, Shapes

\* initialize takes any controller, and nothing replaces it: a factory that was
\* given another program than the controller never holds an address or a
\* request, however the other two programs are configured.
THEOREM MiswiredStaysInert == Spec => []MiswiredFactoryIsInert
<1>1. Init => TypeOK /\ MiswiredFactoryIsInert
  BY TypeInit, InertInit
<1>2. TypeOK /\ MiswiredFactoryIsInert /\ [Next]_vars
        => (TypeOK /\ MiswiredFactoryIsInert)'
  BY TypeStep, InertStep
<1> QED  BY <1>1, <1>2, PTL DEF Spec

-----------------------------------------------------------------------------
(* The hash pins the terms                                                 *)

\* HashPinsTerms of one request. The hash of a burn was computed when it had
\* no txid, and so was that of a mint over the txid it keeps.
MintPinned(r) == r # NoAccount => r.hash = HashOf(r, r.btc_txid)
BurnPinned(r) == r # NoAccount => r.hash = HashOf(r, EmptyString)

LEMMA NewIsPinned ==
  ASSUME NEW type, NEW k, NEW m, NEW a, NEW t, NEW n
  PROVE  LET r == NewRequest(type, k, m, a, t, n) IN r.hash = HashOf(r, t)
  BY DEF NewRequest, HashOf

\* A settled request has the fields its hash is computed from.
LEMMA SettledIsPinned ==
  ASSUME NEW r \in RequestAccount, NEW q \in RequestAccount, NEW t,
         r.hash = HashOf(r, t),
         q.requester = r.requester, q.amount = r.amount, q.nonce = r.nonce,
         q.btc_deposit_address = r.btc_deposit_address, q.hash = r.hash
  PROVE  q.hash = HashOf(q, t)
  BY DEF HashOf

LEMMA PinnedStep ==
  ASSUME TypeOK, HashPinsTerms, [Next]_vars
  PROVE  HashPinsTerms'
<1>0. FactoryType /\ \A n \in Nonces : MintPinned(mint_requests[n]) /\ BurnPinned(burn_requests[n])
  BY DEF TypeOK, FactoryType, HashPinsTerms, MintPinned, BurnPinned
<1> SUFFICES \A n \in Nonces :
                MintPinned(mint_requests'[n]) /\ BurnPinned(burn_requests'[n])
  BY DEF HashPinsTerms, MintPinned, BurnPinned, HashOf, calculate_hash
<1>1. CASE UNCHANGED <<mint_requests, burn_requests>>
  BY <1>0, <1>1
<1>2. CASE MintAdded
  <2>1. PICK n \in Nonces, k \in Keys, m \in Amounts, a \in BtcAddresses, t \in BtcTxIds :
          mint_requests' = [mint_requests EXCEPT ![n] = NewRequest("Mint", k, m, a, t, n)]
    BY <1>2 DEF MintAdded
  <2> DEFINE r == NewRequest("Mint", k, m, a, t, n)
  <2>2. r.hash = HashOf(r, t) /\ r.btc_txid = t
    BY NewIsPinned DEF NewRequest
  <2> HIDE DEF r
  <2>3. MintPinned(r)
    BY <2>2 DEF MintPinned
  <2>4. mint_requests' = [mint_requests EXCEPT ![n] = r]
    BY <2>1 DEF r
  <2> QED  BY <1>0, <1>2, <2>3, <2>4 DEF MintAdded, FactoryType
<1>3. CASE BurnAdded
  <2>1. PICK n \in Nonces, k \in Keys, m \in Amounts, a \in BtcAddresses :
          burn_requests' = [burn_requests EXCEPT ![n] =
                               NewRequest("Burn", k, m, a, EmptyString, n)]
    BY <1>3 DEF BurnAdded
  <2> DEFINE r == NewRequest("Burn", k, m, a, EmptyString, n)
  <2>2. r.hash = HashOf(r, EmptyString)
    BY NewIsPinned
  <2> HIDE DEF r
  <2>3. BurnPinned(r)
    BY <2>2 DEF BurnPinned
  <2>4. burn_requests' = [burn_requests EXCEPT ![n] = r]
    BY <2>1 DEF r
  <2> QED  BY <1>0, <1>3, <2>3, <2>4 DEF BurnAdded, FactoryType
<1>4. CASE MintSettled
  <2>1. PICK n \in Nonces, x \in RequestStatus :
          /\ mint_requests[n] # NoAccount
          /\ mint_requests' = [mint_requests EXCEPT ![n].status = x]
    BY <1>4 DEF MintSettled
  <2> DEFINE r == mint_requests[n]
             q == [r EXCEPT !.status = x]
  <2>2. r \in RequestAccount
    BY <1>0, <2>1 DEF FactoryType, Existing
  <2>3. /\ q \in RequestAccount
        /\ q.requester = r.requester /\ q.amount = r.amount /\ q.nonce = r.nonce
        /\ q.btc_deposit_address = r.btc_deposit_address /\ q.hash = r.hash
        /\ q.btc_txid = r.btc_txid
    BY <2>2, SettledType, EmptyIsTxId
  <2>4. r.hash = HashOf(r, r.btc_txid)
    BY <1>0, <2>1 DEF MintPinned
  <2>5. mint_requests' = [mint_requests EXCEPT ![n] = q]
    BY <2>1
  <2> HIDE DEF q
  <2>6. MintPinned(q)
    BY <2>2, <2>3, <2>4, SettledIsPinned DEF MintPinned
  <2> QED  BY <1>0, <1>4, <2>5, <2>6 DEF MintSettled, FactoryType
<1>5. CASE BurnSettled
  <2>1. PICK n \in Nonces, t \in BtcTxIds :
          /\ burn_requests[n] # NoAccount
          /\ burn_requests' = [burn_requests EXCEPT ![n] =
                                  [@ EXCEPT !.btc_txid = t, !.status = "Approved"]]
    BY <1>5 DEF BurnSettled
  <2> DEFINE r == burn_requests[n]
             q == [r EXCEPT !.btc_txid = t, !.status = "Approved"]
  <2>2. r \in RequestAccount
    BY <1>0, <2>1 DEF FactoryType, Existing
  <2>3. /\ q \in RequestAccount
        /\ q.requester = r.requester /\ q.amount = r.amount /\ q.nonce = r.nonce
        /\ q.btc_deposit_address = r.btc_deposit_address /\ q.hash = r.hash
    BY <2>2 DEF RequestAccount, RequestStatus
  <2>4. r.hash = HashOf(r, EmptyString)
    BY <1>0, <2>1 DEF BurnPinned
  <2>5. burn_requests' = [burn_requests EXCEPT ![n] = q]
    BY <2>1
  <2> HIDE DEF q
  <2>6. BurnPinned(q)
    BY <2>2, <2>3, <2>4, SettledIsPinned DEF BurnPinned
  <2> QED  BY <1>0, <1>5, <2>5, <2>6 DEF BurnSettled, FactoryType
<1> QED  BY <1>1, <1>2, <1>3, <1>4, <1>5, Shapes
         DEF Idle, Created, AddressSet, factoryVars

\* Whatever deposit addresses, roles and configuration become, the hash kept in
\* a request stays the hash of its terms.
THEOREM HashesPinTerms == Spec => []HashPinsTerms
<1>1. Init => TypeOK /\ HashPinsTerms
  BY TypeInit DEF Init, HashPinsTerms
<1>2. TypeOK /\ HashPinsTerms /\ [Next]_vars => (TypeOK /\ HashPinsTerms)'
  BY TypeStep, PinnedStep
<1> QED  BY <1>1, <1>2, PTL DEF Spec

-----------------------------------------------------------------------------
(* Requests are settled once, and keep their terms                         *)

LEMMA FixedSame == \A r : r # NoAccount => Fixed(r, r)
  BY DEF Fixed

LEMMA FixedStep ==
  ASSUME TypeOK, [Next]_vars, NEW n \in Nonces
  PROVE  /\ mint_requests[n] # NoAccount => Fixed(mint_requests[n], mint_requests'[n])
         /\ burn_requests[n] # NoAccount => Fixed(burn_requests[n], burn_requests'[n])
<1>0. FactoryType
  BY DEF TypeOK, FactoryType
<1>1. CASE UNCHANGED <<mint_requests, burn_requests>>
  BY <1>1, FixedSame
<1>2. CASE MintAdded
  BY <1>0, <1>2, FixedSame DEF MintAdded, FactoryType
<1>3. CASE BurnAdded
  BY <1>0, <1>3, FixedSame DEF BurnAdded, FactoryType
<1>4. CASE MintSettled
  <2>1. PICK i \in Nonces, x \in RequestStatus :
          /\ mint_requests[i] # NoAccount
          /\ mint_requests[i].status = "Pending"
          /\ mint_requests' = [mint_requests EXCEPT ![i].status = x]
    BY <1>4 DEF MintSettled
  <2> DEFINE r == mint_requests[i]
             q == [r EXCEPT !.status = x]
  <2>2. r \in RequestAccount
    BY <1>0, <2>1 DEF FactoryType, Existing
  <2>3. /\ q \in RequestAccount
        /\ q.requester = r.requester /\ q.amount = r.amount /\ q.nonce = r.nonce
        /\ q.btc_deposit_address = r.btc_deposit_address /\ q.hash = r.hash
        /\ q.btc_txid = r.btc_txid
    BY <2>2, SettledType, EmptyIsTxId
  <2>4. mint_requests' = [mint_requests EXCEPT ![i] = q]
    BY <2>1
  <2> HIDE DEF q
  <2>5. Fixed(r, q)
    BY <2>1, <2>3, NotMissing DEF Fixed
  <2> QED  BY <1>0, <1>4, <2>4, <2>5, FixedSame DEF MintSettled, FactoryType
<1>5. CASE BurnSettled
  <2>1. PICK i \in Nonces, t \in BtcTxIds :
          /\ burn_requests[i] # NoAccount
          /\ burn_requests[i].request_type = "Burn"
          /\ burn_requests[i].status = "Pending"
          /\ burn_requests' = [burn_requests EXCEPT ![i] =
                                  [@ EXCEPT !.btc_txid = t, !.status = "Approved"]]
    BY <1>5 DEF BurnSettled
  <2> DEFINE r == burn_requests[i]
             q == [r EXCEPT !.btc_txid = t, !.status = "Approved"]
  <2>2. r \in RequestAccount
    BY <1>0, <2>1 DEF FactoryType, Existing
  <2>3. /\ q \in RequestAccount /\ q.status = "Approved"
        /\ q.requester = r.requester /\ q.amount = r.amount /\ q.nonce = r.nonce
        /\ q.btc_deposit_address = r.btc_deposit_address /\ q.hash = r.hash
    BY <2>2 DEF RequestAccount, RequestStatus
  <2>4. burn_requests' = [burn_requests EXCEPT ![i] = q]
    BY <2>1
  <2> HIDE DEF q
  <2>5. Fixed(r, q)
    BY <2>1, <2>3, NotMissing DEF Fixed
  <2> QED  BY <1>0, <1>5, <2>4, <2>5, FixedSame DEF BurnSettled, FactoryType
<1> QED  BY <1>1, <1>2, <1>3, <1>4, <1>5, Shapes
         DEF Idle, Created, AddressSet, factoryVars

\* A pending request keeps its terms whatever happens around it, a settled one
\* changes no more, and only confirming a burn writes a txid.
THEOREM RequestTermsAreFixed == Spec => TermsAreFixed
<1>1. TypeOK /\ [Next]_vars =>
        [ \A n \in Nonces :
            /\ mint_requests[n] # NoAccount => Fixed(mint_requests[n], mint_requests'[n])
            /\ burn_requests[n] # NoAccount => Fixed(burn_requests[n], burn_requests'[n])
        ]_vars
  BY FixedStep
<1> QED  BY <1>1, SystemTypeCorrect, PTL DEF Spec, TermsAreFixed

-----------------------------------------------------------------------------
(* Withdrawing a pending mint request                                      *)

LEMMA Withdrawable ==
  ASSUME RequestsFillCounters
  PROVE  PendingMintsCanBeCanceled
<1> SUFFICES ASSUME NEW n \in Nonces, mint_requests[n] # NoAccount,
                    mint_requests[n].status = "Pending"
             PROVE  CanCancelMintRequest(mint_requests[n].requester, n,
                                         mint_requests[n].hash)
  BY DEF PendingMintsCanBeCanceled
<1>1. factory_store # NoAccount
  BY DEF RequestsFillCounters
<1>2. mint_requests[n].nonce = n /\ mint_requests[n].request_type = "Mint"
  BY <1>1 DEF RequestsFillCounters, Numbered
<1> QED  BY <1>1, <1>2 DEF CanCancelMintRequest, IsPending

\* Nothing the owners, the custodian or other merchants do takes from the
\* requester of a pending mint request the means to withdraw it: the account it
\* is in is always the one its nonce leads to, under the hash it was made with.
THEOREM PendingMintsWithdrawable == Spec => []PendingMintsCanBeCanceled
  BY Withdrawable, RequestsAreNumbered, PTL

-----------------------------------------------------------------------------
(* Factory implements IssuanceBook: each step of the three programs is one *)
(* entry in the books, a movement off the books, a change of configuration,*)
(* or nothing. The one strengthening it takes is RequestsFillCounters: the *)
(* account of the counter is the first unused line of its book.            *)

Lines(requests) == [n \in Nonces |-> Entry(requests[n])]

LEMMA LineInUse ==
  ASSUME NEW r \in RequestAccount
  PROVE  /\ r # NoAccount
         /\ Entry(r) \in BookEntry /\ Entry(r) # NoAccount
         /\ Entry(r).status = r.status
         /\ Entry(r).requester = r.requester /\ Entry(r).amount = r.amount
<1>1. r # NoAccount
  BY NotMissing
<1>2. Entry(r) = [requester |-> r.requester, amount |-> r.amount, status |-> r.status]
  BY <1>1 DEF Entry
<1>3. Entry(r) \in BookEntry
  BY <1>2 DEF RequestAccount, BookEntry
<1> QED  BY <1>1, <1>2, <1>3, StoreAssumption

\* Where the accounts stop, so do the lines.
LEMMA NextLineIsFree ==
  ASSUME NEW requests \in [Nonces -> Existing(RequestAccount)], NEW type,
         NEW n \in Nonces, Numbered(requests, type, n)
  PROVE  Book!NextLine(Lines(requests), n)
<1>1. ASSUME NEW m \in Nonces
      PROVE  Lines(requests)[m] # NoAccount <=> m < n
  <2>1. CASE requests[m] = NoAccount
    BY <2>1 DEF Lines, Entry, Numbered
  <2>2. CASE requests[m] # NoAccount
    <3>1. requests[m] \in RequestAccount
      BY <2>2 DEF Existing
    <3> QED  BY <2>2, <3>1, LineInUse DEF Lines, Numbered
  <2> QED  BY <2>1, <2>2
<1> QED  BY <1>1 DEF Book!NextLine

\* Writing one account is writing one line.
LEMMA LineWritten ==
  ASSUME NEW requests \in [Nonces -> Existing(RequestAccount)],
         NEW n \in Nonces, NEW r
  PROVE  Lines([requests EXCEPT ![n] = r]) = [Lines(requests) EXCEPT ![n] = Entry(r)]
  BY DEF Lines

LEMMA NewLine ==
  ASSUME NEW type \in RequestType, NEW k \in Keys, NEW m \in Amounts,
         NEW a \in BtcAddresses, NEW t \in BtcTxIds, NEW n \in Nonces
  PROVE  Entry(NewRequest(type, k, m, a, t, n)) = Book!Entry(k, m)
<1> DEFINE r == NewRequest(type, k, m, a, t, n)
<1>1. r # NoAccount
  BY NewRequestType, NotMissing
<1>2. r.requester = k /\ r.amount = m /\ r.status = "Pending"
  BY DEF NewRequest
<1> HIDE DEF r
<1>3. Entry(r) = Book!Entry(k, m)
  BY <1>1, <1>2 DEF Entry, Book!Entry
<1> QED  BY <1>3 DEF r

\* The line of a request spells it out, so that settling the request is
\* writing the outcome on its line.
LEMMA LineReads ==
  ASSUME NEW requests \in [Nonces -> Existing(RequestAccount)], NEW n \in Nonces,
         requests[n] # NoAccount
  PROVE  /\ Lines(requests)[n] # NoAccount
         /\ Lines(requests)[n] = [requester |-> requests[n].requester,
                                  amount |-> requests[n].amount,
                                  status |-> requests[n].status]
<1>1. requests[n] \in RequestAccount
  BY DEF Existing
<1>2. Lines(requests)[n] = Entry(requests[n])
  BY DEF Lines
<1> QED  BY <1>1, <1>2, LineInUse DEF Entry

LEMMA EntryReads ==
  ASSUME NEW q \in RequestAccount
  PROVE  Entry(q) = [requester |-> q.requester, amount |-> q.amount, status |-> q.status]
  BY NotMissing DEF Entry

-----------------------------------------------------------------------------
(* Steps                                                                   *)

\* An account that is not touched leaves its book alone.
LEMMA SameLines ==
  /\ UNCHANGED mint_requests => UNCHANGED Lines(mint_requests)
  /\ UNCHANGED burn_requests => UNCHANGED Lines(burn_requests)
  BY DEF Lines

\* The issuer is the factory as long as nobody touches the configuration.
LEMMA SameIssuer ==
  UNCHANGED <<controller_store, mint_authority>> => UNCHANGED FactoryIsIssuer
  BY DEF FactoryIsIssuer

LEMMA AnyIssuer == FactoryIsIssuer \in BOOLEAN /\ FactoryIsIssuer' \in BOOLEAN
  BY DEF FactoryIsIssuer

LEMMA AddMintStep ==
  ASSUME TypeOK, RequestsFillCounters, MintAdded,
         UNCHANGED <<controller_store, tokenVars>>
  PROVE  \E n \in Nonces : Book!RequestMint(n)
<1>0. FactoryType
  BY DEF TypeOK, FactoryType
<1>1. PICK n \in Nonces, k \in Keys, m \in Amounts, a \in BtcAddresses, t \in BtcTxIds :
        /\ n = factory_store.mint_request_counter
        /\ mint_requests' = [mint_requests EXCEPT ![n] = NewRequest("Mint", k, m, a, t, n)]
  BY DEF MintAdded
<1>2. Book!NextLine(Lines(mint_requests), n)
  <2>1. Numbered(mint_requests, "Mint", n)
    BY <1>1 DEF RequestsFillCounters, MintAdded, ControllerResolved
  <2> QED  BY <1>0, <2>1, NextLineIsFree DEF FactoryType
<1>3. Lines(mint_requests') = [Lines(mint_requests) EXCEPT ![n] = Book!Entry(k, m)]
  <2> DEFINE r == NewRequest("Mint", k, m, a, t, n)
  <2>1. Entry(r) = Book!Entry(k, m)
    BY NewLine DEF RequestType
  <2>2. mint_requests' = [mint_requests EXCEPT ![n] = r]
    BY <1>1
  <2> HIDE DEF r
  <2>3. Lines([mint_requests EXCEPT ![n] = r]) = [Lines(mint_requests) EXCEPT ![n] = Entry(r)]
    BY <1>0, LineWritten DEF FactoryType
  <2> QED  BY <2>1, <2>2, <2>3, Zenon
<1>4. UNCHANGED <<Lines(burn_requests), supply, balance, FactoryIsIssuer>>
  BY SameLines, SameIssuer DEF MintAdded, tokenVars
<1>5. Book!RequestMint(n)
  BY <1>2, <1>3, <1>4 DEF Book!RequestMint, Lines
<1> QED  BY <1>5

LEMMA BurnStep ==
  ASSUME TypeOK, RequestsFillCounters, BurnAdded, UNCHANGED controller_store
  PROVE  \E n \in Nonces : Book!Redeem(n)
<1>0. FactoryType
  BY DEF TypeOK, FactoryType
<1>1. PICK n \in Nonces, k \in Keys, m \in Amounts \ {0}, a \in BtcAddresses :
        /\ n = factory_store.burn_request_counter
        /\ burn_requests' = [burn_requests EXCEPT ![n] =
                                NewRequest("Burn", k, m, a, EmptyString, n)]
        /\ Token!BurnChecked(k, m)
  BY DEF BurnAdded
<1>2. Book!NextLine(Lines(burn_requests), n)
  <2>1. Numbered(burn_requests, "Burn", n)
    BY <1>1 DEF RequestsFillCounters, BurnAdded, ControllerResolved
  <2> QED  BY <1>0, <2>1, NextLineIsFree DEF FactoryType
<1>3. Lines(burn_requests') = [Lines(burn_requests) EXCEPT ![n] = Book!Entry(k, m)]
  <2> DEFINE r == NewRequest("Burn", k, m, a, EmptyString, n)
  <2>1. Entry(r) = Book!Entry(k, m)
    BY NewLine, EmptyIsTxId DEF RequestType
  <2>2. burn_requests' = [burn_requests EXCEPT ![n] = r]
    BY <1>1
  <2> HIDE DEF r
  <2>3. Lines([burn_requests EXCEPT ![n] = r]) = [Lines(burn_requests) EXCEPT ![n] = Entry(r)]
    BY <1>0, LineWritten DEF FactoryType
  <2> QED  BY <2>1, <2>2, <2>3, Zenon
<1>4. /\ m <= balance[k]
      /\ supply' = supply - m
      /\ balance' = [balance EXCEPT ![k] = @ - m]
      /\ UNCHANGED mint_authority
  BY <1>1 DEF Token!BurnChecked, Token!CanBurnChecked
<1>5. UNCHANGED <<Lines(mint_requests), FactoryIsIssuer>>
  BY <1>4, SameLines, SameIssuer DEF BurnAdded
<1>6. Book!Redeem(n)
  BY <1>2, <1>3, <1>4, <1>5 DEF Book!Redeem, Lines
<1> QED  BY <1>6

\* Cancel and reject.
LEMMA DropStep ==
  ASSUME TypeOK, NEW n \in Nonces, NEW x \in {"Canceled", "Rejected"},
         mint_requests[n] # NoAccount, mint_requests[n].status = "Pending",
         mint_requests' = [mint_requests EXCEPT ![n].status = x],
         UNCHANGED <<controller_store, tokenVars, burn_requests>>
  PROVE  Book!DropMint(n)
<1>0. mint_requests \in [Nonces -> Existing(RequestAccount)]
  BY DEF TypeOK
<1> DEFINE r == mint_requests[n]
           q == [r EXCEPT !.status = x]
<1>1. r \in RequestAccount
  BY <1>0 DEF Existing
<1>2. /\ q \in RequestAccount /\ q.status = x
      /\ q.requester = r.requester /\ q.amount = r.amount
  BY <1>1 DEF RequestAccount, RequestStatus
<1>3. mint_requests' = [mint_requests EXCEPT ![n] = q]
  OBVIOUS
<1> HIDE DEF q
<1>4. /\ Lines(mint_requests)[n] # NoAccount
      /\ Lines(mint_requests)[n] = [requester |-> r.requester, amount |-> r.amount,
                                    status |-> "Pending"]
  BY <1>0, LineReads
<1>5. Lines(mint_requests') = [Lines(mint_requests) EXCEPT ![n].status = x]
  <2>1. Lines([mint_requests EXCEPT ![n] = q]) = [Lines(mint_requests) EXCEPT ![n] = Entry(q)]
    BY <1>0, LineWritten
  <2>2. Entry(q) = [requester |-> r.requester, amount |-> r.amount, status |-> x]
    BY <1>2, EntryReads
  <2>3. Entry(q) = [Lines(mint_requests)[n] EXCEPT !.status = x]
    BY <1>4, <2>2
  <2> QED  BY <1>3, <2>1, <2>3, Zenon
<1>6. UNCHANGED <<Lines(burn_requests), supply, balance, FactoryIsIssuer>>
  BY SameLines, SameIssuer DEF tokenVars
<1>7. Book!Settle(Lines(mint_requests), n, x)
  BY <1>4, <1>5 DEF Book!Settle
<1> QED  BY <1>6, <1>7 DEF Book!DropMint, Lines

LEMMA ConfirmStep ==
  ASSUME TypeOK, NEW signer, NEW n \in Nonces, NEW h,
         ConfirmMintRequest(signer, n, h)
  PROVE  Book!Issue(n)
<1>0. mint_requests \in [Nonces -> Existing(RequestAccount)]
  BY DEF TypeOK
<1> DEFINE r == mint_requests[n]
           q == [r EXCEPT !.status = "Approved"]
<1>1. r \in RequestAccount /\ r # NoAccount /\ r.status = "Pending"
  BY <1>0 DEF Existing, ConfirmMintRequest, CanConfirmMintRequest, IsPending
<1>2. /\ q \in RequestAccount /\ q.status = "Approved"
      /\ q.requester = r.requester /\ q.amount = r.amount
  BY <1>1, SettledType, EmptyIsTxId DEF RequestStatus
<1>3. mint_requests' = [mint_requests EXCEPT ![n] = q]
  BY DEF ConfirmMintRequest, CanConfirmMintRequest
<1> HIDE DEF q
<1>4. /\ Lines(mint_requests)[n] # NoAccount
      /\ Lines(mint_requests)[n] = [requester |-> r.requester, amount |-> r.amount,
                                    status |-> "Pending"]
  BY <1>0, <1>1, LineReads
<1>5. Lines(mint_requests') = [Lines(mint_requests) EXCEPT ![n].status = "Approved"]
  <2>1. Lines([mint_requests EXCEPT ![n] = q]) = [Lines(mint_requests) EXCEPT ![n] = Entry(q)]
    BY <1>0, LineWritten
  <2>2. Entry(q) = [requester |-> r.requester, amount |-> r.amount, status |-> "Approved"]
    BY <1>2, EntryReads
  <2>3. Entry(q) = [Lines(mint_requests)[n] EXCEPT !.status = "Approved"]
    BY <1>4, <2>2
  <2> QED  BY <1>3, <2>1, <2>3, Zenon
<1>6. /\ FactoryIsIssuer
      /\ supply' = supply + r.amount
      /\ balance' = [balance EXCEPT ![r.requester] = @ + r.amount]
      /\ UNCHANGED <<controller_store, mint_authority>>
  BY DEF ConfirmMintRequest, CanConfirmMintRequest, Controller!Mint,
         Controller!CanMint, Controller!Token!MintTo, Controller!Token!CanMintTo,
         FactoryIsIssuer
<1>7. UNCHANGED <<Lines(burn_requests), FactoryIsIssuer>>
  BY <1>6, SameLines, SameIssuer DEF ConfirmMintRequest, CanConfirmMintRequest
<1>8. Book!Settle(Lines(mint_requests), n, "Approved")
  BY <1>4, <1>5 DEF Book!Settle
<1>9. /\ supply' = supply + Lines(mint_requests)[n].amount
      /\ balance' = [balance EXCEPT ![Lines(mint_requests)[n].requester] =
                                    @ + Lines(mint_requests)[n].amount]
  BY <1>4, <1>6
<1> QED  BY <1>6, <1>7, <1>8, <1>9 DEF Book!Issue, Lines

LEMMA PayOutStep ==
  ASSUME TypeOK, BurnSettled, UNCHANGED <<controller_store, tokenVars>>
  PROVE  \E n \in Nonces : Book!PayOut(n)
<1>0. burn_requests \in [Nonces -> Existing(RequestAccount)]
  BY DEF TypeOK
<1>1. PICK n \in Nonces, t \in BtcTxIds :
        /\ burn_requests[n] # NoAccount
        /\ burn_requests[n].status = "Pending"
        /\ burn_requests' = [burn_requests EXCEPT ![n] =
                                [@ EXCEPT !.btc_txid = t, !.status = "Approved"]]
  BY DEF BurnSettled
<1> DEFINE r == burn_requests[n]
           q == [r EXCEPT !.btc_txid = t, !.status = "Approved"]
<1>2. r \in RequestAccount
  BY <1>0, <1>1 DEF Existing
<1>3. /\ q \in RequestAccount /\ q.status = "Approved"
      /\ q.requester = r.requester /\ q.amount = r.amount
  BY <1>2 DEF RequestAccount, RequestStatus
<1>4. burn_requests' = [burn_requests EXCEPT ![n] = q]
  BY <1>1
<1> HIDE DEF q
<1>5. /\ Lines(burn_requests)[n] # NoAccount
      /\ Lines(burn_requests)[n] = [requester |-> r.requester, amount |-> r.amount,
                                    status |-> "Pending"]
  BY <1>0, <1>1, LineReads
<1>6. Lines(burn_requests') = [Lines(burn_requests) EXCEPT ![n].status = "Approved"]
  <2>1. Lines([burn_requests EXCEPT ![n] = q]) = [Lines(burn_requests) EXCEPT ![n] = Entry(q)]
    BY <1>0, LineWritten
  <2>2. Entry(q) = [requester |-> r.requester, amount |-> r.amount, status |-> "Approved"]
    BY <1>3, EntryReads
  <2>3. Entry(q) = [Lines(burn_requests)[n] EXCEPT !.status = "Approved"]
    BY <1>5, <2>2
  <2> QED  BY <1>4, <2>1, <2>3, Zenon
<1>7. UNCHANGED <<Lines(mint_requests), supply, balance, FactoryIsIssuer>>
  BY SameLines, SameIssuer DEF BurnSettled, tokenVars
<1>8. Book!PayOut(n)
  BY <1>5, <1>7, <1>6 DEF Book!PayOut, Book!Settle, Lines
<1> QED  BY <1>8

\* Wallets do not issue while the controller's PDA is the mint authority.
LEMMA WalletStep ==
  ASSUME TypeOK, NEW k \in Keys, WalletInstruction(k)
  PROVE  Book!OffTheBooks \/ Book!Reconfigure
<1>0. UNCHANGED <<Lines(mint_requests), Lines(burn_requests)>> /\ UNCHANGED controller_store
  BY SameLines DEF WalletInstruction, factoryVars
<1>1. supply \in Int
  BY WidthAssumption DEF TypeOK, Controller!TypeOK, Controller!Token!TypeOK
<1>2. ASSUME NEW new_authority, Token!SetAuthority(k, new_authority)
      PROVE  Book!Reconfigure
  BY <1>0, <1>2, AnyIssuer DEF Token!SetAuthority, Book!Reconfigure, Lines
<1>3. ASSUME NEW m \in 1..U64Max, Token!BurnChecked(k, m)
      PROVE  Book!OffTheBooks
  <2>1. supply' <= supply /\ UNCHANGED mint_authority
    BY <1>1, <1>3 DEF Token!BurnChecked, Token!CanBurnChecked
  <2> QED  BY <1>0, <2>1, SameIssuer DEF Book!OffTheBooks, Lines
<1>4. ASSUME NEW m \in 1..U64Max, NEW to \in Keys, Token!Transfer(k, to, m)
      PROVE  Book!OffTheBooks
  <2>1. supply' <= supply /\ UNCHANGED mint_authority
    BY <1>1, <1>4 DEF Token!Transfer
  <2> QED  BY <1>0, <2>1, SameIssuer DEF Book!OffTheBooks, Lines
<1>5. ASSUME NEW m \in 1..U64Max, NEW to \in Keys, Token!MintTo(k, to, m)
      PROVE  Book!OffTheBooks
  <2>1. ~FactoryIsIssuer /\ UNCHANGED mint_authority
    BY <1>5, KeysAssumption DEF Token!MintTo, Token!CanMintTo, FactoryIsIssuer
  <2> QED  BY <1>0, <2>1, SameIssuer DEF Book!OffTheBooks, Lines
<1> QED  BY <1>2, <1>3, <1>4, <1>5 DEF WalletInstruction, Token!Wallet

\* Nor does another program while the factory is this one.
LEMMA ForeignStep ==
  ASSUME ForeignMint
  PROVE  Book!OffTheBooks
<1>1. PICK program \in ForeignIds, to \in Keys, amount \in Amounts :
        Controller!Mint(program, to, amount)
  BY DEF ForeignMint
<1>2. ~FactoryIsIssuer /\ UNCHANGED <<controller_store, mint_authority>>
  BY <1>1, ProgramsAssumption
  DEF Controller!Mint, Controller!CanMint, Controller!Token!MintTo,
      Controller!Token!CanMintTo, FactoryIsIssuer
<1>3. UNCHANGED <<Lines(mint_requests), Lines(burn_requests)>>
  BY SameLines DEF ForeignMint, factoryVars
<1> QED  BY <1>2, <1>3, SameIssuer DEF Book!OffTheBooks, Lines

\* The owners of the Controller move the authority but no token.
LEMMA ControllerStep ==
  ASSUME NEW signer, ControllerInstruction(signer)
  PROVE  Book!Reconfigure
<1>1. UNCHANGED <<supply, balance>>
  BY DEF ControllerInstruction, Controller!Instruction, Controller!Initialize,
         Controller!ClaimOwnership, Controller!ClaimMintAuthority,
         Controller!SetMembers, Controller!SetFactory, Controller!TransferOwnership,
         Controller!TransferMintAuthority, Controller!tokenVars,
         Controller!Token!SetAuthority
<1>2. UNCHANGED <<Lines(mint_requests), Lines(burn_requests)>>
  BY SameLines DEF ControllerInstruction, factoryVars
<1> QED  BY <1>1, <1>2, AnyIssuer DEF Book!Reconfigure, Lines

LEMMA IdleStep ==
  ASSUME UNCHANGED <<mint_requests, burn_requests, controller_store, tokenVars>>
  PROVE  UNCHANGED Book!bvars
<1>1. UNCHANGED <<Lines(mint_requests), Lines(burn_requests), supply, balance,
                  FactoryIsIssuer>>
  BY SameLines, SameIssuer DEF tokenVars
<1> QED  BY <1>1 DEF Book!bvars, Lines

LEMMA BookInit == Init => Book!Init
  BY AnyIssuer DEF Init, Controller!Init, Controller!Token!Init, Book!Init, Entry

LEMMA BookStep ==
  ASSUME TypeOK, RequestsFillCounters, [Next]_vars
  PROVE  [Book!Next]_(Book!bvars)
<1>1. CASE UNCHANGED vars
  BY <1>1, IdleStep DEF vars, tokenVars
<1>2. ASSUME NEW signer \in Keys, NEW c \in ProgramIds \union {NoKey},
             Initialize(signer, c)
      PROVE  UNCHANGED Book!bvars
  BY <1>2, IdleStep DEF Initialize
<1>3. ASSUME NEW signer \in Keys, MerchantInstruction(signer)
      PROVE  [Book!Next]_(Book!bvars)
  <2>1. ASSUME NEW a \in BtcAddresses \union {EmptyString},
               SetMerchantBtcDepositAddress(signer, a)
        PROVE  UNCHANGED Book!bvars
    BY <2>1, IdleStep DEF SetMerchantBtcDepositAddress, CanSetMerchantBtcDepositAddress
  <2>2. ASSUME NEW a \in BtcAddresses \union {EmptyString},
               NEW m \in Amounts, NEW t \in BtcTxIds,
               AddMintRequest(signer, m, a, t)
        PROVE  Book!Next
    <3>1. MintAdded /\ UNCHANGED <<controller_store, tokenVars>>
      BY <2>2, AddMintShape DEF AddMintRequest, CanAddMintRequest
    <3> QED  BY <3>1, AddMintStep DEF Book!Next
  <2>3. ASSUME NEW n \in Nonces, NEW h \in KnownHashes,
               CancelMintRequest(signer, n, h)
        PROVE  Book!Next
    <3>1. Book!DropMint(n)
      BY <2>3, DropStep DEF CancelMintRequest, CanCancelMintRequest, IsPending
    <3> QED  BY <3>1 DEF Book!Next
  <2>4. ASSUME NEW m \in Amounts, Burn(signer, m)
        PROVE  Book!Next
    <3>1. BurnAdded /\ UNCHANGED controller_store
      BY <2>4, BurnShape DEF Burn, CanBurn
    <3> QED  BY <3>1, BurnStep DEF Book!Next
  <2> QED  BY <1>3, <2>1, <2>2, <2>3, <2>4 DEF MerchantInstruction
<1>4. ASSUME NEW signer \in Keys, CustodianInstruction(signer)
      PROVE  [Book!Next]_(Book!bvars)
  <2>1. ASSUME NEW k \in Keys, NEW a \in BtcAddresses \union {EmptyString},
               SetCustodianBtcDepositAddress(signer, k, a)
        PROVE  UNCHANGED Book!bvars
    BY <2>1, IdleStep DEF SetCustodianBtcDepositAddress,
                          CanSetCustodianBtcDepositAddress
  <2>2. ASSUME NEW n \in Nonces, NEW h \in KnownHashes,
               ConfirmMintRequest(signer, n, h)
        PROVE  Book!Next
    BY <2>2, ConfirmStep DEF Book!Next
  <2>3. ASSUME NEW n \in Nonces, NEW h \in KnownHashes,
               RejectMintRequest(signer, n, h)
        PROVE  Book!Next
    <3>1. Book!DropMint(n)
      BY <2>3, DropStep DEF RejectMintRequest, CanRejectMintRequest, IsPending
    <3> QED  BY <3>1 DEF Book!Next
  <2>4. ASSUME NEW n \in Nonces, NEW h \in KnownHashes, NEW t \in BtcTxIds,
               ConfirmBurnRequest(signer, n, t, h)
        PROVE  Book!Next
    <3>1. BurnSettled /\ UNCHANGED <<controller_store, tokenVars>>
      BY <2>4 DEF ConfirmBurnRequest, CanConfirmBurnRequest, IsPending, BurnSettled
    <3> QED  BY <3>1, PayOutStep DEF Book!Next
  <2> QED  BY <1>4, <2>1, <2>2, <2>3, <2>4 DEF CustodianInstruction
<1>5. ASSUME NEW signer \in Keys, MembersInstruction(signer)
      PROVE  UNCHANGED Book!bvars
  BY <1>5, IdleStep DEF MembersInstruction, factoryVars
<1>6. ASSUME NEW signer \in Keys, ControllerInstruction(signer)
      PROVE  Book!Next
  BY <1>6, ControllerStep DEF Book!Next
<1>7. ASSUME NEW signer \in Keys, WalletInstruction(signer)
      PROVE  Book!Next
  BY <1>7, WalletStep DEF Book!Next
<1>8. CASE ForeignMint
  BY <1>8, ForeignStep DEF Book!Next
<1> QED  BY <1>1, <1>2, <1>3, <1>4, <1>5, <1>6, <1>7, <1>8 DEF Next

\* The three programs keep the issuance book, for any number of wallets,
\* requests and tokens: every request is entered on the next line and settled
\* once, and while the factory is the issuer no token comes into being but by
\* approving a pending mint request, for its amount and its requester.
THEOREM IssuanceRefinement == Spec => IssuanceIsBooked
<1>1. Init => Book!Init
  BY BookInit
<1>2. TypeOK /\ RequestsFillCounters /\ [Next]_vars => [Book!Next]_(Book!bvars)
  BY BookStep
<1> QED  BY <1>1, <1>2, SystemTypeCorrect, RequestsAreNumbered, PTL
         DEF Spec, Book!Spec, IssuanceIsBooked

-----------------------------------------------------------------------------
(* Sums over a finite set, as Functions defines them: by a recursion that  *)
(* takes some element out of the set, one at a time. Induction over the    *)
(* set goes by a minimal subset on which the claim fails.                  *)

Sum(f, S) == SumFunctionOnSet(f, S)

LEMMA MinimalSubset ==
  ASSUME NEW S, IsFiniteSet(S), NEW T, T \subseteq SUBSET S, T # {}
  PROVE  \E x \in T : \A y \in T : y \subseteq x => y = x
<1>1. IsWellFoundedOn(StrictSubsetOrdering(S), FiniteSubsetsOf(S))
  BY FS_StrictSubsetOrderingWellFounded
<1>2. T \subseteq FiniteSubsetsOf(S)
  BY FS_Subset DEF FiniteSubsetsOf
<1>3. \E x \in T : \A y \in T : ~ (<<y, x>> \in StrictSubsetOrdering(S))
  BY <1>1, <1>2, WFMin
<1> QED  BY <1>3 DEF StrictSubsetOrdering

Some(s) == CHOOSE x \in s : TRUE

\* the recursion
Iterates(g, f, S) ==
  g = [s \in SUBSET S |-> IF s = {} THEN 0 ELSE f[Some(s)] + g[s \ {Some(s)}]]

LEMMA Unfold ==
  ASSUME NEW f, NEW S, \E g : Iterates(g, f, S)
  PROVE  \E g : Iterates(g, f, S) /\ Sum(f, S) = g[S]
  BY Zenon DEF Sum, SumFunctionOnSet, FoldFunctionOnSet, MapThenFoldSet, Iterates, Some

LEMMA SomeIn == ASSUME NEW s, s # {} PROVE Some(s) \in s
  BY DEF Some

StepAt(g, f, s) == g[s] = IF s = {} THEN 0 ELSE f[Some(s)] + g[s \ {Some(s)}]

LEMMA IteratesAt ==
  ASSUME NEW f, NEW S, NEW g, Iterates(g, f, S)
  PROVE \A s \in SUBSET S : StepAt(g, f, s)
  BY Zenon DEF Iterates, StepAt

LEMMA SumUnique ==
  ASSUME NEW f, NEW A, NEW B, NEW g, NEW h, IsFiniteSet(A),
         Iterates(g, f, A), Iterates(h, f, B), NEW C, C \subseteq A, C \subseteq B
  PROVE  g[C] = h[C]
<1> DEFINE Bad == {u \in SUBSET C : g[u] # h[u]}
<1>0. IsFiniteSet(C) /\ Bad \subseteq SUBSET C
  BY FS_Subset
<1> SUFFICES ASSUME Bad # {} PROVE FALSE
  OBVIOUS
<1> HIDE DEF Bad
<1>1. PICK u \in Bad : \A y \in Bad : y \subseteq u => y = u
  BY <1>0, MinimalSubset
<1>2. u \subseteq A /\ u \subseteq B /\ g[u] # h[u]
  BY DEF Bad
<1>3. ASSUME u # {} PROVE g[u \ {Some(u)}] = h[u \ {Some(u)}]
  BY <1>1, <1>3, SomeIn DEF Bad
<1>4. StepAt(g, f, u) /\ StepAt(h, f, u)
  BY <1>2, IteratesAt
<1> QED  BY <1>2, <1>3, <1>4 DEF StepAt

LEMMA SumExists ==
  ASSUME NEW f, NEW S, IsFiniteSet(S)
  PROVE  \E g : Iterates(g, f, S)
<1> DEFINE Bad == {s \in SUBSET S : ~ \E g : Iterates(g, f, s)}
<1> SUFFICES ASSUME Bad # {} PROVE FALSE
  OBVIOUS
<1>1. PICK s \in Bad : \A y \in Bad : y \subseteq s => y = s
  <2>1. Bad \subseteq SUBSET S
    OBVIOUS
  <2> HIDE DEF Bad
  <2> QED  BY <2>1, MinimalSubset
<1> DEFINE g == [u \in SUBSET s |-> IF u = {} THEN 0 ELSE f[Some(u)] + Sum(f, u \ {Some(u)})]
<1>2. ASSUME NEW w, w \subseteq s, w # s
      PROVE  g[w] = Sum(f, w)
  <2>1. PICK h : Iterates(h, f, w) /\ Sum(f, w) = h[w]
    <3>1. \E h : Iterates(h, f, w)
      BY <1>1, <1>2
    <3> QED  BY <3>1, Unfold
  <2>2. StepAt(h, f, w)
    BY <2>1, IteratesAt
  <2>3. CASE w = {}
    BY <2>1, <2>2, <2>3 DEF StepAt
  <2>4. CASE w # {}
    <3> DEFINE v == w \ {Some(w)}
    <3>0. v \subseteq w /\ v \subseteq s /\ v # s
      BY <1>2
    <3>1. PICK k : Iterates(k, f, v) /\ Sum(f, v) = k[v]
      <4>1. \E k : Iterates(k, f, v)
        BY <1>1, <3>0
      <4> QED  BY <4>1, Unfold
    <3>2. IsFiniteSet(w)
      BY <1>2, FS_Subset
    <3>3. k[v] = h[v]
      <4> HIDE DEF v
      <4> QED  BY <2>1, <3>0, <3>1, <3>2, SumUnique
    <3>5. g[w] = f[Some(w)] + Sum(f, v)
      BY <1>2, <2>4
    <3> QED  BY <2>1, <2>2, <2>4, <3>1, <3>3, <3>5 DEF StepAt
  <2> QED  BY <2>3, <2>4
<1>3. ASSUME NEW u \in SUBSET s, u # {} PROVE g[u \ {Some(u)}] = Sum(f, u \ {Some(u)})
  BY <1>2, <1>3, SomeIn
<1>4. Iterates(g, f, s)
  <2>1. g = [u \in SUBSET s |-> IF u = {} THEN 0 ELSE f[Some(u)] + g[u \ {Some(u)}]]
    <3>1. \A u \in SUBSET s : 
         (IF u = {} THEN 0 ELSE f[Some(u)] + Sum(f, u \ {Some(u)}))
        = (IF u = {} THEN 0 ELSE f[Some(u)] + g[u \ {Some(u)}])
      BY <1>3
    <3> QED  BY <3>1
  <2> HIDE DEF g
  <2> QED  BY <2>1 DEF Iterates
<1> QED  BY <1>4

LEMMA SumUnfold ==
  ASSUME NEW f, NEW s, IsFiniteSet(s)
  PROVE  Sum(f, s) = IF s = {} THEN 0 ELSE f[Some(s)] + Sum(f, s \ {Some(s)})
<1>1. PICK g : Iterates(g, f, s) /\ Sum(f, s) = g[s]
  BY SumExists, Unfold
<1> DEFINE v == s \ {Some(s)}
<1>2. IsFiniteSet(v)
  BY FS_Subset
<1>3. PICK h : Iterates(h, f, v) /\ Sum(f, v) = h[v]
  BY <1>2, SumExists, Unfold
<1>4. g[v] = h[v]
  <2>1. v \subseteq s 
    OBVIOUS
  <2> HIDE DEF v
  <2> QED  BY <1>1, <1>3, <2>1, SumUnique
<1>5. StepAt(g, f, s)
  BY <1>1, IteratesAt
<1> QED  BY <1>1, <1>3, <1>4, <1>5 DEF StepAt

LEMMA SumType ==
  ASSUME NEW f, NEW S, IsFiniteSet(S), \A x \in S : f[x] \in Int
  PROVE  Sum(f, S) \in Int
<1> DEFINE Bad == {s \in SUBSET S : Sum(f, s) \notin Int}
<1> SUFFICES ASSUME Bad # {} PROVE FALSE
  OBVIOUS
<1>1. PICK s \in Bad : \A y \in Bad : y \subseteq s => y = s
  <2>1. Bad \subseteq SUBSET S
    OBVIOUS
  <2> HIDE DEF Bad
  <2> QED  BY <2>1, MinimalSubset
<1>2. Sum(f, s) = IF s = {} THEN 0 ELSE f[Some(s)] + Sum(f, s \ {Some(s)})
  BY SumUnfold, FS_Subset
<1>3. s # {}
  BY <1>2
<1>4. Some(s) \in s 
  BY <1>3, SomeIn
<1>5. Sum(f, s \ {Some(s)}) \in Int
  BY <1>1, <1>4
<1> QED  BY <1>2, <1>3, <1>4, <1>5

LEMMA SumTakesOne ==
  ASSUME NEW f, NEW S, IsFiniteSet(S), \A x \in S : f[x] \in Int, NEW x \in S
  PROVE  Sum(f, S) = f[x] + Sum(f, S \ {x})
<1> DEFINE Bad == {s \in SUBSET S : \E y \in s : Sum(f, s) # f[y] + Sum(f, s \ {y})}
<1> SUFFICES ASSUME Bad # {} PROVE FALSE
  OBVIOUS
<1>1. PICK s \in Bad : \A y \in Bad : y \subseteq s => y = s
  <2>1. Bad \subseteq SUBSET S
    OBVIOUS
  <2> HIDE DEF Bad
  <2> QED  BY <2>1, MinimalSubset
<1>2. PICK y \in s : Sum(f, s) # f[y] + Sum(f, s \ {y})
  OBVIOUS
<1> DEFINE c == Some(s)
<1>3. c \in s
  BY <1>2, SomeIn
<1>4. Sum(f, s) = f[c] + Sum(f, s \ {c})
  BY <1>2, SumUnfold, FS_Subset
<1>5. y # c
  BY <1>2, <1>4
<1> HIDE DEF c
<1>12. ASSUME NEW u, u \subseteq s, u # s, NEW z \in u
       PROVE  Sum(f, u) = f[z] + Sum(f, u \ {z})
  BY <1>1, <1>12
<1>6. Sum(f, s \ {c}) = f[y] + Sum(f, (s \ {c}) \ {y})
  BY <1>3, <1>5, <1>12
<1>7. Sum(f, s \ {y}) = f[c] + Sum(f, (s \ {y}) \ {c})
  BY <1>3, <1>5, <1>12
<1>8. (s \ {c}) \ {y} = (s \ {y}) \ {c}
  OBVIOUS
<1>9. IsFiniteSet((s \ {y}) \ {c}) /\ \A z \in (s \ {y}) \ {c} : f[z] \in Int
  BY FS_Subset
<1>10. Sum(f, (s \ {y}) \ {c}) \in Int
  BY <1>9, SumType
<1>11. f[y] \in Int /\ f[c] \in Int
  BY <1>2, <1>3
<1>13. PICK a, b, d : a = f[y] /\ b = f[c] /\ d = Sum(f, (s \ {y}) \ {c})
  OBVIOUS
<1>14. Sum(f, s) = b + (a + d) /\ Sum(f, s \ {y}) = b + d
  BY <1>4, <1>6, <1>7, <1>8, <1>13
<1>15. a \in Int /\ b \in Int /\ d \in Int
  BY <1>10, <1>11, <1>13
<1> QED  BY <1>2, <1>13, <1>14, <1>15

LEMMA SumMonotone ==
  ASSUME NEW f, NEW g, NEW S, IsFiniteSet(S), 
         \A x \in S : f[x] \in Int /\ g[x] \in Int /\ f[x] <= g[x]
  PROVE  Sum(f, S) <= Sum(g, S)
<1> DEFINE Bad == {s \in SUBSET S : ~(Sum(f, s) <= Sum(g, s))}
<1> SUFFICES ASSUME Bad # {} PROVE FALSE
  OBVIOUS
<1>1. PICK s \in Bad : \A y \in Bad : y \subseteq s => y = s
  <2>1. Bad \subseteq SUBSET S
    OBVIOUS
  <2> HIDE DEF Bad
  <2> QED  BY <2>1, MinimalSubset
<1>2. /\ Sum(f, s) = IF s = {} THEN 0 ELSE f[Some(s)] + Sum(f, s \ {Some(s)})
      /\ Sum(g, s) = IF s = {} THEN 0 ELSE g[Some(s)] + Sum(g, s \ {Some(s)})
  BY SumUnfold, FS_Subset
<1>3. s # {} /\ Some(s) \in s
  BY <1>2, SomeIn
<1>4. Sum(f, s \ {Some(s)}) <= Sum(g, s \ {Some(s)})
  BY <1>1, <1>3
<1>5. IsFiniteSet(s \ {Some(s)})
  BY FS_Subset
<1>6. Sum(f, s \ {Some(s)}) \in Int /\ Sum(g, s \ {Some(s)}) \in Int
  BY <1>5, SumType
<1> QED  BY <1>2, <1>3, <1>4, <1>6

\* Changing a summand changes the sum by as much.
LEMMA SumDiffersAt ==
  ASSUME NEW f, NEW g, NEW S, IsFiniteSet(S),
         \A y \in S : f[y] \in Int /\ g[y] \in Int,
         NEW x \in S, \A y \in S \ {x} : f[y] = g[y]
  PROVE  Sum(f, S) \in Int /\ Sum(g, S) = Sum(f, S) - f[x] + g[x]
<1>0. IsFiniteSet(S \ {x})
  BY FS_Subset
<1> DEFINE T == S \ {x}
<1>1. /\ \A y \in T : f[y] \in Int /\ g[y] \in Int
      /\ \A y \in T : f[y] <= g[y] /\ g[y] <= f[y]
  OBVIOUS
<1>2. Sum(f, S) = f[x] + Sum(f, T) /\ Sum(g, S) = g[x] + Sum(g, T)
  BY SumTakesOne
<1> HIDE DEF T
<1>3. Sum(f, T) \in Int /\ Sum(g, T) \in Int
  BY <1>0, <1>1, SumType DEF T
<1>4. Sum(f, T) <= Sum(g, T) /\ Sum(g, T) <= Sum(f, T)
  BY <1>0, <1>1, SumMonotone DEF T
<1>5. f[x] \in Int /\ g[x] \in Int
  OBVIOUS
<1> QED  BY <1>2, <1>3, <1>4, <1>5

LEMMA SumSame ==
  ASSUME NEW f, NEW g, NEW S, IsFiniteSet(S), \A x \in S : f[x] \in Int /\ g[x] = f[x]
  PROVE  Sum(f, S) = Sum(g, S)
<1>1. \A x \in S : f[x] \in Int /\ g[x] \in Int /\ f[x] <= g[x] /\ g[x] <= f[x]
  OBVIOUS
<1>2. Sum(f, S) <= Sum(g, S) /\ Sum(g, S) <= Sum(f, S)
  BY <1>1, SumMonotone
<1>3. Sum(f, S) \in Int /\ Sum(g, S) \in Int
  BY <1>1, SumType
<1>4. PICK a, b : a = Sum(f, S) /\ b = Sum(g, S)
  OBVIOUS
<1> QED BY <1>2, <1>3, <1>4

\* Summing over more summands that are no less than zero gives no less.
LEMMA SumSubset ==
  ASSUME NEW f, NEW T, IsFiniteSet(T), \A x \in T : f[x] \in Nat, NEW S \in SUBSET T
  PROVE  Sum(f, S) <= Sum(f, T)
<1> DEFINE Bad == {d \in SUBSET (T \ S) : ~(Sum(f, S) <= Sum(f, S \union d))}
<1>0. IsFiniteSet(T \ S) /\ IsFiniteSet(S)
  BY FS_Subset
<1> SUFFICES ASSUME Bad # {} PROVE FALSE
  <2>1. T \ S \notin Bad => Sum(f, S) <= Sum(f, S \union (T \ S))
    OBVIOUS
  <2>2. S \union (T \ S) = T
    OBVIOUS
  <2> QED BY <2>1, <2>2
<1>1. PICK d \in Bad : \A y \in Bad : y \subseteq d => y = d
  <2>1. Bad \subseteq SUBSET (T \ S)
    OBVIOUS
  <2> HIDE DEF Bad
  <2> QED BY <1>0, <2>1, MinimalSubset
<1>2. Sum(f, S) \in Int
  BY <1>0, SumType
<1>3. d # {}
  <2>1. S \union {} = S
    OBVIOUS
  <2>2. PICK a : a = Sum(f, S)
    OBVIOUS
  <2> QED BY <1>2, <2>1, <2>2
<1>4. PICK x \in d : TRUE
  BY <1>3
<1>5. Sum(f, S) <= Sum(f, S \union (d \ {x}))
  <2>1. d \ {x} \notin Bad
    <3> HIDE DEF Bad
    <3> QED BY <1>1, <1>4
  <2>2. d \ {x} \in SUBSET (T \ S)
    BY <1>1
  <2> QED BY <2>1, <2>2
<1>6. (S \union d) \ {x} = S \union (d \ {x}) /\ S \union d \in SUBSET T /\ x \in S \union d
  BY <1>4
<1>7. IsFiniteSet(S \union d) /\ \A y \in S \union d : f[y] \in Int
  BY <1>6, FS_Subset
<1>8. Sum(f, S \union d) = f[x] + Sum(f, S \union (d \ {x}))
  BY <1>6, <1>7, SumTakesOne
<1>9. Sum(f, S \union (d \ {x})) \in Int
  <2>1. IsFiniteSet(S \union (d \ {x}))
    BY <1>6, <1>7, FS_Subset
  <2> QED BY <1>7, <2>1, SumType
<1>10. PICK a, b, c, e : /\ a = Sum(f, S) /\ b = Sum(f, S \union d)
                         /\ c = Sum(f, S \union (d \ {x})) /\ e = f[x]
  OBVIOUS
<1>11. e \in Nat
  BY <1>4, <1>10
<1>12. ~(a <= b)
  BY <1>10
<1> QED BY <1>2, <1>5, <1>8, <1>9, <1>10, <1>11, <1>12

\* Summing over a set or over numbers its members are told apart by is the same.
LEMMA SumReindex ==
  ASSUME NEW f, NEW g, NEW h, NEW S, NEW T, IsFiniteSet(S), IsFiniteSet(T),
         \A x \in S : f[x] \in Int /\ h[x] \in T /\ g[h[x]] = f[x],
         \A x, y \in S : h[x] = h[y] => x = y,
         \A z \in T : \E x \in S : h[x] = z
  PROVE  Sum(f, S) = Sum(g, T)
<1> DEFINE Image(s) == {h[x] : x \in s}
           Bad == {s \in SUBSET S : Sum(f, s) # Sum(g, Image(s))}
<1> SUFFICES ASSUME Bad # {} PROVE FALSE
  <2>1. S \notin Bad => Sum(f, S) = Sum(g, Image(S))
    OBVIOUS
  <2>2. Image(S) = T
    OBVIOUS
  <2> QED BY <2>1, <2>2
<1>1. PICK s \in Bad : \A y \in Bad : y \subseteq s => y = s
  <2>1. Bad \subseteq SUBSET S
    OBVIOUS
  <2> HIDE DEF Bad
  <2> QED BY <2>1, MinimalSubset
<1>2. s \in SUBSET S /\ Sum(f, s) # Sum(g, Image(s))
  BY <1>1
<1>3. ASSUME NEW x \in s PROVE Sum(f, s \ {x}) = Sum(g, Image(s \ {x}))
  BY <1>1
<1> HIDE DEF Bad
<1>4. IsFiniteSet(s) /\ IsFiniteSet(Image(s))
  <2>1. Image(s) \in SUBSET T
    BY <1>2
  <2> HIDE DEF Image
  <2> QED BY <1>2, <2>1, FS_Subset
<1>5. s # {}
  <2>1. Image({}) = {}
    OBVIOUS
  <2>2. Sum(f, {}) = 0 /\ Sum(g, {}) = 0
    BY SumUnfold, FS_EmptySet
  <2> QED BY <1>2, <2>1, <2>2
<1>6. PICK x \in s : TRUE
  BY <1>5
<1>7. Image(s) \ {h[x]} = Image(s \ {x}) /\ h[x] \in Image(s)
  BY <1>2, <1>6
<1>8. \A z \in Image(s) : g[z] \in Int
  BY <1>2
<1>9. g[h[x]] = f[x] /\ \A y \in s : f[y] \in Int
  BY <1>2, <1>6
<1> HIDE DEF Image
<1>10. Sum(f, s) = f[x] + Sum(f, s \ {x})
  BY <1>4, <1>6, <1>9, SumTakesOne
<1>11. PICK z : z = h[x]
  OBVIOUS
<1>12. Sum(g, Image(s)) = g[z] + Sum(g, Image(s) \ {z})
  BY <1>4, <1>7, <1>8, <1>11, SumTakesOne
<1> QED BY <1>2, <1>3, <1>6, <1>7, <1>9, <1>10, <1>11, <1>12

-----------------------------------------------------------------------------
(* What circulates and what the books account for                          *)

\* What one line adds to a total.
Weight(line, outcomes) ==
    IF line # NoAccount /\ line.status \in outcomes THEN line.amount ELSE 0

Books == [Nonces -> Existing(BookEntry)]

LEMMA LinesType ==
  ASSUME NEW requests \in [Nonces -> Existing(RequestAccount)]
  PROVE  Lines(requests) \in Books
<1>1. ASSUME NEW n \in Nonces
      PROVE  Entry(requests[n]) \in Existing(BookEntry)
  <2>1. CASE requests[n] = NoAccount
    BY <2>1 DEF Entry, Existing
  <2>2. CASE requests[n] # NoAccount
    BY <2>2, LineInUse DEF Existing
  <2> QED  BY <2>1, <2>2
<1> QED  BY <1>1 DEF Lines, Books

LEMMA WeightType ==
  ASSUME NEW line \in Existing(BookEntry), NEW outcomes
  PROVE  Weight(line, outcomes) \in Nat
<1>1. line # NoAccount => line.amount \in Nat
  BY WidthAssumption DEF Existing, BookEntry, Amounts
<1> QED  BY <1>1 DEF Weight

LEMMA BookSum ==
  ASSUME NEW f, NEW S
  PROVE  Book!SumFunctionOnSet(f, S) = Sum(f, S)
  BY Zenon
  DEF Sum, SumFunctionOnSet, FoldFunctionOnSet, MapThenFoldSet,
      Book!SumFunctionOnSet, Book!FoldFunctionOnSet, Book!MapThenFoldSet

LEMMA NoncesFinite == IsFiniteSet(Nonces)
  BY FS_Interval, WidthAssumption DEF Nonces

LEMMA TotalType ==
  ASSUME NEW book \in Books, NEW outcomes
  PROVE  Book!Total(book, outcomes) \in Int
<1> DEFINE f == Book!Counted(book, outcomes)
<1>1. \A m \in Nonces : f[m] = Weight(book[m], outcomes)
  BY DEF Book!Counted, Weight
<1> HIDE DEF f
<1>2. \A m \in Nonces : f[m] \in Int
  BY <1>1, WeightType DEF Books
<1> QED  BY <1>2, NoncesFinite, BookSum, SumType DEF Book!Total, f

\* Writing one line changes the total by what that line adds more.
LEMMA TotalStep ==
  ASSUME NEW book \in Books, NEW n \in Nonces, NEW line \in Existing(BookEntry),
         NEW outcomes
  PROVE  Book!Total([book EXCEPT ![n] = line], outcomes) =
           Book!Total(book, outcomes) - Weight(book[n], outcomes)
             + Weight(line, outcomes)
<1> DEFINE written == [book EXCEPT ![n] = line]
           f == Book!Counted(book, outcomes)
           g == Book!Counted(written, outcomes)
<1>1. written \in Books
  BY DEF Books
<1>3. \A m \in Nonces : /\ f[m] = Weight(book[m], outcomes)
                        /\ g[m] = Weight(written[m], outcomes)
  BY DEF Book!Counted, Weight
<1>4. /\ \A m \in Nonces : f[m] \in Int /\ g[m] \in Int
      /\ \A m \in Nonces \ {n} : f[m] = g[m]
      /\ g[n] = Weight(line, outcomes)
  <2> HIDE DEF f, g
  <2>1. \A m \in Nonces : /\ Weight(book[m], outcomes) \in Nat
                          /\ Weight(written[m], outcomes) \in Nat
    <3> HIDE DEF written
    <3> QED  BY <1>1, WeightType DEF Books
  <2>2. written[n] = line /\ \A m \in Nonces \ {n} : written[m] = book[m]
    BY DEF Books
  <2> HIDE DEF written
  <2> QED  BY <1>3, <2>1, <2>2
<1>5. f[n] = Weight(book[n], outcomes)
  BY <1>3
<1>6. /\ Book!Total(book, outcomes) = Sum(f, Nonces)
      /\ Book!Total(written, outcomes) = Sum(g, Nonces)
  BY BookSum DEF Book!Total
<1> HIDE DEF f, g, written
<1>7. Sum(g, Nonces) = Sum(f, Nonces) - f[n] + g[n]
  BY <1>4, NoncesFinite, SumDiffersAt
<1> QED  BY <1>4, <1>5, <1>6, <1>7 DEF written

Issued == {"Approved"}
Redeemed == {"Pending", "Approved"}

\* The lines that the two kinds of request begin with, and their settling.
LEMMA PendingWeight ==
  ASSUME NEW k \in Keys, NEW a \in Amounts
  PROVE  /\ Book!Entry(k, a) \in BookEntry
         /\ Weight(Book!Entry(k, a), Issued) = 0
         /\ Weight(Book!Entry(k, a), Redeemed) = a
<1> DEFINE line == Book!Entry(k, a)
<1>1. /\ line \in BookEntry
      /\ line.status = "Pending" /\ line.amount = a
  BY DEF Book!Entry, BookEntry, RequestStatus
<1>2. line # NoAccount
  BY <1>1, StoreAssumption
<1> HIDE DEF line
<1> QED  BY <1>1, <1>2 DEF Weight, Issued, Redeemed, line

LEMMA SettledWeight ==
  ASSUME NEW line \in Existing(BookEntry), line # NoAccount, line.status = "Pending",
         NEW outcome \in RequestStatus, NEW written,
         written = [line EXCEPT !.status = outcome]
  PROVE  /\ written \in BookEntry
         /\ Weight(line, Issued) = 0
         /\ Weight(line, Redeemed) = line.amount
         /\ Weight(written, Issued) = IF outcome = "Approved" THEN line.amount ELSE 0
         /\ outcome = "Approved" => Weight(written, Redeemed) = line.amount
<1>1. /\ written \in BookEntry
      /\ written.status = outcome /\ written.amount = line.amount
  BY DEF Existing, BookEntry
<1>2. written # NoAccount
  BY <1>1, StoreAssumption
<1> QED  BY <1>1, <1>2 DEF Weight, Issued, Redeemed

\* An unused line.
LEMMA FreeWeight ==
  ASSUME NEW book \in Books, NEW n \in Nonces, Book!NextLine(book, n), NEW outcomes
  PROVE  Weight(book[n], outcomes) = 0
<1>1. ~(n < n)
  BY WidthAssumption DEF Nonces
<1> QED  BY <1>1 DEF Book!NextLine, Weight

\* What a step of the books does to what circulates and to one line.
MintLineWritten(minting, mintingNext, s, sNext) ==
    \E n \in Nonces, line \in BookEntry :
        /\ mintingNext = [minting EXCEPT ![n] = line]
        /\ sNext = s + Weight(line, Issued) - Weight(minting[n], Issued)

BurnLineWritten(burning, burningNext, s, sNext) ==
    \E n \in Nonces, line \in BookEntry :
        /\ burningNext = [burning EXCEPT ![n] = line]
        /\ sNext = s - Weight(line, Redeemed) + Weight(burning[n], Redeemed)

LEMMA BookShapes ==
  ASSUME NEW minting \in Books, NEW burning \in Books, NEW s \in Int,
         NEW mintingNext, NEW burningNext, NEW sNext,
         minting = Lines(mint_requests), mintingNext = Lines(mint_requests'),
         burning = Lines(burn_requests), burningNext = Lines(burn_requests'),
         s = supply, sNext = supply', FactoryIsIssuer, [Book!Next]_(Book!bvars)
  PROVE  \/ mintingNext = minting /\ burningNext = burning /\ sNext <= s
         \/ MintLineWritten(minting, mintingNext, s, sNext) /\ burningNext = burning
         \/ BurnLineWritten(burning, burningNext, s, sNext) /\ mintingNext = minting
<1>1. CASE UNCHANGED Book!bvars
  BY <1>1 DEF Book!bvars, Lines
<1>2. ASSUME NEW n \in Nonces, Book!RequestMint(n)
      PROVE  MintLineWritten(minting, mintingNext, s, sNext) /\ burningNext = burning
  <2>1. PICK k \in Keys, a \in Amounts :
          mintingNext = [minting EXCEPT ![n] = Book!Entry(k, a)]
    BY <1>2 DEF Book!RequestMint, Lines
  <2>2. Book!NextLine(minting, n) /\ burningNext = burning /\ sNext = s
    BY <1>2 DEF Book!RequestMint, Lines
  <2>3. sNext = s + Weight(Book!Entry(k, a), Issued) - Weight(minting[n], Issued)
    BY <2>2, PendingWeight, FreeWeight
  <2> QED  BY <2>1, <2>2, <2>3, PendingWeight DEF MintLineWritten
<1>3. ASSUME NEW n \in Nonces, Book!DropMint(n)
      PROVE  MintLineWritten(minting, mintingNext, s, sNext) /\ burningNext = burning
  <2>1. PICK outcome \in {"Canceled", "Rejected"} :
          /\ minting[n] # NoAccount /\ minting[n].status = "Pending"
          /\ mintingNext = [minting EXCEPT ![n].status = outcome]
    BY <1>3 DEF Book!DropMint, Book!Settle, Lines
  <2>2. burningNext = burning /\ sNext = s
    BY <1>3 DEF Book!DropMint, Lines
  <2>3. PICK line : line = [minting[n] EXCEPT !.status = outcome]
    OBVIOUS
  <2>4. mintingNext = [minting EXCEPT ![n] = line]
    BY <2>1, <2>3
  <2>5. line \in BookEntry /\ Weight(line, Issued) = 0 /\ Weight(minting[n], Issued) = 0
    BY <2>1, <2>3, SettledWeight DEF Books, RequestStatus
  <2>6. sNext = s + Weight(line, Issued) - Weight(minting[n], Issued)
    BY <2>2, <2>5
  <2> QED  BY <2>2, <2>4, <2>5, <2>6 DEF MintLineWritten
<1>4. ASSUME NEW n \in Nonces, Book!Issue(n)
      PROVE  MintLineWritten(minting, mintingNext, s, sNext) /\ burningNext = burning
  <2>1. /\ minting[n] # NoAccount /\ minting[n].status = "Pending"
        /\ mintingNext = [minting EXCEPT ![n].status = "Approved"]
        /\ sNext = s + minting[n].amount
        /\ burningNext = burning
    BY <1>4 DEF Book!Issue, Book!Settle, Lines
  <2>2. PICK line : line = [minting[n] EXCEPT !.status = "Approved"]
    OBVIOUS
  <2>3. mintingNext = [minting EXCEPT ![n] = line]
    BY <2>1, <2>2
  <2>4. /\ line \in BookEntry /\ Weight(line, Issued) = minting[n].amount
        /\ Weight(minting[n], Issued) = 0
    BY <2>1, <2>2, SettledWeight DEF Books, RequestStatus
  <2>5. minting[n].amount \in Int
    BY <2>1, WidthAssumption DEF Books, Existing, BookEntry, Amounts
  <2>6. sNext = s + Weight(line, Issued) - Weight(minting[n], Issued)
    BY <2>1, <2>4, <2>5
  <2> QED  BY <2>1, <2>3, <2>4, <2>6 DEF MintLineWritten
<1>5. ASSUME NEW n \in Nonces, Book!Redeem(n)
      PROVE  BurnLineWritten(burning, burningNext, s, sNext) /\ mintingNext = minting
  <2>1. PICK k \in Keys, a \in Amounts \ {0} :
          /\ burningNext = [burning EXCEPT ![n] = Book!Entry(k, a)]
          /\ sNext = s - a
    BY <1>5 DEF Book!Redeem, Lines
  <2>2. Book!NextLine(burning, n) /\ mintingNext = minting
    BY <1>5 DEF Book!Redeem, Lines
  <2>3. a \in Int /\ a \in Amounts
    BY WidthAssumption DEF Amounts
  <2>4. sNext = s - Weight(Book!Entry(k, a), Redeemed) + Weight(burning[n], Redeemed)
    BY <2>1, <2>2, <2>3, PendingWeight, FreeWeight
  <2> QED  BY <2>1, <2>2, <2>3, <2>4, PendingWeight DEF BurnLineWritten
<1>6. ASSUME NEW n \in Nonces, Book!PayOut(n)
      PROVE  BurnLineWritten(burning, burningNext, s, sNext) /\ mintingNext = minting
  <2>1. /\ burning[n] # NoAccount /\ burning[n].status = "Pending"
        /\ burningNext = [burning EXCEPT ![n].status = "Approved"]
        /\ sNext = s /\ mintingNext = minting
    BY <1>6 DEF Book!PayOut, Book!Settle, Lines
  <2>2. PICK line : line = [burning[n] EXCEPT !.status = "Approved"]
    OBVIOUS
  <2>3. burningNext = [burning EXCEPT ![n] = line]
    BY <2>1, <2>2
  <2>4. /\ line \in BookEntry
        /\ Weight(line, Redeemed) = burning[n].amount
        /\ Weight(burning[n], Redeemed) = burning[n].amount
    BY <2>1, <2>2, SettledWeight DEF Books, RequestStatus
  <2>5. burning[n].amount \in Int
    BY <2>1, WidthAssumption DEF Books, Existing, BookEntry, Amounts
  <2>6. sNext = s - Weight(line, Redeemed) + Weight(burning[n], Redeemed)
    BY <2>1, <2>4, <2>5
  <2> QED  BY <2>1, <2>3, <2>4, <2>6 DEF BurnLineWritten
<1>7. ASSUME Book!OffTheBooks \/ Book!Reconfigure
      PROVE  mintingNext = minting /\ burningNext = burning /\ sNext <= s
  <2>1. mintingNext = minting /\ burningNext = burning
    BY <1>7 DEF Book!OffTheBooks, Book!Reconfigure, Lines
  <2>2. sNext <= s \/ sNext = s
    BY <1>7 DEF Book!OffTheBooks, Book!Reconfigure
  <2> QED  BY <2>1, <2>2
<1> QED  BY <1>1, <1>2, <1>3, <1>4, <1>5, <1>6, <1>7 DEF Book!Next

\* While the factory is the issuer, what circulates and is not on the books
\* does not grow.
LEMMA UnbookedStep ==
  ASSUME TypeOK, RequestsFillCounters, [Next]_vars, FactoryIsIssuer
  PROVE  /\ supply \in Int /\ supply' \in Int
         /\ Book!Booked \in Int /\ Book!Booked' \in Int
         /\ supply' - Book!Booked' <= supply - Book!Booked
<1>1. PICK minting, mintingNext, burning, burningNext, s, sNext :
        /\ minting = Lines(mint_requests) /\ mintingNext = Lines(mint_requests')
        /\ burning = Lines(burn_requests) /\ burningNext = Lines(burn_requests')
        /\ s = supply /\ sNext = supply'
  OBVIOUS
<1>2. minting \in Books /\ burning \in Books
  BY <1>1, LinesType DEF TypeOK
<1>3. TypeOK'
  BY TypeStep
<1>4. mintingNext \in Books /\ burningNext \in Books
  BY <1>1, <1>3, LinesType DEF TypeOK
<1>5. s \in Int /\ sNext \in Int
  BY <1>1, <1>3, WidthAssumption DEF TypeOK, Controller!TypeOK, Controller!Token!TypeOK
<1> DEFINE M(book) == Book!Total(book, Issued)
           B(book) == Book!Total(book, Redeemed)
<1>6. /\ Book!Booked = M(minting) - B(burning)
      /\ Book!Booked' = M(mintingNext) - B(burningNext)
  BY <1>1 DEF Book!Booked, Book!Total, Book!Counted, Lines, Issued, Redeemed
<1>7. \A book \in Books, n \in Nonces, line \in BookEntry :
        /\ M([book EXCEPT ![n] = line]) =
             M(book) - Weight(book[n], Issued) + Weight(line, Issued)
        /\ B([book EXCEPT ![n] = line]) =
             B(book) - Weight(book[n], Redeemed) + Weight(line, Redeemed)
        /\ Weight(book[n], Issued) \in Int /\ Weight(line, Issued) \in Int
        /\ Weight(book[n], Redeemed) \in Int /\ Weight(line, Redeemed) \in Int
  <2> TAKE book \in Books, n \in Nonces, line \in BookEntry
  <2>1. line \in Existing(BookEntry) /\ book[n] \in Existing(BookEntry)
    BY DEF Existing, Books
  <2> QED  BY <2>1, TotalStep, WeightType
<1>8. /\ M(minting) \in Int /\ B(burning) \in Int
      /\ M(mintingNext) \in Int /\ B(burningNext) \in Int
  BY <1>2, <1>4, TotalType
<1> HIDE DEF M, B
<1>9. \/ mintingNext = minting /\ burningNext = burning /\ sNext <= s
      \/ MintLineWritten(minting, mintingNext, s, sNext) /\ burningNext = burning
      \/ BurnLineWritten(burning, burningNext, s, sNext) /\ mintingNext = minting
  BY <1>1, <1>2, <1>5, BookStep, BookShapes
<1>10. sNext - (M(mintingNext) - B(burningNext)) <= s - (M(minting) - B(burning))
  <2>1. CASE mintingNext = minting /\ burningNext = burning /\ sNext <= s
    BY <1>5, <1>8, <2>1
  <2>2. CASE MintLineWritten(minting, mintingNext, s, sNext) /\ burningNext = burning
    <3>1. PICK n \in Nonces, line \in BookEntry :
            /\ mintingNext = [minting EXCEPT ![n] = line]
            /\ sNext = s + Weight(line, Issued) - Weight(minting[n], Issued)
      BY <2>2 DEF MintLineWritten
    <3>2. PICK v, w : v = Weight(minting[n], Issued) /\ w = Weight(line, Issued)
      OBVIOUS
    <3>3. /\ v \in Int /\ w \in Int
          /\ M(mintingNext) = M(minting) - v + w /\ sNext = s + w - v
      BY <1>2, <1>7, <3>1, <3>2
    <3> QED  BY <1>5, <1>8, <2>2, <3>3
  <2>3. CASE BurnLineWritten(burning, burningNext, s, sNext) /\ mintingNext = minting
    <3>1. PICK n \in Nonces, line \in BookEntry :
            /\ burningNext = [burning EXCEPT ![n] = line]
            /\ sNext = s - Weight(line, Redeemed) + Weight(burning[n], Redeemed)
      BY <2>3 DEF BurnLineWritten
    <3>2. PICK v, w : v = Weight(burning[n], Redeemed) /\ w = Weight(line, Redeemed)
      OBVIOUS
    <3>3. /\ v \in Int /\ w \in Int
          /\ B(burningNext) = B(burning) - v + w /\ sNext = s - w + v
      BY <1>2, <1>7, <3>1, <3>2
    <3> QED  BY <1>5, <1>8, <2>3, <3>3
  <2> QED  BY <1>9, <2>1, <2>2, <2>3
<1> QED  BY <1>1, <1>5, <1>6, <1>8, <1>10

\* While the factory is the issuer, tokens come into circulation only as the
\* books record them and every recorded burn has taken its tokens out, for any
\* wallets, requests and amounts and however the books stood before.
THEOREM IssuanceNeverRunsAhead == Spec => NothingUnbookedIsIssued
<1>1. TypeOK /\ RequestsFillCounters /\ [Next]_vars =>
        [FactoryIsIssuer => supply' - Book!Booked' <= supply - Book!Booked]_(Book!bvars)
  BY UnbookedStep
<1> QED  BY <1>1, SystemTypeCorrect, RequestsAreNumbered, PTL
         DEF Spec, NothingUnbookedIsIssued, Book!NothingUnbookedIsIssued

\* Whenever the programs run on from a state whose books account for every
\* token (one right after the deployment, say) and the factory stays the issuer,
\* no token circulates that an approved mint request did not issue, less those
\* that the burn requests recorded.
THEOREM CirculationStaysBooked ==
  TypeOK /\ RequestsFillCounters /\ CirculationIsBooked
  /\ [][Next]_vars /\ []FactoryIsIssuer
    => []CirculationIsBooked
<1> DEFINE IInv == TypeOK /\ RequestsFillCounters /\ CirculationIsBooked
<1>1. IInv /\ FactoryIsIssuer /\ [Next]_vars => IInv'
  <2> SUFFICES ASSUME IInv, FactoryIsIssuer, [Next]_vars
               PROVE  IInv'
    OBVIOUS
  <2>1. TypeOK' /\ RequestsFillCounters'
    BY TypeStep, CountersStep
  <2>2. PICK s, b, sNext, bNext :
          /\ s = supply /\ sNext = supply' /\ b = Book!Booked /\ bNext = Book!Booked'
    OBVIOUS
  <2>3. /\ s \in Int /\ sNext \in Int /\ b \in Int /\ bNext \in Int
        /\ sNext - bNext <= s - b
    BY <2>2, UnbookedStep
  <2>4. s <= b
    BY <2>2 DEF CirculationIsBooked, Book!CirculationIsBooked
  <2>5. sNext <= bNext
    BY <2>3, <2>4
  <2> QED  BY <2>1, <2>2, <2>5 DEF CirculationIsBooked, Book!CirculationIsBooked
<1> QED  BY <1>1, PTL
=============================================================================
