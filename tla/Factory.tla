------------------------------ MODULE Factory -------------------------------
(***************************************************************************)
(* The Factory program, composed with the Members and Controller programs  *)
(* whose accounts it reads and calls, and with the token.                  *)
(*                                                                         *)
(* The Factory keeps the BTC deposit addresses, one account per mint and   *)
(* per burn request (a PDA of the request's nonce), and the two counters   *)
(* the nonces come from. Every instruction is one Solana transaction: all  *)
(* of its checks, calls into other programs included, pass and all of its  *)
(* effects happen at once, or nothing does.                                *)
(***************************************************************************)
EXTENDS Integers, Sequences

CONSTANTS
    Keys,           \* public keys somebody can sign for
    NoKey,          \* Pubkey::default()
    NoAccount,      \* an account that does not exist
    ControllerPda,  \* the controller_store PDA
    MembersId, ControllerId, FactoryId,  \* the ids of the three programs
    ForeignIds,     \* ids of other programs
    BtcAddresses,   \* BTC addresses: nonempty strings, as tuples of symbols
    TxIds,          \* BTC transaction ids, the same way; may hold the empty one
    U16Max, U64Max  \* the largest u16 and u64

VARIABLES
    members_store, merchant_infos,    \* the Members program
    controller_store,                 \* the Controller program
    mint_authority, supply, balance,  \* the token
    factory_store,                    \* the FactoryStore account
    mint_requests, burn_requests,     \* the RequestAccount of each nonce
    custodian_btc_address,  \* where a merchant pays in: its account, by merchant
    merchant_btc_address    \* where a merchant is paid out, by merchant

membersVars == <<members_store, merchant_infos>>
tokenVars == <<mint_authority, supply, balance>>
addressVars == <<custodian_btc_address, merchant_btc_address>>
factoryVars ==
    <<factory_store, mint_requests, burn_requests,
      custodian_btc_address, merchant_btc_address>>
vars ==
    <<members_store, merchant_infos, controller_store,
      mint_authority, supply, balance,
      factory_store, mint_requests, burn_requests,
      custodian_btc_address, merchant_btc_address>>

ProgramIds == {MembersId, ControllerId, FactoryId} \union ForeignIds

Members == INSTANCE Members
Controller == INSTANCE Controller WITH Programs <- ProgramIds
Token == INSTANCE SplToken

-----------------------------------------------------------------------------
(* Types                                                                   *)

EmptyString == <<>>
Nonces == 0..U64Max
Amounts == 0..U64Max
BtcTxIds == TxIds \union {EmptyString}
RequestType == {"Mint", "Burn"}
RequestStatus == {"Pending", "Canceled", "Approved", "Rejected"}

FactoryStore ==
    [mint_request_counter : Nonces, burn_request_counter : Nonces,
     controller : ProgramIds \union {NoKey}]

\* What calculate_hash digests. keccak is taken to be free of collisions, so
\* a digest is the bytes it was computed from: the address and the txid are
\* concatenated without a separator, and the type is not among them. (The
\* timestamp is left out: the nonce already tells requests of a type apart.)
RequestHash ==
    [requester : Keys, amount : Amounts,
     text : {a \o t : a \in BtcAddresses, t \in BtcTxIds}, nonce : Nonces]

RequestAccount ==
    [request_type : RequestType, requester : Keys, amount : Amounts,
     btc_deposit_address : BtcAddresses, btc_txid : BtcTxIds,
     nonce : Nonces, status : RequestStatus, hash : RequestHash]

\* A request as the books of IssuanceBook have it.
BookEntry == [requester : Keys, amount : Amounts, status : RequestStatus]

ASSUME KeysAssumption ==
    /\ NoKey \notin Keys \union ProgramIds
    /\ ControllerPda \notin Keys \union {NoKey}
ASSUME ProgramsAssumption ==
    /\ MembersId # ControllerId /\ MembersId # FactoryId
    /\ ControllerId # FactoryId
    /\ ForeignIds \intersect {MembersId, ControllerId, FactoryId} = {}
ASSUME StoreAssumption ==
    NoAccount \notin Members!MembersStore \union Controller!ControllerStore
                     \union FactoryStore \union RequestAccount \union BookEntry
                     \union BtcAddresses
ASSUME WidthAssumption == U16Max \in Nat \ {0} /\ U64Max \in Nat \ {0}
ASSUME AddressAssumption == EmptyString \notin BtcAddresses

Existing(S) == S \union {NoAccount}

TypeOK ==
    /\ Members!TypeOK
    /\ Controller!TypeOK
    /\ factory_store \in Existing(FactoryStore)
    /\ mint_requests \in [Nonces -> Existing(RequestAccount)]
    /\ burn_requests \in [Nonces -> Existing(RequestAccount)]
    /\ custodian_btc_address \in [Keys -> Existing(BtcAddresses)]
    /\ merchant_btc_address \in [Keys -> Existing(BtcAddresses)]

Init ==
    /\ Members!Init
    /\ Controller!Init
    /\ factory_store = NoAccount
    /\ mint_requests = [n \in Nonces |-> NoAccount]
    /\ burn_requests = [n \in Nonces |-> NoAccount]
    /\ custodian_btc_address = [k \in Keys |-> NoAccount]
    /\ merchant_btc_address = [k \in Keys |-> NoAccount]

-----------------------------------------------------------------------------
(* The accounts an instruction resolves through the configuration: the     *)
(* factory store names the controller program, whose store names the       *)
(* members program. An account is read only if the program that declares   *)
(* its type owns it, so a chain through any other id resolves to nothing.  *)

\* Mutant: the controller account is taken without checking its program.
AnyController == factory_store # NoAccount /\ controller_store # NoAccount

ControllerResolved ==
    /\ factory_store # NoAccount
    /\ factory_store.controller = ControllerId
    /\ controller_store # NoAccount

MembersResolved ==
    /\ ControllerResolved
    /\ controller_store.members = MembersId
    /\ members_store # NoAccount

\* The merchant_info account of the key exists.
IsMerchant(k) == MembersResolved /\ k \in merchant_infos

IsCustodian(k) == MembersResolved /\ members_store.custodian = k

-----------------------------------------------------------------------------
(* Instructions of the Factory. The first parameter is the key that signs. *)

\* Mutant: init_if_needed in place of init.
InitializeAgain(payer, controller) ==
    /\ factory_store' = [mint_request_counter |-> 0, burn_request_counter |-> 0,
                         controller |-> controller]
    /\ UNCHANGED <<membersVars, controller_store, tokenVars,
                   mint_requests, burn_requests, addressVars>>

CanInitialize == factory_store = NoAccount

\* Anybody initializes the factory, once, with a controller nobody checks
\* and no instruction changes.
Initialize(payer, controller) ==
    /\ CanInitialize
    /\ factory_store' = [mint_request_counter |-> 0, burn_request_counter |-> 0,
                         controller |-> controller]
    /\ UNCHANGED <<membersVars, controller_store, tokenVars,
                   mint_requests, burn_requests, addressVars>>

CanSetCustodianBtcDepositAddress(payer, merchant, address) ==
    /\ IsCustodian(payer)
    /\ IsMerchant(merchant)
    /\ address # EmptyString

SetCustodianBtcDepositAddress(payer, merchant, address) ==
    /\ CanSetCustodianBtcDepositAddress(payer, merchant, address)
    /\ custodian_btc_address' = [custodian_btc_address EXCEPT ![merchant] = address]
    /\ UNCHANGED <<membersVars, controller_store, tokenVars, factory_store,
                   mint_requests, burn_requests, merchant_btc_address>>

\* Mutant: the empty string passes for an address.
SetMerchantBtcDepositAddressUnchecked(payer, address) ==
    /\ IsMerchant(payer)
    /\ merchant_btc_address' = [merchant_btc_address EXCEPT ![payer] = address]
    /\ UNCHANGED <<membersVars, controller_store, tokenVars, factory_store,
                   mint_requests, burn_requests, custodian_btc_address>>

CanSetMerchantBtcDepositAddress(payer, address) ==
    IsMerchant(payer) /\ address # EmptyString

SetMerchantBtcDepositAddress(payer, address) ==
    /\ CanSetMerchantBtcDepositAddress(payer, address)
    /\ merchant_btc_address' = [merchant_btc_address EXCEPT ![payer] = address]
    /\ UNCHANGED <<membersVars, controller_store, tokenVars, factory_store,
                   mint_requests, burn_requests, custodian_btc_address>>

calculate_hash(requester, amount, address, txid, nonce) ==
    [requester |-> requester, amount |-> amount,
     text |-> address \o txid, nonce |-> nonce]

\* The content a new request account gets.
NewRequest(type, requester, amount, address, txid, nonce) ==
    [request_type |-> type, requester |-> requester, amount |-> amount,
     btc_deposit_address |-> address, btc_txid |-> txid, nonce |-> nonce,
     status |-> "Pending",
     hash |-> calculate_hash(requester, amount, address, txid, nonce)]

\* Mutant: a build without overflow-checks, where the counter wraps.
AddMintRequestWrapping(payer, amount, address, txid) ==
    LET nonce == factory_store.mint_request_counter IN
    /\ IsMerchant(payer)
    /\ custodian_btc_address[payer] = address
    /\ mint_requests[nonce] = NoAccount
    /\ mint_requests' = [mint_requests EXCEPT ![nonce] =
                            NewRequest("Mint", payer, amount, address, txid, nonce)]
    /\ factory_store' = [factory_store EXCEPT !.mint_request_counter =
                            (@ + 1) % (U64Max + 1)]
    /\ UNCHANGED <<membersVars, controller_store, tokenVars,
                   burn_requests, addressVars>>

\* The request account is the PDA of the counter. It must not exist yet, and
\* counting past a u64 panics and reverts the transaction.
CanAddMintRequest(payer, address) ==
    LET nonce == factory_store.mint_request_counter IN
    /\ IsMerchant(payer)
    /\ address # EmptyString
    /\ custodian_btc_address[payer] = address
    /\ nonce < U64Max
    /\ mint_requests[nonce] = NoAccount

AddMintRequest(payer, amount, address, txid) ==
    LET nonce == factory_store.mint_request_counter IN
    /\ CanAddMintRequest(payer, address)
    /\ mint_requests' = [mint_requests EXCEPT ![nonce] =
                            NewRequest("Mint", payer, amount, address, txid, nonce)]
    /\ factory_store' = [factory_store EXCEPT !.mint_request_counter = @ + 1]
    /\ UNCHANGED <<membersVars, controller_store, tokenVars,
                   burn_requests, addressVars>>

\* Mutant: the status is not looked at.
IsRequest(request, type, nonce, request_hash) ==
    /\ request # NoAccount
    /\ request.request_type = type
    /\ request.nonce = nonce
    /\ request.hash = request_hash

\* The constraints every later step puts on the account of a request.
IsPending(request, type, nonce, request_hash) ==
    /\ request # NoAccount
    /\ request.request_type = type
    /\ request.nonce = nonce
    /\ request.status = "Pending"
    /\ request.hash = request_hash

\* Mutant: only a merchant of good standing may cancel.
CanCancelAsMerchant(payer, nonce, request_hash) ==
    /\ IsMerchant(payer)
    /\ IsPending(mint_requests[nonce], "Mint", nonce, request_hash)
    /\ mint_requests[nonce].requester = payer

\* All that cancel_mint_request demands: the requester cancels on its own.
\* Neither its being a merchant still, nor the configuration, is looked at.
CanCancelMintRequest(payer, nonce, request_hash) ==
    /\ factory_store # NoAccount
    /\ IsPending(mint_requests[nonce], "Mint", nonce, request_hash)
    /\ mint_requests[nonce].requester = payer

\* Mutant: the account of the last request is closed and its nonce used again.
CancelMintRequestReclaims(payer, nonce, request_hash) ==
    /\ CanCancelMintRequest(payer, nonce, request_hash)
    /\ nonce + 1 = factory_store.mint_request_counter
    /\ mint_requests' = [mint_requests EXCEPT ![nonce] = NoAccount]
    /\ factory_store' = [factory_store EXCEPT !.mint_request_counter = nonce]
    /\ UNCHANGED <<membersVars, controller_store, tokenVars,
                   burn_requests, addressVars>>

CancelMintRequest(payer, nonce, request_hash) ==
    /\ CanCancelMintRequest(payer, nonce, request_hash)
    /\ mint_requests' = [mint_requests EXCEPT ![nonce].status = "Canceled"]
    /\ UNCHANGED <<membersVars, controller_store, tokenVars, factory_store,
                   burn_requests, addressVars>>

\* Mutants: the deposit address is read again; the status is not written back
\* after the CPI.
ConfirmMintRequestReread(payer, nonce, request_hash) ==
    LET r == mint_requests[nonce] IN
    /\ IsCustodian(payer) /\ IsPending(r, "Mint", nonce, request_hash)
    /\ Controller!Mint(FactoryId, r.requester, r.amount)
    /\ mint_requests' = [mint_requests EXCEPT ![nonce] =
          [r EXCEPT !.status = "Approved",
                    !.btc_deposit_address = custodian_btc_address[r.requester]]]
    /\ UNCHANGED <<membersVars, factory_store, burn_requests, addressVars>>

ConfirmMintRequestAgain(payer, nonce, request_hash) ==
    /\ IsCustodian(payer)
    /\ IsPending(mint_requests[nonce], "Mint", nonce, request_hash)
    /\ Controller!Mint(FactoryId, mint_requests[nonce].requester,
                       mint_requests[nonce].amount)
    /\ UNCHANGED <<membersVars, factory_store, mint_requests, burn_requests,
                   addressVars>>

\* The CPI into Controller.mint is signed by the factory's PDA; when it fails
\* the whole transaction does. The to_address passed along must be the
\* requester, so it is no parameter here. Whether the requester is a merchant
\* still is not looked at.
CanConfirmMintRequest(payer, nonce, request_hash) ==
    /\ IsCustodian(payer)
    /\ IsPending(mint_requests[nonce], "Mint", nonce, request_hash)
    /\ Controller!CanMint(FactoryId, mint_requests[nonce].requester,
                          mint_requests[nonce].amount)

ConfirmMintRequest(payer, nonce, request_hash) ==
    /\ CanConfirmMintRequest(payer, nonce, request_hash)
    /\ Controller!Mint(FactoryId, mint_requests[nonce].requester,
                       mint_requests[nonce].amount)
    /\ mint_requests' = [mint_requests EXCEPT ![nonce].status = "Approved"]
    /\ UNCHANGED <<membersVars, factory_store, burn_requests, addressVars>>

\* Mutant: a settled request may be rejected too.
RejectMintRequestAnytime(payer, nonce, request_hash) ==
    /\ IsCustodian(payer)
    /\ mint_requests[nonce] # NoAccount
    /\ mint_requests[nonce].hash = request_hash
    /\ mint_requests' = [mint_requests EXCEPT ![nonce].status = "Rejected"]
    /\ UNCHANGED <<membersVars, controller_store, tokenVars, factory_store,
                   burn_requests, addressVars>>

CanRejectMintRequest(payer, nonce, request_hash) ==
    IsCustodian(payer) /\ IsPending(mint_requests[nonce], "Mint", nonce, request_hash)

RejectMintRequest(payer, nonce, request_hash) ==
    /\ CanRejectMintRequest(payer, nonce, request_hash)
    /\ mint_requests' = [mint_requests EXCEPT ![nonce].status = "Rejected"]
    /\ UNCHANGED <<membersVars, controller_store, tokenVars, factory_store,
                   burn_requests, addressVars>>

\* Mutants: the counter is not advanced; the request is recorded without the
\* tokens being burned.
BurnKeepsCounter(payer, amount) ==
    LET nonce == factory_store.burn_request_counter
        address == merchant_btc_address[payer] IN
    /\ IsMerchant(payer)
    /\ address # NoAccount
    /\ amount > 0
    /\ burn_requests[nonce] = NoAccount
    /\ burn_requests' = [burn_requests EXCEPT ![nonce] =
                            NewRequest("Burn", payer, amount, address, EmptyString, nonce)]
    /\ Token!BurnChecked(payer, amount)
    /\ UNCHANGED <<membersVars, controller_store, factory_store, mint_requests,
                   addressVars>>

BurnNothing(payer, amount) ==
    LET nonce == factory_store.burn_request_counter
        address == merchant_btc_address[payer] IN
    /\ IsMerchant(payer)
    /\ address # NoAccount
    /\ amount > 0 /\ amount <= balance[payer]
    /\ nonce < U64Max
    /\ burn_requests[nonce] = NoAccount
    /\ burn_requests' = [burn_requests EXCEPT ![nonce] =
                            NewRequest("Burn", payer, amount, address, EmptyString, nonce)]
    /\ factory_store' = [factory_store EXCEPT !.burn_request_counter = @ + 1]
    /\ UNCHANGED <<membersVars, controller_store, tokenVars, mint_requests, addressVars>>

CanBurn(payer, amount) ==
    LET nonce == factory_store.burn_request_counter IN
    /\ IsMerchant(payer)
    /\ merchant_btc_address[payer] \notin {NoAccount, EmptyString}
    /\ amount > 0
    /\ nonce < U64Max
    /\ burn_requests[nonce] = NoAccount
    /\ Token!CanBurnChecked(payer, amount)

\* The request takes a copy of the address the merchant wants to be paid at,
\* and the tokens are burned in the same transaction.
Burn(payer, amount) ==
    LET nonce == factory_store.burn_request_counter
        address == merchant_btc_address[payer] IN
    /\ CanBurn(payer, amount)
    /\ burn_requests' = [burn_requests EXCEPT ![nonce] =
                            NewRequest("Burn", payer, amount, address, EmptyString, nonce)]
    /\ factory_store' = [factory_store EXCEPT !.burn_request_counter = @ + 1]
    /\ Token!BurnChecked(payer, amount)
    /\ UNCHANGED <<membersVars, controller_store, mint_requests, addressVars>>

\* Mutants: the hash is computed again over the txid; the address is read again.
ConfirmBurnRequestRehashed(payer, nonce, txid, request_hash) ==
    LET r == burn_requests[nonce] IN
    /\ IsCustodian(payer) /\ IsPending(r, "Burn", nonce, request_hash)
    /\ burn_requests' = [burn_requests EXCEPT ![nonce] =
          [r EXCEPT !.btc_txid = txid, !.status = "Approved",
                    !.hash = calculate_hash(r.requester, r.amount,
                                            r.btc_deposit_address, txid, nonce)]]
    /\ UNCHANGED <<membersVars, controller_store, tokenVars, factory_store,
                   mint_requests, addressVars>>

ConfirmBurnRequestReread(payer, nonce, txid, request_hash) ==
    LET r == burn_requests[nonce] IN
    /\ IsCustodian(payer) /\ IsPending(r, "Burn", nonce, request_hash)
    /\ burn_requests' = [burn_requests EXCEPT ![nonce] =
          [r EXCEPT !.btc_txid = txid, !.status = "Approved",
                    !.btc_deposit_address = merchant_btc_address[r.requester]]]
    /\ UNCHANGED <<membersVars, controller_store, tokenVars, factory_store,
                   mint_requests, addressVars>>

CanConfirmBurnRequest(payer, nonce, request_hash) ==
    IsCustodian(payer) /\ IsPending(burn_requests[nonce], "Burn", nonce, request_hash)

\* The txid is filled in; the hash is not computed again.
ConfirmBurnRequest(payer, nonce, txid, request_hash) ==
    /\ CanConfirmBurnRequest(payer, nonce, request_hash)
    /\ burn_requests' = [burn_requests EXCEPT ![nonce] =
                            [@ EXCEPT !.btc_txid = txid, !.status = "Approved"]]
    /\ UNCHANGED <<membersVars, controller_store, tokenVars, factory_store,
                   mint_requests, addressVars>>

-----------------------------------------------------------------------------
\* The hash a caller passes is one it has read from some request account.
KnownHashes ==
    {mint_requests[n].hash : n \in {m \in Nonces : mint_requests[m] # NoAccount}}
      \union
    {burn_requests[n].hash : n \in {m \in Nonces : burn_requests[m] # NoAccount}}

\* What a merchant or a former merchant sends.
MerchantInstruction(signer) ==
    \/ \E address \in BtcAddresses \union {EmptyString} :
          \/ SetMerchantBtcDepositAddress(signer, address)
          \/ \E amount \in Amounts, txid \in BtcTxIds :
                AddMintRequest(signer, amount, address, txid)
    \/ \E nonce \in Nonces, request_hash \in KnownHashes :
          CancelMintRequest(signer, nonce, request_hash)
    \/ \E amount \in Amounts : Burn(signer, amount)

\* What the custodian sends.
CustodianInstruction(signer) ==
    \/ \E merchant \in Keys, address \in BtcAddresses \union {EmptyString} :
          SetCustodianBtcDepositAddress(signer, merchant, address)
    \/ \E nonce \in Nonces, request_hash \in KnownHashes :
          \/ ConfirmMintRequest(signer, nonce, request_hash)
          \/ RejectMintRequest(signer, nonce, request_hash)
          \/ \E txid \in BtcTxIds :
                ConfirmBurnRequest(signer, nonce, txid, request_hash)

MembersInstruction(signer) ==
    /\ Members!Instruction(signer)
    /\ UNCHANGED <<controller_store, tokenVars, factoryVars>>

ControllerInstruction(signer) ==
    /\ Controller!Instruction(signer)
    /\ UNCHANGED <<membersVars, factoryVars>>

\* A program other than this Factory, set as the factory, mints what it likes.
ForeignMint ==
    /\ \E program \in ForeignIds, to \in Keys, amount \in Amounts :
          Controller!Mint(program, to, amount)
    /\ UNCHANGED <<membersVars, factoryVars>>

WalletInstruction(signer) ==
    /\ Token!Wallet(signer)
    /\ UNCHANGED <<membersVars, controller_store, factoryVars>>

Next ==
    \/ \E signer \in Keys :
          \/ \E program \in ProgramIds \union {NoKey} : Initialize(signer, program)
          \/ MerchantInstruction(signer)
          \/ CustodianInstruction(signer)
          \/ MembersInstruction(signer)
          \/ ControllerInstruction(signer)
          \/ WalletInstruction(signer)
    \/ ForeignMint

Spec == Init /\ [][Next]_vars

-----------------------------------------------------------------------------
(* Properties                                                              *)

\* The requests of a type are exactly those numbered below its counter, each
\* in the account of its own nonce: the account a new request needs is always
\* free, and no request is ever overwritten or skipped.
Numbered(requests, type, counter) ==
    \A n \in Nonces :
        /\ requests[n] # NoAccount <=> n < counter
        /\ requests[n] # NoAccount =>
              requests[n].nonce = n /\ requests[n].request_type = type

RequestsFillCounters ==
    IF factory_store = NoAccount
    THEN \A n \in Nonces : mint_requests[n] = NoAccount /\ burn_requests[n] = NoAccount
    ELSE /\ Numbered(mint_requests, "Mint", factory_store.mint_request_counter)
         /\ Numbered(burn_requests, "Burn", factory_store.burn_request_counter)

\* The hash a custodian or requester sends along pins what it approves: it is
\* the hash of the terms the request still has. Confirming a burn writes the
\* txid, so that the hash stays the one of the request as it was made.
HashOf(r, txid) ==
    calculate_hash(r.requester, r.amount, r.btc_deposit_address, txid, r.nonce)

HashPinsTerms ==
    \A n \in Nonces :
        /\ mint_requests[n] # NoAccount =>
              mint_requests[n].hash = HashOf(mint_requests[n], mint_requests[n].btc_txid)
        /\ burn_requests[n] # NoAccount =>
              burn_requests[n].hash = HashOf(burn_requests[n], EmptyString)

\* A request is made once: whatever happens to addresses, roles and
\* configuration while it is pending, its terms stay, a settled one changes no
\* more, and only the confirmation of a burn writes a txid.
Fixed(r, q) ==
    /\ q # NoAccount
    /\ q.requester = r.requester /\ q.amount = r.amount
    /\ q.btc_deposit_address = r.btc_deposit_address
    /\ q.nonce = r.nonce /\ q.hash = r.hash
    /\ r.status # "Pending" => q = r
    /\ q.btc_txid # r.btc_txid =>
          r.request_type = "Burn" /\ q.status = "Approved"

TermsAreFixed ==
    [][ \A n \in Nonces :
          /\ mint_requests[n] # NoAccount => Fixed(mint_requests[n], mint_requests'[n])
          /\ burn_requests[n] # NoAccount => Fixed(burn_requests[n], burn_requests'[n])
      ]_vars

\* initialize takes any controller and there is no way to correct it. A
\* factory wired to anything but the controller is inert for ever: no address,
\* no request, no mint; it cannot do half of its work.
MiswiredFactoryIsInert ==
    factory_store = NoAccount \/ factory_store.controller # ControllerId =>
        \A n \in Nonces, k \in Keys :
            /\ mint_requests[n] = NoAccount /\ burn_requests[n] = NoAccount
            /\ custodian_btc_address[k] = NoAccount
            /\ merchant_btc_address[k] = NoAccount

\* Whatever the owners did to the configuration, the custodian, the merchants
\* or the mint authority, the requester of a pending mint request can still
\* withdraw it: its cancel_mint_request meets every check. (The rest of that
\* instruction is assignments, so that it is enabled then.)
PendingMintsCanBeCanceled ==
    \A n \in Nonces :
        mint_requests[n] # NoAccount /\ mint_requests[n].status = "Pending" =>
            CanCancelMintRequest(mint_requests[n].requester, n, mint_requests[n].hash)

\* The README says the Members program ensures "that only approved entities
\* can perform minting and burning operations". A request outlives its
\* requester's approval, and confirming it mints to a removed merchant.
MintsOnlyToMerchants ==
    [][ \A n \in Nonces :
          mint_requests[n] # NoAccount /\ mint_requests[n].status = "Pending"
          /\ mint_requests'[n].status = "Approved"
            => mint_requests[n].requester \in merchant_infos ]_vars

\* The README's burning flow has the custodian query "the merchant's BTC
\* address" and pay there. What a request is settled with is the copy taken at
\* the burn, which need not be the merchant's address any more.
PaidWhereTheMerchantAsks ==
    [][ \A n \in Nonces :
          burn_requests[n] # NoAccount /\ burn_requests[n].status = "Pending"
          /\ burn_requests'[n].status = "Approved"
            => burn_requests[n].btc_deposit_address =
                  merchant_btc_address[burn_requests[n].requester] ]_vars

-----------------------------------------------------------------------------
(* The books the requests and the token make up, see IssuanceBook.         *)

Entry(r) ==
    IF r = NoAccount THEN NoAccount
    ELSE [requester |-> r.requester, amount |-> r.amount, status |-> r.status]

FactoryIsIssuer ==
    /\ mint_authority = ControllerPda
    /\ controller_store # NoAccount
    /\ controller_store.factory = FactoryId

Book ==
    INSTANCE IssuanceBook WITH
        NoEntry     <- NoAccount,
        minting     <- [n \in Nonces |-> Entry(mint_requests[n])],
        burning     <- [n \in Nonces |-> Entry(burn_requests[n])],
        factoryRuns <- FactoryIsIssuer

\* The three programs implement the issuance book: requests are settled once
\* and keep their terms, and while the factory is the issuer tokens come into
\* being only by approving a pending mint request, in its requester's account.
IssuanceIsBooked == Book!Spec

\* Started from books that account for every token, as the deployment leaves
\* them, no token circulates that an approved mint request did not issue, less
\* every token a burn request recorded, paid out or not.
CirculationIsBooked == Book!CirculationIsBooked

\* And whatever was minted before the factory became the issuer, or by another
\* one since: while it is the factory, what the books do not account for does
\* not grow, however the steps of merchants, custodian and holders interleave.
NothingUnbookedIsIssued == Book!NothingUnbookedIsIssued
=============================================================================
