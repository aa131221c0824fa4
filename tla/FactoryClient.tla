---------------------------- MODULE FactoryClient ----------------------------
(***************************************************************************)
(* FactoryClient (client/factory-client.ts) driving the Factory. Most of    *)
(* its methods first await an account (the factory store for the counters   *)
(* and the controller, or the request and its hash), then derive addresses  *)
(* from what they read and send one transaction. Between the two awaits     *)
(* other callers' transactions land. The cluster may take the transaction,  *)
(* refuse it, lose it, or take it after the client stopped waiting for the  *)
(* confirmation; the caller may then call again. See Rpc.                   *)
(*                                                                          *)
(* Reading an older block than the latest is reading and then being slow to *)
(* send, so a read sees the latest one. The program ids and the token mint  *)
(* that callers pass are those of the deployment.                           *)
(***************************************************************************)
EXTENDS Factory, FiniteSets

CONSTANTS
    Methods,      \* the methods each key calls
    CallAmounts,  \* the amounts it passes
    MaxLate       \* bound: transactions whose sender has given up waiting

VARIABLES call, late, strays  \* the calls, see Rpc

INSTANCE Rpc

allVars == <<vars, call, late, strays>>

AddressMethods == {"setCustodianBtcDepositAddress", "setMerchantBtcDepositAddress"}
MakingMethods == {"addMintRequest", "burn"}
MintMethods ==
    {"addMintRequest", "cancelMintRequest", "confirmMintRequest", "rejectMintRequest"}
SettlingMethods ==
    {"cancelMintRequest", "confirmMintRequest", "rejectMintRequest", "confirmBurnRequest"}
MethodNames ==
    {"initialize", "closeRequest"} \union AddressMethods
      \union MakingMethods \union SettlingMethods

ASSUME MethodsAssumption == Methods \in [Keys -> SUBSET MethodNames]
ASSUME AmountsAssumption == CallAmounts \subseteq Amounts
ASSUME LateAssumption == MaxLate \in Nat

-----------------------------------------------------------------------------
(* What the client reads.                                                   *)

\* The requests a method is about.
Requests(method) == IF method \in MintMethods THEN mint_requests ELSE burn_requests

\* Mutant: the request is numbered after the counter.
NextCounter(method) ==
    1 + IF method = "addMintRequest" THEN factory_store.mint_request_counter
        ELSE factory_store.burn_request_counter

Counter(method) ==
    IF method = "addMintRequest" THEN factory_store.mint_request_counter
    ELSE factory_store.burn_request_counter

getMerchantBtcDepositAddress(merchant) == merchant_btc_address[merchant]

getCustodianBtcDepositAddress(merchant) == custodian_btc_address[merchant]

\* What there is to a request for somebody who looks it up before acting on it.
Terms(r) ==
    IF r = NoAccount THEN NoAccount
    ELSE [requester |-> r.requester, amount |-> r.amount,
          address |-> r.btc_deposit_address]

\* What a caller knows when it calls: the request it settles, or the address
\* it pays in to or will be paid at.
Reviewed(s, method, amount, nonce) ==
    LET offer(address) ==
            IF address = NoAccount THEN NoAccount
            ELSE [requester |-> s, amount |-> amount, address |-> address] IN
    CASE method \in SettlingMethods -> Terms(Requests(method)[nonce])
      [] method = "addMintRequest"  -> offer(getCustodianBtcDepositAddress(s))
      [] method = "burn"            -> offer(getMerchantBtcDepositAddress(s))
      [] OTHER                      -> NoAccount

-----------------------------------------------------------------------------
\* What can be known of a request in advance.
Offer == [requester : Keys, amount : Amounts, address : BtcAddresses]

ASSUME OfferAssumption == NoAccount \notin Offer

Transaction ==
    [method : MethodNames, signer : Keys, merchant : Keys, amount : Amounts,
     address : BtcAddresses \union {EmptyString}, btc_txid : BtcTxIds,
     controller : ProgramIds \union {NoKey},
     nonce : Nonces, request_hash : Existing(RequestHash),
     reviewed : Existing(Offer)]

ClientTypeOK == RpcTypeOK(Transaction)

\* What may be passed for a parameter that only the methods `takers` have.
Passed(method, takers, values, blank) == IF method \in takers THEN values ELSE {blank}

\* initialize reads nothing, and closeRequest throws at once: the program has
\* no such instruction, so Anchor has no builder for it.
FirstPhase(method) ==
    CASE method = "initialize"   -> "sent"
      [] method = "closeRequest" -> "failed"
      [] OTHER                   -> "reading"

Call(s, method) ==
    /\ method \in Methods[s]
    /\ \E amount \in Passed(method, MakingMethods, CallAmounts, 0),
          merchant \in Passed(method, {"setCustodianBtcDepositAddress",
                                       "confirmMintRequest"}, Keys, s),
          address \in Passed(method, AddressMethods \union {"addMintRequest"},
                             BtcAddresses, EmptyString),
          txid \in Passed(method, {"addMintRequest", "confirmBurnRequest"},
                          TxIds, EmptyString),
          controller \in Passed(method, {"initialize"}, ProgramIds, NoKey),
          nonce \in Passed(method, SettlingMethods \union {"closeRequest"},
                           0..(U64Max - 1), 0) :
          Begin(s, FirstPhase(method),
                [method |-> method, signer |-> s, merchant |-> merchant,
                 amount |-> amount, address |-> address, btc_txid |-> txid,
                 controller |-> controller, nonce |-> nonce,
                 request_hash |-> NoAccount,
                 reviewed |-> Reviewed(s, method, amount, nonce)])
    /\ UNCHANGED vars

\* await getFactoryStore(), then send. What it says of the controller cannot
\* change; a new request is numbered by the counter.
ReadStore(s) ==
    LET tx == call[s].tx IN
    /\ call[s].phase = "reading"
    /\ tx.method \in AddressMethods \union MakingMethods
    /\ factory_store # NoAccount
    /\ Send(s, [tx EXCEPT !.nonce =
                   IF tx.method \in MakingMethods THEN Counter(tx.method) ELSE @])
    /\ UNCHANGED vars

\* Mutant: the account is passed where its hash belongs.
ReadRequestPassesAccount(s) ==
    LET tx == call[s].tx
        r  == Requests(tx.method)[tx.nonce] IN
    /\ call[s].phase = "reading"
    /\ tx.method \in SettlingMethods
    /\ r # NoAccount
    /\ Send(s, [tx EXCEPT !.request_hash = r])
    /\ UNCHANGED vars

\* await requestAccount.fetch(), then send.
ReadRequest(s) ==
    LET tx == call[s].tx
        r  == Requests(tx.method)[tx.nonce] IN
    /\ call[s].phase = "reading"
    /\ tx.method \in SettlingMethods
    /\ r # NoAccount
    /\ Send(s, [tx EXCEPT !.request_hash = r.hash])
    /\ UNCHANGED vars

\* The fetch throws, and the method with it: there is no such account, or the
\* node did not answer, whatever there is.
ReadFails(s) == Throw(s) /\ UNCHANGED vars

-----------------------------------------------------------------------------
(* The transaction each method builds: its instruction on the accounts the *)
(* method derived.                                                         *)

initialize(tx) ==
    /\ tx.method = "initialize"
    /\ Initialize(tx.signer, tx.controller)

setCustodianBtcDepositAddress(tx) ==
    /\ tx.method = "setCustodianBtcDepositAddress"
    /\ SetCustodianBtcDepositAddress(tx.signer, tx.merchant, tx.address)

setMerchantBtcDepositAddress(tx) ==
    /\ tx.method = "setMerchantBtcDepositAddress"
    /\ SetMerchantBtcDepositAddress(tx.signer, tx.address)

\* One that makes a request names the account it derived from the counter it
\* read, which must be the one the program derives from the counter now.
addMintRequest(tx) ==
    /\ tx.method = "addMintRequest"
    /\ factory_store # NoAccount
    /\ tx.nonce = factory_store.mint_request_counter
    /\ AddMintRequest(tx.signer, tx.amount, tx.address, tx.btc_txid)

burn(tx) ==
    /\ tx.method = "burn"
    /\ factory_store # NoAccount
    /\ tx.nonce = factory_store.burn_request_counter
    /\ Burn(tx.signer, tx.amount)

cancelMintRequest(tx) ==
    /\ tx.method = "cancelMintRequest"
    /\ CancelMintRequest(tx.signer, tx.nonce, tx.request_hash)

\* The tokens go to the associated account of the merchant that was passed,
\* which the program compares with the requester.
confirmMintRequest(tx) ==
    /\ tx.method = "confirmMintRequest"
    /\ ConfirmMintRequest(tx.signer, tx.nonce, tx.request_hash)
    /\ mint_requests[tx.nonce].requester = tx.merchant

rejectMintRequest(tx) ==
    /\ tx.method = "rejectMintRequest"
    /\ RejectMintRequest(tx.signer, tx.nonce, tx.request_hash)

confirmBurnRequest(tx) ==
    /\ tx.method = "confirmBurnRequest"
    /\ ConfirmBurnRequest(tx.signer, tx.nonce, tx.btc_txid, tx.request_hash)

Instruction(tx) ==
    \/ initialize(tx)
    \/ setCustodianBtcDepositAddress(tx) \/ setMerchantBtcDepositAddress(tx)
    \/ addMintRequest(tx) \/ burn(tx)
    \/ cancelMintRequest(tx) \/ confirmMintRequest(tx) \/ rejectMintRequest(tx)
    \/ confirmBurnRequest(tx)

\* The programs accept the transaction.
Accepted(tx) ==
    CASE tx.method = "initialize" -> CanInitialize
      [] tx.method = "setCustodianBtcDepositAddress" ->
           CanSetCustodianBtcDepositAddress(tx.signer, tx.merchant, tx.address)
      [] tx.method = "setMerchantBtcDepositAddress" ->
           CanSetMerchantBtcDepositAddress(tx.signer, tx.address)
      [] tx.method = "addMintRequest" ->
           /\ factory_store # NoAccount /\ tx.nonce = factory_store.mint_request_counter
           /\ CanAddMintRequest(tx.signer, tx.address)
      [] tx.method = "burn" ->
           /\ factory_store # NoAccount /\ tx.nonce = factory_store.burn_request_counter
           /\ CanBurn(tx.signer, tx.amount)
      [] tx.method = "cancelMintRequest" ->
           CanCancelMintRequest(tx.signer, tx.nonce, tx.request_hash)
      [] tx.method = "confirmMintRequest" ->
           /\ CanConfirmMintRequest(tx.signer, tx.nonce, tx.request_hash)
           /\ mint_requests[tx.nonce].requester = tx.merchant
      [] tx.method = "rejectMintRequest" ->
           CanRejectMintRequest(tx.signer, tx.nonce, tx.request_hash)
      [] tx.method = "confirmBurnRequest" ->
           CanConfirmBurnRequest(tx.signer, tx.nonce, tx.request_hash)

-----------------------------------------------------------------------------
\* The transaction lands, and the client's rpc() returns its signature.
Land(s) == Return(s) /\ Instruction(call[s].tx)

\* The program refuses it, in the simulation or on chain, and rpc() throws.
Fail(s) ==
    /\ Refuse(s)
    /\ ~Accepted(call[s].tx)
    /\ UNCHANGED vars

\* It lands though its sender has given up.
LandLate(tx) == Stray(tx) /\ Instruction(tx)

\* What the caller awaits settles.
Settle(s) ==
    \/ ReadStore(s) \/ ReadRequest(s) \/ ReadFails(s)
    \/ Land(s) \/ Fail(s)
    \/ GiveUp(s) /\ UNCHANGED vars

ClientStep(s) == (\E method \in MethodNames : Call(s, method)) \/ Settle(s)

ClientNext ==
    \/ \E s \in Keys : ClientStep(s)
    \/ \E tx \in late : LandLate(tx) \/ (Expire(tx) /\ UNCHANGED vars)

\* The callers among everybody else: between any two steps of theirs, whoever
\* may sends any instruction to any of the programs.
OpenNext == ClientNext \/ (Next /\ UNCHANGED <<call, late, strays>>)

OpenInit == Init /\ RpcInit

OpenSpec == OpenInit /\ [][OpenNext]_allVars

\* The callers have the deposit addresses to themselves: everybody else sends
\* what they like, but sets no address and makes nobody else the custodian.
CustodianStays ==
    members_store # NoAccount /\ members_store.custodian # NoKey =>
        members_store' # NoAccount /\ members_store'.custodian = members_store.custodian

SharedNext ==
    \/ ClientNext
    \/ Next /\ CustodianStays /\ UNCHANGED <<addressVars, call, late, strays>>

-----------------------------------------------------------------------------
(* Properties                                                              *)

Outcome ==
    [cancelMintRequest |-> "Canceled", confirmMintRequest |-> "Approved",
     rejectMintRequest |-> "Rejected", confirmBurnRequest |-> "Approved"]

\* What a caller relies on when a method has returned.
Done(s, tx) ==
    LET r == Requests(tx.method)[tx.nonce] IN
    /\ tx.method = "initialize" =>
          factory_store # NoAccount /\ factory_store.controller = tx.controller
    /\ tx.method = "setCustodianBtcDepositAddress" /\ s \notin strays =>
          getCustodianBtcDepositAddress(tx.merchant) = tx.address
    /\ tx.method = "setMerchantBtcDepositAddress" /\ s \notin strays =>
          getMerchantBtcDepositAddress(s) = tx.address
    /\ tx.method \in MakingMethods =>
          r # NoAccount /\ r.requester = s /\ r.amount = tx.amount
    /\ tx.method = "addMintRequest" =>
          r.btc_deposit_address = tx.address /\ r.btc_txid = tx.btc_txid
    /\ tx.method = "burn" /\ s \notin strays =>
          tx.reviewed # NoAccount /\ r.btc_deposit_address = tx.reviewed.address
    /\ tx.method \in SettlingMethods =>
          r # NoAccount /\ r.status = Outcome[tx.method]
    /\ tx.method = "confirmMintRequest" => r.requester = tx.merchant

\* A method that returns has done what it says, and it stays done: the request
\* at the nonce it read is the caller's own, with the terms it passed; a
\* request has the outcome the method names; the factory has the controller
\* that was passed; a deposit address is the one set last; a burn is paid at
\* the address the merchant had looked up. In particular of the callers that
\* race for a nonce, to settle one request, or to initialize the factory, one
\* at most returns. (A caller whose earlier transaction landed late in the
\* meantime has overruled itself: only then addresses may be others.)
ReturnedMeansDone ==
    \A s \in Keys : call[s].phase = "ok" => Done(s, call[s].tx)

\* A transaction in flight that settles a request, even one that lands long
\* after its caller gave up, is about the terms the caller had looked at when
\* it decided: the hash it carries was read later, but not of another request.
InFlightMeansReviewed ==
    \A tx \in InFlight :
        tx.method \in SettlingMethods /\ tx.reviewed # NoAccount =>
            Terms(Requests(tx.method)[tx.nonce]) = tx.reviewed

\* Roles and addresses stay for whoever makes a mint request: until its call has
\* ended it is a merchant, and what it passed is the address designated for it.
Standing ==
    \A s \in Keys :
        call[s].phase \in Running /\ call[s].tx.method = "addMintRequest" =>
            IsMerchant(s) /\ custodian_btc_address[s] = call[s].tx.address

Overtaken(tx) ==
    \/ factory_store.mint_request_counter > tx.nonce
    \/ tx.nonce = U64Max

\* While roles and addresses stay, the programs refuse an addMintRequest only
\* because another request took the nonce it had read, or the nonces ran out:
\* reading again and retrying is the right thing to do, and of the callers that
\* race for a nonce one always gets through. (One whose read failed has sent
\* nothing.)
RefusedMeansOvertaken ==
    \A s \in Keys :
        call[s].phase = "refused" /\ call[s].tx.method = "addMintRequest" =>
            Overtaken(call[s].tx)

\* The README's minting flow: the "Merchant sends BTC to the Custodian's
\* designated BTC address", it "initiates a mint request", and the "Factory
\* program creates a mint request". The program compares with the address of
\* the moment: a deposit made to the address that was designated when the
\* merchant looked cannot be requested once the custodian has set another.
DesignatedDepositsAreRequested ==
    \A s \in Keys :
        LET tx == call[s].tx IN
        call[s].phase = "refused" /\ tx.method = "addMintRequest"
        /\ tx.reviewed # NoAccount /\ tx.reviewed.address = tx.address =>
            Overtaken(tx)

\* closeRequest is documented to "Close a mint or burn request account". It
\* cannot: it throws for a request that is there and settled, whoever calls.
ClosesRequests ==
    \A s \in Keys :
        LET tx == call[s].tx IN
        call[s].phase = "failed" /\ tx.method = "closeRequest" =>
            mint_requests[tx.nonce] = NoAccount \/ mint_requests[tx.nonce].status = "Pending"

-----------------------------------------------------------------------------
(* Liveness                                                                *)

\* A promise settles: the fetch answers or throws, and rpc() returns, throws,
\* or gives up. (Callers need not call, and nothing is promised of late ones.)
ClientFairness == \A s \in Keys : WF_allVars(Settle(s))

\* No caller is unlucky for ever: who keeps asking for the factory store gets
\* it in the end, and the cluster takes a transaction of one who keeps sending.
NetworkRecovers ==
    \A s \in Keys : SF_allVars(ReadStore(s)) /\ SF_allVars(Land(s))

\* Callers that want mint requests keep calling.
Persistence ==
    \A s \in Keys : SF_allVars(Call(s, "addMintRequest"))

\* However callers race, read in vain, lose transactions and retry, requests get
\* through until the nonces are used up.
RequestsGetThrough == <>(factory_store.mint_request_counter = U64Max)
=============================================================================
