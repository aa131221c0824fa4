------------------------- MODULE FactoryClientProofs -------------------------
(***************************************************************************)
(* Theorems about FactoryClient, for any number of callers, any methods    *)
(* they call, any bound on the late transactions, and whatever others send *)
(* to the programs meanwhile; and, in the last part, about RequestList,    *)
(* which is one more of its methods.                                       *)
(***************************************************************************)
EXTENDS FactoryClient, RequestList, FactoryProofs

LEMMA RunningTyped ==
  ASSUME ClientTypeOK, NEW s \in Keys, call[s].phase \in Running
  PROVE  call[s] \in [phase : Phases, tx : Transaction] /\ call[s].tx \in Transaction
  BY DEF ClientTypeOK, RpcTypeOK, NoCall, Running

-----------------------------------------------------------------------------
(* The steps of a client are steps of the programs.                         *)

\* A transaction a method builds is one of the instructions anybody may send.
LEMMA InstructionIsNext ==
  ASSUME TypeOK, NEW tx \in Transaction, Instruction(tx)
  PROVE  Next
<1>1. /\ tx.signer \in Keys /\ tx.merchant \in Keys /\ tx.amount \in Amounts
      /\ tx.address \in BtcAddresses \union {EmptyString} /\ tx.btc_txid \in BtcTxIds
      /\ tx.controller \in ProgramIds \union {NoKey} /\ tx.nonce \in Nonces
  BY DEF Transaction
<1>2. CASE initialize(tx)
  BY <1>1, <1>2 DEF initialize, Next
<1>3. CASE setCustodianBtcDepositAddress(tx)
  BY <1>1, <1>3 DEF setCustodianBtcDepositAddress, Next, CustodianInstruction
<1>4. CASE setMerchantBtcDepositAddress(tx)
  BY <1>1, <1>4 DEF setMerchantBtcDepositAddress, Next, MerchantInstruction
<1>5. CASE addMintRequest(tx)
  BY <1>1, <1>5 DEF addMintRequest, Next, MerchantInstruction
<1>6. CASE burn(tx)
  BY <1>1, <1>6 DEF burn, Next, MerchantInstruction
<1>7. CASE cancelMintRequest(tx)
  <2>1. CancelMintRequest(tx.signer, tx.nonce, tx.request_hash)
    BY <1>7 DEF cancelMintRequest
  <2>2. tx.request_hash \in KnownHashes
    BY <1>1, <2>1 DEF CancelMintRequest, CanCancelMintRequest, IsPending, KnownHashes
  <2> QED BY <1>1, <2>1, <2>2 DEF Next, MerchantInstruction
<1>8. CASE confirmMintRequest(tx)
  <2>1. ConfirmMintRequest(tx.signer, tx.nonce, tx.request_hash)
    BY <1>8 DEF confirmMintRequest
  <2>2. tx.request_hash \in KnownHashes
    BY <1>1, <2>1 DEF ConfirmMintRequest, CanConfirmMintRequest, IsPending, KnownHashes
  <2> QED BY <1>1, <2>1, <2>2 DEF Next, CustodianInstruction
<1>9. CASE rejectMintRequest(tx)
  <2>1. RejectMintRequest(tx.signer, tx.nonce, tx.request_hash)
    BY <1>9 DEF rejectMintRequest
  <2>2. tx.request_hash \in KnownHashes
    BY <1>1, <2>1 DEF RejectMintRequest, CanRejectMintRequest, IsPending, KnownHashes
  <2> QED BY <1>1, <2>1, <2>2 DEF Next, CustodianInstruction
<1>10. CASE confirmBurnRequest(tx)
  <2>1. ConfirmBurnRequest(tx.signer, tx.nonce, tx.btc_txid, tx.request_hash)
    BY <1>10 DEF confirmBurnRequest
  <2>2. tx.request_hash \in KnownHashes
    BY <1>1, <2>1 DEF ConfirmBurnRequest, CanConfirmBurnRequest, IsPending, KnownHashes
  <2> QED BY <1>1, <2>1, <2>2 DEF Next, CustodianInstruction
<1> QED BY <1>2, <1>3, <1>4, <1>5, <1>6, <1>7, <1>8, <1>9, <1>10 DEF Instruction

LEMMA StepIsFactoryStep ==
  ASSUME TypeOK, ClientTypeOK, [OpenNext]_allVars
  PROVE  [Next]_vars
<1>1. ASSUME NEW s \in Keys, ClientStep(s) PROVE [Next]_vars
  <2>1. CASE Land(s)
    <3>1. call[s].tx \in Transaction
      BY <2>1, RunningTyped DEF Land, Return, Running
    <3> QED BY <2>1, <3>1, InstructionIsNext DEF Land
  <2>2. CASE UNCHANGED vars
    BY <2>2
  <2> QED BY <1>1, <2>1, <2>2 DEF ClientStep, Settle, Call, ReadStore, ReadRequest,
                                  ReadFails, Fail
<1>2. ASSUME NEW tx \in late, LandLate(tx) PROVE Next
  <2>1. tx \in Transaction
    BY DEF ClientTypeOK, RpcTypeOK
  <2> QED BY <1>2, <2>1, InstructionIsNext DEF LandLate
<1> QED BY <1>1, <1>2 DEF OpenNext, ClientNext, allVars
-----------------------------------------------------------------------------
(* The invariant. The terms a caller looked at are those of the request from *)
(* when it calls until its transaction lands or is given up for good; reading *)
(* the hash in between does not change which request the call is about.      *)

Decided(tx) ==
    tx.method \in SettlingMethods /\ tx.reviewed # NoAccount =>
        Terms(Requests(tx.method)[tx.nonce]) = tx.reviewed

Inv ==
    /\ TypeOK
    /\ ClientTypeOK
    /\ \A s \in Keys : call[s].phase \in Running => Decided(call[s].tx)
    /\ \A tx \in late : Decided(tx)

LEMMA InvImplies == Inv => ClientTypeOK /\ InFlightMeansReviewed
<1> SUFFICES ASSUME Inv PROVE ClientTypeOK /\ InFlightMeansReviewed
  OBVIOUS
<1>1. ASSUME NEW tx \in InFlight PROVE Decided(tx)
  BY DEF Inv, InFlight, Running
<1> QED BY <1>1 DEF Inv, InFlightMeansReviewed, Decided

\* The programs never change the terms of a request that is there.
LEMMA TermsStay ==
  ASSUME TypeOK, [Next]_vars, NEW method, NEW n \in Nonces,
         Terms(Requests(method)[n]) # NoAccount
  PROVE  Terms(Requests(method)[n])' = Terms(Requests(method)[n])
<1>1. Requests(method)[n] # NoAccount
  BY DEF Terms
<1>2. Fixed(Requests(method)[n], Requests(method)'[n])
  BY <1>1, FixedStep DEF Requests
<1> QED BY <1>1, <1>2 DEF Terms, Fixed

LEMMA DecidedStays ==
  ASSUME TypeOK, [Next]_vars, NEW tx \in Transaction, Decided(tx)
  PROVE  Decided(tx)'
<1>1. tx.nonce \in Nonces
  BY DEF Transaction
<1> QED BY <1>1, TermsStay DEF Decided

\* One caller gets on, or a transaction that nobody waits for goes.
LEMMA OneCallMoves ==
  ASSUME Inv, [Next]_vars, NEW s \in Keys,
         NEW c \in {NoCall} \union [phase : Phases, tx : Transaction],
         call' = [call EXCEPT ![s] = c],
         c.phase \in Running => Decided(c.tx)',
         late' \subseteq Transaction, IsFiniteSet(late'), Cardinality(late') <= MaxLate,
         \A tx \in late' : tx \in late \/ Decided(tx)',
         strays' \subseteq Keys
  PROVE  Inv'
<1>1. TypeOK'
  BY TypeStep DEF Inv
<1>2. ClientTypeOK'
  BY DEF Inv, ClientTypeOK, RpcTypeOK
<1>3. ASSUME NEW k \in Keys, call'[k].phase \in Running PROVE Decided(call[k].tx)'
  <2>1. CASE k = s
    BY <1>3, <2>1 DEF Inv, ClientTypeOK, RpcTypeOK
  <2>2. CASE k # s
    <3>1. call'[k] = call[k]
      BY <2>2 DEF Inv, ClientTypeOK, RpcTypeOK
    <3>2. PICK tx : tx = call[k].tx
      OBVIOUS
    <3>3. tx \in Transaction /\ Decided(tx)
      BY <1>3, <3>1, <3>2, RunningTyped DEF Inv
    <3>4. Decided(tx)'
      BY <3>3, DecidedStays DEF Inv
    <3> QED BY <3>1, <3>2, <3>4
  <2> QED BY <2>1, <2>2
<1>4. ASSUME NEW tx \in late' PROVE Decided(tx)'
  BY <1>4, DecidedStays DEF Inv
<1> QED BY <1>1, <1>2, <1>3, <1>4 DEF Inv

\* The calls stay where they are.
LEMMA NoCallMoves ==
  ASSUME Inv, [Next]_vars, UNCHANGED call, late' \subseteq late, strays' \subseteq Keys
  PROVE  Inv'
<1>1. TypeOK'
  BY TypeStep DEF Inv
<1>2. ClientTypeOK'
  <2>1. IsFiniteSet(late) /\ Cardinality(late) <= MaxLate /\ late' \in SUBSET late
    BY DEF Inv, ClientTypeOK, RpcTypeOK
  <2>2. IsFiniteSet(late') /\ Cardinality(late') <= Cardinality(late)
    BY <2>1, FS_Subset
  <2>3. Cardinality(late) \in Nat /\ Cardinality(late') \in Nat
    BY <2>1, <2>2, FS_CardinalityType
  <2>4. Cardinality(late') <= MaxLate
    BY <2>1, <2>2, <2>3, LateAssumption
  <2> QED BY <2>2, <2>4 DEF Inv, ClientTypeOK, RpcTypeOK
<1>3. ASSUME NEW k \in Keys, call'[k].phase \in Running PROVE Decided(call[k].tx)'
  <2>1. PICK tx : tx = call[k].tx
    OBVIOUS
  <2>2. tx \in Transaction /\ Decided(tx)
    BY <1>3, <2>1, RunningTyped DEF Inv
  <2>3. Decided(tx)'
    BY <2>2, DecidedStays DEF Inv
  <2> QED BY <2>1, <2>3
<1>4. ASSUME NEW tx \in late' PROVE Decided(tx)'
  BY <1>4, DecidedStays DEF Inv, ClientTypeOK, RpcTypeOK
<1> QED BY <1>1, <1>2, <1>3, <1>4 DEF Inv
-----------------------------------------------------------------------------
(* The steps, one by one.                                                   *)

\* What a caller looks up is a well-formed offer, or the terms of a request.
LEMMA ReviewedTyped ==
  ASSUME TypeOK, NEW s \in Keys, NEW method \in MethodNames,
         NEW amount \in Amounts, NEW n \in Nonces
  PROVE  Reviewed(s, method, amount, n) \in
           Existing(Offer)
<1>1. /\ custodian_btc_address[s] \in Existing(BtcAddresses)
      /\ merchant_btc_address[s] \in Existing(BtcAddresses)
  BY DEF TypeOK
<1>2. Requests(method)[n] \in Existing(RequestAccount)
  BY DEF TypeOK, Requests
<1>3. Terms(Requests(method)[n]) \in
        Existing(Offer)
  BY <1>2 DEF Terms, Existing, RequestAccount, Offer
<1> QED BY <1>1, <1>3
        DEF Reviewed, Existing, Offer, getCustodianBtcDepositAddress,
            getMerchantBtcDepositAddress,
            SettlingMethods

LEMMA CallInv ==
  ASSUME Inv, NEW s \in Keys, NEW method \in MethodNames, Call(s, method)
  PROVE  Inv'
<1>0. PICK amount \in Passed(method, MakingMethods, CallAmounts, 0),
           merchant \in Passed(method, {"setCustodianBtcDepositAddress",
                                        "confirmMintRequest"}, Keys, s),
           address \in Passed(method, AddressMethods \union {"addMintRequest"},
                              BtcAddresses, EmptyString),
           txid \in Passed(method, {"addMintRequest", "confirmBurnRequest"},
                           TxIds, EmptyString),
           controller \in Passed(method, {"initialize"}, ProgramIds, NoKey),
           nonce \in Passed(method, SettlingMethods \union {"closeRequest"},
                            0..(U64Max - 1), 0) :
         Begin(s, FirstPhase(method),
               [method |-> method, signer |-> s, merchant |-> merchant,
                amount |-> amount, address |-> address, btc_txid |-> txid,
                controller |-> controller, nonce |-> nonce,
                request_hash |-> NoAccount,
                reviewed |-> Reviewed(s, method, amount, nonce)])
  BY DEF Call
<1>1. /\ amount \in Amounts /\ merchant \in Keys
      /\ address \in BtcAddresses \union {EmptyString} /\ txid \in BtcTxIds
      /\ controller \in ProgramIds \union {NoKey} /\ nonce \in Nonces
  <2>1. 0 \in Amounts /\ 0 \in Nonces /\ 0..(U64Max - 1) \subseteq Nonces
    BY WidthAssumption DEF Amounts, Nonces
  <2> QED BY <1>0, <2>1, AmountsAssumption DEF Passed, BtcTxIds
<1> DEFINE tx == [method |-> method, signer |-> s, merchant |-> merchant,
                  amount |-> amount, address |-> address, btc_txid |-> txid,
                  controller |-> controller, nonce |-> nonce,
                  request_hash |-> NoAccount,
                  reviewed |-> Reviewed(s, method, amount, nonce)]
           c == [phase |-> FirstPhase(method), tx |-> tx]
<1>2. tx \in Transaction
  BY <1>1, ReviewedTyped DEF Inv, Transaction, Existing
<1>3. tx.method = method /\ tx.nonce = nonce /\ tx.reviewed = Reviewed(s, method, amount, nonce)
  OBVIOUS
<1> HIDE DEF tx
<1>4. c \in [phase : Phases, tx : Transaction]
  BY <1>2 DEF FirstPhase, Phases, Ended, Running
<1>5. Decided(tx) /\ c.tx = tx
  <2>1. ASSUME method \in SettlingMethods
        PROVE  Reviewed(s, method, amount, nonce) = Terms(Requests(method)[nonce])
    BY <2>1 DEF Reviewed, SettlingMethods
  <2> QED BY <1>3, <2>1 DEF Decided
<1>6. UNCHANGED vars
  BY DEF Call
<1>7. PICK t : t = tx
  OBVIOUS
<1>8. Decided(t)'
  BY <1>2, <1>5, <1>6, <1>7, DecidedStays DEF Inv
<1>9. PICK d : d = c
  OBVIOUS
<1>10. /\ call' = [call EXCEPT ![s] = d] /\ UNCHANGED late
       /\ strays' = strays \ {s}
  BY <1>0, <1>9 DEF Begin, tx
<1>11. d.tx = t
  BY <1>5, <1>7, <1>9
<1>12. Decided(d.tx)'
  BY <1>8, <1>11
<1> QED BY <1>4, <1>6, <1>9, <1>10, <1>12, OneCallMoves DEF Inv, ClientTypeOK, RpcTypeOK
\* The transaction that is sent is still about what the call was about.
LEMMA SendInv ==
  ASSUME Inv, NEW s \in Keys, NEW tx \in Transaction, Send(s, tx), UNCHANGED vars,
         Decided(tx)
  PROVE  Inv'
<1> DEFINE c == [phase |-> "sent", tx |-> tx]
<1>1. c \in [phase : Phases, tx : Transaction] /\ c.tx = tx
  BY DEF Phases, Ended, Running
<1>2. Decided(tx)'
  BY DecidedStays DEF Inv
<1>3. call' = [call EXCEPT ![s] = c] /\ UNCHANGED <<late, strays>>
  BY DEF Send
<1> HIDE DEF c
<1>4. Decided(c.tx)'
  BY <1>1, <1>2
<1> QED BY <1>1, <1>3, <1>4, OneCallMoves DEF Inv, ClientTypeOK, RpcTypeOK

LEMMA ReadInv ==
  ASSUME Inv, NEW s \in Keys, ReadStore(s) \/ ReadRequest(s)
  PROVE  Inv'
<1>1. PICK tx : tx = call[s].tx
  OBVIOUS
<1>2. tx \in Transaction /\ Decided(tx)
  BY <1>1, RunningTyped DEF Inv, ReadStore, ReadRequest, Running
<1>3. CASE ReadStore(s)
  <2>1. PICK n : n = IF tx.method \in MakingMethods THEN Counter(tx.method) ELSE tx.nonce
    OBVIOUS
  <2>2. n \in Nonces
    BY <1>2, <1>3, <2>1, CounterType
    DEF Inv, TypeOK, FactoryType, ReadStore, Counter, Transaction
  <2>3. [tx EXCEPT !.nonce = n] \in Transaction
    BY <1>2, <2>2 DEF Transaction
  <2>4. Decided([tx EXCEPT !.nonce = n])
    BY <1>1, <1>2, <1>3
    DEF ReadStore, Decided, Transaction, AddressMethods, MakingMethods, SettlingMethods
  <2>5. Send(s, [tx EXCEPT !.nonce = n]) /\ UNCHANGED vars
    BY <1>1, <1>3, <2>1 DEF ReadStore
  <2> QED BY <2>3, <2>4, <2>5, SendInv
<1>4. CASE ReadRequest(s)
  <2>1. PICK h : h = Requests(tx.method)[tx.nonce].hash
    OBVIOUS
  <2>2. h \in RequestHash
    <3>1. Requests(tx.method)[tx.nonce] \in RequestAccount
      BY <1>1, <1>2, <1>4 DEF Inv, TypeOK, ReadRequest, Requests, Existing, Transaction
    <3> QED BY <2>1, <3>1 DEF RequestAccount
  <2>3. [tx EXCEPT !.request_hash = h] \in Transaction
    BY <1>2, <2>2 DEF Transaction, Existing
  <2>4. Decided([tx EXCEPT !.request_hash = h])
    BY <1>2 DEF Decided, Transaction
  <2>5. Send(s, [tx EXCEPT !.request_hash = h]) /\ UNCHANGED vars
    BY <1>1, <1>4, <2>1 DEF ReadRequest
  <2> QED BY <2>3, <2>4, <2>5, SendInv
<1> QED BY <1>3, <1>4

\* A call that has ended is about nothing any more.
LEMMA EndInv ==
  ASSUME Inv, [Next]_vars, NEW s \in Keys, Return(s) \/ Refuse(s)
  PROVE  Inv'
<1>1. PICK stage \in {"ok", "refused"} :
        call' = [call EXCEPT ![s].phase = stage] /\ UNCHANGED <<late, strays>>
  BY DEF Return, Refuse
<1>2. call[s] \in [phase : Phases, tx : Transaction]
  BY RunningTyped DEF Inv, Return, Refuse, Running
<1>3. PICK c : c = [call[s] EXCEPT !.phase = stage]
  OBVIOUS
<1>4. c \in [phase : Phases, tx : Transaction] /\ c.phase \notin Running
  BY <1>1, <1>2, <1>3 DEF Phases, Ended, Running
<1>5. call' = [call EXCEPT ![s] = c]
  BY <1>1, <1>3
<1> QED BY <1>1, <1>4, <1>5, OneCallMoves DEF Inv, ClientTypeOK, RpcTypeOK

LEMMA ThrowInv ==
  ASSUME Inv, NEW s \in Keys, ReadFails(s)
  PROVE  Inv'
<1>1. /\ call' = [call EXCEPT ![s] = NoCall] /\ UNCHANGED late
      /\ strays' = strays \ {s} /\ UNCHANGED vars
  BY DEF ReadFails, Throw
<1>2. NoCall.phase \notin Running
  BY DEF NoCall, Running
<1> QED BY <1>1, <1>2, OneCallMoves DEF Inv, ClientTypeOK, RpcTypeOK

LEMMA GiveUpInv ==
  ASSUME Inv, NEW s \in Keys, GiveUp(s), UNCHANGED vars
  PROVE  Inv'
<1>1. PICK tx : tx = call[s].tx
  OBVIOUS
<1>2. tx \in Transaction /\ Decided(tx)
  BY <1>1, RunningTyped DEF Inv, GiveUp, Running
<1>3. Decided(tx)'
  BY <1>2, DecidedStays DEF Inv
<1>4. late' = late \union {tx}
  BY <1>1 DEF GiveUp
<1>5. IsFiniteSet(late) /\ Cardinality(late) \in Nat /\ Cardinality(late) < MaxLate
  BY FS_CardinalityType DEF Inv, ClientTypeOK, RpcTypeOK, GiveUp
<1>6. IsFiniteSet(late') /\ Cardinality(late') <= MaxLate
  BY <1>4, <1>5, FS_AddElement, LateAssumption
<1>7. NoCall.phase \notin Running
  BY DEF NoCall, Running
<1> QED BY <1>2, <1>3, <1>4, <1>6, <1>7, OneCallMoves DEF Inv, ClientTypeOK, RpcTypeOK,
                                                          GiveUp

LEMMA StepInv == Inv /\ [OpenNext]_allVars => Inv'
<1> SUFFICES ASSUME Inv, [OpenNext]_allVars PROVE Inv'
  OBVIOUS
<1>0. [Next]_vars
  BY StepIsFactoryStep DEF Inv
<1>1. ASSUME NEW s \in Keys, ClientStep(s) PROVE Inv'
  <2>1. CASE \E method \in MethodNames : Call(s, method)
    BY <2>1, CallInv
  <2>2. CASE ReadStore(s) \/ ReadRequest(s)
    BY <2>2, ReadInv
  <2>3. CASE Land(s) \/ Fail(s)
    BY <1>0, <2>3, EndInv DEF Land, Fail
  <2>4. CASE ReadFails(s)
    BY <2>4, ThrowInv
  <2>5. CASE GiveUp(s) /\ UNCHANGED vars
    BY <2>5, GiveUpInv
  <2> QED BY <1>1, <2>1, <2>2, <2>3, <2>4, <2>5 DEF ClientStep, Settle
<1>2. ASSUME NEW tx \in late, LandLate(tx) \/ Expire(tx) PROVE Inv'
  <2>1. UNCHANGED call /\ late' \subseteq late
    BY <1>2 DEF LandLate, Stray, Expire
  <2>2. strays' \subseteq Keys
    BY <1>2 DEF LandLate, Stray, Expire, Inv, ClientTypeOK, RpcTypeOK, Transaction
  <2> QED BY <1>0, <2>1, <2>2, NoCallMoves
<1>3. CASE UNCHANGED <<call, late, strays>>
  BY <1>0, <1>3, NoCallMoves DEF Inv, ClientTypeOK, RpcTypeOK
<1> QED BY <1>1, <1>2, <1>3 DEF OpenNext, ClientNext, allVars

LEMMA InitInv == OpenInit => Inv
<1> SUFFICES ASSUME Init, RpcInit PROVE Inv
  BY DEF OpenInit
<1>1. ClientTypeOK
  BY FS_EmptySet, FS_CardinalityType, LateAssumption DEF RpcInit, ClientTypeOK,
                                                         RpcTypeOK
<1>2. \A s \in Keys : call[s].phase \notin Running
  BY DEF RpcInit, NoCall, Running
<1> QED BY <1>1, <1>2, TypeInit DEF Inv, RpcInit

LEMMA SpecInv == OpenSpec => []Inv
  BY InitInv, StepInv, PTL DEF OpenSpec

-----------------------------------------------------------------------------
\* Calls and late transactions keep their types, and no more of them are late
\* than the bound says, whatever else is sent to the programs.
THEOREM ClientTypeCorrect == OpenSpec => []ClientTypeOK
  BY SpecInv, InvImplies, PTL

\* A transaction that settles a request is about the terms its caller looked at,
\* however late it lands and whoever does what to the programs meanwhile: the
\* methods fetch the hash after the caller has decided, and no nonce ever comes
\* to hold another request.
THEOREM InFlightIsReviewed == OpenSpec => []InFlightMeansReviewed
  BY SpecInv, InvImplies, PTL

\* A client's methods, races and late transactions included, do nothing to the
\* programs that their instructions do not: every theorem about Factory holds
\* of the system with its clients.
THEOREM ClientImplementsFactory == OpenSpec => Spec
<1>1. Inv /\ [OpenNext]_allVars => [Next]_vars
  BY StepIsFactoryStep DEF Inv
<1> QED BY <1>1, SpecInv, PTL DEF OpenSpec, OpenInit, Spec

-----------------------------------------------------------------------------
(* What a method that returned has done. The part about requests and the    *)
(* controller stays whoever does what, and the part about addresses while    *)
(* the callers have them to themselves: only transactions of the caller      *)
(* itself could change those, and one of them that lands late marks it as a  *)
(* stray.                                                                    *)

Recorded(s, tx) ==
    LET r == Requests(tx.method)[tx.nonce] IN
    /\ tx.method = "initialize" =>
          factory_store # NoAccount /\ factory_store.controller = tx.controller
    /\ tx.method \in MakingMethods =>
          r # NoAccount /\ r.requester = s /\ r.amount = tx.amount
    /\ tx.method = "addMintRequest" =>
          r.btc_deposit_address = tx.address /\ r.btc_txid = tx.btc_txid
    /\ tx.method \in SettlingMethods =>
          r # NoAccount /\ r.status = Outcome[tx.method]
    /\ tx.method = "confirmMintRequest" => r.requester = tx.merchant

\* A caller that set an address is still the one whom the programs let set it.
AddressSetBy(s, tx) ==
    /\ tx.method = "setCustodianBtcDepositAddress" =>
          /\ members_store # NoAccount /\ members_store.custodian = s
          /\ custodian_btc_address[tx.merchant] = tx.address
    /\ tx.method = "setMerchantBtcDepositAddress" => merchant_btc_address[s] = tx.address

PaidAsReviewed(tx) ==
    LET r == Requests(tx.method)[tx.nonce] IN
    tx.method = "burn" =>
        tx.reviewed # NoAccount /\ r.btc_deposit_address = tx.reviewed.address

\* A burn that is under way still has its merchant's address before it.
BurnIsUpToDate(s, tx) ==
    tx.method = "burn" => tx.reviewed = Reviewed(s, "burn", tx.amount, tx.nonce)

\* What holds of the call of s, if its strays are those in `marked`.
Promise(s, stage, tx, marked) ==
    /\ stage # "idle" => tx.signer = s
    /\ stage = "ok" => Recorded(s, tx)
    /\ stage = "ok" /\ s \notin marked => AddressSetBy(s, tx) /\ PaidAsReviewed(tx)
    /\ stage \in Running /\ s \notin marked => BurnIsUpToDate(s, tx)

PromisesKept ==
    \A s \in Keys : Promise(s, call[s].phase, call[s].tx, strays)

\* A step that is none of the caller's own.
OthersStep(s) ==
    \/ UNCHANGED vars
    \/ \E t \in Transaction : Instruction(t) /\ t.signer # s
    \/ CustodianStays /\ UNCHANGED addressVars

LEMMA ControllerStays ==
  ASSUME TypeOK, [Next]_vars, factory_store # NoAccount
  PROVE  /\ factory_store' # NoAccount
         /\ factory_store'.controller = factory_store.controller
<1>1. factory_store \in FactoryStore /\ FactoryType
  BY DEF TypeOK, Existing, FactoryType
<1>2. CASE UNCHANGED factory_store
  BY <1>2
<1>3. CASE MintAdded \/ BurnAdded
  BY <1>1, <1>3, CounterType, NotMissing DEF MintAdded, BurnAdded, FactoryStore
<1> QED BY <1>2, <1>3, Shapes
        DEF Idle, Created, AddressSet, MintSettled, BurnSettled, factoryVars

LEMMA RecordedStays ==
  ASSUME TypeOK, RequestsFillCounters, [Next]_vars, NEW s, NEW tx \in Transaction,
         Recorded(s, tx)
  PROVE  /\ Recorded(s, tx)'
         /\ tx.method = "burn" /\ PaidAsReviewed(tx) => PaidAsReviewed(tx)'
<1> DEFINE r == Requests(tx.method)[tx.nonce]
           q == Requests(tx.method)'[tx.nonce]
<1>1. tx.nonce \in Nonces
  BY DEF Transaction
<1>2. r # NoAccount => Fixed(r, q)
  BY <1>1, FixedStep DEF Requests
<1>3. tx.method = "addMintRequest" /\ r # NoAccount => r.request_type = "Mint"
  BY <1>1 DEF Requests, MintMethods, RequestsFillCounters, Numbered
<1>4. factory_store # NoAccount =>
        factory_store' # NoAccount /\ factory_store'.controller = factory_store.controller
  BY ControllerStays
<1>5. \A method : Outcome[method] # "Pending" \/ method \notin SettlingMethods
  BY DEF Outcome, SettlingMethods
<1>6. q = Requests(tx.method)[tx.nonce]'
  BY DEF Requests
<1> HIDE DEF r, q
<1>7. /\ r # NoAccount => q # NoAccount /\ q.requester = r.requester
                           /\ q.amount = r.amount
                           /\ q.btc_deposit_address = r.btc_deposit_address
      /\ r # NoAccount /\ r.status # "Pending" => q = r
      /\ r # NoAccount /\ q.btc_txid # r.btc_txid => r.request_type = "Burn"
  BY <1>2 DEF Fixed
<1>8. r = Requests(tx.method)[tx.nonce]
  BY DEF r
<1>9. /\ tx.method \in MakingMethods =>
           q # NoAccount /\ q.requester = s /\ q.amount = tx.amount
      /\ tx.method = "addMintRequest" =>
           q.btc_deposit_address = tx.address /\ q.btc_txid = tx.btc_txid
      /\ tx.method \in SettlingMethods => q # NoAccount /\ q.status = Outcome[tx.method]
      /\ tx.method = "confirmMintRequest" => q.requester = tx.merchant
  BY <1>3, <1>5, <1>7, <1>8 DEF Recorded, MakingMethods, SettlingMethods
<1>10. Recorded(s, tx)'
  BY <1>4, <1>6, <1>9 DEF Recorded
<1>11. tx.method = "burn" /\ PaidAsReviewed(tx) => PaidAsReviewed(tx)'
  BY <1>6, <1>7, <1>8 DEF Recorded, PaidAsReviewed, MakingMethods
<1> QED BY <1>10, <1>11

LEMMA AddressesStay ==
  ASSUME TypeOK, NEW s \in Keys, OthersStep(s)
  PROVE  /\ merchant_btc_address'[s] = merchant_btc_address[s]
         /\ members_store # NoAccount /\ members_store.custodian = s =>
              /\ members_store' # NoAccount /\ members_store'.custodian = s
              /\ UNCHANGED custodian_btc_address
<1>1. CASE UNCHANGED vars
  BY <1>1 DEF vars
<1>2. CASE CustodianStays /\ UNCHANGED addressVars
  BY <1>2, KeysAssumption DEF CustodianStays, addressVars
<1>3. ASSUME NEW t \in Transaction, Instruction(t), t.signer # s
      PROVE  /\ merchant_btc_address'[s] = merchant_btc_address[s]
             /\ UNCHANGED membersVars
             /\ members_store # NoAccount /\ members_store.custodian = s =>
                  UNCHANGED custodian_btc_address
  <2>1. CASE setCustodianBtcDepositAddress(t)
    BY <1>3, <2>1 DEF setCustodianBtcDepositAddress, SetCustodianBtcDepositAddress,
                      CanSetCustodianBtcDepositAddress,
                      IsCustodian
  <2>2. CASE setMerchantBtcDepositAddress(t)
    BY <1>3, <2>2 DEF setMerchantBtcDepositAddress, SetMerchantBtcDepositAddress,
                      CanSetMerchantBtcDepositAddress, TypeOK
  <2>3. CASE UNCHANGED <<membersVars, addressVars>>
    BY <2>3 DEF addressVars
  <2> QED BY <1>3, <2>1, <2>2, <2>3
          DEF Instruction, initialize, addMintRequest, burn, cancelMintRequest,
              confirmMintRequest, rejectMintRequest, confirmBurnRequest, Initialize,
              AddMintRequest, CanAddMintRequest, Burn, CanBurn, CancelMintRequest,
              ConfirmMintRequest, CanConfirmMintRequest,
              RejectMintRequest, CanRejectMintRequest, ConfirmBurnRequest,
              CanConfirmBurnRequest
<1> QED BY <1>1, <1>2, <1>3 DEF OthersStep, membersVars

\* What a step of somebody else leaves of a promise; and with a stray of its
\* own all that a caller is promised is about requests and the controller.
LEMMA PromiseStays ==
  ASSUME TypeOK, RequestsFillCounters, [Next]_vars, NEW s \in Keys,
         NEW stage, NEW tx, NEW marked, NEW markedNext,
         stage = "idle" \/ tx \in Transaction,
         Promise(s, stage, tx, marked),
         s \in marked => s \in markedNext,
         s \in markedNext \/ OthersStep(s)
  PROVE  Promise(s, stage, tx, markedNext)'
<1>1. CASE stage = "idle"
  BY <1>1 DEF Promise, Running
<1>2. CASE stage # "idle"
  <2>0. tx \in Transaction /\ tx.signer = s
    BY <1>2 DEF Promise
  <2>1. stage = "ok" => Recorded(s, tx)'
    BY <2>0, RecordedStays DEF Promise
  <2>2. ASSUME stage = "ok", s \notin markedNext
        PROVE  AddressSetBy(s, tx)' /\ PaidAsReviewed(tx)'
    <3>1. Recorded(s, tx) /\ AddressSetBy(s, tx) /\ PaidAsReviewed(tx)
      BY <2>2 DEF Promise
    <3>2. PaidAsReviewed(tx)'
      BY <2>0, <3>1, RecordedStays DEF PaidAsReviewed
    <3>3. AddressSetBy(s, tx)'
      BY <2>2, <3>1, AddressesStay DEF AddressSetBy
    <3> QED BY <3>2, <3>3
  <2>3. ASSUME stage \in Running, s \notin markedNext
        PROVE  BurnIsUpToDate(s, tx)'
    <3>1. BurnIsUpToDate(s, tx)
      BY <2>3 DEF Promise
    <3>2. UNCHANGED getMerchantBtcDepositAddress(s)
      BY <2>3, AddressesStay DEF getMerchantBtcDepositAddress
    <3> QED BY <3>1, <3>2 DEF BurnIsUpToDate, Reviewed, SettlingMethods
  <2> QED BY <2>0, <2>1, <2>2, <2>3 DEF Promise
<1> QED BY <1>1, <1>2

\* A settled request is there, with its outcome.
LEMMA SettledWritten ==
  ASSUME NEW r \in Existing(RequestAccount), r # NoAccount,
         NEW x \in RequestStatus, NEW q, q = [r EXCEPT !.status = x]
  PROVE  q # NoAccount /\ q.status = x /\ q.requester = r.requester
<1>1. r \in RequestAccount
  BY DEF Existing
<1>2. q \in RequestAccount /\ q.status = x /\ q.requester = r.requester
  BY <1>1 DEF RequestAccount
<1> QED BY <1>2, NotMissing

LEMMA LandKeeps ==
  ASSUME TypeOK, NEW s \in Keys, NEW tx \in Transaction, tx.signer = s,
         NEW marked, s \notin marked => BurnIsUpToDate(s, tx), Instruction(tx)
  PROVE  Promise(s, "ok", tx, marked)'
<1> SUFFICES /\ Recorded(s, tx)'
             /\ s \notin marked => AddressSetBy(s, tx)' /\ PaidAsReviewed(tx)'
  <2>1. "ok" \notin Running
    BY DEF Running
  <2> QED BY <2>1, Zenon DEF Promise
<1> USE DEF MakingMethods, SettlingMethods, MintMethods, Outcome, Requests
<1>0. /\ tx.merchant \in Keys /\ tx.amount \in Amounts /\ tx.nonce \in Nonces
      /\ tx.btc_txid \in BtcTxIds
      /\ mint_requests \in [Nonces -> Existing(RequestAccount)]
      /\ burn_requests \in [Nonces -> Existing(RequestAccount)]
      /\ custodian_btc_address \in [Keys -> Existing(BtcAddresses)]
      /\ merchant_btc_address \in [Keys -> Existing(BtcAddresses)]
      /\ {"Canceled", "Approved", "Rejected"} \subseteq RequestStatus
  BY DEF TypeOK, Transaction, RequestStatus
<1>1. CASE initialize(tx)
  <2>1. factory_store' # NoAccount /\ factory_store'.controller = tx.controller
    <3>1. tx.controller \in ProgramIds \union {NoKey}
      BY DEF Transaction
    <3>2. PICK store : store = [mint_request_counter |-> 0, burn_request_counter |-> 0,
                                controller |-> tx.controller]
      OBVIOUS
    <3>3. store \in FactoryStore
      BY <3>1, <3>2, WidthAssumption DEF FactoryStore, Nonces
    <3> QED BY <1>1, <3>2, <3>3, NotMissing DEF initialize, Initialize
  <2> QED BY <1>1, <2>1 DEF initialize, Recorded, AddressSetBy, PaidAsReviewed
<1>2. CASE setCustodianBtcDepositAddress(tx)
  <2>1. /\ members_store # NoAccount /\ members_store.custodian = s
        /\ UNCHANGED members_store
        /\ custodian_btc_address'[tx.merchant] = tx.address
    BY <1>0, <1>2 DEF setCustodianBtcDepositAddress, SetCustodianBtcDepositAddress,
                      CanSetCustodianBtcDepositAddress,
                      IsCustodian, MembersResolved, membersVars
  <2> QED BY <1>2, <2>1
          DEF setCustodianBtcDepositAddress, Recorded, AddressSetBy, PaidAsReviewed
<1>3. CASE setMerchantBtcDepositAddress(tx)
  BY <1>0, <1>3 DEF setMerchantBtcDepositAddress, SetMerchantBtcDepositAddress,
                    CanSetMerchantBtcDepositAddress,
                    Recorded, AddressSetBy, PaidAsReviewed
<1>4. CASE addMintRequest(tx)
  <2>1. PICK r : r = NewRequest("Mint", s, tx.amount, tx.address, tx.btc_txid, tx.nonce)
    OBVIOUS
  <2>2. mint_requests' = [mint_requests EXCEPT ![tx.nonce] = r]
    BY <1>4, <2>1 DEF addMintRequest, AddMintRequest, CanAddMintRequest
  <2>3. tx.address \in BtcAddresses
    BY <1>4 DEF addMintRequest, AddMintRequest, CanAddMintRequest, Transaction
  <2>4. r # NoAccount
    BY <1>0, <2>1, <2>3, NewRequestType, NotMissing DEF RequestType
  <2>5. /\ r.requester = s /\ r.amount = tx.amount
        /\ r.btc_deposit_address = tx.address /\ r.btc_txid = tx.btc_txid
    BY <2>1 DEF NewRequest
  <2> QED BY <1>0, <1>4, <2>2, <2>4, <2>5
          DEF addMintRequest, Recorded, AddressSetBy, PaidAsReviewed
<1>5. CASE burn(tx)
  <2>1. PICK a, r : /\ a = merchant_btc_address[s]
                    /\ r = NewRequest("Burn", s, tx.amount, a, EmptyString, tx.nonce)
    OBVIOUS
  <2>2. burn_requests' = [burn_requests EXCEPT ![tx.nonce] = r] /\ a # NoAccount
    BY <1>5, <2>1 DEF burn, Burn, CanBurn
  <2>3. a \in BtcAddresses
    BY <1>0, <2>1, <2>2 DEF Existing
  <2>4. r # NoAccount
    BY <1>0, <2>1, <2>3, NewRequestType, NotMissing, EmptyIsTxId DEF RequestType
  <2>5. r.requester = s /\ r.amount = tx.amount /\ r.btc_deposit_address = a
    BY <2>1 DEF NewRequest
  <2>6. ASSUME s \notin marked
        PROVE  tx.reviewed # NoAccount /\ tx.reviewed.address = a
    <3>1. tx.reviewed = [requester |-> s, amount |-> tx.amount, address |-> a]
      BY <1>5, <2>1, <2>2, <2>6
      DEF burn, BurnIsUpToDate, Reviewed, getMerchantBtcDepositAddress
    <3>2. tx.reviewed \in Offer
      BY <1>0, <2>3, <3>1 DEF Offer
    <3> QED BY <3>1, <3>2, OfferAssumption
  <2> QED BY <1>0, <1>5, <2>2, <2>4, <2>5, <2>6
          DEF burn, Recorded, AddressSetBy, PaidAsReviewed
<1>6. CASE cancelMintRequest(tx)
  <2>1. /\ mint_requests[tx.nonce] # NoAccount
        /\ mint_requests' = [mint_requests EXCEPT ![tx.nonce].status = "Canceled"]
    BY <1>6 DEF cancelMintRequest, CancelMintRequest, CanCancelMintRequest, IsPending
  <2>2. mint_requests'[tx.nonce] # NoAccount /\ mint_requests'[tx.nonce].status = "Canceled"
    <3>0. PICK r, q : r = mint_requests[tx.nonce] /\ q = mint_requests'[tx.nonce]
      OBVIOUS
    <3>1. r \in Existing(RequestAccount) /\ r # NoAccount
      BY <1>0, <2>1, <3>0
    <3>2. q = [r EXCEPT !.status = "Canceled"]
      BY <1>0, <2>1, <3>0
    <3>3. q # NoAccount /\ q.status = "Canceled" /\ q.requester = r.requester
      BY <1>0, <3>1, <3>2, SettledWritten
    <3> QED BY <2>1, <3>0, <3>3
  <2> QED BY <1>6, <2>2 DEF cancelMintRequest, Recorded, AddressSetBy, PaidAsReviewed
<1>7. CASE confirmMintRequest(tx)
  <2>1. /\ mint_requests[tx.nonce] # NoAccount
        /\ mint_requests[tx.nonce].requester = tx.merchant
        /\ mint_requests' = [mint_requests EXCEPT ![tx.nonce].status = "Approved"]
    BY <1>7 DEF confirmMintRequest, ConfirmMintRequest, CanConfirmMintRequest, IsPending
  <2>2. /\ mint_requests'[tx.nonce] # NoAccount
        /\ mint_requests'[tx.nonce].status = "Approved"
        /\ mint_requests'[tx.nonce].requester = tx.merchant
    <3>0. PICK r, q : r = mint_requests[tx.nonce] /\ q = mint_requests'[tx.nonce]
      OBVIOUS
    <3>1. r \in Existing(RequestAccount) /\ r # NoAccount
      BY <1>0, <2>1, <3>0
    <3>2. q = [r EXCEPT !.status = "Approved"]
      BY <1>0, <2>1, <3>0
    <3>3. q # NoAccount /\ q.status = "Approved" /\ q.requester = r.requester
      BY <1>0, <3>1, <3>2, SettledWritten
    <3> QED BY <2>1, <3>0, <3>3
  <2> QED BY <1>7, <2>2 DEF confirmMintRequest, Recorded, AddressSetBy, PaidAsReviewed
<1>8. CASE rejectMintRequest(tx)
  <2>1. /\ mint_requests[tx.nonce] # NoAccount
        /\ mint_requests' = [mint_requests EXCEPT ![tx.nonce].status = "Rejected"]
    BY <1>8 DEF rejectMintRequest, RejectMintRequest, CanRejectMintRequest, IsPending
  <2>2. mint_requests'[tx.nonce] # NoAccount /\ mint_requests'[tx.nonce].status = "Rejected"
    <3>0. PICK r, q : r = mint_requests[tx.nonce] /\ q = mint_requests'[tx.nonce]
      OBVIOUS
    <3>1. r \in Existing(RequestAccount) /\ r # NoAccount
      BY <1>0, <2>1, <3>0
    <3>2. q = [r EXCEPT !.status = "Rejected"]
      BY <1>0, <2>1, <3>0
    <3>3. q # NoAccount /\ q.status = "Rejected" /\ q.requester = r.requester
      BY <1>0, <3>1, <3>2, SettledWritten
    <3> QED BY <2>1, <3>0, <3>3
  <2> QED BY <1>8, <2>2 DEF rejectMintRequest, Recorded, AddressSetBy, PaidAsReviewed
<1>9. CASE confirmBurnRequest(tx)
  <2>1. /\ burn_requests[tx.nonce] # NoAccount
        /\ burn_requests' = [burn_requests EXCEPT ![tx.nonce] =
                                [@ EXCEPT !.btc_txid = tx.btc_txid, !.status = "Approved"]]
    BY <1>9 DEF confirmBurnRequest, ConfirmBurnRequest, CanConfirmBurnRequest, IsPending
  <2>2. burn_requests'[tx.nonce] # NoAccount /\ burn_requests'[tx.nonce].status = "Approved"
    <3>0. PICK r, q, t : /\ r = burn_requests[tx.nonce] /\ q = burn_requests'[tx.nonce]
                         /\ t = tx.btc_txid
      OBVIOUS
    <3>1. r \in Existing(RequestAccount) /\ r # NoAccount /\ t \in BtcTxIds
      BY <1>0, <2>1, <3>0
    <3>2. q = [r EXCEPT !.btc_txid = t, !.status = "Approved"]
      BY <1>0, <2>1, <3>0
    <3>3. r \in RequestAccount /\ "Approved" \in RequestStatus
      BY <1>0, <3>1 DEF Existing
    <3>4. q \in RequestAccount /\ q.status = "Approved"
      BY <3>1, <3>2, <3>3 DEF RequestAccount
    <3> QED BY <3>0, <3>4, NotMissing
  <2> QED BY <1>9, <2>2 DEF confirmBurnRequest, Recorded, AddressSetBy, PaidAsReviewed
<1> QED BY <1>1, <1>2, <1>3, <1>4, <1>5, <1>6, <1>7, <1>8, <1>9 DEF Instruction

\* With the callers' own types and the numbering, the promises are inductive.
SharedInv == Inv /\ RequestsFillCounters /\ PromisesKept

\* One caller gets on, and the others see a step that is none of theirs.
LEMMA OnePromiseMoves ==
  ASSUME SharedInv, [Next]_vars, NEW s \in Keys, NEW stage, NEW tx,
         call' = [call EXCEPT ![s] = [phase |-> stage, tx |-> tx]],
         NEW marked, marked = strays',
         \A k \in Keys \ {s} : k \in strays => k \in marked,
         \A k \in Keys \ {s} : OthersStep(k),
         Promise(s, stage, tx, marked)'
  PROVE  PromisesKept'
<1>1. ASSUME NEW k \in Keys
      PROVE  Promise(k, call[k].phase, call[k].tx, strays)'
  <2>1. CASE k = s
    <3>1. call'[k].phase = stage /\ call'[k].tx = tx
      BY <2>1 DEF SharedInv, Inv, ClientTypeOK, RpcTypeOK
    <3> QED BY <2>1, <3>1
  <2>2. CASE k # s
    <3>1. call'[k] = call[k]
      BY <2>2 DEF SharedInv, Inv, ClientTypeOK, RpcTypeOK
    <3>2. PICK p, t, m : p = call[k].phase /\ t = call[k].tx /\ m = strays
      OBVIOUS
    <3>3. Promise(k, p, t, m)
      BY <3>2 DEF SharedInv, PromisesKept
    <3>4. p = "idle" \/ t \in Transaction
      BY <3>2 DEF SharedInv, Inv, ClientTypeOK, RpcTypeOK, NoCall
    <3>5. (k \in m => k \in marked) /\ OthersStep(k)
      BY <2>2, <3>2
    <3>6. Promise(k, p, t, marked)'
      BY <3>3, <3>4, <3>5, PromiseStays DEF SharedInv, Inv
    <3> QED BY <3>1, <3>2, <3>6
  <2> QED BY <2>1, <2>2
<1> QED BY <1>1 DEF PromisesKept

\* The calls stay where they are; who marks a stray is promised less.
LEMMA NoPromiseMoves ==
  ASSUME SharedInv, [Next]_vars, UNCHANGED call, NEW marked, marked = strays',
         strays \subseteq marked,
         \A k \in Keys : \/ call[k].phase = "idle" \/ k \in marked \/ OthersStep(k)
  PROVE  PromisesKept'
<1>1. ASSUME NEW k \in Keys
      PROVE  Promise(k, call[k].phase, call[k].tx, strays)'
  <2>1. PICK p, t, m : p = call[k].phase /\ t = call[k].tx /\ m = strays
    OBVIOUS
  <2>2. Promise(k, p, t, m)
    BY <2>1 DEF SharedInv, PromisesKept
  <2>3. p = "idle" \/ t \in Transaction
    BY <2>1 DEF SharedInv, Inv, ClientTypeOK, RpcTypeOK, NoCall
  <2>4. Promise(k, p, t, marked)'
    <3>1. CASE p = "idle"
      BY <3>1 DEF Promise, Running
    <3>2. CASE p # "idle"
      <4>1. (k \in m => k \in marked) /\ (k \in marked \/ OthersStep(k))
        BY <2>1, <3>2
      <4> QED BY <2>2, <2>3, <3>2, <4>1, PromiseStays DEF SharedInv, Inv
    <3> QED BY <3>1, <3>2
  <2> QED BY <2>1, <2>4
<1> QED BY <1>1 DEF PromisesKept

-----------------------------------------------------------------------------
(* The steps again, with what they leave of the promises.                   *)

\* Reading changes neither what a call is about nor what its caller knew.
LEMMA UpToDateStays ==
  ASSUME UNCHANGED vars, NEW s, NEW tx, NEW next, BurnIsUpToDate(s, tx),
         next.method = tx.method, next.amount = tx.amount, next.reviewed = tx.reviewed
  PROVE  BurnIsUpToDate(s, next)'
  BY DEF BurnIsUpToDate, Reviewed, SettlingMethods, getMerchantBtcDepositAddress, vars,
         addressVars

LEMMA CallPromise ==
  ASSUME SharedInv, NEW s \in Keys, NEW method \in MethodNames, Call(s, method)
  PROVE  PromisesKept'
<1>1. PICK stage, tx :
        /\ Begin(s, stage, tx) /\ stage = FirstPhase(method)
        /\ tx.signer = s /\ tx.method = method
        /\ tx.reviewed = Reviewed(s, method, tx.amount, tx.nonce)
  <2>1. PICK amount, merchant, address, txid, controller, nonce :
          Begin(s, FirstPhase(method),
                [method |-> method, signer |-> s, merchant |-> merchant,
                 amount |-> amount, address |-> address, btc_txid |-> txid,
                 controller |-> controller, nonce |-> nonce,
                 request_hash |-> NoAccount,
                 reviewed |-> Reviewed(s, method, amount, nonce)])
    BY DEF Call
  <2>2. PICK reviewed : reviewed = Reviewed(s, method, amount, nonce)
    OBVIOUS
  <2>3. PICK tx : tx = [method |-> method, signer |-> s, merchant |-> merchant,
                        amount |-> amount, address |-> address, btc_txid |-> txid,
                        controller |-> controller, nonce |-> nonce,
                        request_hash |-> NoAccount, reviewed |-> reviewed]
    OBVIOUS
  <2>4. Begin(s, FirstPhase(method), tx)
    BY <2>1, <2>2, <2>3
  <2>5. /\ tx.signer = s /\ tx.method = method /\ tx.reviewed = reviewed
        /\ tx.amount = amount /\ tx.nonce = nonce
    BY <2>3
  <2> QED BY <2>2, <2>4, <2>5
<1>2. UNCHANGED vars
  BY DEF Call
<1>3. stage # "idle" /\ stage # "ok"
  BY <1>1 DEF FirstPhase
<1>4. BurnIsUpToDate(s, tx)
  BY <1>1 DEF BurnIsUpToDate
<1>5. BurnIsUpToDate(s, tx)'
  BY <1>2, <1>4, UpToDateStays
<1>6. PICK marked : marked = strays'
  OBVIOUS
<1>7. Promise(s, stage, tx, marked)'
  BY <1>1, <1>3, <1>5 DEF Promise
<1>8. \A k \in Keys \ {s} : OthersStep(k) /\ (k \in strays => k \in marked)
  BY <1>1, <1>2, <1>6 DEF OthersStep, Begin
<1>9. call' = [call EXCEPT ![s] = [phase |-> stage, tx |-> tx]]
  BY <1>1 DEF Begin
<1> QED BY <1>2, <1>6, <1>7, <1>8, <1>9, OnePromiseMoves

LEMMA ReadPromise ==
  ASSUME SharedInv, NEW s \in Keys, ReadStore(s) \/ ReadRequest(s)
  PROVE  PromisesKept'
<1>1. PICK tx, marked : tx = call[s].tx /\ marked = strays
  OBVIOUS
<1>2. tx \in Transaction /\ call[s].phase = "reading" /\ UNCHANGED vars
  BY <1>1, RunningTyped DEF SharedInv, Inv, ReadStore, ReadRequest, Running
<1>3. Promise(s, "reading", tx, marked)
  BY <1>1, <1>2 DEF SharedInv, PromisesKept
<1>4. PICK next : /\ Send(s, next) /\ next.signer = tx.signer
                  /\ next.method = tx.method /\ next.amount = tx.amount
                  /\ next.reviewed = tx.reviewed
  <2>1. CASE ReadStore(s)
    <3>1. PICK n : Send(s, [tx EXCEPT !.nonce = n])
      BY <1>1, <2>1 DEF ReadStore
    <3> QED BY <1>2, <3>1 DEF Transaction
  <2>2. CASE ReadRequest(s)
    <3>1. PICK h : Send(s, [tx EXCEPT !.request_hash = h])
      BY <1>1, <2>2 DEF ReadRequest
    <3> QED BY <1>2, <3>1 DEF Transaction
  <2> QED BY <2>1, <2>2
<1>5. tx.signer = s /\ (s \notin marked => BurnIsUpToDate(s, tx))
  BY <1>3 DEF Promise, Running
<1>6. s \notin marked => BurnIsUpToDate(s, next)'
  BY <1>2, <1>4, <1>5, UpToDateStays
<1>7. Promise(s, "sent", next, marked)'
  BY <1>4, <1>5, <1>6 DEF Promise
<1>8. \A k \in Keys \ {s} : OthersStep(k)
  BY <1>2 DEF OthersStep
<1>9. call' = [call EXCEPT ![s] = [phase |-> "sent", tx |-> next]] /\ marked = strays'
  BY <1>1, <1>4 DEF Send
<1> QED BY <1>1, <1>2, <1>7, <1>8, <1>9, OnePromiseMoves

\* A call that was refused promises nothing, nor does one that read in vain or
\* was given up.
LEMMA EndPromise ==
  ASSUME SharedInv, NEW s \in Keys, Refuse(s) \/ Throw(s) \/ GiveUp(s),
         UNCHANGED vars
  PROVE  PromisesKept'
<1>1. \A k \in Keys \ {s} : OthersStep(k)
  BY DEF OthersStep
<1>2. CASE Refuse(s)
  <2>1. PICK tx, p, marked : tx = call[s].tx /\ p = call[s].phase /\ marked = strays
    OBVIOUS
  <2>2. call[s] \in [phase : Phases, tx : Transaction] /\ p \in Running
    BY <1>2, <2>1, RunningTyped DEF SharedInv, Inv, Refuse, Running
  <2>3. Promise(s, p, tx, marked)
    BY <2>1 DEF SharedInv, PromisesKept
  <2>4. tx.signer = s
    BY <2>2, <2>3 DEF Promise, Running
  <2>5. Promise(s, "refused", tx, marked)'
    BY <2>4 DEF Promise, Running
  <2>6. [call[s] EXCEPT !.phase = "refused"] = [phase |-> "refused", tx |-> tx]
    BY <2>1, <2>2
  <2>7. call' = [call EXCEPT ![s] = [phase |-> "refused", tx |-> tx]] /\ marked = strays'
    BY <1>2, <2>1, <2>6 DEF Refuse
  <2> QED BY <1>1, <2>1, <2>5, <2>7, OnePromiseMoves
<1>3. CASE Throw(s) \/ GiveUp(s)
  <2>1. PICK marked : marked = strays'
    OBVIOUS
  <2>2. Promise(s, "idle", NoAccount, marked)'
    BY DEF Promise, Running
  <2>3. /\ call' = [call EXCEPT ![s] = [phase |-> "idle", tx |-> NoAccount]]
        /\ \A k \in Keys \ {s} : k \in strays => k \in marked
    BY <1>3, <2>1 DEF Throw, GiveUp, NoCall
  <2> QED BY <1>1, <2>1, <2>2, <2>3, OnePromiseMoves
<1> QED BY <1>2, <1>3

LEMMA LandPromise ==
  ASSUME SharedInv, NEW s \in Keys, Land(s)
  PROVE  PromisesKept'
<1>1. PICK tx, marked : tx = call[s].tx /\ marked = strays
  OBVIOUS
<1>2. /\ call[s] \in [phase : Phases, tx : Transaction] /\ tx \in Transaction
      /\ call[s].phase = "sent" /\ Instruction(tx)
  BY <1>1, RunningTyped DEF SharedInv, Inv, Land, Return, Running
<1>3. Promise(s, "sent", tx, marked)
  BY <1>1, <1>2 DEF SharedInv, PromisesKept
<1>4. tx.signer = s /\ (s \notin marked => BurnIsUpToDate(s, tx))
  BY <1>3 DEF Promise, Running
<1>5. Promise(s, "ok", tx, marked)'
  BY <1>2, <1>4, LandKeeps DEF SharedInv, Inv
<1>6. \A k \in Keys \ {s} : OthersStep(k)
  BY <1>2, <1>4 DEF OthersStep
<1>7. [call[s] EXCEPT !.phase = "ok"] = [phase |-> "ok", tx |-> tx]
  BY <1>1, <1>2
<1>8. call' = [call EXCEPT ![s] = [phase |-> "ok", tx |-> tx]] /\ marked = strays'
  BY <1>1, <1>7 DEF Land, Return
<1>9. [Next]_vars
  BY <1>2, InstructionIsNext DEF SharedInv, Inv
<1> QED BY <1>1, <1>5, <1>6, <1>8, <1>9, OnePromiseMoves

\* A late transaction overrules its own sender only, who is marked for it.
LEMMA LatePromise ==
  ASSUME SharedInv, NEW tx \in late, LandLate(tx)
  PROVE  PromisesKept'
<1>1. tx \in Transaction /\ Instruction(tx) /\ UNCHANGED call
  BY DEF SharedInv, Inv, ClientTypeOK, RpcTypeOK, LandLate, Stray
<1>2. PICK marked : marked = strays'
  OBVIOUS
<1>3. ASSUME NEW k \in Keys
      PROVE  call[k].phase = "idle" \/ k \in marked \/ OthersStep(k)
  <2>1. CASE k # tx.signer
    BY <1>1, <2>1 DEF OthersStep
  <2>2. CASE k = tx.signer /\ call[k] = NoCall
    BY <2>2 DEF NoCall
  <2>3. CASE k = tx.signer /\ call[k] # NoCall
    BY <1>2, <2>3 DEF LandLate, Stray
  <2> QED BY <2>1, <2>2, <2>3
<1>4. strays \subseteq marked
  BY <1>2 DEF LandLate, Stray
<1>5. [Next]_vars
  BY <1>1, InstructionIsNext DEF SharedInv, Inv
<1> QED BY <1>1, <1>2, <1>3, <1>4, <1>5, NoPromiseMoves

LEMMA StepShared == SharedInv /\ [SharedNext]_allVars => SharedInv'
<1> SUFFICES ASSUME SharedInv, [SharedNext]_allVars PROVE SharedInv'
  OBVIOUS
<1>1. [OpenNext]_allVars
  BY DEF SharedNext, OpenNext
<1>2. Inv' /\ [Next]_vars
  BY <1>1, StepInv, StepIsFactoryStep DEF SharedInv, Inv
<1>3. RequestsFillCounters'
  BY <1>2, CountersStep DEF SharedInv, Inv
<1>4. PromisesKept'
  <2>1. ASSUME NEW s \in Keys, ClientStep(s) PROVE PromisesKept'
    <3>1. CASE \E method \in MethodNames : Call(s, method)
      BY <3>1, CallPromise
    <3>2. CASE ReadStore(s) \/ ReadRequest(s)
      BY <3>2, ReadPromise
    <3>3. CASE Land(s)
      BY <3>3, LandPromise
    <3>4. CASE ReadFails(s) \/ Fail(s) \/ (GiveUp(s) /\ UNCHANGED vars)
      BY <3>4, EndPromise DEF ReadFails, Fail
    <3> QED BY <2>1, <3>1, <3>2, <3>3, <3>4 DEF ClientStep, Settle
  <2>2. ASSUME NEW tx \in late, LandLate(tx) PROVE PromisesKept'
    BY <2>2, LatePromise
  <2>3. CASE /\ UNCHANGED <<call, strays>>
             /\ UNCHANGED vars \/ (CustodianStays /\ UNCHANGED addressVars)
    <3>1. PICK marked : marked = strays'
      OBVIOUS
    <3>2. \A k \in Keys : OthersStep(k)
      BY <2>3 DEF OthersStep
    <3> QED BY <1>2, <2>3, <3>1, <3>2, NoPromiseMoves
  <2> QED BY <2>1, <2>2, <2>3 DEF SharedNext, ClientNext, Expire, allVars
<1> QED BY <1>2, <1>3, <1>4 DEF SharedInv

LEMMA InitShared ==
  ASSUME TypeOK, RequestsFillCounters, RpcInit
  PROVE  SharedInv
<1>1. ClientTypeOK
  BY FS_EmptySet, FS_CardinalityType, LateAssumption DEF RpcInit, ClientTypeOK,
                                                         RpcTypeOK
<1>2. \A s \in Keys : call[s].phase = "idle"
  BY DEF RpcInit, NoCall
<1>3. Inv
  BY <1>1, <1>2 DEF Inv, RpcInit, Running
<1>4. ASSUME NEW s \in Keys PROVE Promise(s, call[s].phase, call[s].tx, strays)
  BY <1>2 DEF Promise, Running
<1> QED BY <1>3, <1>4 DEF SharedInv, PromisesKept

LEMMA PromisesImply == SharedInv => ReturnedMeansDone
<1> SUFFICES ASSUME SharedInv, NEW s \in Keys, call[s].phase = "ok"
             PROVE  Done(s, call[s].tx)
  BY DEF ReturnedMeansDone
<1>1. PICK p, tx, marked : p = call[s].phase /\ tx = call[s].tx /\ marked = strays
  OBVIOUS
<1>2. Promise(s, p, tx, marked)
  BY <1>1 DEF SharedInv, PromisesKept
<1>3. Recorded(s, tx) /\ (s \notin strays => AddressSetBy(s, tx) /\ PaidAsReviewed(tx))
  BY <1>1, <1>2 DEF Promise
<1> QED BY <1>1, <1>3
        DEF Done, Recorded, AddressSetBy, PaidAsReviewed, getMerchantBtcDepositAddress,
            getCustodianBtcDepositAddress

\* A method that has returned has done what it says, and it stays done, from any
\* state of the programs in which requests are numbered by the counters, however
\* callers race, give up and are overruled by their own late transactions, and
\* whatever else is sent to the programs, as long as the callers keep the deposit
\* addresses and the custodian's role to themselves.
THEOREM ReturnedIsDone ==
  TypeOK /\ RequestsFillCounters /\ RpcInit /\ [][SharedNext]_allVars
    => []ReturnedMeansDone
<1>1. TypeOK /\ RequestsFillCounters /\ RpcInit => SharedInv
  BY InitShared
<1> QED BY <1>1, StepShared, PromisesImply, PTL

-----------------------------------------------------------------------------
(* Why an addMintRequest is refused. A transaction carries the nonce its caller     *)
(* read, and since then the counter has grown at most. As long as caller and *)
(* address stay in Standing, the program refuses it only if the counter did  *)
(* grow, or cannot any more: the account it points to is always free.        *)

Attempt(s, stage, tx) ==
    stage # "idle" /\ tx.method = "addMintRequest" =>
        /\ tx.signer = s /\ tx.address \in BtcAddresses
        /\ stage = "sent" =>
              /\ factory_store # NoAccount
              /\ tx.nonce <= factory_store.mint_request_counter
        /\ stage = "refused" => factory_store # NoAccount /\ Overtaken(tx)

AttemptsNumbered == \A s \in Keys : Attempt(s, call[s].phase, call[s].tx)

AttemptInv == Inv /\ RequestsFillCounters /\ AttemptsNumbered

LEMMA CounterGrows ==
  ASSUME TypeOK, [Next]_vars, factory_store # NoAccount
  PROVE  /\ factory_store' # NoAccount
         /\ factory_store.mint_request_counter \in Nat
         /\ factory_store'.mint_request_counter \in Nat
         /\ factory_store'.mint_request_counter >= factory_store.mint_request_counter
<1>1. factory_store \in FactoryStore /\ FactoryType
  BY DEF TypeOK, Existing, FactoryType
<1>2. factory_store.mint_request_counter \in Nat
  BY <1>1, WidthAssumption DEF FactoryStore, Nonces
<1>3. CASE UNCHANGED factory_store
  BY <1>2, <1>3
<1>4. CASE MintAdded \/ BurnAdded
  BY <1>1, <1>2, <1>4, CounterType, NotMissing DEF MintAdded, BurnAdded, FactoryStore
<1> QED BY <1>3, <1>4, Shapes
        DEF Idle, Created, AddressSet, MintSettled, BurnSettled, factoryVars

LEMMA AttemptStays ==
  ASSUME TypeOK, [Next]_vars, NEW s, NEW stage, NEW tx,
         stage = "idle" \/ tx \in Transaction, Attempt(s, stage, tx)
  PROVE  Attempt(s, stage, tx)'
<1> SUFFICES ASSUME stage # "idle", tx.method = "addMintRequest"
             PROVE  Attempt(s, stage, tx)'
  BY DEF Attempt
<1>1. tx.nonce \in Nat /\ U64Max \in Nat
  BY WidthAssumption DEF Transaction, Nonces
<1> QED BY <1>1, CounterGrows DEF Attempt, Overtaken

LEMMA OneAttemptMoves ==
  ASSUME AttemptInv, [Next]_vars, NEW s \in Keys, NEW stage, NEW tx,
         call' = [call EXCEPT ![s] = [phase |-> stage, tx |-> tx]],
         Attempt(s, stage, tx)'
  PROVE  AttemptsNumbered'
<1>1. ASSUME NEW k \in Keys
      PROVE  Attempt(k, call[k].phase, call[k].tx)'
  <2>1. CASE k = s
    <3>1. call'[k].phase = stage /\ call'[k].tx = tx
      BY <2>1 DEF AttemptInv, Inv, ClientTypeOK, RpcTypeOK
    <3> QED BY <2>1, <3>1
  <2>2. CASE k # s
    <3>1. call'[k] = call[k]
      BY <2>2 DEF AttemptInv, Inv, ClientTypeOK, RpcTypeOK
    <3>2. PICK p, t : p = call[k].phase /\ t = call[k].tx
      OBVIOUS
    <3>3. Attempt(k, p, t)
      BY <3>2 DEF AttemptInv, AttemptsNumbered
    <3>4. p = "idle" \/ t \in Transaction
      BY <3>2 DEF AttemptInv, Inv, ClientTypeOK, RpcTypeOK, NoCall
    <3>5. Attempt(k, p, t)'
      BY <3>3, <3>4, AttemptStays DEF AttemptInv, Inv
    <3> QED BY <3>1, <3>2, <3>5
  <2> QED BY <2>1, <2>2
<1> QED BY <1>1 DEF AttemptsNumbered

LEMMA NoAttemptMoves ==
  ASSUME AttemptInv, [Next]_vars, UNCHANGED call
  PROVE  AttemptsNumbered'
<1>1. ASSUME NEW k \in Keys
      PROVE  Attempt(k, call[k].phase, call[k].tx)'
  <2>1. PICK p, t : p = call[k].phase /\ t = call[k].tx
    OBVIOUS
  <2>2. Attempt(k, p, t)
    BY <2>1 DEF AttemptInv, AttemptsNumbered
  <2>3. p = "idle" \/ t \in Transaction
    BY <2>1 DEF AttemptInv, Inv, ClientTypeOK, RpcTypeOK, NoCall
  <2>4. Attempt(k, p, t)'
    BY <2>2, <2>3, AttemptStays DEF AttemptInv, Inv
  <2> QED BY <2>1, <2>4
<1> QED BY <1>1 DEF AttemptsNumbered

LEMMA CallAttempt ==
  ASSUME AttemptInv, NEW s \in Keys, NEW method \in MethodNames, Call(s, method)
  PROVE  AttemptsNumbered'
<1>1. PICK stage, tx :
        /\ Begin(s, stage, tx) /\ stage = FirstPhase(method)
        /\ tx.signer = s /\ tx.method = method
        /\ method = "addMintRequest" => tx.address \in BtcAddresses
  <2>1. PICK amount, merchant, address, txid, controller, nonce :
          /\ address \in Passed(method, AddressMethods \union {"addMintRequest"},
                                BtcAddresses, EmptyString)
          /\ Begin(s, FirstPhase(method),
                   [method |-> method, signer |-> s, merchant |-> merchant,
                    amount |-> amount, address |-> address, btc_txid |-> txid,
                    controller |-> controller, nonce |-> nonce,
                    request_hash |-> NoAccount,
                    reviewed |-> Reviewed(s, method, amount, nonce)])
    BY DEF Call
  <2>2. PICK reviewed : reviewed = Reviewed(s, method, amount, nonce)
    OBVIOUS
  <2>3. PICK tx : tx = [method |-> method, signer |-> s, merchant |-> merchant,
                        amount |-> amount, address |-> address, btc_txid |-> txid,
                        controller |-> controller, nonce |-> nonce,
                        request_hash |-> NoAccount, reviewed |-> reviewed]
    OBVIOUS
  <2>4. Begin(s, FirstPhase(method), tx)
    BY <2>1, <2>2, <2>3
  <2>5. tx.signer = s /\ tx.method = method /\ tx.address = address
    BY <2>3
  <2>6. method = "addMintRequest" => address \in BtcAddresses
    BY <2>1 DEF Passed
  <2> QED BY <2>4, <2>5, <2>6
<1>2. Attempt(s, stage, tx)'
  BY <1>1 DEF Attempt, FirstPhase
<1>3. call' = [call EXCEPT ![s] = [phase |-> stage, tx |-> tx]] /\ UNCHANGED vars
  BY <1>1 DEF Call, Begin
<1> QED BY <1>2, <1>3, OneAttemptMoves

\* A transaction is numbered by the counter its caller reads.
LEMMA ReadAttempt ==
  ASSUME AttemptInv, NEW s \in Keys, ReadStore(s) \/ ReadRequest(s)
  PROVE  AttemptsNumbered'
<1>1. PICK tx : tx = call[s].tx
  OBVIOUS
<1>2. tx \in Transaction /\ call[s].phase = "reading" /\ UNCHANGED vars
  BY <1>1, RunningTyped DEF AttemptInv, Inv, ReadStore, ReadRequest, Running
<1>3. Attempt(s, "reading", tx)
  BY <1>1, <1>2 DEF AttemptInv, AttemptsNumbered
<1>4. PICK next : Send(s, next) /\ Attempt(s, "sent", next)
  <2>1. CASE ReadStore(s)
    <3>1. PICK n : /\ Send(s, [tx EXCEPT !.nonce = n]) /\ factory_store # NoAccount
                   /\ tx.method = "addMintRequest" =>
                        n = factory_store.mint_request_counter
      BY <1>1, <2>1 DEF ReadStore, MakingMethods, Counter
    <3>2. factory_store.mint_request_counter \in Nat
      BY <3>1, CounterType, WidthAssumption
      DEF AttemptInv, Inv, TypeOK, FactoryType, Nonces
    <3>3. PICK next : next = [tx EXCEPT !.nonce = n]
      OBVIOUS
    <3>4. /\ next.method = tx.method /\ next.signer = tx.signer
          /\ next.address = tx.address /\ next.nonce = n
      BY <1>2, <3>3 DEF Transaction
    <3>5. Attempt(s, "sent", next)
      BY <1>3, <3>1, <3>2, <3>4 DEF Attempt
    <3> QED BY <3>1, <3>3, <3>5
  <2>2. CASE ReadRequest(s)
    <3>1. PICK h : Send(s, [tx EXCEPT !.request_hash = h])
      BY <1>1, <2>2 DEF ReadRequest
    <3>2. tx.method # "addMintRequest"
      BY <1>1, <2>2 DEF ReadRequest, SettlingMethods
    <3> QED BY <1>2, <3>1, <3>2 DEF Attempt, Transaction
  <2> QED BY <2>1, <2>2
<1>5. Attempt(s, "sent", next)'
  BY <1>2, <1>4 DEF Attempt, vars, factoryVars
<1>6. call' = [call EXCEPT ![s] = [phase |-> "sent", tx |-> next]]
  BY <1>4 DEF Send
<1> QED BY <1>2, <1>5, <1>6, OneAttemptMoves

\* What a merchant in standing sends is refused for its nonce only.
LEMMA RefusedIsOvertaken ==
  ASSUME TypeOK, RequestsFillCounters, NEW s \in Keys, NEW tx \in Transaction,
         Attempt(s, "sent", tx), tx.method = "addMintRequest",
         IsMerchant(s), custodian_btc_address[s] = tx.address, ~Accepted(tx)
  PROVE  factory_store # NoAccount /\ Overtaken(tx)
<1>1. /\ tx.signer = s /\ tx.address \in BtcAddresses
      /\ factory_store # NoAccount /\ tx.nonce <= factory_store.mint_request_counter
  BY DEF Attempt
<1>2. PICK c : c = factory_store.mint_request_counter
  OBVIOUS
<1>3. c \in Nonces /\ c \in Nat /\ tx.nonce \in Nat /\ U64Max \in Nat /\ c <= U64Max
  BY <1>1, <1>2, CounterType, WidthAssumption DEF TypeOK, FactoryType, Transaction,
                                                  Nonces
<1>4. mint_requests[c] = NoAccount
  BY <1>1, <1>2, <1>3 DEF RequestsFillCounters, Numbered
<1>5. ~(tx.nonce = c /\ CanAddMintRequest(s, tx.address))
  BY <1>1, <1>2 DEF Accepted
<1>6. ~(tx.nonce = c /\ c < U64Max)
  BY <1>1, <1>2, <1>4, <1>5, AddressAssumption DEF CanAddMintRequest
<1> QED BY <1>1, <1>2, <1>3, <1>6 DEF Overtaken

LEMMA FailAttempt ==
  ASSUME AttemptInv, Standing, NEW s \in Keys, Fail(s)
  PROVE  AttemptsNumbered'
<1>1. PICK tx : tx = call[s].tx
  OBVIOUS
<1>2. /\ call[s] \in [phase : Phases, tx : Transaction] /\ tx \in Transaction
      /\ call[s].phase = "sent" /\ ~Accepted(tx) /\ UNCHANGED vars
  BY <1>1, RunningTyped DEF AttemptInv, Inv, Fail, Refuse, Running
<1>3. Attempt(s, "sent", tx)
  BY <1>1, <1>2 DEF AttemptInv, AttemptsNumbered
<1>4. ASSUME tx.method = "addMintRequest"
      PROVE  factory_store # NoAccount /\ Overtaken(tx)
  <2>1. IsMerchant(s) /\ custodian_btc_address[s] = tx.address
    BY <1>1, <1>2, <1>4 DEF Standing, Running
  <2> QED BY <1>2, <1>3, <1>4, <2>1, RefusedIsOvertaken DEF AttemptInv, Inv
<1>5. Attempt(s, "refused", tx)
  BY <1>3, <1>4 DEF Attempt
<1>6. Attempt(s, "refused", tx)'
  BY <1>2, <1>5, AttemptStays DEF AttemptInv, Inv
<1>7. [call[s] EXCEPT !.phase = "refused"] = [phase |-> "refused", tx |-> tx]
  BY <1>1, <1>2
<1>8. call' = [call EXCEPT ![s] = [phase |-> "refused", tx |-> tx]]
  BY <1>7 DEF Fail, Refuse
<1> QED BY <1>2, <1>6, <1>8, OneAttemptMoves

LEMMA LandAttempt ==
  ASSUME AttemptInv, [Next]_vars, NEW s \in Keys, Return(s)
  PROVE  AttemptsNumbered'
<1>1. PICK tx : tx = call[s].tx
  OBVIOUS
<1>2. call[s] \in [phase : Phases, tx : Transaction] /\ call[s].phase = "sent"
  BY <1>1, RunningTyped DEF AttemptInv, Inv, Return, Running
<1>3. Attempt(s, "sent", tx)
  BY <1>1, <1>2 DEF AttemptInv, AttemptsNumbered
<1>4. Attempt(s, "ok", tx)'
  BY <1>3 DEF Attempt
<1>5. [call[s] EXCEPT !.phase = "ok"] = [phase |-> "ok", tx |-> tx]
  BY <1>1, <1>2
<1>6. call' = [call EXCEPT ![s] = [phase |-> "ok", tx |-> tx]]
  BY <1>5 DEF Return
<1> QED BY <1>4, <1>6, OneAttemptMoves

LEMMA StepAttempt == AttemptInv /\ Standing /\ [OpenNext]_allVars => AttemptInv'
<1> SUFFICES ASSUME AttemptInv, Standing, [OpenNext]_allVars PROVE AttemptInv'
  OBVIOUS
<1>1. Inv' /\ [Next]_vars
  BY StepInv, StepIsFactoryStep DEF AttemptInv, Inv
<1>2. RequestsFillCounters'
  BY <1>1, CountersStep DEF AttemptInv, Inv
<1>3. AttemptsNumbered'
  <2>1. ASSUME NEW s \in Keys, ClientStep(s) PROVE AttemptsNumbered'
    <3>1. CASE \E method \in MethodNames : Call(s, method)
      BY <3>1, CallAttempt
    <3>2. CASE ReadStore(s) \/ ReadRequest(s)
      BY <3>2, ReadAttempt
    <3>3. CASE Fail(s)
      BY <3>3, FailAttempt
    <3>4. CASE Land(s)
      BY <1>1, <3>4, LandAttempt DEF Land
    <3>5. CASE ReadFails(s) \/ GiveUp(s)
      <4>1. Attempt(s, "idle", NoAccount)'
        BY DEF Attempt
      <4>2. call' = [call EXCEPT ![s] = [phase |-> "idle", tx |-> NoAccount]]
        BY <3>5 DEF ReadFails, Throw, GiveUp, NoCall
      <4> QED BY <1>1, <4>1, <4>2, OneAttemptMoves
    <3> QED BY <2>1, <3>1, <3>2, <3>3, <3>4, <3>5 DEF ClientStep, Settle
  <2>2. CASE UNCHANGED call
    BY <1>1, <2>2, NoAttemptMoves
  <2> QED BY <2>1, <2>2 DEF OpenNext, ClientNext, LandLate, Stray, Expire, allVars
<1> QED BY <1>1, <1>2, <1>3 DEF AttemptInv

LEMMA InitAttempt ==
  ASSUME TypeOK, RequestsFillCounters, RpcInit
  PROVE  AttemptInv
<1>1. Inv /\ RequestsFillCounters
  BY InitShared DEF SharedInv
<1>2. \A s \in Keys : call[s].phase = "idle"
  BY DEF RpcInit, NoCall
<1> QED BY <1>1, <1>2 DEF AttemptInv, AttemptsNumbered, Attempt

LEMMA AttemptsImply == AttemptInv => RefusedMeansOvertaken
<1> SUFFICES ASSUME AttemptInv, NEW s \in Keys, call[s].phase = "refused",
                    call[s].tx.method = "addMintRequest"
             PROVE  Overtaken(call[s].tx)
  BY DEF RefusedMeansOvertaken
<1>1. Attempt(s, call[s].phase, call[s].tx)
  BY DEF AttemptInv, AttemptsNumbered
<1> QED BY <1>1 DEF Attempt

\* Whatever everybody does to requests, configuration and balances meanwhile: as
\* long as those who make mint requests stay merchants and keep the address they
\* passed, the programs refuse what addMintRequest sends for no other reason than
\* that somebody else got the nonce it had read, or that there are no more
\* nonces. (A call whose read failed has sent nothing.)
THEOREM OnlyTheOvertakenAreRefused ==
  TypeOK /\ RequestsFillCounters /\ RpcInit /\ [][OpenNext]_allVars /\ []Standing
    => []RefusedMeansOvertaken
<1>1. TypeOK /\ RequestsFillCounters /\ RpcInit => AttemptInv
  BY InitAttempt
<1> QED BY <1>1, StepAttempt, AttemptsImply, PTL

-----------------------------------------------------------------------------
(* Amounts of sets of requests.                                             *)

LEMMA AmountsAreNat ==
  ASSUME NEW S, S \subseteq RequestAccount
  PROVE  \A r \in S : [q \in S |-> q.amount][r] \in Nat
  BY WidthAssumption DEF RequestAccount, Amounts

LEMMA AmountType ==
  ASSUME NEW S, IsFiniteSet(S), S \subseteq RequestAccount
  PROVE  Amount(S) \in Int
<1>1. \A r \in S : [q \in S |-> q.amount][r] \in Int
  BY AmountsAreNat
<1> QED BY <1>1, SumType DEF Amount, Sum

LEMMA AmountSubset ==
  ASSUME NEW T, IsFiniteSet(T), T \subseteq RequestAccount, NEW S \in SUBSET T
  PROVE  Amount(S) <= Amount(T)
<1> DEFINE f == [q \in S |-> q.amount]
           g == [q \in T |-> q.amount]
<1>1. \A r \in T : g[r] \in Nat
  BY AmountsAreNat
<1>2. \A r \in S : g[r] \in Int /\ f[r] = g[r]
  BY <1>1
<1>3. IsFiniteSet(S)
  BY FS_Subset
<1> HIDE DEF f, g
<1>4. Sum(g, S) <= Sum(g, T)
  BY <1>1, SumSubset
<1>5. Sum(g, S) = Sum(f, S)
  BY <1>2, <1>3, SumSame
<1> QED BY <1>4, <1>5 DEF Amount, Sum, f, g

\* S are requests, one for each number of N and of the amount that a says.
ByNonce(S, N, a) ==
    /\ IsFiniteSet(S) /\ S \subseteq RequestAccount /\ IsFiniteSet(N)
    /\ \A r \in S : r.nonce \in N /\ a[r.nonce] = r.amount
    /\ \A r, q \in S : r.nonce = q.nonce => r = q
    /\ \A n \in N : \E r \in S : r.nonce = n

\* Requests that are told apart by their nonces may be added up by nonce.
LEMMA AmountByNonce ==
  ASSUME NEW S, NEW N, NEW a, ByNonce(S, N, a)
  PROVE  Amount(S) = Sum(a, N)
<1> USE DEF ByNonce
<1> DEFINE f == [q \in S |-> q.amount]
           h == [q \in S |-> q.nonce]
<1>1. \A r \in S : f[r] \in Int
  BY AmountsAreNat
<1>2. /\ \A r \in S : f[r] \in Int /\ h[r] \in N /\ a[h[r]] = f[r]
      /\ \A r, q \in S : h[r] = h[q] => r = q
      /\ \A n \in N : \E r \in S : h[r] = n
  BY <1>1
<1>3. Amount(S) = Sum(f, S)
  BY DEF Amount, Sum
<1> HIDE DEF f, h
<1> QED BY <1>2, <1>3, SumReindex

-----------------------------------------------------------------------------
(* The invariant of the listing.                                            *)

LEMMA TheTypes == DOMAIN Types = {1, 2} /\ Types[1] = "Mint" /\ Types[2] = "Burn"
  BY DEF Types

\* The account of a nonce, whether it is there or not.
Account(type, n) == IF type = "Mint" THEN mint_requests[n] ELSE burn_requests[n]

\* Every nonce is listed once at most, and none that is not reached.
ListedOnce ==
    /\ \A r, q \in requests : r.request_type = q.request_type /\ r.nonce = q.nonce => r = q
    /\ \A r \in requests :
          /\ r.request_type = Types[part] => r.nonce < i
          /\ r.request_type = "Mint" \/ part = 2

\* The counter that was read counts requests that are there.
CounterWasRead ==
    /\ phase = "done" => part = 2
    /\ \A n \in 0..(requestCounter - 1) : Account(Types[part], n) # NoAccount

\* What the first c burn requests took.
Burned(c) == Sum([n \in 0..(c - 1) |-> burn_requests[n].amount], 0..(c - 1))

\* What was circulating, and what all burns that were counted had taken, covers
\* the approved mint requests on the list.
NoMoreIssued == part = 2 => Amount(ApprovedMints(requests)) <= booked + Burned(requestCounter)

ListInv ==
    /\ TypeOK /\ RequestsFillCounters
    /\ ListTypeOK /\ IsFiniteSet(requests)
    /\ ListedIsPast
    /\ ListedOnce /\ CounterWasRead /\ NoMoreIssued

LEMMA Numbering ==
  ASSUME ListInv
  PROVE  \A n \in Nonces :
           /\ mint_requests[n] \in Existing(RequestAccount)
           /\ burn_requests[n] \in Existing(RequestAccount)
           /\ mint_requests[n] # NoAccount =>
                mint_requests[n].nonce = n /\ mint_requests[n].request_type = "Mint"
           /\ burn_requests[n] # NoAccount =>
                burn_requests[n].nonce = n /\ burn_requests[n].request_type = "Burn"
  BY DEF ListInv, TypeOK, RequestsFillCounters, Numbered

\* What the burn requests are for, as far as they are counted.
LEMMA BurnedType ==
  ASSUME ListInv, NEW c \in Nonces, \A n \in 0..(c - 1) : burn_requests[n] # NoAccount
  PROVE  /\ 0..(c - 1) \subseteq Nonces /\ IsFiniteSet(0..(c - 1))
         /\ Burned(c) \in Int
<1>1. 0..(c - 1) \subseteq Nonces /\ IsFiniteSet(0..(c - 1))
  BY WidthAssumption, FS_Interval DEF Nonces
<1> DEFINE f == [n \in 0..(c - 1) |-> burn_requests[n].amount]
<1>2. ASSUME NEW n \in 0..(c - 1) PROVE f[n] \in Int
  <2>1. burn_requests[n] \in RequestAccount
    BY <1>1, Numbering DEF Existing
  <2> QED BY <2>1, WidthAssumption DEF RequestAccount, Amounts
<1> HIDE DEF f
<1>3. Sum(f, 0..(c - 1)) \in Int
  BY <1>1, <1>2, SumType
<1> QED BY <1>1, <1>3 DEF Burned, f

-----------------------------------------------------------------------------
(* The steps of the programs.                                               *)

\* A request that is fixed twice is fixed.
LEMMA FixedAgain ==
  ASSUME NEW r, NEW q, NEW p, Fixed(r, q), Fixed(q, p), q.request_type = r.request_type
  PROVE  Fixed(r, p)
  BY DEF Fixed

LEMMA ProgramsList ==
  ASSUME ListInv, [Next]_vars, UNCHANGED lvars
  PROVE  ListInv'
<1>1. TypeOK' /\ RequestsFillCounters'
  BY TypeStep, CountersStep DEF ListInv
<1>2. ListTypeOK' /\ IsFiniteSet(requests') /\ ListedOnce'
  BY DEF ListInv, ListTypeOK, ListedOnce, lvars
<1>3. ListedIsPast'
  <2>1. requests' = requests
    BY DEF lvars
  <2>2. ASSUME NEW r \in requests
        PROVE  Fixed(r, (IF r.request_type = "Mint" THEN mint_requests[r.nonce]
                         ELSE burn_requests[r.nonce])')
    <3>1. r \in RequestAccount /\ r.nonce \in Nonces /\ r.request_type \in RequestType
      BY DEF ListInv, ListTypeOK, RequestAccount
    <3>2. PICK q, p :
            /\ q = IF r.request_type = "Mint" THEN mint_requests[r.nonce]
                   ELSE burn_requests[r.nonce]
            /\ p = IF r.request_type = "Mint" THEN mint_requests'[r.nonce]
                   ELSE burn_requests'[r.nonce]
      OBVIOUS
    <3>3. Fixed(r, q)
      BY <3>2 DEF ListInv, ListedIsPast
    <3>4. q # NoAccount
      BY <3>3 DEF Fixed
    <3>5. q.request_type = r.request_type
      BY <3>1, <3>2, <3>4, Numbering DEF RequestType
    <3>6. Fixed(q, p)
      BY <3>1, <3>2, <3>4, FixedStep DEF ListInv
    <3>7. Fixed(r, p)
      BY <3>3, <3>5, <3>6, FixedAgain
    <3> QED BY <3>2, <3>7
  <2> QED BY <2>1, <2>2 DEF ListedIsPast
<1>4. 0..(requestCounter - 1) \subseteq Nonces
  BY WidthAssumption DEF ListInv, ListTypeOK, Nonces
<1>5. CounterWasRead'
  BY <1>4, FixedStep DEF ListInv, CounterWasRead, Account, Fixed, lvars
<1>6. NoMoreIssued'
  <2> SUFFICES ASSUME part = 2
               PROVE  (Amount(ApprovedMints(requests)) <= booked + Burned(requestCounter))'
    BY DEF NoMoreIssued, lvars
  <2>1. \A n \in 0..(requestCounter - 1) : burn_requests[n] # NoAccount
    BY TheTypes DEF ListInv, CounterWasRead, Account
  <2>2. \A n \in 0..(requestCounter - 1) : burn_requests'[n].amount = burn_requests[n].amount
    BY <1>4, <2>1, FixedStep DEF ListInv, Fixed
  <2>3. Burned(requestCounter)' = Burned(requestCounter)
    BY <2>2 DEF Burned, lvars
  <2>4. Amount(ApprovedMints(requests)) <= booked + Burned(requestCounter)
    BY DEF ListInv, NoMoreIssued
  <2>5. Amount(ApprovedMints(requests))' = Amount(ApprovedMints(requests)) /\ booked' = booked
    BY DEF lvars, ApprovedMints, Amount
  <2> QED BY <2>3, <2>4, <2>5
<1> QED BY <1>1, <1>2, <1>3, <1>5, <1>6 DEF ListInv

-----------------------------------------------------------------------------
(* The steps of the listing.                                                *)

\* The counter of a type counts the accounts that are there, and no others.
LEMMA CounterCounts ==
  ASSUME ListInv, factory_store # NoAccount, NEW p \in {1, 2}, NEW c,
         c = IF Types[p] = "Mint" THEN factory_store.mint_request_counter
             ELSE factory_store.burn_request_counter
  PROVE  /\ c \in Nonces
         /\ \A n \in Nonces : Account(Types[p], n) # NoAccount <=> n < c
<1>1. factory_store \in FactoryStore
  BY DEF ListInv, TypeOK, Existing
<1>2. c \in Nonces
  BY <1>1 DEF FactoryStore
<1> QED BY <1>2, TheTypes DEF ListInv, RequestsFillCounters, Numbered, Account

LEMMA BeginsAt ==
  ASSUME ListInv, NEW p \in {1, 2}, getAllRequests(p)
  PROVE  /\ requestCounter' \in Nonces /\ i' \in 0..requestCounter'
         /\ \A n \in 0..(requestCounter' - 1) : Account(Types[p], n) # NoAccount
         /\ \A n \in Nonces : Account(Types[p], n) # NoAccount <=> n < requestCounter'
<1>1. PICK c : c = requestCounter'
  OBVIOUS
<1>2. c \in Nonces /\ \A n \in Nonces : Account(Types[p], n) # NoAccount <=> n < c
  BY <1>1, CounterCounts DEF getAllRequests
<1>3. 0..(c - 1) \subseteq Nonces /\ \A n \in 0..(c - 1) : n < c
  BY <1>2, WidthAssumption DEF Nonces
<1>4. i' \in 0..c
  BY <1>2 DEF getAllRequests, Nonces
<1> QED BY <1>1, <1>2, <1>3, <1>4

LEMMA StartList ==
  ASSUME ListInv, Start, UNCHANGED vars
  PROVE  ListInv'
<1>1. TypeOK' /\ RequestsFillCounters'
  BY TypeStep, CountersStep DEF ListInv
<1>2. /\ phase' = "reading" /\ part' = 1 /\ requests' = {} /\ booked' = 0
      /\ getAllRequests(1)
  BY DEF Start, getAllRequests
<1>3. ListTypeOK'
  BY <1>2, BeginsAt, TheTypes DEF ListTypeOK
<1>4. CounterWasRead'
  BY <1>2, BeginsAt DEF CounterWasRead, Account, vars
<1>5. IsFiniteSet(requests')
  BY <1>2, FS_EmptySet
<1> QED BY <1>1, <1>2, <1>3, <1>4, <1>5
        DEF ListInv, ListedIsPast, ListedOnce, NoMoreIssued

LEMMA FetchedList ==
  ASSUME ListInv, Fetched, UNCHANGED vars
  PROVE  ListInv'
<1>1. TypeOK' /\ RequestsFillCounters'
  BY TypeStep, CountersStep DEF ListInv
<1>2. /\ part \in {1, 2} /\ requestCounter \in Nonces /\ i \in 0..requestCounter
      /\ i < requestCounter /\ requests \subseteq RequestAccount
  BY TheTypes DEF ListInv, ListTypeOK, Fetched, ReadMore
<1>3. i \in Nonces /\ i + 1 \in 0..requestCounter /\ \A n \in Nonces : n < i => n < i + 1
  BY <1>2, WidthAssumption DEF Nonces
<1>4. PICK r : /\ r = Account(Types[part], i) /\ r # NoAccount
               /\ requests' = requests \union {r} /\ i' = i + 1
               /\ UNCHANGED <<phase, part, requestCounter, booked>>
  BY DEF Fetched, getRequest, Account
<1>5. r \in RequestAccount /\ r.nonce = i /\ r.request_type = Types[part]
  BY <1>2, <1>3, <1>4, Numbering, TheTypes DEF Existing, Account
<1>6. ListTypeOK' /\ IsFiniteSet(requests')
  BY <1>2, <1>3, <1>4, <1>5, FS_AddElement DEF ListInv, ListTypeOK
<1>7. ListedIsPast'
  <2>1. r = IF r.request_type = "Mint" THEN mint_requests[r.nonce] ELSE burn_requests[r.nonce]
    BY <1>4, <1>5 DEF Account
  <2>2. Fixed(r, r)
    BY <1>4, FixedSame
  <2> QED BY <1>4, <2>1, <2>2 DEF ListInv, ListedIsPast, vars
<1>8. ListedOnce'
  <2>1. \A q \in requests : q.nonce \in Nonces /\ (q.request_type = Types[part] => q.nonce < i)
    BY <1>2 DEF ListInv, ListedOnce, RequestAccount
  <2>2. \A q \in requests : q.request_type = Types[part] => q.nonce # i /\ q.nonce < i + 1
    BY <1>2, <1>3, <2>1 DEF Nonces
  <2>3. i < i + 1
    BY <1>3 DEF Nonces
  <2>4. r.request_type = "Mint" \/ part = 2
    BY <1>2, <1>5, TheTypes
  <2> QED BY <1>4, <1>5, <2>2, <2>3, <2>4 DEF ListInv, ListedOnce
<1>9. CounterWasRead'
  BY <1>4 DEF ListInv, CounterWasRead, Account, vars
<1>10. NoMoreIssued'
  <2> SUFFICES ASSUME part = 2
               PROVE  (Amount(ApprovedMints(requests)) <= booked + Burned(requestCounter))'
    BY <1>4 DEF NoMoreIssued
  <2>1. ApprovedMints(requests)' = ApprovedMints(requests)
    BY <1>4, <1>5, TheTypes DEF ApprovedMints
  <2>2. Burned(requestCounter)' = Burned(requestCounter)
    BY <1>4 DEF Burned, vars
  <2>3. Amount(ApprovedMints(requests)) <= booked + Burned(requestCounter)
    BY DEF ListInv, NoMoreIssued
  <2>4. Amount(ApprovedMints(requests))' = Amount(ApprovedMints(requests))
    BY <2>1 DEF Amount
  <2> QED BY <1>4, <2>2, <2>3, <2>4
<1> QED BY <1>1, <1>6, <1>7, <1>8, <1>9, <1>10 DEF ListInv

\* A fetch that fails, or the end of a list: at most i and the phase change.
LEMMA SkippedList ==
  ASSUME ListInv, Skipped \/ Finish \/ StoreFails, UNCHANGED vars
  PROVE  ListInv'
<1>1. TypeOK' /\ RequestsFillCounters'
  BY TypeStep, CountersStep DEF ListInv
<1>2. /\ UNCHANGED <<part, requestCounter, requests, booked>>
      /\ i' = i \/ (i' = i + 1 /\ i < requestCounter /\ phase' = phase)
      /\ i' = i => phase' \in {"done", "failed", phase} /\ (phase' = "done" => part = 2)
  BY TheTypes DEF ListInv, ListTypeOK, CounterWasRead, Skipped, Finish, StoreFails,
                  ReadMore,
                  ReadUp
<1>3. i' \in 0..requestCounter /\ \A n \in Nonces : n < i => n < i'
  BY <1>2 DEF ListInv, ListTypeOK, Nonces
<1>4. phase' \in {"idle", "reading", "done", "failed"} /\ (phase' = "done" => part = 2)
  BY <1>2 DEF ListInv, ListTypeOK, CounterWasRead
<1>5. ListTypeOK' /\ IsFiniteSet(requests')
  BY <1>2, <1>3, <1>4 DEF ListInv, ListTypeOK
<1>6. ListedIsPast' /\ CounterWasRead'
  BY <1>2, <1>4 DEF ListInv, ListedIsPast, CounterWasRead, Account, vars
<1>7. ListedOnce'
  <2>1. \A q \in requests : q.nonce \in Nonces
    BY DEF ListInv, ListTypeOK, RequestAccount
  <2> QED BY <1>2, <1>3, <2>1 DEF ListInv, ListedOnce
<1>8. NoMoreIssued'
  <2>1. Burned(requestCounter)' = Burned(requestCounter)
    BY <1>2 DEF Burned, vars
  <2>2. Amount(ApprovedMints(requests))' = Amount(ApprovedMints(requests))
    BY <1>2 DEF ApprovedMints, Amount
  <2> QED BY <1>2, <2>1, <2>2 DEF ListInv, NoMoreIssued
<1> QED BY <1>1, <1>5, <1>6, <1>7, <1>8 DEF ListInv

LEMMA ImageFinite ==
  ASSUME NEW f, NEW S, IsFiniteSet(S), f = [x \in S |-> f[x]]
  PROVE  IsFiniteSet({f[x] : x \in S})
<1>1. f \in Surjection(S, {f[x] : x \in S})
  BY DEF Surjection
<1> QED BY <1>1, FS_Surjection

LEMMA AllRequestsFinite ==
  ASSUME ListInv
  PROVE  IsFiniteSet(AllRequests) /\ AllRequests \subseteq RequestAccount
<1>1. /\ mint_requests = [n \in Nonces |-> mint_requests[n]]
      /\ burn_requests = [n \in Nonces |-> burn_requests[n]]
  BY DEF ListInv, TypeOK
<1>2. IsFiniteSet({mint_requests[n] : n \in Nonces})
  BY <1>1, NoncesFinite, ImageFinite
<1>3. IsFiniteSet({burn_requests[n] : n \in Nonces})
  BY <1>1, NoncesFinite, ImageFinite
<1>4. IsFiniteSet({mint_requests[n] : n \in Nonces} \union {burn_requests[n] : n \in Nonces})
  BY <1>2, <1>3, FS_Union
<1>5. AllRequests \in SUBSET ({mint_requests[n] : n \in Nonces}
                                \union {burn_requests[n] : n \in Nonces})
  BY DEF AllRequests
<1> QED BY <1>4, <1>5, Numbering, FS_Subset DEF AllRequests, Existing

\* When the burn counter is read it counts all burn requests there are.
LEMMA BurnsAreCounted ==
  ASSUME ListInv, NEW c \in Nonces, \A n \in Nonces : burn_requests[n] # NoAccount <=> n < c
  PROVE  Amount(Burns(AllRequests)) = Burned(c)
<1>1. /\ 0..(c - 1) \subseteq Nonces /\ IsFiniteSet(0..(c - 1))
      /\ \A n \in Nonces : n < c <=> n \in 0..(c - 1)
  BY WidthAssumption, FS_Interval DEF Nonces
<1>2. Burns(AllRequests) \in SUBSET AllRequests
  BY DEF Burns
<1>3. IsFiniteSet(Burns(AllRequests)) /\ Burns(AllRequests) \subseteq RequestAccount
  BY <1>2, AllRequestsFinite, FS_Subset
<1>4. PICK a : a = [n \in 0..(c - 1) |-> burn_requests[n].amount]
  OBVIOUS
<1>5. ASSUME NEW r \in Burns(AllRequests)
      PROVE  r.nonce \in 0..(c - 1) /\ r = burn_requests[r.nonce] /\ r # NoAccount
  <2>1. r # NoAccount /\ r.request_type = "Burn"
    BY DEF Burns, AllRequests
  <2>2. PICK n \in Nonces : r = mint_requests[n] \/ r = burn_requests[n]
    BY DEF Burns, AllRequests
  <2>3. r = burn_requests[n] /\ r.nonce = n
    BY <2>1, <2>2, Numbering
  <2> QED BY <1>1, <2>1, <2>3
<1>6. ASSUME NEW n \in 0..(c - 1) PROVE \E r \in Burns(AllRequests) : r.nonce = n
  <2>1. burn_requests[n] # NoAccount
    BY <1>1
  <2>2. burn_requests[n] \in Burns(AllRequests) /\ burn_requests[n].nonce = n
    BY <1>1, <2>1, Numbering DEF Burns, AllRequests
  <2> QED BY <2>2
<1>7. \A r \in Burns(AllRequests) : r.nonce \in 0..(c - 1) /\ a[r.nonce] = r.amount
  BY <1>4, <1>5
<1>8. \A r, q \in Burns(AllRequests) : r.nonce = q.nonce => r = q
  BY <1>5
<1>9. PICK S, N : S = Burns(AllRequests) /\ N = 0..(c - 1)
  OBVIOUS
<1>10. ByNonce(S, N, a)
  BY <1>1, <1>3, <1>6, <1>7, <1>8, <1>9 DEF ByNonce
<1>11. Amount(S) = Sum(a, N)
  BY <1>10, AmountByNonce
<1> QED BY <1>4, <1>9, <1>11 DEF Burned

\* An approved mint request on the list is among the requests as it was listed.
LEMMA ApprovedAreThere ==
  ASSUME ListInv
  PROVE  ApprovedMints(requests) \subseteq ApprovedMints(AllRequests)
<1>1. ASSUME NEW r \in ApprovedMints(requests) PROVE r \in AllRequests
  <2>1. r \in requests /\ r.request_type = "Mint" /\ r.status = "Approved"
    BY DEF ApprovedMints
  <2>2. Fixed(r, mint_requests[r.nonce])
    BY <2>1 DEF ListInv, ListedIsPast
  <2>3. mint_requests[r.nonce] = r /\ r # NoAccount
    BY <2>1, <2>2 DEF Fixed
  <2>4. r.nonce \in Nonces
    BY <2>1 DEF ListInv, ListTypeOK, RequestAccount
  <2> QED BY <2>3, <2>4 DEF AllRequests
<1> QED BY <1>1 DEF ApprovedMints

LEMMA NextTypeList ==
  ASSUME ListInv, NextType, UNCHANGED vars
  PROVE  ListInv'
<1>1. TypeOK' /\ RequestsFillCounters'
  BY TypeStep, CountersStep DEF ListInv
<1>2. /\ phase' = "reading" /\ part = 1 /\ part' = 2 /\ requests' = requests
      /\ getAllRequests(2) /\ booked' = Circulation(AllRequests)
  BY DEF NextType, getAllRequests
<1>3. PICK c : c = requestCounter'
  OBVIOUS
<1>4. /\ c \in Nonces /\ i' \in 0..c
      /\ \A n \in 0..(c - 1) : burn_requests[n] # NoAccount
      /\ \A n \in Nonces : burn_requests[n] # NoAccount <=> n < c
  BY <1>2, <1>3, BeginsAt, TheTypes DEF Account
<1>5. IsFiniteSet(AllRequests) /\ AllRequests \subseteq RequestAccount
  BY AllRequestsFinite
<1>6. /\ ApprovedMints(AllRequests) \in SUBSET AllRequests
      /\ Burns(AllRequests) \in SUBSET AllRequests
  BY DEF ApprovedMints, Burns
<1>7. /\ IsFiniteSet(ApprovedMints(AllRequests))
      /\ ApprovedMints(AllRequests) \subseteq RequestAccount
      /\ IsFiniteSet(Burns(AllRequests)) /\ Burns(AllRequests) \subseteq RequestAccount
  BY <1>5, <1>6, FS_Subset
<1>8. Amount(ApprovedMints(AllRequests)) \in Int /\ Amount(Burns(AllRequests)) \in Int
  BY <1>7, AmountType
<1>9. /\ booked' \in Int
      /\ booked' = Amount(ApprovedMints(AllRequests)) - Amount(Burns(AllRequests))
  BY <1>2, <1>8 DEF Circulation
<1>10. ListTypeOK' /\ IsFiniteSet(requests')
  BY <1>2, <1>3, <1>4, <1>9, TheTypes DEF ListInv, ListTypeOK
<1>11. ListedIsPast' /\ ListedOnce' /\ CounterWasRead'
  <2>1. \A r \in requests : r.request_type = "Mint"
    BY <1>2 DEF ListInv, ListedOnce
  <2>2. ListedIsPast'
    BY <1>2 DEF ListInv, ListedIsPast, vars
  <2>3. ListedOnce'
    BY <1>2, <2>1, TheTypes DEF ListInv, ListedOnce
  <2>4. CounterWasRead'
    BY <1>2, <1>3, <1>4, TheTypes DEF CounterWasRead, Account, vars
  <2> QED BY <2>2, <2>3, <2>4
<1>12. NoMoreIssued'
  <2>1. ApprovedMints(requests) \in SUBSET ApprovedMints(AllRequests)
    BY ApprovedAreThere
  <2>2. Amount(ApprovedMints(requests)) <= Amount(ApprovedMints(AllRequests))
    BY <1>7, <2>1, AmountSubset
  <2>3. Amount(Burns(AllRequests)) = Burned(c)
    BY <1>4, BurnsAreCounted
  <2>4. Burned(requestCounter)' = Burned(c)
    BY <1>3 DEF Burned, vars
  <2>5. Amount(ApprovedMints(requests))' = Amount(ApprovedMints(requests))
    BY <1>2 DEF ApprovedMints, Amount
  <2>6. Amount(ApprovedMints(requests)) \in Int
    <3>1. IsFiniteSet(ApprovedMints(requests)) /\ ApprovedMints(requests) \subseteq RequestAccount
      BY <1>7, <2>1, FS_Subset
    <3> QED BY <3>1, AmountType
  <2>7. PICK x, y, z : /\ x = Amount(ApprovedMints(requests))
                       /\ y = Amount(ApprovedMints(AllRequests))
                       /\ z = Amount(Burns(AllRequests))
    OBVIOUS
  <2>8. x <= (y - z) + z
    BY <1>8, <2>2, <2>6, <2>7
  <2>9. x <= booked' + z
    BY <1>9, <2>7, <2>8
  <2>10. (Amount(ApprovedMints(requests)) <= booked + Burned(requestCounter))'
    BY <2>3, <2>4, <2>5, <2>7, <2>9
  <2> QED BY <2>10 DEF NoMoreIssued
<1> QED BY <1>1, <1>10, <1>11, <1>12 DEF ListInv

LEMMA ListStepInv == ListInv /\ [OpenListNext]_listVars => ListInv'
<1> SUFFICES ASSUME ListInv, [OpenListNext]_listVars PROVE ListInv'
  OBVIOUS
<1>1. CASE ListStep
  BY <1>1, StartList, FetchedList, SkippedList, NextTypeList DEF ListStep
<1>2. CASE [Next]_vars /\ UNCHANGED lvars
  BY <1>2, ProgramsList
<1> QED BY <1>1, <1>2 DEF OpenListNext, listVars

LEMMA ListInitInv == TypeOK /\ RequestsFillCounters /\ ListInit => ListInv
<1> SUFFICES ASSUME TypeOK, RequestsFillCounters, ListInit PROVE ListInv
  OBVIOUS
<1>1. ListTypeOK
  BY TheTypes, WidthAssumption DEF ListTypeOK, ListInit, Nonces
<1> QED BY <1>1, FS_EmptySet
        DEF ListInit, ListInv, ListedIsPast, ListedOnce, CounterWasRead, NoMoreIssued

\* A complete list of burns accounts for all that were counted.
LEMMA AuditHolds == ListInv => AuditNeverOverstates
<1> SUFFICES ASSUME ListInv, phase = "done", Cardinality(Burns(requests)) = requestCounter
             PROVE  Circulation(requests) <= booked
  BY DEF AuditNeverOverstates
<1>1. PICK c \in Nonces : c = requestCounter
  BY DEF ListInv, ListTypeOK
<1>2. part = 2 /\ requests \subseteq RequestAccount /\ IsFiniteSet(requests) /\ booked \in Int
  BY DEF ListInv, CounterWasRead, ListTypeOK
<1>3. \A n \in 0..(c - 1) : burn_requests[n] # NoAccount
  BY <1>1, <1>2, TheTypes DEF ListInv, CounterWasRead, Account
<1>4. 0..(c - 1) \subseteq Nonces /\ IsFiniteSet(0..(c - 1)) /\ Burned(c) \in Int
  BY <1>3, BurnedType
<1>5. /\ ApprovedMints(requests) \in SUBSET requests
      /\ Burns(requests) \in SUBSET requests
  BY DEF ApprovedMints, Burns
<1>6. /\ IsFiniteSet(ApprovedMints(requests)) /\ ApprovedMints(requests) \subseteq RequestAccount
      /\ IsFiniteSet(Burns(requests)) /\ Burns(requests) \subseteq RequestAccount
  BY <1>2, <1>5, FS_Subset
<1>7. ASSUME NEW r \in Burns(requests)
      PROVE  r.nonce \in 0..(c - 1) /\ burn_requests[r.nonce].amount = r.amount
  <2>1. r \in requests /\ r.request_type = "Burn" /\ r.nonce \in Nonces
    BY <1>6 DEF Burns, RequestAccount
  <2>2. r.nonce < i /\ i <= c
    BY <1>1, <1>2, <2>1, TheTypes DEF ListInv, ListedOnce, ListTypeOK, Nonces
  <2>3. r.nonce \in 0..(c - 1)
    BY <1>1, <2>1, <2>2 DEF ListInv, ListTypeOK, Nonces
  <2>4. Fixed(r, burn_requests[r.nonce])
    BY <2>1 DEF ListInv, ListedIsPast
  <2> QED BY <2>3, <2>4 DEF Fixed
<1>8. \A r, q \in Burns(requests) : r.nonce = q.nonce => r = q
  BY DEF Burns, ListInv, ListedOnce
<1>9. ASSUME NEW n \in 0..(c - 1) PROVE \E r \in Burns(requests) : r.nonce = n
  <2> DEFINE h == [r \in Burns(requests) |-> r.nonce]
  <2>1. h \in Injection(Burns(requests), 0..(c - 1))
    BY <1>7, <1>8 DEF Injection, IsInjective
  <2>2. Cardinality(0..(c - 1)) = c
    BY <1>1, FS_Interval DEF Nonces
  <2>3. h \in Surjection(Burns(requests), 0..(c - 1))
    <3> HIDE DEF h
    <3> QED BY <1>1, <1>4, <2>1, <2>2, FS_Injection
  <2> QED BY <2>3 DEF Surjection
<1>10. PICK a : a = [n \in 0..(c - 1) |-> burn_requests[n].amount]
  OBVIOUS
<1>11. \A r \in Burns(requests) : r.nonce \in 0..(c - 1) /\ a[r.nonce] = r.amount
  BY <1>7, <1>10
<1>12. PICK S, N : S = Burns(requests) /\ N = 0..(c - 1)
  OBVIOUS
<1>13. Amount(Burns(requests)) = Burned(c)
  <2>1. ByNonce(S, N, a)
    BY <1>4, <1>6, <1>8, <1>9, <1>11, <1>12 DEF ByNonce
  <2>2. Amount(S) = Sum(a, N)
    BY <2>1, AmountByNonce
  <2> QED BY <1>10, <1>12, <2>2 DEF Burned
<1>14. Amount(ApprovedMints(requests)) <= booked + Burned(c)
  BY <1>1, <1>2 DEF ListInv, NoMoreIssued
<1>15. Amount(ApprovedMints(requests)) \in Int
  BY <1>6, AmountType
<1>16. PICK x, z : x = Amount(ApprovedMints(requests)) /\ z = Burned(c)
  OBVIOUS
<1>17. x - z <= booked
  BY <1>2, <1>4, <1>14, <1>15, <1>16
<1> QED BY <1>13, <1>16, <1>17 DEF Circulation

LEMMA ListSpecInv == OpenListSpec => []ListInv
<1>1. TypeOK /\ RequestsFillCounters /\ ListInit => ListInv
  BY ListInitInv
<1> QED BY <1>1, ListStepInv, PTL DEF OpenListSpec

\* A listing keeps its types from any state of the programs in which requests are
\* numbered by the counters, whatever is sent to the programs while the accounts
\* are fetched one by one.
THEOREM ListTypeCorrect == OpenListSpec => []ListTypeOK
<1>1. ListInv => ListTypeOK
  BY DEF ListInv
<1> QED BY <1>1, ListSpecInv, PTL

\* Wherever a listing has got to, every entry on it is the request that has its
\* nonce now, with its terms, and a settled one is final.
THEOREM ListingIsPast == OpenListSpec => []ListedIsPast
<1>1. ListInv => ListedIsPast
  BY DEF ListInv
<1> QED BY <1>1, ListSpecInv, PTL

\* A list with no burn request left out never overstates what circulated when the
\* burn counter was read, though mint requests are approved and burns are made
\* between any two fetches.
THEOREM AuditErrsOnOneSide == OpenListSpec => []AuditNeverOverstates
  BY AuditHolds, ListSpecInv, PTL
=============================================================================
