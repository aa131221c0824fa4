------------------------ MODULE MembersClientProofs -------------------------
(***************************************************************************)
(* Theorems about MembersClient, for any number of callers and any bound   *)
(* on the transactions that land late.                                     *)
(***************************************************************************)
EXTENDS MembersClient, MembersProofs

USE DEF CanInitialize, CanSetCustodian, CanAddMerchant, CanRemoveMerchant,
        CanTransferOwnership, CanClaimOwnership

-----------------------------------------------------------------------------
(* What a transaction does.                                                *)

LEMMA SentIsNext ==
  ASSUME NEW tx \in Transaction, Sent(tx)
  PROVE  Next
  BY DEF Sent, initialize, setCustodian, addMerchant, removeMerchant,
         transferOwnership, claimOwnership, Transaction, Next, Instruction

\* Whoever gets a transaction through owns the program afterwards.
LEMMA SignerOwns ==
  ASSUME TypeOK, NEW tx \in Transaction, Sent(tx)
  PROVE  members_store' # NoAccount /\ members_store'.owner = tx.signer
<1> USE StoreAssumption DEF TypeOK, MembersStore, Pubkeys, Transaction
<1>1. CASE initialize(tx)
  BY <1>1, U16Assumption DEF initialize, Initialize
<1>2. CASE setCustodian(tx) \/ transferOwnership(tx)
  BY <1>2 DEF setCustodian, SetCustodian, transferOwnership, TransferOwnership, OwnedBy
<1>3. CASE addMerchant(tx) \/ removeMerchant(tx)
  <2>1. members_store \in MembersStore /\ members_store.owner = tx.signer
    BY <1>3 DEF addMerchant, AddMerchant, removeMerchant, RemoveMerchant, OwnedBy
  <2>2. PICK count \in 0..U16Max :
          members_store' = [members_store EXCEPT !.merchant_count = count]
    BY <1>3, <2>1, SaturatingType
    DEF addMerchant, AddMerchant, removeMerchant, RemoveMerchant
  <2> QED BY <2>1, <2>2
<1>4. CASE claimOwnership(tx)
  BY <1>4 DEF claimOwnership, ClaimOwnership
<1> QED BY <1>1, <1>2, <1>3, <1>4 DEF Sent

\* ... which takes that the program has no owner, or that the signer is the owner
\* or its nominee.
LEMMA SignerMayOwn ==
  ASSUME NEW tx, Sent(tx), members_store # NoAccount
  PROVE  tx.signer \in {members_store.owner, members_store.pending_owner}
  BY DEF Sent, initialize, setCustodian, addMerchant, removeMerchant,
         transferOwnership, claimOwnership, Initialize, SetCustodian, AddMerchant,
         RemoveMerchant, TransferOwnership, ClaimOwnership, OwnedBy

-----------------------------------------------------------------------------
(* The invariant. A call that made its caller the owner has left nobody     *)
(* nominated, so that the caller stays the owner until it signs again; and  *)
(* nobody but the owner changes what an owner's call has left.              *)

WellFormed(s, tx) ==
    tx.signer = s /\ (tx.method \in KeyMethods => tx.key \in Keys)

Settled(s, phase, tx) ==
    /\ Stands(s, phase, tx)
    /\ tx.method \in {"initialize", "claimOwnership"} /\ phase = "ok" =>
          members_store.pending_owner = NoKey

Inv ==
    /\ ClientTypeOK
    /\ \A s \in Keys : call[s].phase \in Phases => WellFormed(s, call[s].tx)
    /\ \A s \in Keys :
          call[s].phase \in {"ok", "refused"} /\ s \notin strays =>
              Settled(s, call[s].phase, call[s].tx)

LEMMA InvImplies == Inv => ClientTypeOK /\ LastWordStands
  BY DEF Inv, LastWordStands, Settled

LEMMA CallTyped ==
  ASSUME Inv, NEW s \in Keys, call[s].phase \in Running
  PROVE  /\ call[s] \in [phase : Phases, tx : Transaction]
         /\ call[s].tx \in Transaction /\ WellFormed(s, call[s].tx)
  BY DEF Inv, ClientTypeOK, RpcTypeOK, NoCall, Running, Phases, Ended

\* Transactions that others sign leave what a caller's call has left.
LEMMA OthersLeave ==
  ASSUME TypeOK, NEW other \in Transaction, Sent(other),
         NEW s \in Keys, other.signer # s, NEW phase, NEW tx, Settled(s, phase, tx)
  PROVE  Settled(s, phase, tx)'
<1>1. members_store' # NoAccount /\ members_store'.owner # s
  BY SignerOwns
<1>2. ~ (tx.method \in {"initialize", "claimOwnership"} /\ phase = "ok")
  <2> SUFFICES ASSUME tx.method \in {"initialize", "claimOwnership"}, phase = "ok"
               PROVE  FALSE
    OBVIOUS
  <2>1. /\ members_store # NoAccount /\ members_store.owner = s
        /\ members_store.pending_owner = NoKey
    BY DEF Settled, Stands, getMembersStore
  <2>2. other.signer \in Keys
    BY DEF Transaction
  <2> QED BY <2>1, <2>2, SignerMayOwn, KeysAssumption
<1> QED BY <1>1, <1>2 DEF Settled, Stands, getMembersStore

\* A transaction that lands does what its method is for.
LEMMA LandSettles ==
  ASSUME TypeOK, NEW s \in Keys, NEW tx \in Transaction, WellFormed(s, tx), Sent(tx)
  PROVE  Settled(s, "ok", tx)'
<1>1. members_store' # NoAccount /\ members_store'.owner = s
  BY SignerOwns DEF WellFormed
<1> USE <1>1, StoreAssumption
    DEF Settled, Stands, getMembersStore, getMerchantInfo, WellFormed, Transaction,
        TypeOK, MembersStore
<1>2. CASE initialize(tx)
  BY <1>2 DEF initialize, Initialize
<1>3. CASE setCustodian(tx)
  BY <1>3 DEF setCustodian, SetCustodian, OwnedBy
<1>4. CASE addMerchant(tx)
  BY <1>4 DEF addMerchant, AddMerchant
<1>5. CASE removeMerchant(tx)
  BY <1>5 DEF removeMerchant, RemoveMerchant
<1>6. CASE transferOwnership(tx)
  BY <1>6 DEF transferOwnership, TransferOwnership, OwnedBy
<1>7. CASE claimOwnership(tx)
  BY <1>7 DEF claimOwnership, ClaimOwnership
<1> QED BY <1>2, <1>3, <1>4, <1>5, <1>6, <1>7 DEF Sent

\* One that is refused has nothing to do, if its signer is the owner.
LEMMA RefusalSettles ==
  ASSUME NEW s \in Keys, NEW tx \in Transaction, WellFormed(s, tx), ~Accepted(tx)
  PROVE  Settled(s, "refused", tx)
<1> SUFFICES ASSUME members_store # NoAccount, members_store.owner = s
             PROVE  Settled(s, "refused", tx)
  BY DEF Settled, Stands, getMembersStore
<1>1. tx.signer = s /\ (tx.method \in KeyMethods => tx.key \in Keys /\ tx.key # NoKey)
  BY KeysAssumption DEF WellFormed
<1>2. tx.method \notin {"setCustodian", "transferOwnership"}
  BY <1>1 DEF Accepted, KeyMethods, OwnedBy
<1>3. tx.method = "addMerchant" => tx.key \in merchant_infos
  BY <1>1 DEF Accepted, KeyMethods, OwnedBy
<1>4. tx.method = "removeMerchant" => tx.key \notin merchant_infos
  BY <1>1 DEF Accepted, KeyMethods, OwnedBy
<1> QED BY <1>2, <1>3, <1>4 DEF Settled, Stands, getMembersStore, getMerchantInfo

-----------------------------------------------------------------------------
(* The steps, one by one.                                                  *)

\* What keeps one caller's call settled while another one's gets on.
StaySettled(k) ==
    \A phase, tx : Settled(k, phase, tx) => Settled(k, phase, tx)'

LEMMA SettledFrame ==
  ASSUME UNCHANGED mvars, NEW k PROVE StaySettled(k)
  BY DEF StaySettled, Settled, Stands, getMembersStore, getMerchantInfo, mvars

LEMMA OneCallMoves ==
  ASSUME Inv, TypeOK', NEW s \in Keys, \A k \in Keys \ {s} : StaySettled(k),
         NEW phase, NEW tx,
         [phase |-> phase, tx |-> tx] \in
            {NoCall} \union [phase : Phases, tx : Transaction],
         call' = [call EXCEPT ![s] = [phase |-> phase, tx |-> tx]],
         phase \in Phases => WellFormed(s, tx),
         phase \in {"ok", "refused"} /\ s \notin strays' => Settled(s, phase, tx)',
         late' \subseteq Transaction, IsFiniteSet(late'), Cardinality(late') <= MaxLate,
         strays' \subseteq Keys, strays \ {s} \subseteq strays'
  PROVE  Inv'
<1>1. call' \in [Keys -> {NoCall} \union [phase : Phases, tx : Transaction]]
  BY DEF Inv, ClientTypeOK, RpcTypeOK
<1>2. /\ call'[s].phase = phase /\ call'[s].tx = tx
      /\ \A k \in Keys \ {s} : call'[k] = call[k]
  BY DEF Inv, ClientTypeOK, RpcTypeOK
<1>3. ClientTypeOK'
  BY <1>1 DEF ClientTypeOK, RpcTypeOK
<1>4. ASSUME NEW k \in Keys, call'[k].phase \in Phases PROVE WellFormed(k, call'[k].tx)
  BY <1>2, <1>4 DEF Inv
<1>5. ASSUME NEW k \in Keys, call'[k].phase \in {"ok", "refused"}, k \notin strays'
      PROVE  Settled(k, call[k].phase, call[k].tx)'
  <2>1. CASE k = s
    <3>1. Settled(s, phase, tx)' /\ call'[k].phase = phase /\ call'[k].tx = tx
      BY <1>2, <1>5, <2>1
    <3> QED BY <2>1, <3>1
  <2>2. CASE k # s
    <3>1. PICK p, t : p = call[k].phase /\ t = call[k].tx
      OBVIOUS
    <3>2. Settled(k, p, t)
      BY <1>2, <1>5, <2>2, <3>1 DEF Inv
    <3>3. Settled(k, p, t)'
      BY <2>2, <3>2 DEF StaySettled
    <3>4. call'[k].phase = p /\ call'[k].tx = t
      BY <1>2, <2>2, <3>1
    <3> QED BY <3>3, <3>4
  <2> QED BY <2>1, <2>2
<1> QED BY <1>3, <1>4, <1>5 DEF Inv, WellFormed

LEMMA LateTyped ==
  ASSUME Inv
  PROVE  /\ late \subseteq Transaction /\ IsFiniteSet(late)
         /\ Cardinality(late) \in Nat /\ Cardinality(late) <= MaxLate
         /\ strays \subseteq Keys /\ TypeOK
  BY FS_CardinalityType DEF Inv, ClientTypeOK, RpcTypeOK

LEMMA CallInv ==
  ASSUME Inv, NEW s \in Keys, NEW method \in MethodNames, Call(s, method)
  PROVE  Inv'
<1>1. PICK key \in IF method \in KeyMethods THEN Keys ELSE {NoKey} :
        Begin(s, "sent", [method |-> method, signer |-> s, key |-> key])
  BY DEF Call
<1> DEFINE tx == [method |-> method, signer |-> s, key |-> key]
<1>2. /\ [phase |-> "sent", tx |-> tx] \in [phase : Phases, tx : Transaction]
      /\ WellFormed(s, tx)
  BY DEF Phases, Ended, Running, Transaction, Pubkeys, WellFormed
<1>3. /\ call' = [call EXCEPT ![s] = [phase |-> "sent", tx |-> tx]]
      /\ strays' = strays \ {s} /\ UNCHANGED late /\ UNCHANGED mvars
  BY <1>1 DEF Begin, Call
<1> HIDE DEF tx
<1>4. TypeOK'
  BY <1>3, LateTyped, TypeStep
<1>5. \A k \in Keys : StaySettled(k)
  BY <1>3, SettledFrame
<1> QED BY <1>2, <1>3, <1>4, <1>5, LateTyped, OneCallMoves

\* A call ends, and what it stands for holds.
LEMMA EndInv ==
  ASSUME Inv, TypeOK', NEW s \in Keys, \A k \in Keys \ {s} : StaySettled(k),
         NEW tx, tx = call[s].tx, NEW phase \in {"ok", "refused"},
         call[s].phase \in Running, call' = [call EXCEPT ![s].phase = phase],
         UNCHANGED <<late, strays>>, Settled(s, phase, tx)'
  PROVE  Inv'
<1>1. call[s] \in [phase : Phases, tx : Transaction] /\ WellFormed(s, tx)
  BY CallTyped
<1>2. [phase |-> phase, tx |-> tx] \in [phase : Phases, tx : Transaction]
  BY <1>1 DEF Phases, Ended
<1>3. [call[s] EXCEPT !.phase = phase] = [phase |-> phase, tx |-> tx]
  BY <1>1
<1>4. call' = [call EXCEPT ![s] = [phase |-> phase, tx |-> tx]]
  BY <1>3
<1> QED BY <1>1, <1>2, <1>4, LateTyped, OneCallMoves

LEMMA LandInv ==
  ASSUME Inv, NEW s \in Keys, Land(s)
  PROVE  Inv'
<1>1. PICK tx : tx = call[s].tx
  OBVIOUS
<1>2. tx \in Transaction /\ WellFormed(s, tx) /\ Sent(tx) /\ TypeOK
  BY <1>1, CallTyped, LateTyped DEF Land, Return, Running
<1>3. TypeOK'
  BY <1>2, SentIsNext, TypeStep
<1>4. ASSUME NEW k \in Keys \ {s} PROVE StaySettled(k)
  BY <1>2, OthersLeave DEF StaySettled, WellFormed
<1>5. Settled(s, "ok", tx)'
  BY <1>2, LandSettles
<1> QED BY <1>1, <1>3, <1>4, <1>5, EndInv DEF Land, Return, Running

LEMMA FailInv ==
  ASSUME Inv, NEW s \in Keys, Fail(s)
  PROVE  Inv'
<1>1. PICK tx : tx = call[s].tx
  OBVIOUS
<1>2. tx \in Transaction /\ WellFormed(s, tx) /\ ~Accepted(tx) /\ TypeOK
  BY <1>1, CallTyped, LateTyped DEF Fail, Refuse, Running
<1>3. UNCHANGED mvars /\ TypeOK'
  BY <1>2, TypeStep DEF Fail
<1>4. \A k \in Keys : StaySettled(k)
  BY <1>3, SettledFrame
<1>5. Settled(s, "refused", tx)'
  BY <1>2, <1>4, RefusalSettles DEF StaySettled
<1> QED BY <1>1, <1>3, <1>4, <1>5, EndInv DEF Fail, Refuse, Running

LEMMA GiveUpInv ==
  ASSUME Inv, NEW s \in Keys, GiveUp(s), UNCHANGED mvars
  PROVE  Inv'
<1>1. call[s].tx \in Transaction
  BY CallTyped DEF GiveUp, Running
<1>2. IsFiniteSet(late') /\ Cardinality(late') <= MaxLate
  <2>1. PICK tx : tx = call[s].tx
    OBVIOUS
  <2>2. IsFiniteSet(late) /\ Cardinality(late) \in Nat /\ Cardinality(late) < MaxLate
    BY LateTyped DEF GiveUp
  <2>3. late' = late \union {tx}
    BY <2>1 DEF GiveUp
  <2> QED BY <2>2, <2>3, FS_AddElement, LateAssumption
<1>3. TypeOK'
  BY LateTyped, TypeStep
<1>4. \A k \in Keys : StaySettled(k)
  BY SettledFrame
<1>5. NoCall = [phase |-> "idle", tx |-> NoAccount] /\ "idle" \notin Phases
  BY DEF NoCall, Phases, Ended, Running
<1>6. /\ call' = [call EXCEPT ![s] = [phase |-> "idle", tx |-> NoAccount]]
      /\ late' = late \union {call[s].tx} /\ strays' = strays \ {s}
  BY <1>5 DEF GiveUp
<1> QED BY <1>1, <1>2, <1>3, <1>4, <1>5, <1>6, LateTyped, OneCallMoves
        DEF Phases, Ended, Running

\* Calls stay where they are while a transaction that nobody waits for goes; a
\* caller it overrules becomes a stray.
LEMMA NoCallMoves ==
  ASSUME Inv, TypeOK', UNCHANGED call, late' \subseteq late,
         strays \subseteq strays', strays' \subseteq Keys,
         \A k \in Keys \ strays' : call[k] = NoCall \/ StaySettled(k)
  PROVE  Inv'
<1>1. IsFiniteSet(late') /\ Cardinality(late') <= MaxLate
  <2>1. IsFiniteSet(late') /\ Cardinality(late') <= Cardinality(late)
    BY LateTyped, FS_Subset
  <2>2. Cardinality(late') \in Nat
    BY <2>1, FS_CardinalityType
  <2> QED BY <2>1, <2>2, LateTyped, LateAssumption
<1>2. ClientTypeOK'
  BY <1>1 DEF Inv, ClientTypeOK, RpcTypeOK
<1>3. ASSUME NEW k \in Keys, call[k].phase \in {"ok", "refused"}, k \notin strays'
      PROVE  Settled(k, call[k].phase, call[k].tx)'
  <2>1. PICK phase, tx : phase = call[k].phase /\ tx = call[k].tx
    OBVIOUS
  <2>2. Settled(k, phase, tx)
    BY <1>3, <2>1 DEF Inv
  <2>3. call[k] # NoCall
    BY <1>3 DEF NoCall
  <2>4. Settled(k, phase, tx)'
    BY <1>3, <2>2, <2>3 DEF StaySettled
  <2>5. call'[k].phase = phase /\ call'[k].tx = tx
    BY <2>1
  <2> QED BY <2>4, <2>5
<1> QED BY <1>2, <1>3 DEF Inv, WellFormed

LEMMA LandLateInv ==
  ASSUME Inv, NEW tx \in late, LandLate(tx)
  PROVE  Inv'
<1>1. tx \in Transaction /\ Sent(tx) /\ TypeOK
  BY LateTyped DEF LandLate
<1>2. TypeOK'
  BY <1>1, SentIsNext, TypeStep
<1>3. ASSUME NEW k \in Keys \ strays' PROVE call[k] = NoCall \/ StaySettled(k)
  <2>1. CASE k = tx.signer
    BY <2>1 DEF LandLate, Stray
  <2>2. CASE k # tx.signer
    BY <1>1, <2>2, OthersLeave DEF StaySettled
  <2> QED BY <2>1, <2>2
<1>4. /\ UNCHANGED call /\ late' \subseteq late
      /\ strays \subseteq strays' /\ strays' \subseteq Keys
  BY <1>1, LateTyped DEF LandLate, Stray, Transaction
<1> QED BY <1>2, <1>3, <1>4, NoCallMoves

LEMMA StepInv == Inv /\ [ClientNext]_allVars => Inv'
<1> SUFFICES ASSUME Inv, [ClientNext]_allVars PROVE Inv'
  OBVIOUS
<1>1. ASSUME NEW s \in Keys, NEW method \in MethodNames, Call(s, method) PROVE Inv'
  BY <1>1, CallInv
<1>2. ASSUME NEW s \in Keys, Land(s) PROVE Inv'
  BY <1>2, LandInv
<1>3. ASSUME NEW s \in Keys, Fail(s) PROVE Inv'
  BY <1>3, FailInv
<1>4. ASSUME NEW s \in Keys, GiveUp(s), UNCHANGED mvars PROVE Inv'
  BY <1>4, GiveUpInv
<1>5. ASSUME NEW tx \in late, LandLate(tx) PROVE Inv'
  BY <1>5, LandLateInv
<1>6. ASSUME UNCHANGED <<mvars, call, strays>>, late' \subseteq late PROVE Inv'
  <2>1. TypeOK'
    BY <1>6, LateTyped, TypeStep
  <2> QED BY <1>6, <2>1, LateTyped, SettledFrame, NoCallMoves
<1>7. ASSUME NEW tx \in late, Expire(tx), UNCHANGED mvars PROVE Inv'
  BY <1>6, <1>7 DEF Expire
<1>8. CASE UNCHANGED allVars
  BY <1>6, <1>8 DEF allVars
<1> QED BY <1>1, <1>2, <1>3, <1>4, <1>5, <1>7, <1>8 DEF ClientNext

LEMMA InitInv == ClientInit => Inv
<1> SUFFICES ASSUME Init, RpcInit PROVE Inv
  BY DEF ClientInit
<1>1. ClientTypeOK
  BY TypeInit, FS_EmptySet, FS_CardinalityType, LateAssumption
  DEF RpcInit, ClientTypeOK, RpcTypeOK
<1>2. \A s \in Keys : call[s].phase \notin Phases
  BY DEF RpcInit, NoCall, Phases, Ended, Running
<1> QED BY <1>1, <1>2 DEF Inv, Phases, Ended

LEMMA SpecInv == ClientSpec => []Inv
  BY InitInv, StepInv, PTL DEF ClientSpec

-----------------------------------------------------------------------------
\* The store, the calls and the late transactions keep their types, for any
\* number of callers.
THEOREM ClientTypeCorrect == ClientSpec => []ClientTypeOK
  BY SpecInv, InvImplies, PTL

\* What an owner's last call stands for holds for as long as it is the owner, and
\* who was told to have become the owner is the owner, whoever else calls
\* whatever and whatever lands late, but for the caller's own late transactions.
THEOREM OwnersLastWordStands == ClientSpec => []LastWordStands
  BY SpecInv, InvImplies, PTL

\* The clients' races and late transactions do nothing to the program that its
\* instructions do not: what is proved of Members holds of it with its clients.
THEOREM ClientImplementsMembers == ClientSpec => Spec
<1>1. Inv /\ [ClientNext]_allVars => [Next]_mvars
  <2> SUFFICES ASSUME Inv, [ClientNext]_allVars PROVE [Next]_mvars
    OBVIOUS
  <2>1. ASSUME NEW s \in Keys, Land(s) PROVE Next
    BY <2>1, CallTyped, SentIsNext DEF Land, Return, Running
  <2>2. ASSUME NEW tx \in late, LandLate(tx) PROVE Next
    BY <2>2, LateTyped, SentIsNext DEF LandLate
  <2> QED BY <2>1, <2>2 DEF ClientNext, Call, Fail, allVars
<1> QED BY <1>1, SpecInv, PTL DEF ClientSpec, ClientInit, Spec
=============================================================================
