----------------------- MODULE ControllerClientProofs -----------------------
(***************************************************************************)
(* Theorems about ControllerClient, for any number of callers, any methods *)
(* they call and any bound on the transactions that land late.             *)
(***************************************************************************)
EXTENDS ControllerClient, ControllerProofs, FiniteSetTheorems

USE DEF CanInitialize, CanSetMembers, CanSetFactory, CanTransferOwnership,
        CanClaimOwnership, CanTransferMintAuthority, CanClaimMintAuthority

-----------------------------------------------------------------------------
(* What a transaction does.                                                *)

OwnerMethods == ProgramMethods \union KeyMethods

\* What its caller passed.
WellFormed(s, tx) ==
    /\ tx \in Transaction /\ tx.signer = s
    /\ tx.method \in KeyMethods => tx.arg \in Keys
    /\ tx.method \in ProgramMethods => tx.arg \in Programs

LEMMA SentIsNext ==
  ASSUME NEW tx, WellFormed(tx.signer, tx), Sent(tx)
  PROVE  Next
<1>1. tx.signer \in Keys
  BY DEF WellFormed, Transaction
<1>2. Instruction(tx.signer)
  BY DEF Sent, initialize, setMembers, setFactory, transferOwnership, claimOwnership,
         transferMintAuthority, claimMintAuthority, WellFormed, KeyMethods,
         ProgramMethods, Instruction, Pubkeys, ProgramIds
<1> QED BY <1>1, <1>2 DEF Next

\* Whoever gets a transaction through owns the program afterwards, but for the
\* claim of the mint authority, which uses the nomination up and no more.
LEMMA SignerOwns ==
  ASSUME TypeOK, NEW tx, WellFormed(tx.signer, tx), Sent(tx)
  PROVE  \/ /\ controller_store' # NoAccount
            /\ controller_store'.owner = tx.signer
         \/ /\ tx.method = "claimMintAuthority" /\ controller_store # NoAccount
            /\ controller_store' =
                  [controller_store EXCEPT !.pending_mint_authority = NoKey]
<1> USE StoreAssumption
    DEF TypeOK, ControllerStore, Pubkeys, ProgramIds, Transaction, WellFormed,
        ProgramMethods, KeyMethods
<1>1. CASE initialize(tx)
  BY <1>1 DEF initialize, Initialize
<1>2. CASE setMembers(tx) \/ setFactory(tx)
  BY <1>2 DEF setMembers, SetMembers, setFactory, SetFactory, OwnedBy
<1>3. CASE transferOwnership(tx) \/ transferMintAuthority(tx)
  BY <1>3 DEF transferOwnership, TransferOwnership, transferMintAuthority,
              TransferMintAuthority, OwnedBy
<1>4. CASE claimOwnership(tx)
  BY <1>4 DEF claimOwnership, ClaimOwnership
<1>5. CASE claimMintAuthority(tx)
  BY <1>5 DEF claimMintAuthority, ClaimMintAuthority
<1> QED BY <1>1, <1>2, <1>3, <1>4, <1>5 DEF Sent

\* Becoming the owner takes that there is none, or being nominated.
LEMMA SignerMayOwn ==
  ASSUME NEW tx, Sent(tx), controller_store # NoAccount,
         tx.method # "claimMintAuthority"
  PROVE  tx.signer \in {controller_store.owner, controller_store.pending_owner}
  BY DEF Sent, initialize, setMembers, setFactory, transferOwnership, claimOwnership,
         transferMintAuthority, claimMintAuthority, Initialize, SetMembers, SetFactory,
         TransferOwnership, ClaimOwnership, TransferMintAuthority, OwnedBy

-----------------------------------------------------------------------------
(* The invariant. A call that made its caller the owner has left nobody     *)
(* nominated, so that the caller stays the owner until it signs again; and  *)
(* nobody but the owner changes what an owner's call has left, except that  *)
(* a nominee for the mint authority uses its nomination.                    *)

Settled(s, phase, tx) ==
    /\ Stands(s, phase, tx)
    /\ tx.method \in {"initialize", "claimOwnership"} /\ phase = "ok" =>
          controller_store.pending_owner = NoKey

Inv ==
    /\ ClientTypeOK
    /\ \A s \in Keys : call[s].phase \in Phases => WellFormed(s, call[s].tx)
    /\ \A tx \in late : WellFormed(tx.signer, tx)
    /\ \A s \in Keys :
          call[s].phase \in {"ok", "refused"} /\ s \notin strays =>
              Settled(s, call[s].phase, call[s].tx)

LEMMA InvImplies == Inv => ClientTypeOK /\ LastWordStands
  BY DEF Inv, LastWordStands, Settled

LEMMA CallTyped ==
  ASSUME Inv, NEW s \in Keys, call[s].phase \in Running
  PROVE  /\ call[s] \in [phase : Phases, tx : Transaction]
         /\ call[s].tx \in Transaction /\ WellFormed(s, call[s].tx)
  BY DEF Inv, ClientTypeOK, RpcTypeOK, NoCall, Running, Phases, Ended

\* Transactions that others sign leave what a caller's call has left.
LEMMA OthersLeave ==
  ASSUME TypeOK, NEW other, WellFormed(other.signer, other), Sent(other),
         NEW s \in Keys, other.signer # s, NEW phase, NEW tx, Settled(s, phase, tx)
  PROVE  Settled(s, phase, tx)'
<1>1. CASE /\ other.method = "claimMintAuthority" /\ controller_store # NoAccount
           /\ controller_store' =
                 [controller_store EXCEPT !.pending_mint_authority = NoKey]
  <2>1. controller_store \in ControllerStore
    BY <1>1 DEF TypeOK
  <2>2. controller_store' \in ControllerStore
    BY <1>1, <2>1 DEF ControllerStore, Pubkeys
  <2>3. controller_store' # NoAccount
    BY <2>2, StoreAssumption
  <2> QED BY <1>1, <2>1, <2>3 DEF Settled, Stands, getControllerStore, ControllerStore
<1>2. CASE controller_store' # NoAccount /\ controller_store'.owner = other.signer
           /\ other.method # "claimMintAuthority"
  <2>1. ~ (tx.method \in {"initialize", "claimOwnership"} /\ phase = "ok")
    <3> SUFFICES ASSUME tx.method \in {"initialize", "claimOwnership"}, phase = "ok"
                 PROVE  FALSE
      OBVIOUS
    <3>1. /\ controller_store # NoAccount /\ controller_store.owner = s
          /\ controller_store.pending_owner = NoKey
      BY DEF Settled, Stands, getControllerStore
    <3>2. other.signer \in Keys
      BY DEF WellFormed, Transaction
    <3> QED BY <1>2, <3>1, <3>2, SignerMayOwn, KeysAssumption
  <2> QED BY <1>2, <2>1 DEF Settled, Stands, getControllerStore
<1>3. other.method = "claimMintAuthority" =>
         /\ controller_store # NoAccount
         /\ controller_store' =
               [controller_store EXCEPT !.pending_mint_authority = NoKey]
  BY DEF Sent, initialize, setMembers, setFactory, transferOwnership, claimOwnership,
         transferMintAuthority, claimMintAuthority, ClaimMintAuthority
<1> QED BY <1>1, <1>2, <1>3, SignerOwns

\* A transaction that lands does what its method is for.
LEMMA LandSettles ==
  ASSUME TypeOK, NEW s \in Keys, NEW tx, WellFormed(s, tx), Sent(tx)
  PROVE  Settled(s, "ok", tx)'
<1>0. WellFormed(tx.signer, tx)
  BY DEF WellFormed
<1> USE StoreAssumption
    DEF Settled, Stands, getControllerStore, WellFormed, Transaction, TypeOK,
        ControllerStore, Pubkeys, ProgramIds
<1>1. CASE initialize(tx)
  BY <1>1, <1>0, SignerOwns DEF initialize, Initialize
<1>2. CASE setMembers(tx)
  BY <1>2, <1>0, SignerOwns DEF setMembers, SetMembers, OwnedBy
<1>3. CASE setFactory(tx)
  BY <1>3, <1>0, SignerOwns DEF setFactory, SetFactory, OwnedBy
<1>4. CASE transferOwnership(tx)
  BY <1>4, <1>0, SignerOwns DEF transferOwnership, TransferOwnership, OwnedBy
<1>5. CASE claimOwnership(tx)
  BY <1>5, <1>0, SignerOwns DEF claimOwnership, ClaimOwnership
<1>6. CASE transferMintAuthority(tx)
  BY <1>6, <1>0, SignerOwns DEF transferMintAuthority, TransferMintAuthority, OwnedBy
<1>7. CASE claimMintAuthority(tx)
  BY <1>7 DEF claimMintAuthority
<1> QED BY <1>1, <1>2, <1>3, <1>4, <1>5, <1>6, <1>7 DEF Sent

\* One that is refused is none an owner sent to change the store.
LEMMA RefusalSettles ==
  ASSUME NEW s \in Keys, NEW tx, WellFormed(s, tx), ~Accepted(tx)
  PROVE  Settled(s, "refused", tx)
<1> SUFFICES ASSUME controller_store # NoAccount, controller_store.owner = s
             PROVE  Settled(s, "refused", tx)
  BY DEF Settled, Stands, getControllerStore
<1>1. tx.signer = s /\ (tx.method \in OwnerMethods => tx.arg # NoKey)
  BY KeysAssumption DEF WellFormed, OwnerMethods
<1>2. tx.method \notin OwnerMethods
  BY <1>1 DEF Accepted, OwnerMethods, ProgramMethods, KeyMethods, OwnedBy
<1> QED BY <1>2 DEF Settled, Stands, getControllerStore, OwnerMethods,
                    ProgramMethods, KeyMethods

-----------------------------------------------------------------------------
(* The steps, one by one.                                                  *)

\* What keeps one caller's call settled while another one's gets on.
StaySettled(k) ==
    \A phase, tx : Settled(k, phase, tx) => Settled(k, phase, tx)'

LEMMA SettledFrame ==
  ASSUME UNCHANGED controller_store, NEW k PROVE StaySettled(k)
  BY DEF StaySettled, Settled, Stands, getControllerStore

LEMMA OneCallMoves ==
  ASSUME Inv, TypeOK', NEW s \in Keys, \A k \in Keys \ {s} : StaySettled(k),
         NEW phase, NEW tx,
         [phase |-> phase, tx |-> tx] \in
            {NoCall} \union [phase : Phases, tx : Transaction],
         call' = [call EXCEPT ![s] = [phase |-> phase, tx |-> tx]],
         phase \in Phases => WellFormed(s, tx),
         phase \in {"ok", "refused"} /\ s \notin strays' => Settled(s, phase, tx)',
         late' \subseteq Transaction, IsFiniteSet(late'), Cardinality(late') <= MaxLate,
         \A late_tx \in late' : WellFormed(late_tx.signer, late_tx),
         strays' \subseteq Keys, strays \ {s} \subseteq strays'
  PROVE  Inv'
<1>1. call' \in [Keys -> {NoCall} \union [phase : Phases, tx : Transaction]]
  BY DEF Inv, ClientTypeOK, RpcTypeOK
<1>2. /\ call'[s].phase = phase /\ call'[s].tx = tx
      /\ \A k \in Keys \ {s} : call'[k] = call[k]
  BY DEF Inv, ClientTypeOK, RpcTypeOK
<1>3. ClientTypeOK'
  BY <1>1 DEF ClientTypeOK, RpcTypeOK
<1>4. ASSUME NEW k \in Keys, call'[k].phase \in Phases PROVE WellFormed(k, call'[k].tx)
  BY <1>2, <1>4 DEF Inv
<1>5. ASSUME NEW k \in Keys, call'[k].phase \in {"ok", "refused"}, k \notin strays'
      PROVE  Settled(k, call[k].phase, call[k].tx)'
  <2>1. CASE k = s
    <3>1. Settled(s, phase, tx)' /\ call'[k].phase = phase /\ call'[k].tx = tx
      BY <1>2, <1>5, <2>1
    <3> QED BY <2>1, <3>1
  <2>2. CASE k # s
    <3>1. PICK p, t : p = call[k].phase /\ t = call[k].tx
      OBVIOUS
    <3>2. Settled(k, p, t)
      BY <1>2, <1>5, <2>2, <3>1 DEF Inv
    <3>3. Settled(k, p, t)'
      BY <2>2, <3>2 DEF StaySettled
    <3>4. call'[k].phase = p /\ call'[k].tx = t
      BY <1>2, <2>2, <3>1
    <3> QED BY <3>3, <3>4
  <2> QED BY <2>1, <2>2
<1> QED BY <1>3, <1>4, <1>5 DEF Inv, WellFormed

LEMMA LateTyped ==
  ASSUME Inv
  PROVE  /\ late \subseteq Transaction /\ IsFiniteSet(late)
         /\ Cardinality(late) \in Nat /\ Cardinality(late) <= MaxLate
         /\ strays \subseteq Keys /\ TypeOK
         /\ \A tx \in late : WellFormed(tx.signer, tx)
  BY FS_CardinalityType DEF Inv, ClientTypeOK, RpcTypeOK

\* A method is called: with its transaction on its way, or thrown at once.
LEMMA BeginInv ==
  ASSUME Inv, NEW s \in Keys, UNCHANGED cvars, NEW tx, WellFormed(s, tx),
         NEW phase \in {"sent", "failed"}, Begin(s, phase, tx)
  PROVE  Inv'
<1>1. TypeOK'
  BY LateTyped, TypeStep
<1>2. \A k \in Keys : StaySettled(k)
  BY SettledFrame DEF cvars
<1>3. [phase |-> phase, tx |-> tx] \in [phase : Phases, tx : Transaction]
  BY DEF Phases, Ended, Running, WellFormed
<1>4. /\ call' = [call EXCEPT ![s] = [phase |-> phase, tx |-> tx]]
      /\ strays' = strays \ {s} /\ UNCHANGED late
  BY DEF Begin
<1> QED BY <1>1, <1>2, <1>3, <1>4, LateTyped, OneCallMoves

LEMMA CallInv ==
  ASSUME Inv, NEW s \in Keys,
         (\E method \in MethodNames : Call(s, method)) \/ mint(s) \/ burn(s)
  PROVE  Inv'
<1>1. ASSUME NEW method \in MethodNames, Call(s, method) PROVE Inv'
  <2>1. PICK arg \in Argument(method) :
          Begin(s, "sent", [method |-> method, signer |-> s, arg |-> arg])
    BY <1>1 DEF Call
  <2>2. WellFormed(s, [method |-> method, signer |-> s, arg |-> arg])
    BY <2>1 DEF WellFormed, Transaction, Argument, KeyMethods, ProgramMethods,
                Pubkeys, ProgramIds
  <2> QED BY <1>1, <2>1, <2>2, BeginInv DEF Call
<1>2. ASSUME NEW method \in Unbuildable,
             Begin(s, "failed", [method |-> method, signer |-> s, arg |-> NoKey]),
             UNCHANGED cvars
      PROVE  Inv'
  <2>1. WellFormed(s, [method |-> method, signer |-> s, arg |-> NoKey])
    BY DEF WellFormed, Transaction, Unbuildable, KeyMethods, ProgramMethods,
           MethodNames, Pubkeys
  <2> QED BY <1>2, <2>1, BeginInv
<1> QED BY <1>1, <1>2 DEF mint, burn, Unbuildable

\* A call ends, and what it stands for holds.
LEMMA EndInv ==
  ASSUME Inv, TypeOK', NEW s \in Keys, \A k \in Keys \ {s} : StaySettled(k),
         NEW tx, tx = call[s].tx, NEW phase \in {"ok", "refused"},
         call[s].phase \in Running, call' = [call EXCEPT ![s].phase = phase],
         UNCHANGED <<late, strays>>, Settled(s, phase, tx)'
  PROVE  Inv'
<1>1. call[s] \in [phase : Phases, tx : Transaction] /\ WellFormed(s, tx)
  BY CallTyped
<1>2. [phase |-> phase, tx |-> tx] \in [phase : Phases, tx : Transaction]
  BY <1>1 DEF Phases, Ended
<1>3. [call[s] EXCEPT !.phase = phase] = [phase |-> phase, tx |-> tx]
  BY <1>1
<1>4. call' = [call EXCEPT ![s] = [phase |-> phase, tx |-> tx]]
  BY <1>3
<1> QED BY <1>1, <1>2, <1>4, LateTyped, OneCallMoves

LEMMA LandInv ==
  ASSUME Inv, NEW s \in Keys, Land(s)
  PROVE  Inv'
<1>1. PICK tx : tx = call[s].tx
  OBVIOUS
<1>2. WellFormed(s, tx) /\ WellFormed(tx.signer, tx) /\ Sent(tx) /\ TypeOK
  BY <1>1, CallTyped, LateTyped DEF Land, Return, Running, WellFormed
<1>3. TypeOK'
  BY <1>2, SentIsNext, TypeStep
<1>4. ASSUME NEW k \in Keys \ {s} PROVE StaySettled(k)
  BY <1>2, OthersLeave DEF StaySettled, WellFormed
<1>5. Settled(s, "ok", tx)'
  BY <1>2, LandSettles
<1> QED BY <1>1, <1>3, <1>4, <1>5, EndInv DEF Land, Return, Running

LEMMA FailInv ==
  ASSUME Inv, NEW s \in Keys, Fail(s)
  PROVE  Inv'
<1>1. PICK tx : tx = call[s].tx
  OBVIOUS
<1>2. tx \in Transaction /\ WellFormed(s, tx) /\ ~Accepted(tx) /\ TypeOK
  BY <1>1, CallTyped, LateTyped DEF Fail, Refuse, Running
<1>3. UNCHANGED cvars /\ TypeOK'
  BY <1>2, TypeStep DEF Fail
<1>4. \A k \in Keys : StaySettled(k)
  BY <1>3, SettledFrame DEF cvars
<1>5. Settled(s, "refused", tx)'
  BY <1>2, <1>4, RefusalSettles DEF StaySettled
<1> QED BY <1>1, <1>3, <1>4, <1>5, EndInv DEF Fail, Refuse, Running

LEMMA GiveUpInv ==
  ASSUME Inv, NEW s \in Keys, GiveUp(s), UNCHANGED cvars
  PROVE  Inv'
<1>1. call[s].tx \in Transaction
  BY CallTyped DEF GiveUp, Running
<1>2. IsFiniteSet(late') /\ Cardinality(late') <= MaxLate
  <2>1. PICK tx : tx = call[s].tx
    OBVIOUS
  <2>2. IsFiniteSet(late) /\ Cardinality(late) \in Nat /\ Cardinality(late) < MaxLate
    BY LateTyped DEF GiveUp
  <2>3. late' = late \union {tx}
    BY <2>1 DEF GiveUp
  <2> QED BY <2>2, <2>3, FS_AddElement, LateAssumption
<1>3. TypeOK'
  BY LateTyped, TypeStep
<1>4. \A k \in Keys : StaySettled(k)
  BY SettledFrame DEF cvars
<1>5. NoCall = [phase |-> "idle", tx |-> NoAccount] /\ "idle" \notin Phases
  BY DEF NoCall, Phases, Ended, Running
<1>6. WellFormed(call[s].tx.signer, call[s].tx)
  BY CallTyped DEF GiveUp, Running, WellFormed
<1>7. /\ call' = [call EXCEPT ![s] = [phase |-> "idle", tx |-> NoAccount]]
      /\ late' = late \union {call[s].tx} /\ strays' = strays \ {s}
  BY <1>5 DEF GiveUp
<1> QED BY <1>1, <1>2, <1>3, <1>4, <1>5, <1>6, <1>7, LateTyped, OneCallMoves
        DEF Phases, Ended, Running

\* Calls stay where they are while a transaction that nobody waits for goes; a
\* caller it overrules becomes a stray.
LEMMA NoCallMoves ==
  ASSUME Inv, TypeOK', UNCHANGED call, late' \subseteq late,
         strays \subseteq strays', strays' \subseteq Keys,
         \A k \in Keys \ strays' : call[k] = NoCall \/ StaySettled(k)
  PROVE  Inv'
<1>1. IsFiniteSet(late') /\ Cardinality(late') <= MaxLate
  <2>1. IsFiniteSet(late') /\ Cardinality(late') <= Cardinality(late)
    BY LateTyped, FS_Subset
  <2>2. Cardinality(late') \in Nat
    BY <2>1, FS_CardinalityType
  <2> QED BY <2>1, <2>2, LateTyped, LateAssumption
<1>2. ClientTypeOK'
  BY <1>1 DEF Inv, ClientTypeOK, RpcTypeOK
<1>3. ASSUME NEW k \in Keys, call[k].phase \in {"ok", "refused"}, k \notin strays'
      PROVE  Settled(k, call[k].phase, call[k].tx)'
  <2>1. PICK phase, tx : phase = call[k].phase /\ tx = call[k].tx
    OBVIOUS
  <2>2. Settled(k, phase, tx)
    BY <1>3, <2>1 DEF Inv
  <2>3. call[k] # NoCall
    BY <1>3 DEF NoCall
  <2>4. Settled(k, phase, tx)'
    BY <1>3, <2>2, <2>3 DEF StaySettled
  <2>5. call'[k].phase = phase /\ call'[k].tx = tx
    BY <2>1
  <2> QED BY <2>4, <2>5
<1> QED BY <1>2, <1>3 DEF Inv, WellFormed

LEMMA LandLateInv ==
  ASSUME Inv, NEW tx \in late, LandLate(tx)
  PROVE  Inv'
<1>1. WellFormed(tx.signer, tx) /\ tx \in Transaction /\ Sent(tx) /\ TypeOK
  BY LateTyped DEF LandLate
<1>2. TypeOK'
  BY <1>1, SentIsNext, TypeStep
<1>3. ASSUME NEW k \in Keys \ strays' PROVE call[k] = NoCall \/ StaySettled(k)
  <2>1. CASE k = tx.signer
    BY <2>1 DEF LandLate, Stray
  <2>2. CASE k # tx.signer
    BY <1>1, <2>2, OthersLeave DEF StaySettled
  <2> QED BY <2>1, <2>2
<1>4. /\ UNCHANGED call /\ late' \subseteq late
      /\ strays \subseteq strays' /\ strays' \subseteq Keys
  BY <1>1, LateTyped DEF LandLate, Stray, Transaction
<1> QED BY <1>2, <1>3, <1>4, NoCallMoves

LEMMA HandInInv ==
  ASSUME Inv, NEW k \in Keys, HandIn(k)
  PROVE  Inv'
<1>1. Token!Wallet(k) /\ UNCHANGED controller_store
  BY DEF HandIn, Token!Wallet, Token!Authorities
<1>2. TypeOK'
  BY <1>1, LateTyped, TypeStep DEF Next
<1>3. UNCHANGED <<call, late, strays>>
  BY DEF HandIn
<1> QED BY <1>1, <1>2, <1>3, LateTyped, SettledFrame, NoCallMoves

LEMMA StepInv == Inv /\ [ClientNext]_allVars => Inv'
<1> SUFFICES ASSUME Inv, [ClientNext]_allVars PROVE Inv'
  OBVIOUS
<1>1. ASSUME NEW s \in Keys, NEW method \in MethodNames, Call(s, method) PROVE Inv'
  BY <1>1, CallInv
<1>2. ASSUME NEW s \in Keys, Land(s) PROVE Inv'
  BY <1>2, LandInv
<1>3. ASSUME NEW s \in Keys, Fail(s) PROVE Inv'
  BY <1>3, FailInv
<1>4. ASSUME NEW s \in Keys, GiveUp(s), UNCHANGED cvars PROVE Inv'
  BY <1>4, GiveUpInv
<1>5. ASSUME NEW s \in Keys, mint(s) \/ burn(s) PROVE Inv'
  BY <1>5, CallInv
<1>6. ASSUME NEW k \in Keys, HandIn(k) PROVE Inv'
  BY <1>6, HandInInv
<1>7. ASSUME NEW tx \in late, LandLate(tx) PROVE Inv'
  BY <1>7, LandLateInv
<1>8. ASSUME UNCHANGED <<cvars, call, strays>>, late' \subseteq late PROVE Inv'
  <2>1. TypeOK'
    BY <1>8, LateTyped, TypeStep
  <2> QED BY <1>8, <2>1, LateTyped, SettledFrame, NoCallMoves DEF cvars
<1>9. ASSUME NEW tx \in late, Expire(tx), UNCHANGED cvars PROVE Inv'
  BY <1>8, <1>9 DEF Expire
<1>10. CASE UNCHANGED allVars
  BY <1>8, <1>10 DEF allVars
<1> QED BY <1>1, <1>2, <1>3, <1>4, <1>5, <1>6, <1>7, <1>9, <1>10 DEF ClientNext

LEMMA InitInv == ClientInit => Inv
<1> SUFFICES ASSUME Init, RpcInit PROVE Inv
  BY DEF ClientInit
<1>1. ClientTypeOK
  BY TypeInit, FS_EmptySet, FS_CardinalityType, LateAssumption
  DEF RpcInit, ClientTypeOK, RpcTypeOK
<1>2. \A s \in Keys : call[s].phase \notin Phases
  BY DEF RpcInit, NoCall, Phases, Ended, Running
<1> QED BY <1>1, <1>2 DEF Inv, Phases, Ended, RpcInit

LEMMA SpecInv == ClientSpec => []Inv
  BY InitInv, StepInv, PTL DEF ClientSpec

-----------------------------------------------------------------------------
\* The store, the token, the calls and the late transactions keep their types,
\* for any number of callers.
THEOREM ClientTypeCorrect == ClientSpec => []ClientTypeOK
  BY SpecInv, InvImplies, PTL

\* What an owner's last call stands for holds for as long as it is the owner, and
\* who was told to have become the owner is the owner, whoever else calls
\* whatever and whatever lands late, but for the caller's own late transactions.
THEOREM OwnersLastWordStands == ClientSpec => []LastWordStands
  BY SpecInv, InvImplies, PTL

\* The clients' races and late transactions do nothing to the program and the
\* token that instructions do not: what is proved of Controller holds of it with
\* its clients.
THEOREM ClientImplementsController == ClientSpec => Spec
<1>1. Inv /\ [ClientNext]_allVars => [Next]_cvars
  <2> SUFFICES ASSUME Inv, [ClientNext]_allVars PROVE [Next]_cvars
    OBVIOUS
  <2>1. ASSUME NEW s \in Keys, Land(s) PROVE Next
    BY <2>1, CallTyped, SentIsNext DEF Land, Return, Running, WellFormed
  <2>2. ASSUME NEW tx \in late, LandLate(tx) PROVE Next
    BY <2>2, LateTyped, SentIsNext DEF LandLate
  <2>3. ASSUME NEW s \in Keys, HandIn(s) PROVE Next
    BY <2>3 DEF HandIn, Token!Wallet, Token!Authorities, Next
  <2> QED BY <2>1, <2>2, <2>3 DEF ClientNext, Call, mint, burn, Fail, allVars
<1> QED BY <1>1, SpecInv, PTL DEF ClientSpec, ClientInit, Spec
=============================================================================
