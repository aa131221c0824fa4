-------------------------- MODULE DeploymentProofs --------------------------
(***************************************************************************)
(* What setting the system up keeps, for any number of processes, mints and *)
(* failures, and wherever suites begin.                                     *)
(***************************************************************************)
EXTENDS Deployment, TLAPS

MProofs == INSTANCE MembersProofs

-----------------------------------------------------------------------------
(* The invariant. A transaction that depends on an earlier one is awaited,  *)
(* or still about, only once that one has landed, and what it depends on is *)
(* never undone.                                                            *)

MintOps == {"createMint", "setAuthority", "controllerInitialize"}

HasMembers == controller_store # NoAccount /\ controller_store.members # NoKey

GoodTx(tx) ==
    /\ tx \in Transaction
    /\ tx.op \in MintOps => tx.mint # Null
    /\ tx.op = "controllerInitialize" => mint_authority[tx.mint] = ControllerPda
    /\ tx.op = "setFactory" => HasMembers

\* What a process says by itself, and what it says of the chain.
Shape(s) ==
    /\ s \in Process
    /\ s.at \in {"setMembers", "setFactory"} => "controller" \in s.known
    /\ s.at \in {"setCustodian", "addMerchant"} => "members" \in s.known
    /\ s.at \in MintOps \union {"fetchController"} => s.tokenMint # Null

Holds(s) ==
    /\ s.at = "controllerInitialize" => mint_authority[s.tokenMint] = ControllerPda
    /\ s.at = "setFactory" => HasMembers
    /\ \A prog \in s.isInitialized : Exists(prog)

ChainTypeOK ==
    /\ Members!TypeOK
    /\ controller_store \in ControllerStore \union {NoAccount}
    /\ factory_store \in {NoAccount, ControllerId}
    /\ mint_authority \in [Mints -> {NoAccount, wallet, ControllerPda}]

Inv ==
    /\ ChainTypeOK
    /\ NothingRunsHalfReady
    /\ minted \in 0..MaxMints /\ faults \in 0..MaxFaults
    /\ proc \in [Processes -> Process]
    /\ \A p \in Processes : Shape(proc[p]) /\ Holds(proc[p])
    /\ \A tx \in late : GoodTx(tx)

LEMMA InvImplies == Inv => TypeOK /\ FlagsAreTrue /\ NothingRunsHalfReady
  BY DEF Inv, ChainTypeOK, Shape, Holds, GoodTx, TypeOK, FlagsAreTrue, MintOps

-----------------------------------------------------------------------------
(* The chain.                                                               *)

LEMMA MembersKeepTypes ==
  ASSUME Members!TypeOK, NEW signer \in Keys, Members!Instruction(signer)
  PROVE  Members!TypeOK'
<1>1. MProofs!KeysAssumption /\ MProofs!U16Assumption
  BY MembersAssumption DEF MProofs!KeysAssumption, MProofs!U16Assumption
<1>2. MProofs!StoreAssumption
  BY MembersAssumption
  DEF MProofs!StoreAssumption, MProofs!MembersStore, MProofs!Pubkeys,
      Members!MembersStore, Members!Pubkeys
<1>3. /\ MProofs!TypeOK <=> Members!TypeOK
      /\ MProofs!Next <=> Members!Next
    BY DEF MProofs!CanInitialize, MProofs!CanSetCustodian, MProofs!CanAddMerchant,
         MProofs!CanRemoveMerchant, MProofs!CanTransferOwnership,
         MProofs!CanClaimOwnership, Members!CanInitialize, Members!CanSetCustodian,
         Members!CanAddMerchant, Members!CanRemoveMerchant,
         Members!CanTransferOwnership, Members!CanClaimOwnership,
         MProofs!TypeOK, MProofs!MembersStore, MProofs!Pubkeys, MProofs!Next,
         MProofs!Instruction, MProofs!Initialize, MProofs!ClaimOwnership,
         MProofs!SetCustodian, MProofs!AddMerchant, MProofs!RemoveMerchant,
         MProofs!TransferOwnership, MProofs!OwnedBy, MProofs!SaturatingInc,
         MProofs!SaturatingDec,
         Members!TypeOK, Members!MembersStore, Members!Pubkeys, Members!Next,
         Members!Instruction, Members!Initialize, Members!ClaimOwnership,
         Members!SetCustodian, Members!AddMerchant, Members!RemoveMerchant,
         Members!TransferOwnership, Members!OwnedBy, Members!SaturatingInc,
         Members!SaturatingDec
<1>4. MProofs!TypeOK'  <=> Members!TypeOK'
  BY DEF MProofs!TypeOK, MProofs!MembersStore, MProofs!Pubkeys,
         Members!TypeOK, Members!MembersStore, Members!Pubkeys
<1>5. Members!Next
  BY DEF Members!Next
<1> QED  BY <1>1, <1>2, <1>3, <1>4, <1>5, MProofs!TypeStep

\* No step takes back what a later one may rely on.
Grows ==
    /\ members_store # NoAccount => members_store' # NoAccount
    /\ controller_store # NoAccount => controller_store' # NoAccount
    /\ factory_store # NoAccount => factory_store' # NoAccount
    /\ HasMembers => HasMembers'
    /\ \A m \in Mints :
          mint_authority[m] = ControllerPda => mint_authority'[m] = ControllerPda

\* What a transaction is sent for.
Effect(tx) ==
    /\ tx.op = "membersInitialize" => members_store # NoAccount
    /\ tx.op = "controllerInitialize" => controller_store # NoAccount
    /\ tx.op = "factoryInitialize" => factory_store # NoAccount
    /\ tx.op = "setAuthority" => mint_authority[tx.mint] = ControllerPda
    /\ tx.op = "setMembers" => HasMembers

LEMMA ProgramOpStep ==
  ASSUME Inv, NEW tx, GoodTx(tx), ProgramOp(tx)
  PROVE  ChainTypeOK' /\ NothingRunsHalfReady' /\ Grows /\ Effect(tx)'
<1>1. Members!TypeOK
  BY DEF Inv, ChainTypeOK
<1>2. tx.key \in Members!Pubkeys
  BY DEF GoodTx, Transaction, Members!Pubkeys
<1>3. Members!Instruction(wallet)
  BY <1>2 DEF ProgramOp, Members!Instruction
<1>4. Members!TypeOK'
  BY <1>1, <1>3, WalletAssumption, MembersKeepTypes
<1>5. members_store' # NoAccount
  <2>1. CASE tx.op = "membersInitialize" /\ Members!Initialize(wallet)
    <3>1. members_store' \in Members!MembersStore
      BY <2>1, WalletAssumption, MembersAssumption
      DEF Members!Initialize, Members!MembersStore, Members!Pubkeys
    <3> QED BY <3>1, MembersAssumption
  <2>2. CASE Members!SetCustodian(wallet, tx.key)
    <3>1. members_store \in Members!MembersStore
      BY <1>1, <2>2 DEF Members!TypeOK, Members!SetCustodian, Members!CanSetCustodian,
          Members!OwnedBy
    <3>2. members_store' \in Members!MembersStore
      BY <1>2, <2>2, <3>1 DEF Members!SetCustodian, Members!MembersStore
    <3> QED BY <3>2, MembersAssumption
  <2>3. CASE Members!AddMerchant(wallet, tx.key)
    <3>1. members_store \in Members!MembersStore
      BY <1>1, <2>3 DEF Members!TypeOK, Members!AddMerchant, Members!CanAddMerchant,
          Members!OwnedBy
    <3>2. Members!SaturatingInc(members_store.merchant_count) \in 0..U16Max
      BY <3>1, MembersAssumption DEF Members!MembersStore, Members!SaturatingInc
    <3>3. members_store' \in Members!MembersStore
      BY <2>3, <3>1, <3>2 DEF Members!AddMerchant, Members!MembersStore
    <3> QED BY <3>3, MembersAssumption
  <2> QED BY <2>1, <2>2, <2>3 DEF ProgramOp
<1>6. tx.op \in {"membersInitialize", "setCustodian", "addMerchant"}
      /\ UNCHANGED <<controller_store, factory_store, mint_authority>>
  BY DEF ProgramOp
<1> QED
  BY <1>4, <1>5, <1>6
  DEF Inv, ChainTypeOK, NothingRunsHalfReady, Grows, Effect, HasMembers

LEMMA TokenOpStep ==
  ASSUME Inv, NEW tx, GoodTx(tx), TokenOp(tx)
  PROVE  ChainTypeOK' /\ NothingRunsHalfReady' /\ Grows /\ Effect(tx)'
<1>1. /\ mint_authority \in [Mints -> {NoAccount, wallet, ControllerPda}]
      /\ tx.mint \in Mints
      /\ tx.op \in {"createMint", "setAuthority"}
  BY DEF Inv, ChainTypeOK, GoodTx, MintOps, Transaction, TokenOp
<1>2. /\ mint_authority' \in [Mints -> {NoAccount, wallet, ControllerPda}]
      /\ \A m \in Mints :
            mint_authority[m] = ControllerPda => mint_authority'[m] = ControllerPda
      /\ tx.op = "setAuthority" => mint_authority'[tx.mint] = ControllerPda
  BY <1>1, AccountAssumption DEF TokenOp
<1>3. UNCHANGED <<members_store, merchant_infos, controller_store, factory_store>>
  BY DEF TokenOp, membersVars
<1>4. Members!TypeOK'
  BY <1>3 DEF Inv, ChainTypeOK, Members!TypeOK
<1>5. ChainTypeOK'
  BY <1>2, <1>3, <1>4 DEF Inv, ChainTypeOK
<1>6. NothingRunsHalfReady'
  <2> SUFFICES ASSUME controller_store # NoAccount
               PROVE  mint_authority'[controller_store.token_mint] = ControllerPda
    BY <1>3 DEF Inv, NothingRunsHalfReady
  <2>1. controller_store.token_mint \in Mints
    BY DEF Inv, ChainTypeOK, ControllerStore
  <2> QED BY <1>2, <2>1 DEF Inv, NothingRunsHalfReady
<1>7. Grows /\ Effect(tx)'
  BY <1>1, <1>2, <1>3 DEF Grows, Effect, HasMembers
<1> QED BY <1>5, <1>6, <1>7

LEMMA ControllerOpStep ==
  ASSUME Inv, NEW tx, GoodTx(tx), ControllerOp(tx)
  PROVE  ChainTypeOK' /\ NothingRunsHalfReady' /\ Grows /\ Effect(tx)'
<1>1. UNCHANGED <<members_store, merchant_infos, factory_store, mint_authority>>
  BY DEF ControllerOp, membersVars
<1>2. Members!TypeOK'
  BY <1>1 DEF Inv, ChainTypeOK, Members!TypeOK
<1>3. CASE tx.op = "controllerInitialize"
  <2>1. /\ controller_store = NoAccount
        /\ controller_store' = [owner |-> wallet, token_mint |-> tx.mint,
                                members |-> NoKey, factory |-> NoKey]
        /\ tx.mint \in Mints /\ mint_authority[tx.mint] = ControllerPda
    BY <1>3 DEF ControllerOp, GoodTx, MintOps, Transaction
  <2>2. controller_store' \in ControllerStore
    BY <2>1, WalletAssumption DEF ControllerStore
  <2>3. ChainTypeOK'
    BY <1>1, <1>2, <2>2 DEF Inv, ChainTypeOK
  <2>4. NothingRunsHalfReady'
    BY <1>1, <2>1 DEF NothingRunsHalfReady
  <2> QED
    BY <1>1, <1>3, <2>1, <2>2, <2>3, <2>4, AccountAssumption DEF Grows, Effect, HasMembers
<1>4. CASE tx.op \in {"setMembers", "setFactory"}
  <2>1. /\ controller_store \in ControllerStore /\ controller_store # NoAccount
        /\ controller_store' =
              IF tx.op = "setMembers" THEN [controller_store EXCEPT !.members = MembersId]
              ELSE [controller_store EXCEPT !.factory = FactoryId]
    BY <1>4 DEF ControllerOp, Inv, ChainTypeOK
  <2>2. controller_store' \in ControllerStore
    BY <2>1 DEF ControllerStore
  <2>3. controller_store'.token_mint = controller_store.token_mint
    BY <2>1 DEF ControllerStore
  <2>4. /\ tx.op = "setMembers" =>
              /\ controller_store'.members = MembersId
              /\ controller_store'.factory = controller_store.factory
        /\ tx.op = "setFactory" => controller_store'.members = controller_store.members
    BY <2>1 DEF ControllerStore
  <2>5. ChainTypeOK'
    BY <1>1, <1>2, <2>2 DEF Inv, ChainTypeOK
  <2>6. tx.op = "setFactory" => controller_store.members # NoKey
    BY DEF GoodTx, HasMembers
  <2>7. NothingRunsHalfReady'
    BY <1>1, <1>4, <2>1, <2>3, <2>4, <2>6, AccountAssumption DEF Inv, NothingRunsHalfReady
  <2> QED
    BY <1>1, <1>4, <2>1, <2>2, <2>4, <2>5, <2>7, AccountAssumption
    DEF Grows, Effect, HasMembers
<1> QED BY <1>3, <1>4 DEF ControllerOp

LEMMA ExecuteStep ==
  ASSUME Inv, NEW tx, GoodTx(tx), Execute(tx)
  PROVE  ChainTypeOK' /\ NothingRunsHalfReady' /\ Grows /\ Effect(tx)'
<1>1. CASE FactoryOp(tx)
  <2>1. Members!TypeOK'
    BY <1>1 DEF Inv, ChainTypeOK, Members!TypeOK, FactoryOp, membersVars
  <2> QED
    BY <1>1, <2>1, AccountAssumption
    DEF FactoryOp, membersVars, Inv, ChainTypeOK, NothingRunsHalfReady, Grows, Effect,
        HasMembers
<1> QED BY <1>1, ProgramOpStep, TokenOpStep, ControllerOpStep DEF Execute

-----------------------------------------------------------------------------
(* The processes.                                                           *)

LEMMA ScriptRuns ==
  /\ 0 \in Runs /\ Runs \subseteq Nat
  /\ DOMAIN Script \subseteq Runs
  /\ \A r \in Runs : r # Len(Script) => r + 1 \in Runs
<1>1. Len(Script) = 6 /\ DOMAIN Script = 1..6
  BY DEF Script
<1> QED BY <1>1 DEF Runs

LEMMA AwaitsContain ==
  /\ "idle" \in Awaits /\ Ops \subseteq Awaits
  /\ \A prog \in Programs : Fetches[prog] \in Awaits /\ Initializes[prog] \in Ops
  /\ {"createMint", "setAuthority", "setMembers", "setFactory",
      "setCustodian", "addMerchant", "controllerInitialize"} \subseteq Ops
<1>1. Initializes["controller"] = "controllerInitialize" /\ "controller" \in Programs
  BY DEF Initializes, Programs
<1> QED BY <1>1 DEF Awaits, Ops

LEMMA Endings ==
  ASSUME NEW s, Shape(s)
  PROVE  /\ Shape(Returned(s)) /\ Shape(Thrown(s))
         /\ Returned(s).at = "idle" /\ Thrown(s).at = "idle"
         /\ Returned(s).isInitialized = s.isInitialized
         /\ Thrown(s).isInitialized = s.isInitialized
<1>1. s \in Process
  BY DEF Shape
<1>2. ASSUME NEW r \in Runs
      PROVE  LET t == [s EXCEPT !.at = "idle", !.key = NoKey, !.run = r]
             IN  t \in Process /\ t.at = "idle" /\ t.isInitialized = s.isInitialized
  BY <1>1, AwaitsContain DEF Process
<1>3. (IF s.run = Len(Script) THEN 0 ELSE s.run + 1) \in Runs
  BY <1>1, ScriptRuns DEF Process
<1>4. /\ Returned(s) \in Process /\ Returned(s).at = "idle"
      /\ Returned(s).isInitialized = s.isInitialized
  BY <1>2, <1>3 DEF Returned
<1>5. /\ Thrown(s) \in Process /\ Thrown(s).at = "idle"
      /\ Thrown(s).isInitialized = s.isInitialized
  BY <1>2, ScriptRuns DEF Thrown
<1> QED BY <1>4, <1>5 DEF Shape, MintOps

LEMMA Initializing ==
  ASSUME NEW s, Shape(s), NEW prog \in Programs
  PROVE  /\ Shape(Initialized(s, prog))
         /\ Initialized(s, prog).at = "idle"
         /\ Initialized(s, prog).isInitialized = s.isInitialized \union {prog}
<1> DEFINE t == IF prog = "controller" THEN [s EXCEPT !.returned = s.tokenMint] ELSE s
           u == [t EXCEPT !.isInitialized = @ \union {prog}]
<1>1. s \in Process
  BY DEF Shape
<1>2. /\ t \in Process /\ t.at = s.at /\ t.known = s.known
      /\ t.tokenMint = s.tokenMint /\ t.isInitialized = s.isInitialized
  BY <1>1 DEF Process
<1>3. /\ u \in Process /\ u.at = s.at /\ u.known = s.known
      /\ u.tokenMint = s.tokenMint /\ u.isInitialized = s.isInitialized \union {prog}
  BY <1>2 DEF Process
<1>4. Shape(u)
  BY <1>3 DEF Shape
<1>5. Initialized(s, prog) = Returned(u)
  BY DEF Initialized
<1>6. /\ Shape(Returned(u)) /\ Returned(u).at = "idle"
      /\ Returned(u).isInitialized = u.isInitialized
  <2> HIDE DEF u
  <2> QED BY <1>4, Endings
<1> HIDE DEF u
<1> QED BY <1>3, <1>5, <1>6

\* Whatever a process becomes, the others and what is still about stay good.
LEMMA OneProcessChanges ==
  ASSUME Inv, ChainTypeOK', NothingRunsHalfReady', Grows,
         NEW p \in Processes, NEW s, Shape(s), Holds(s)', Become(p, s),
         minted' \in 0..MaxMints, faults' \in 0..MaxFaults,
         \A tx \in late' : tx \in late \/ GoodTx(tx)
  PROVE  Inv'
<1>1. proc' \in [Processes -> Process]
  BY DEF Inv, Become, Shape
<1>2. ASSUME NEW q \in Processes
      PROVE  Shape(proc[q])' /\ Holds(proc[q])'
  <2>1. CASE q = p
    <3>1. proc'[q] = s
      BY <2>1 DEF Inv, Become
    <3>2. Shape(proc[q])'
      BY <3>1 DEF Shape
    <3>3. Holds(proc[q])'
      BY <3>1 DEF Holds
    <3> QED BY <3>2, <3>3
  <2>2. CASE q # p
    <3>1. proc'[q] = proc[q]
      BY <2>2 DEF Inv, Become
    <3>2. Shape(proc[q]) /\ Holds(proc[q])
      BY DEF Inv
    <3>3. Shape(proc[q])'
      BY <3>1, <3>2 DEF Shape
    <3>4. proc[q].at = "controllerInitialize" => proc[q].tokenMint \in Mints
      BY <3>2 DEF Shape, Process, MintOps
    <3>5. \A prog \in proc[q].isInitialized : Exists(prog)'
      <4> SUFFICES ASSUME NEW prog \in proc[q].isInitialized PROVE Exists(prog)'
        OBVIOUS
      <4>1. Exists(prog) /\ prog \in Programs
        BY <3>2 DEF Holds, Shape, Process
      <4> QED BY <4>1 DEF Exists, Grows, Programs
    <3>6. Holds(proc[q])'
      BY <3>1, <3>2, <3>4, <3>5 DEF Holds, Grows
    <3> QED BY <3>3, <3>6
  <2> QED BY <2>1, <2>2
<1>3. ASSUME NEW tx \in late' PROVE GoodTx(tx)'
  <2>1. GoodTx(tx)
    BY DEF Inv
  <2>2. tx.op = "controllerInitialize" => tx.mint \in Mints
    BY <2>1 DEF GoodTx, MintOps, Transaction
  <2> QED BY <2>1, <2>2 DEF GoodTx, Grows, HasMembers
<1> QED BY <1>1, <1>2, <1>3 DEF Inv

\* The same if the chain does not change.
LEMMA OneProcessMoves ==
  ASSUME Inv, UNCHANGED chain,
         NEW p \in Processes, NEW s, Shape(s), Holds(s), Become(p, s),
         minted' \in 0..MaxMints, faults' \in 0..MaxFaults,
         \A tx \in late' : tx \in late \/ GoodTx(tx)
  PROVE  Inv'
<1>1. ChainTypeOK' /\ NothingRunsHalfReady' /\ Grows
  BY DEF Inv, chain, ChainTypeOK, Members!TypeOK, NothingRunsHalfReady, Grows, HasMembers
<1>2. Holds(s)'
  BY DEF chain, Holds, HasMembers, Exists
<1> QED BY <1>1, <1>2, OneProcessChanges

-----------------------------------------------------------------------------
(* The actions.                                                             *)

LEMMA ProcessInInv ==
  ASSUME Inv, NEW p \in Processes
  PROVE  /\ Shape(proc[p]) /\ Holds(proc[p]) /\ proc[p] \in Process
         /\ minted \in 0..MaxMints /\ faults \in 0..MaxFaults
  BY DEF Inv

\* A process that is at another point where nothing is asked for.
LEMMA Elsewhere ==
  ASSUME Inv, NEW p \in Processes, NEW s, Shape(s),
         s.at \notin {"controllerInitialize", "setFactory"},
         s.isInitialized = proc[p].isInitialized
  PROVE  Holds(s)
  BY ProcessInInv DEF Holds

LEMMA BeginInv ==
  ASSUME Inv, NEW p \in Processes, Begin(p)
  PROVE  Inv'
<1>1. PICK k \in Starts : Become(p, [proc[p] EXCEPT !.run = k])
  BY DEF Begin
<1>2. UNCHANGED <<chain, minted, late, faults>>
  BY DEF Begin
<1> DEFINE s == [proc[p] EXCEPT !.run = k]
<1>3. Shape(s) /\ s.at = proc[p].at /\ s.isInitialized = proc[p].isInitialized
      /\ s.tokenMint = proc[p].tokenMint
  BY ProcessInInv, ScriptRuns, StartsAssumption DEF Shape, Process
<1>4. Holds(s)
  BY <1>3, ProcessInInv DEF Holds
<1> HIDE DEF s
<1>5. Become(p, s)
  BY <1>1 DEF s
<1> QED BY <1>2, <1>3, <1>4, <1>5, ProcessInInv, OneProcessMoves

LEMMA InitializeProgramInv ==
  ASSUME Inv, NEW p \in Processes, NEW function, NEW prog \in {"members", "factory"},
         InitializeProgram(p, function, prog)
  PROVE  Inv'
<1> DEFINE s == proc[p]
           t == [s EXCEPT !.known = @ \union {prog}, !.at = Fetches[prog]]
<1>1. UNCHANGED <<chain, minted, late, faults>> /\ (Become(p, Returned(s)) \/ Become(p, t))
  BY DEF InitializeProgram
<1>2. /\ Shape(Returned(s)) /\ Returned(s).at = "idle"
      /\ Returned(s).isInitialized = s.isInitialized
  BY ProcessInInv, Endings
<1>3. Fetches[prog] \in {"fetchMembers", "fetchFactory"} /\ prog \in Programs
  BY DEF Fetches, Programs
<1>4. Shape(t) /\ t.at = Fetches[prog] /\ t.isInitialized = s.isInitialized
  BY <1>3, ProcessInInv, AwaitsContain DEF Shape, Process, MintOps
<1>5. Holds(Returned(s)) /\ Holds(t)
  <2> HIDE DEF t
  <2> QED BY <1>2, <1>3, <1>4, Elsewhere
<1> HIDE DEF t
<1> QED BY <1>1, <1>2, <1>4, <1>5, ProcessInInv, OneProcessMoves

LEMMA InitializeControllerInv ==
  ASSUME Inv, NEW p \in Processes, initializeController(p)
  PROVE  Inv'
<1> DEFINE s == proc[p]
           r == [s EXCEPT !.returned = s.sharedMint]
           t == [s EXCEPT !.known = @ \union {"controller"},
                          !.tokenMint = s.sharedMint, !.at = "fetchController"]
           u == [s EXCEPT !.known = @ \union {"controller"},
                          !.tokenMint = minted + 1, !.at = "createMint"]
<1>1. /\ UNCHANGED <<chain, late, faults>>
      /\ \/ Become(p, Returned(r)) /\ UNCHANGED minted
         \/ s.sharedMint # Null /\ Become(p, t) /\ UNCHANGED minted
         \/ minted < MaxMints /\ minted' = minted + 1 /\ Become(p, u)
  BY DEF initializeController
<1>2. s \in Process /\ Shape(s) /\ minted \in 0..MaxMints
  BY ProcessInInv
<1>3. "fetchController" \in Awaits /\ "createMint" \in Awaits /\ "controller" \in Programs
  BY AwaitsContain DEF Programs, Fetches
<1>4. Shape(r) /\ r.isInitialized = s.isInitialized
  BY <1>2 DEF Shape, Process
<1>5. /\ Shape(Returned(r)) /\ Returned(r).at = "idle"
      /\ Returned(r).isInitialized = s.isInitialized
  <2> HIDE DEF r
  <2> QED BY <1>4, Endings
<1>6. CASE Become(p, Returned(r)) /\ UNCHANGED minted
  <2> HIDE DEF r
  <2>1. Holds(Returned(r))
    BY <1>5, Elsewhere
  <2> QED BY <1>1, <1>2, <1>5, <1>6, <2>1, ProcessInInv, OneProcessMoves
<1>7. CASE s.sharedMint # Null /\ Become(p, t) /\ UNCHANGED minted
  <2>1. Shape(t) /\ t.at = "fetchController" /\ t.isInitialized = s.isInitialized
    BY <1>2, <1>3, <1>7 DEF Shape, Process
  <2> HIDE DEF t
  <2>2. Holds(t)
    BY <2>1, Elsewhere
  <2> QED BY <1>1, <1>2, <1>7, <2>1, <2>2, ProcessInInv, OneProcessMoves
<1>8. CASE minted < MaxMints /\ minted' = minted + 1 /\ Become(p, u)
  <2>1. minted + 1 \in Mints /\ minted + 1 # Null /\ minted' \in 0..MaxMints
    BY <1>2, <1>8, BoundAssumption DEF Mints, Null
  <2>2. Shape(u) /\ u.at = "createMint" /\ u.isInitialized = s.isInitialized
    BY <1>2, <1>3, <2>1 DEF Shape, Process
  <2> HIDE DEF u
  <2>3. Holds(u)
    BY <2>2, Elsewhere
  <2> QED BY <1>1, <1>8, <2>1, <2>2, <2>3, ProcessInInv, OneProcessMoves
<1> QED BY <1>1, <1>6, <1>7, <1>8

LEMMA ConfigureInv ==
  ASSUME Inv, NEW p \in Processes, NEW function,
         NEW prog \in Programs, NEW op \in {"setMembers", "setCustodian", "addMerchant"},
         prog = IF op = "setMembers" THEN "controller" ELSE "members",
         NEW keys \in SUBSET (Keys \union {NoKey}), Configure(p, function, prog, op, keys)
  PROVE  Inv'
<1>0. PICK key \in Keys \union {NoKey} :
        \/ Become(p, Thrown(proc[p]))
        \/ prog \in proc[p].known /\ Become(p, [proc[p] EXCEPT !.at = op, !.key = key])
  BY DEF Configure
<1> DEFINE s == proc[p]
           t == [s EXCEPT !.at = op, !.key = key]
<1>1. /\ UNCHANGED <<chain, minted, late, faults>>
      /\ Become(p, Thrown(s)) \/ (prog \in s.known /\ Become(p, t))
  BY <1>0 DEF Configure
<1>2. s \in Process /\ Shape(s)
  BY ProcessInInv
<1>3. Shape(Thrown(s)) /\ Holds(Thrown(s))
  BY <1>2, Endings, Elsewhere
<1>4. CASE prog \in s.known /\ Become(p, t)
  <2>1. op \in Awaits
    BY AwaitsContain
  <2>2. Shape(t) /\ t.at = op /\ t.isInitialized = s.isInitialized
    BY <1>2, <1>4, <2>1 DEF Shape, Process, MintOps
  <2> HIDE DEF t
  <2>3. Holds(t)
    BY <2>2, Elsewhere
  <2> QED BY <1>1, <1>4, <2>2, <2>3, ProcessInInv, OneProcessMoves
<1> HIDE DEF t
<1> QED BY <1>1, <1>3, <1>4, ProcessInInv, OneProcessMoves

LEMMA CallInv ==
  ASSUME Inv, NEW p \in Processes, Call(p)
  PROVE  Inv'
<1>1. CASE initializeMembers(p) \/ initializeFactory(p)
  BY <1>1, InitializeProgramInv DEF initializeMembers, initializeFactory
<1>2. CASE configureController(p) \/ setCustodian(p) \/ addMerchant(p)
  <2>1. /\ {"controller", "members"} \subseteq Programs
        /\ {NoKey} \subseteq Keys \union {NoKey} /\ Generated \subseteq Keys \union {NoKey}
    BY DEF Programs, Generated, Undrawn
  <2> QED
    BY <1>2, <2>1, ConfigureInv DEF configureController, setCustodian, addMerchant
<1> QED BY <1>1, <1>2, InitializeControllerInv DEF Call

LEMMA FoundInv ==
  ASSUME Inv, NEW p \in Processes, NEW prog \in Programs, Found(p, prog)
  PROVE  Inv'
<1> DEFINE s == Initialized(proc[p], prog)
<1>1. /\ Become(p, s) /\ Exists(prog)
      /\ UNCHANGED <<chain, minted, late, faults>>
  BY DEF Found
<1>2. /\ Shape(s) /\ s.at = "idle"
      /\ s.isInitialized = proc[p].isInitialized \union {prog}
  BY ProcessInInv, Initializing
<1>3. Holds(s)
  BY <1>1, <1>2, ProcessInInv DEF Holds
<1> HIDE DEF s
<1> QED BY <1>1, <1>2, <1>3, ProcessInInv, OneProcessMoves

LEMMA MissingInv ==
  ASSUME Inv, NEW p \in Processes, NEW prog \in Programs, Missing(p, prog)
  PROVE  Inv'
<1> DEFINE op == IF prog = "controller" THEN "setAuthority" ELSE Initializes[prog]
           s == [proc[p] EXCEPT !.at = op]
<1>1. /\ Become(p, s) /\ proc[p].at = Fetches[prog]
      /\ UNCHANGED <<chain, minted, late>>
      /\ faults' \in 0..MaxFaults
  BY ProcessInInv, BoundAssumption DEF Missing
<1>2. op \in {"membersInitialize", "factoryInitialize", "setAuthority"} /\ op \in Awaits
  BY AwaitsContain DEF Initializes, Programs
<1>3. op = "setAuthority" => proc[p].at = "fetchController"
  BY <1>1, <1>2 DEF Fetches, Initializes, Programs
<1>4. op = "setAuthority" => proc[p].tokenMint # Null
  BY <1>3, ProcessInInv DEF Shape
<1> HIDE DEF op
<1>5. Shape(s) /\ s.at = op /\ s.isInitialized = proc[p].isInitialized
  BY <1>2, <1>4, ProcessInInv DEF Shape, Process, MintOps
<1> HIDE DEF s
<1>6. Holds(s)
  BY <1>2, <1>5, Elsewhere
<1> QED BY <1>1, <1>5, <1>6, ProcessInInv, OneProcessMoves

LEMMA RestartInv ==
  ASSUME Inv, NEW p \in Processes, Restart(p)
  PROVE  Inv'
<1>1. Shape(Fresh)
  BY AwaitsContain, ScriptRuns DEF Shape, Process, Fresh, MintOps
<1>2. Holds(Fresh)
  BY DEF Holds, Fresh
<1> QED BY <1>1, <1>2, ProcessInInv, OneProcessMoves DEF Restart

\* What a process sends is good.
LEMMA SentIsGood ==
  ASSUME Inv, NEW p \in Processes, proc[p].at \in Ops
  PROVE  GoodTx(Tx(p))
<1>1. Tx(p) \in Transaction /\ Tx(p).op = proc[p].at /\ Tx(p).mint = proc[p].tokenMint
  BY ProcessInInv DEF Tx, Transaction, Process
<1> QED BY <1>1, ProcessInInv DEF GoodTx, Shape, Holds

LEMMA FailedInv ==
  ASSUME Inv, NEW p \in Processes, Refused(p) \/ GiveUp(p)
  PROVE  Inv'
<1>1. /\ Become(p, Thrown(proc[p])) /\ UNCHANGED <<chain, minted>>
      /\ faults' \in 0..MaxFaults
      /\ proc[p].at \in Ops
      /\ late' \in {late, late \union {Tx(p)}}
  BY ProcessInInv, BoundAssumption DEF Refused, GiveUp
<1>2. Shape(Thrown(proc[p])) /\ Holds(Thrown(proc[p]))
  BY ProcessInInv, Endings, Elsewhere
<1>3. \A tx \in late' : tx \in late \/ GoodTx(tx)
  BY <1>1, SentIsGood
<1> QED BY <1>1, <1>2, <1>3, ProcessInInv, OneProcessMoves

\* Where a process goes on once its transaction is confirmed.
LEMMA Confirming ==
  ASSUME NEW s, Shape(s), s.at \in Ops
  PROVE  LET t == Confirmed(s) IN
         /\ Shape(t)
         /\ t.at = "controllerInitialize" =>
               s.at = "setAuthority" /\ t.tokenMint = s.tokenMint
         /\ t.at = "setFactory" => s.at = "setMembers"
         /\ t.isInitialized \subseteq s.isInitialized \union
               {prog \in Programs : s.at = Initializes[prog]}
<1> DEFINE t == Confirmed(s)
<1>1. s \in Process
  BY DEF Shape
<1>2. {"members", "controller", "factory"} = Programs
  BY DEF Programs
<1>3. CASE s.at = "createMint"
  <2>1. t = [s EXCEPT !.sharedMint = s.tokenMint, !.at = "fetchController"]
    BY <1>3 DEF Confirmed
  <2>2. "fetchController" \in Awaits /\ s.tokenMint # Null
    BY <1>2, <1>3, AwaitsContain DEF Fetches, Shape, MintOps
  <2> QED BY <1>1, <2>1, <2>2 DEF Shape, Process
<1>4. CASE s.at = "setAuthority"
  <2>1. t = [s EXCEPT !.at = "controllerInitialize"]
    BY <1>4 DEF Confirmed
  <2>2. "controllerInitialize" \in Awaits /\ s.tokenMint # Null
    BY <1>4, AwaitsContain DEF Shape, MintOps
  <2> QED BY <1>1, <1>4, <2>1, <2>2 DEF Shape, Process
<1>5. CASE s.at = "setMembers"
  <2>1. t = [s EXCEPT !.at = "setFactory"]
    BY <1>5 DEF Confirmed
  <2>2. "setFactory" \in Awaits /\ "controller" \in s.known
    BY <1>5, AwaitsContain DEF Shape
  <2> QED BY <1>1, <1>5, <2>1, <2>2 DEF Shape, Process, MintOps
<1>6. ASSUME NEW prog \in Programs, s.at = Initializes[prog], t = Initialized(s, prog)
      PROVE  /\ Shape(t) /\ t.at = "idle"
             /\ t.isInitialized \subseteq s.isInitialized \union
                   {q \in Programs : s.at = Initializes[q]}
  BY <1>6, Initializing
<1>7. CASE s.at \in {"membersInitialize", "controllerInitialize", "factoryInitialize"}
  <2>1. \E prog \in Programs : s.at = Initializes[prog] /\ t = Initialized(s, prog)
    <3>1. CASE s.at = "membersInitialize"
      BY <1>2, <3>1 DEF Confirmed, Initializes
    <3>2. CASE s.at = "controllerInitialize"
      BY <1>2, <3>2 DEF Confirmed, Initializes
    <3>3. CASE s.at = "factoryInitialize"
      BY <1>2, <3>3 DEF Confirmed, Initializes
    <3> QED BY <1>7, <3>1, <3>2, <3>3
  <2> HIDE DEF t
  <2>2. /\ Shape(t) /\ t.at = "idle"
        /\ t.isInitialized \subseteq s.isInitialized \union
              {q \in Programs : s.at = Initializes[q]}
    BY <2>1, <1>6
  <2> QED BY <2>2 DEF t
<1>8. CASE s.at \in {"setFactory", "setCustodian", "addMerchant"}
  <2>1. t = Returned(s)
    BY <1>8 DEF Confirmed
  <2> QED BY <2>1, Endings
<1>9. Ops = {"membersInitialize", "controllerInitialize", "factoryInitialize",
             "createMint", "setAuthority", "setMembers", "setFactory",
             "setCustodian", "addMerchant"}
  BY DEF Ops, Initializes, Programs
<1> QED BY <1>3, <1>4, <1>5, <1>7, <1>8, <1>9

LEMMA LandInv ==
  ASSUME Inv, NEW p \in Processes, Land(p)
  PROVE  Inv'
<1>1. PICK tx : tx = Tx(p)
  OBVIOUS
<1>2. PICK s : s = proc[p]
  OBVIOUS
<1>3. PICK t : t = Confirmed(s)
  OBVIOUS
<1>4. /\ s.at \in Ops /\ Execute(tx) /\ Become(p, t)
      /\ UNCHANGED <<minted, late, faults>>
      /\ tx.op = s.at /\ tx.mint = s.tokenMint
  BY <1>1, <1>2, <1>3 DEF Land, Tx
<1>5. Shape(s) /\ Holds(s) /\ s \in Process
  BY <1>2, ProcessInInv
<1>6. ChainTypeOK' /\ NothingRunsHalfReady' /\ Grows /\ Effect(tx)'
  BY <1>1, <1>2, <1>4, SentIsGood, ExecuteStep
<1>7. /\ Shape(t)
      /\ t.at = "controllerInitialize" =>
            s.at = "setAuthority" /\ t.tokenMint = s.tokenMint
      /\ t.at = "setFactory" => s.at = "setMembers"
      /\ t.isInitialized \subseteq s.isInitialized \union
            {prog \in Programs : s.at = Initializes[prog]}
  BY <1>3, <1>4, <1>5, Confirming
<1>8. \A prog \in t.isInitialized : Exists(prog)'
  <2> SUFFICES ASSUME NEW prog \in t.isInitialized PROVE Exists(prog)'
    OBVIOUS
  <2>1. CASE prog \in s.isInitialized
    <3>1. Exists(prog) /\ prog \in Programs
      BY <1>5, <2>1 DEF Holds, Process
    <3> QED BY <1>6, <3>1 DEF Exists, Grows, Programs
  <2>2. CASE prog \in Programs /\ s.at = Initializes[prog]
    <3>1. tx.op = Initializes[prog] /\ Effect(tx)'
      BY <1>4, <1>6, <2>2
    <3>2. CASE prog = "members"
      BY <3>1, <3>2 DEF Effect, Exists, Initializes, Programs
    <3>3. CASE prog = "controller"
      BY <3>1, <3>3 DEF Effect, Exists, Initializes, Programs
    <3>4. CASE prog = "factory"
      BY <3>1, <3>4 DEF Effect, Exists, Initializes, Programs
    <3> QED BY <2>2, <3>2, <3>3, <3>4 DEF Programs
  <2> QED BY <1>7, <2>1, <2>2
<1>9. Holds(t)'
  BY <1>4, <1>6, <1>7, <1>8 DEF Holds, Effect
<1> QED BY <1>4, <1>6, <1>7, <1>9, ProcessInInv, OneProcessChanges

\* A transaction lands that nobody waits for, or expires.
LEMMA NobodyMoves ==
  ASSUME Inv, ChainTypeOK', NothingRunsHalfReady', Grows,
         UNCHANGED <<minted, proc, faults>>, late' \subseteq late
  PROVE  Inv'
<1>1. ASSUME NEW p \in Processes PROVE Inv'
  <2>1. PICK s : s = proc[p]
    OBVIOUS
  <2>2. Become(p, s)
    BY <2>1 DEF Inv, Become
  <2>3. Shape(s) /\ Holds(s)
    BY <2>1, ProcessInInv
  <2>4. \A prog \in s.isInitialized : Exists(prog)'
    <3> SUFFICES ASSUME NEW prog \in s.isInitialized PROVE Exists(prog)'
      OBVIOUS
    <3>1. Exists(prog) /\ prog \in Programs
      BY <2>3 DEF Holds, Shape, Process
    <3> QED BY <3>1 DEF Exists, Grows, Programs
  <2>5. s.at = "controllerInitialize" => s.tokenMint \in Mints
    BY <2>3 DEF Shape, Process, MintOps
  <2>6. Holds(s)'
    BY <2>3, <2>4, <2>5 DEF Holds, Grows
  <2> QED BY <2>2, <2>3, <2>6, ProcessInInv, OneProcessChanges
<1>2. CASE Processes = {}
  <2>1. ASSUME NEW tx \in late' PROVE GoodTx(tx)'
    <3>1. GoodTx(tx)
      BY DEF Inv
    <3>2. tx.op = "controllerInitialize" => tx.mint \in Mints
      BY <3>1 DEF GoodTx, MintOps, Transaction
    <3> QED BY <3>1, <3>2 DEF GoodTx, Grows, HasMembers
  <2> QED BY <1>2, <2>1 DEF Inv
<1> QED BY <1>1, <1>2

LEMMA LateInv ==
  ASSUME Inv, NEW tx \in late, LandLate(tx) \/ Expire(tx)
  PROVE  Inv'
<1>1. UNCHANGED <<minted, proc, faults>> /\ late' \subseteq late
  BY DEF LandLate, Expire
<1>2. CASE LandLate(tx)
  <2>1. Execute(tx) /\ GoodTx(tx)
    BY <1>2 DEF LandLate, Inv
  <2> QED BY <1>1, <2>1, ExecuteStep, NobodyMoves
<1>3. CASE Expire(tx)
  <2>1. ChainTypeOK' /\ NothingRunsHalfReady' /\ Grows
    BY <1>3
    DEF Expire, Inv, chain, ChainTypeOK, Members!TypeOK, NothingRunsHalfReady, Grows,
        HasMembers
  <2> QED BY <1>1, <2>1, NobodyMoves
<1> QED BY <1>2, <1>3

LEMMA InitInv == Init => Inv
<1> SUFFICES ASSUME Init PROVE Inv
  OBVIOUS
<1>1. Shape(Fresh)
  BY AwaitsContain, ScriptRuns DEF Shape, Process, Fresh, MintOps
<1>2. Holds(Fresh) /\ Fresh \in Process
  BY <1>1 DEF Holds, Fresh, Shape
<1>3. ChainTypeOK
  BY DEF Init, ChainTypeOK, Members!Init, Members!TypeOK
<1> QED
  BY <1>1, <1>2, <1>3, BoundAssumption DEF Init, Inv, NothingRunsHalfReady

LEMMA StepInv == Inv /\ [Next]_vars => Inv'
<1> SUFFICES ASSUME Inv, [Next]_vars PROVE Inv'
  OBVIOUS
<1>1. CASE UNCHANGED vars
  <2>1. ChainTypeOK' /\ NothingRunsHalfReady' /\ Grows
    BY <1>1
    DEF vars, Inv, ChainTypeOK, Members!TypeOK, NothingRunsHalfReady, Grows, HasMembers
  <2> QED BY <1>1, <2>1, NobodyMoves DEF vars
<1>2. ASSUME NEW p \in Processes, Step(p) PROVE Inv'
  BY <1>2, BeginInv, CallInv, FoundInv, MissingInv, LandInv, FailedInv DEF Step
<1>3. CASE Next
  BY <1>2, <1>3, FailedInv, LateInv, RestartInv DEF Next, RetryNext
<1> QED BY <1>1, <1>3

LEMMA SpecInv == Spec => []Inv
  BY InitInv, StepInv, PTL DEF Spec

-----------------------------------------------------------------------------
\* No process sends anything to an account or about a mint it does not know.
THEOREM DeploymentTypeCorrect == Spec => []TypeOK
  BY SpecInv, InvImplies, PTL

\* What isInitialized says has been initialized is on chain, whatever fails.
THEOREM InitializedIsOnChain == Spec => []FlagsAreTrue
  BY SpecInv, InvImplies, PTL

\* A Controller that exists holds the authority over its mint, and one that has
\* a factory has its members program, however processes interleave and fail.
THEOREM NoHalfReadyDeployment == Spec => []NothingRunsHalfReady
  BY SpecInv, InvImplies, PTL
=============================================================================
