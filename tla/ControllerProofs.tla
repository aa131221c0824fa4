-------------------------- MODULE ControllerProofs --------------------------
(***************************************************************************)
(* Theorems about Controller, for every set of keys and programs and every *)
(* width of a u64.                                                         *)
(***************************************************************************)
EXTENDS Controller, TLAPS

USE DEF CanInitialize, CanSetMembers, CanSetFactory, CanTransferOwnership,
        CanClaimOwnership, CanTransferMintAuthority, CanClaimMintAuthority

-----------------------------------------------------------------------------
(* What the token program preserves.                                       *)

LEMMA MintToType ==
  ASSUME Token!TypeOK, NEW authority, NEW to \in Keys, NEW amount \in 0..U64Max,
         Token!MintTo(authority, to, amount)
  PROVE  Token!TypeOK'
  BY U64Assumption DEF Token!TypeOK, Token!MintTo, Token!CanMintTo, Token!Authorities

LEMMA BurnCheckedType ==
  ASSUME Token!TypeOK, NEW k \in Keys, NEW amount \in 0..U64Max,
         Token!BurnChecked(k, amount)
  PROVE  Token!TypeOK'
  BY U64Assumption DEF Token!TypeOK, Token!BurnChecked, Token!CanBurnChecked,
                       Token!Authorities

LEMMA TransferType ==
  ASSUME Token!TypeOK, NEW from \in Keys, NEW to \in Keys,
         NEW amount \in 0..U64Max, Token!Transfer(from, to, amount)
  PROVE  Token!TypeOK'
  BY U64Assumption DEF Token!TypeOK, Token!Transfer, Token!Authorities

LEMMA SetAuthorityType ==
  ASSUME Token!TypeOK, NEW authority, NEW new_authority \in Token!Authorities,
         Token!SetAuthority(authority, new_authority)
  PROVE  Token!TypeOK'
  BY DEF Token!TypeOK, Token!SetAuthority

LEMMA WalletType ==
  ASSUME Token!TypeOK, NEW k \in Keys, Token!Wallet(k)
  PROVE  Token!TypeOK'
<1>1. ASSUME NEW new_authority \in Token!Authorities,
             Token!SetAuthority(k, new_authority)
      PROVE  Token!TypeOK'
  BY <1>1, SetAuthorityType
<1>2. ASSUME NEW amount \in 1..U64Max, Token!BurnChecked(k, amount)
      PROVE  Token!TypeOK'
  BY <1>2, BurnCheckedType
<1>3. ASSUME NEW amount \in 1..U64Max, NEW to \in Keys, Token!MintTo(k, to, amount)
      PROVE  Token!TypeOK'
  BY <1>3, MintToType
<1>4. ASSUME NEW amount \in 1..U64Max, NEW to \in Keys, Token!Transfer(k, to, amount)
      PROVE  Token!TypeOK'
  BY <1>4, TransferType
<1> QED  BY <1>1, <1>2, <1>3, <1>4 DEF Token!Wallet

-----------------------------------------------------------------------------
(* Type correctness                                                        *)

LEMMA TypeInit == Init => TypeOK
  BY U64Assumption
  DEF Init, TypeOK, Token!Init, Token!TypeOK, Token!Authorities

LEMMA MintType ==
  ASSUME TypeOK, NEW factory, NEW to \in Keys, NEW amount \in 0..U64Max,
         Mint(factory, to, amount)
  PROVE  TypeOK'
  BY MintToType DEF TypeOK, Mint

\* An instruction signed by a wallet keeps the store and the token typed.
LEMMA InstructionType ==
  ASSUME TypeOK, NEW signer \in Keys, Instruction(signer)
  PROVE  TypeOK'
<1> USE DEF TypeOK, ControllerStore, Pubkeys, ProgramIds
<1>0. ASSUME UNCHANGED tokenVars PROVE Token!TypeOK'
  BY <1>0 DEF tokenVars, Token!TypeOK
<1>1. CASE Initialize(signer)
  BY <1>0, <1>1 DEF Initialize
<1>2. CASE ClaimOwnership(signer)
  BY <1>0, <1>2 DEF ClaimOwnership
<1>3. CASE ClaimMintAuthority(signer)
  <2>1. Token!TypeOK'
    BY <1>3, SetAuthorityType DEF ClaimMintAuthority, Token!Authorities
  <2> QED  BY <1>3, <2>1 DEF ClaimMintAuthority
<1>4. ASSUME NEW program \in ProgramIds, SetMembers(signer, program)
      PROVE  TypeOK'
  BY <1>0, <1>4 DEF SetMembers, OwnedBy
<1>5. ASSUME NEW program \in ProgramIds, SetFactory(signer, program)
      PROVE  TypeOK'
  BY <1>0, <1>5 DEF SetFactory, OwnedBy
<1>6. ASSUME NEW key \in Pubkeys, TransferOwnership(signer, key)
      PROVE  TypeOK'
  BY <1>0, <1>6 DEF TransferOwnership, OwnedBy
<1>7. ASSUME NEW key \in Pubkeys, TransferMintAuthority(signer, key)
      PROVE  TypeOK'
  BY <1>0, <1>7 DEF TransferMintAuthority, OwnedBy
<1> QED  BY <1>1, <1>2, <1>3, <1>4, <1>5, <1>6, <1>7 DEF Instruction

LEMMA TypeStep == TypeOK /\ [Next]_cvars => TypeOK'
<1> SUFFICES ASSUME TypeOK, [Next]_cvars PROVE TypeOK'
    OBVIOUS
<1>1. CASE UNCHANGED cvars
  BY <1>1 DEF cvars, TypeOK, Token!TypeOK
<1>2. ASSUME NEW signer \in Keys, Instruction(signer) PROVE TypeOK'
  BY <1>2, InstructionType
<1>3. ASSUME NEW program \in Programs, NEW to \in Keys, NEW amount \in 0..U64Max,
             Mint(program, to, amount)
      PROVE  TypeOK'
  BY <1>3, MintType
<1>4. ASSUME NEW k \in Keys, Token!Wallet(k), UNCHANGED controller_store
      PROVE  TypeOK'
  BY <1>4, WalletType DEF TypeOK
<1> QED  BY <1>1, <1>2, <1>3, <1>4 DEF Next

\* Type correctness of the Controller and the token, whatever the owner, the
\* factory programs and the wallets do.
THEOREM ControllerTypeCorrect == Spec => []TypeOK
  BY TypeInit, TypeStep, PTL DEF Spec

-----------------------------------------------------------------------------
\* The mint authority leaves the PDA only by a claim of the standing nominee.
THEOREM MintAuthorityIsHandedOver == Spec => AuthorityIsHandedOver
<1> DEFINE HandedOver ==
      mint_authority = ControllerPda /\ mint_authority' # ControllerPda =>
          /\ mint_authority' = controller_store.pending_mint_authority
          /\ mint_authority' \in Keys
          /\ controller_store'.pending_mint_authority = NoKey
<1>1. ASSUME TypeOK, [Next]_cvars PROVE HandedOver
  <2>1. CASE UNCHANGED cvars
    BY <2>1 DEF cvars
  <2>2. ASSUME NEW signer \in Keys, Instruction(signer) PROVE HandedOver
    <3>1. CASE ClaimMintAuthority(signer)
      <4>1. controller_store \in ControllerStore
        BY <3>1, <1>1 DEF ClaimMintAuthority, TypeOK
      <4> QED  BY <3>1, <4>1
               DEF ClaimMintAuthority, Token!SetAuthority, ControllerStore
    <3>2. CASE UNCHANGED tokenVars
      BY <3>2 DEF tokenVars
    <3> QED  BY <2>2, <3>1, <3>2
             DEF Instruction, Initialize, ClaimOwnership, SetMembers, SetFactory,
                 TransferOwnership, TransferMintAuthority
  <2>3. ASSUME NEW program \in Programs, NEW to \in Keys, NEW amount \in 0..U64Max,
               Mint(program, to, amount)
        PROVE  HandedOver
    BY <2>3 DEF Mint, Token!MintTo, Token!CanMintTo
  <2>4. ASSUME NEW k \in Keys, Token!Wallet(k) PROVE HandedOver
    BY <2>4, KeysAssumption
    DEF Token!Wallet, Token!SetAuthority, Token!BurnChecked, Token!CanBurnChecked,
        Token!MintTo, Token!CanMintTo,
        Token!Transfer, Pubkeys
  <2> QED  BY <1>1, <2>1, <2>2, <2>3, <2>4 DEF Next
<1> QED  BY <1>1, TypeInit, TypeStep, PTL DEF Spec, AuthorityIsHandedOver

-----------------------------------------------------------------------------
\* The ownership of the Controller moves exactly as Handover allows.
THEOREM ControllerOwnershipHandover == Spec => OwnershipHandover
<1> USE DEF Ownership!Init, Ownership!Next, Ownership!hvars,
            Ownership!Found, Ownership!Nominate, Ownership!Accept
<1>1. Init => Ownership!Init
  BY DEF Init
<1>2. TypeOK /\ [Next]_cvars => [Ownership!Next]_Ownership!hvars
  <2> SUFFICES ASSUME TypeOK, [Next]_cvars
               PROVE  [Ownership!Next]_Ownership!hvars
      OBVIOUS
  <2> USE StoreAssumption, KeysAssumption
          DEF TypeOK, ControllerStore, Pubkeys, ProgramIds
  <2>1. CASE UNCHANGED controller_store
    BY <2>1
  <2>2. ASSUME NEW signer \in Keys, Initialize(signer)
        PROVE  Ownership!Next
    BY <2>2 DEF Initialize
  <2>3. ASSUME NEW signer \in Keys, ClaimOwnership(signer)
        PROVE  Ownership!Accept
    BY <2>3 DEF ClaimOwnership
  <2>4. ASSUME NEW signer \in Keys, NEW key \in Pubkeys,
               TransferOwnership(signer, key)
        PROVE  Ownership!Next
    <3>1. key \in Keys /\ Ownership!Nominate(key)
      BY <2>4 DEF TransferOwnership, OwnedBy
    <3> QED  BY <3>1
  <2>5. ASSUME NEW signer \in Keys, NEW program \in ProgramIds,
               SetMembers(signer, program) \/ SetFactory(signer, program)
        PROVE  UNCHANGED Ownership!hvars
    BY <2>5 DEF SetMembers, SetFactory, OwnedBy
  <2>6. ASSUME NEW signer \in Keys, NEW key \in Pubkeys,
               TransferMintAuthority(signer, key)
        PROVE  UNCHANGED Ownership!hvars
    BY <2>6 DEF TransferMintAuthority, OwnedBy
  <2>7. ASSUME NEW signer \in Keys, ClaimMintAuthority(signer)
        PROVE  UNCHANGED Ownership!hvars
    <3>1. controller_store \in ControllerStore
      BY <2>7 DEF ClaimMintAuthority
    <3>2. controller_store' =
            [controller_store EXCEPT !.pending_mint_authority = NoKey]
      BY <2>7 DEF ClaimMintAuthority
    <3> QED  BY <3>1, <3>2
  <2> QED  BY <2>1, <2>2, <2>3, <2>4, <2>5, <2>6, <2>7
           DEF Next, Instruction, Mint, cvars
<1> QED  BY <1>1, <1>2, TypeInit, TypeStep, PTL
         DEF Spec, OwnershipHandover, Ownership!Spec
=============================================================================
