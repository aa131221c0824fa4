----------------------------- MODULE Controller -----------------------------
(***************************************************************************)
(* The Controller program: its configuration, its ownership, and the mint  *)
(* authority its PDA holds over the token. The token mint is fixed once    *)
(* and for all by initialize, so it is not a field here but the SplToken   *)
(* state. Every instruction is one atomic transaction.                     *)
(***************************************************************************)
EXTENDS Integers

CONSTANTS
    Keys,           \* public keys somebody can sign for
    NoKey,          \* Pubkey::default()
    NoAccount,      \* an account that does not exist
    ControllerPda,  \* the controller_store PDA
    Programs,       \* ids of deployed programs
    U64Max          \* the largest u64

VARIABLES
    controller_store,               \* the ControllerStore account
    mint_authority, supply, balance  \* the token, see SplToken

Token == INSTANCE SplToken

tokenVars == <<mint_authority, supply, balance>>
cvars == <<controller_store, mint_authority, supply, balance>>

Pubkeys == Keys \union {NoKey}
ProgramIds == Programs \union {NoKey}

ControllerStore ==
    [members : ProgramIds, factory : ProgramIds, owner : Pubkeys,
     pending_owner : Pubkeys, pending_mint_authority : Pubkeys]

ASSUME KeysAssumption ==
    NoKey \notin Keys /\ NoKey \notin Programs /\ ControllerPda \notin Pubkeys
ASSUME StoreAssumption == NoAccount \notin ControllerStore
ASSUME U64Assumption == U64Max \in Nat \ {0}

TypeOK ==
    /\ controller_store \in ControllerStore \union {NoAccount}
    /\ Token!TypeOK

Init ==
    /\ controller_store = NoAccount
    /\ Token!Init

-----------------------------------------------------------------------------
(* Instructions. The first parameter is the key that signs. CanX is what   *)
(* the accounts and the handler of X demand, and what its CPI demands.     *)

\* has_one = owner, with the account present.
OwnedBy(owner) ==
    /\ controller_store # NoAccount
    /\ controller_store.owner = owner

CanInitialize == controller_store = NoAccount

\* members and factory stay zeroed, which is NoKey, until the owner sets
\* them. Nothing asks that the PDA be the mint authority already.
Initialize(payer) ==
    /\ CanInitialize
    /\ controller_store' =
          [members |-> NoKey, factory |-> NoKey, owner |-> payer,
           pending_owner |-> NoKey, pending_mint_authority |-> NoKey]
    /\ UNCHANGED tokenVars

CanSetMembers(owner, members) == OwnedBy(owner) /\ members # NoKey

SetMembers(owner, members) ==
    /\ CanSetMembers(owner, members)
    /\ controller_store' = [controller_store EXCEPT !.members = members]
    /\ UNCHANGED tokenVars

CanSetFactory(owner, factory) == OwnedBy(owner) /\ factory # NoKey

SetFactory(owner, factory) ==
    /\ CanSetFactory(owner, factory)
    /\ controller_store' = [controller_store EXCEPT !.factory = factory]
    /\ UNCHANGED tokenVars

CanTransferOwnership(owner, new_owner) == OwnedBy(owner) /\ new_owner # NoKey

\* Mutant: the transfer takes effect without a claim.
TransferAtOnce(owner, new_owner) ==
    /\ CanTransferOwnership(owner, new_owner)
    /\ controller_store' = [controller_store EXCEPT !.owner = new_owner]
    /\ UNCHANGED tokenVars

TransferOwnership(owner, new_owner) ==
    /\ CanTransferOwnership(owner, new_owner)
    /\ controller_store' = [controller_store EXCEPT !.pending_owner = new_owner]
    /\ UNCHANGED tokenVars

CanClaimOwnership(pending_owner) ==
    /\ controller_store # NoAccount
    /\ controller_store.pending_owner = pending_owner

ClaimOwnership(pending_owner) ==
    /\ CanClaimOwnership(pending_owner)
    /\ controller_store' = [controller_store EXCEPT !.owner = pending_owner,
                                                    !.pending_owner = NoKey]
    /\ UNCHANGED tokenVars

CanTransferMintAuthority(owner, new_authority) ==
    OwnedBy(owner) /\ new_authority # NoKey

\* The nomination is recorded whoever holds the mint authority, and outlives
\* a change of owner.
TransferMintAuthority(owner, new_authority) ==
    /\ CanTransferMintAuthority(owner, new_authority)
    /\ controller_store' =
          [controller_store EXCEPT !.pending_mint_authority = new_authority]
    /\ UNCHANGED tokenVars

\* The CPI that passes the authority on fails unless the PDA has it.
CanClaimMintAuthority(pending_authority) ==
    /\ controller_store # NoAccount
    /\ controller_store.pending_mint_authority = pending_authority
    /\ mint_authority = ControllerPda

\* Mutants: the claim nominates the former authority in turn; the nomination is
\* not used up.
ClaimMintAuthoritySwaps(pending_authority) ==
    /\ CanClaimMintAuthority(pending_authority)
    /\ Token!SetAuthority(ControllerPda, pending_authority)
    /\ controller_store' =
          [controller_store EXCEPT !.pending_mint_authority = mint_authority]

ClaimMintAuthorityAgain(pending_authority) ==
    /\ CanClaimMintAuthority(pending_authority)
    /\ Token!SetAuthority(ControllerPda, pending_authority)
    /\ UNCHANGED controller_store

\* When it fails, the nomination stands.
ClaimMintAuthority(pending_authority) ==
    /\ CanClaimMintAuthority(pending_authority)
    /\ Token!SetAuthority(ControllerPda, pending_authority)
    /\ controller_store' =
          [controller_store EXCEPT !.pending_mint_authority = NoKey]

\* Mutant: any program's PDA passes for the factory's.
MintForAnyone(factory, to, amount) ==
    /\ controller_store # NoAccount
    /\ to # NoKey
    /\ Token!MintTo(ControllerPda, to, amount)
    /\ UNCHANGED controller_store

\* mint is signed by the factory PDA of the program `factory`. Only that
\* program can sign for it; with factory unset no program can.
CanMint(factory, to, amount) ==
    /\ controller_store # NoAccount
    /\ controller_store.factory = factory
    /\ to # NoKey
    /\ Token!CanMintTo(ControllerPda, to, amount)

Mint(factory, to, amount) ==
    /\ CanMint(factory, to, amount)
    /\ Token!MintTo(ControllerPda, to, amount)
    /\ UNCHANGED controller_store

-----------------------------------------------------------------------------
\* Every instruction a wallet can send to the Controller.
Instruction(signer) ==
    \/ Initialize(signer)
    \/ ClaimOwnership(signer)
    \/ ClaimMintAuthority(signer)
    \/ \E program \in ProgramIds :
          SetMembers(signer, program) \/ SetFactory(signer, program)
    \/ \E key \in Pubkeys :
          TransferOwnership(signer, key) \/ TransferMintAuthority(signer, key)

\* The programs that may be set as the factory mint what they like.
Next ==
    \/ \E signer \in Keys : Instruction(signer)
    \/ \E program \in Programs, to \in Keys, amount \in 0..U64Max :
          Mint(program, to, amount)
    \/ \E k \in Keys : Token!Wallet(k) /\ UNCHANGED controller_store

Spec == Init /\ [][Next]_cvars

-----------------------------------------------------------------------------
(* Properties                                                              *)

\* The PDA gives the mint authority up only to the key nominated for it, and
\* each nomination serves once: if the authority comes back to the PDA, the
\* same key needs a new nomination by the owner of that moment.
AuthorityIsHandedOver ==
    [][ mint_authority = ControllerPda /\ mint_authority' # ControllerPda =>
          /\ mint_authority' = controller_store.pending_mint_authority
          /\ mint_authority' \in Keys
          /\ controller_store'.pending_mint_authority = NoKey ]_cvars

\* Ownership moves as Handover says.
Ownership ==
    INSTANCE Handover WITH
        holder  <- IF controller_store = NoAccount THEN NoKey
                   ELSE controller_store.owner,
        nominee <- IF controller_store = NoAccount THEN NoKey
                   ELSE controller_store.pending_owner

OwnershipHandover == Ownership!Spec
=============================================================================
