------------------------------ MODULE Members -------------------------------
(***************************************************************************)
(* The Members program: who owns it, who is the custodian, and which keys  *)
(* are merchants. Every instruction is one transaction, so one atomic step *)
(* that either satisfies every account constraint and require! of its      *)
(* handler or leaves the state alone.                                      *)
(***************************************************************************)
EXTENDS Naturals, FiniteSets

CONSTANTS
    Keys,       \* public keys somebody can sign for
    NoKey,      \* Pubkey::default()
    NoAccount,  \* an account that does not exist
    U16Max      \* the largest u16, the width of merchant_count

ASSUME KeysAssumption == NoKey \notin Keys
ASSUME U16Assumption == U16Max \in Nat \ {0}

VARIABLES
    members_store,    \* the MembersStore account
    merchant_infos    \* the merchants that have a MerchantInfo account

mvars == <<members_store, merchant_infos>>

Pubkeys == Keys \union {NoKey}

MembersStore ==
    [owner : Pubkeys, custodian : Pubkeys,
     merchant_count : 0..U16Max, pending_owner : Pubkeys]

\* An account that exists is not the missing one.
ASSUME StoreAssumption == NoAccount \notin MembersStore

TypeOK ==
    /\ members_store \in MembersStore \union {NoAccount}
    /\ merchant_infos \subseteq Keys

Init ==
    /\ members_store = NoAccount
    /\ merchant_infos = {}

-----------------------------------------------------------------------------
(* Instructions. The first parameter is the key that signs. CanX is what   *)
(* the accounts and the handler of X demand; if it fails so does the       *)
(* transaction.                                                            *)

\* has_one = owner, with the account present.
OwnedBy(owner) ==
    /\ members_store # NoAccount
    /\ members_store.owner = owner

\* Mutant: init_if_needed in place of init.
InitializeAgain(payer) ==
    /\ members_store' = [owner |-> payer, custodian |-> NoKey,
                         merchant_count |-> 0, pending_owner |-> NoKey]
    /\ UNCHANGED merchant_infos

CanInitialize == members_store = NoAccount

\* Whoever pays first becomes the owner; the account is created only once.
Initialize(payer) ==
    /\ CanInitialize
    /\ members_store' = [owner |-> payer, custodian |-> NoKey,
                         merchant_count |-> 0, pending_owner |-> NoKey]
    /\ UNCHANGED merchant_infos

CanSetCustodian(owner, custodian) == OwnedBy(owner) /\ custodian # NoKey

SetCustodian(owner, custodian) ==
    /\ CanSetCustodian(owner, custodian)
    /\ members_store' = [members_store EXCEPT !.custodian = custodian]
    /\ UNCHANGED merchant_infos

\* Mutants of the two below: plain addition; a count that sticks once full.
PlainInc(n) == n + 1
StickyDec(n) == IF n \in {0, U16Max} THEN n ELSE n - 1

\* u16::saturating_add(1) and u16::saturating_sub(1)
SaturatingInc(n) == IF n = U16Max THEN n ELSE n + 1
SaturatingDec(n) == IF n = 0 THEN n ELSE n - 1

CanAddMerchant(owner, merchant) ==
    /\ OwnedBy(owner)
    /\ merchant \notin merchant_infos
    /\ merchant # NoKey

AddMerchant(owner, merchant) ==
    /\ CanAddMerchant(owner, merchant)
    /\ merchant_infos' = merchant_infos \union {merchant}
    /\ members_store' = [members_store EXCEPT !.merchant_count = SaturatingInc(@)]

CanRemoveMerchant(owner, merchant) ==
    OwnedBy(owner) /\ merchant \in merchant_infos

RemoveMerchant(owner, merchant) ==
    /\ CanRemoveMerchant(owner, merchant)
    /\ merchant_infos' = merchant_infos \ {merchant}
    /\ members_store' = [members_store EXCEPT !.merchant_count = SaturatingDec(@)]

CanTransferOwnership(owner, new_owner) == OwnedBy(owner) /\ new_owner # NoKey

TransferOwnership(owner, new_owner) ==
    /\ CanTransferOwnership(owner, new_owner)
    /\ members_store' = [members_store EXCEPT !.pending_owner = new_owner]
    /\ UNCHANGED merchant_infos

CanClaimOwnership(pending_owner) ==
    /\ members_store # NoAccount
    /\ members_store.pending_owner = pending_owner

\* Mutant: the nomination survives the claim.
ClaimKeepsNomination(pending_owner) ==
    /\ CanClaimOwnership(pending_owner)
    /\ members_store' = [members_store EXCEPT !.owner = pending_owner]
    /\ UNCHANGED merchant_infos

ClaimOwnership(pending_owner) ==
    /\ CanClaimOwnership(pending_owner)
    /\ members_store' = [members_store EXCEPT !.owner = pending_owner,
                                              !.pending_owner = NoKey]
    /\ UNCHANGED merchant_infos

-----------------------------------------------------------------------------
\* Every instruction a wallet can send.
Instruction(signer) ==
    \/ Initialize(signer)
    \/ ClaimOwnership(signer)
    \/ \E key \in Pubkeys :
          \/ SetCustodian(signer, key)
          \/ AddMerchant(signer, key)
          \/ RemoveMerchant(signer, key)
          \/ TransferOwnership(signer, key)

Next == \E signer \in Keys : Instruction(signer)

Spec == Init /\ [][Next]_mvars

-----------------------------------------------------------------------------
(* Properties                                                              *)

\* The statistics never claim more merchants than there are, whatever
\* sequence of additions and removals saturated the count on the way.
CountNeverOverstates ==
    members_store # NoAccount =>
        members_store.merchant_count <= Cardinality(merchant_infos)

\* merchant_count is "merchant count (kept for statistics)": the number of
\* merchants. It is as long as the merchants fit in a u16; add_merchant raises
\* no TooManyMerchants, so past that it saturates and then drifts.
CountIsExact ==
    members_store # NoAccount =>
        members_store.merchant_count = Cardinality(merchant_infos)

\* Ownership moves as Handover says.
Ownership ==
    INSTANCE Handover WITH
        holder  <- IF members_store = NoAccount THEN NoKey
                   ELSE members_store.owner,
        nominee <- IF members_store = NoAccount THEN NoKey
                   ELSE members_store.pending_owner

OwnershipHandover == Ownership!Spec
=============================================================================
