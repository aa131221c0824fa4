--------------------------- MODULE MembersProofs ----------------------------
(***************************************************************************)
(* Theorems about Members, for every set of keys and every width of the    *)
(* merchant count.                                                         *)
(***************************************************************************)
EXTENDS Members, FiniteSetTheorems, TLAPS

USE DEF CanInitialize, CanSetCustodian, CanAddMerchant, CanRemoveMerchant,
        CanTransferOwnership, CanClaimOwnership

\* The part of the store the merchant count does not depend on: before
\* initialize nobody is a merchant, and the merchants are a finite set.
MerchantsOnRecord ==
    /\ IsFiniteSet(merchant_infos)
    /\ members_store = NoAccount => merchant_infos = {}

CountInv == TypeOK /\ MerchantsOnRecord /\ CountNeverOverstates

-----------------------------------------------------------------------------
\* A program starts with no account, and every instruction leaves the store
\* and the merchants of the right type.
LEMMA TypeInit == Init => TypeOK
  BY DEF Init, TypeOK

LEMMA SaturatingType ==
  ASSUME NEW n \in 0..U16Max
  PROVE  /\ SaturatingInc(n) \in 0..U16Max
         /\ SaturatingDec(n) \in 0..U16Max
  BY U16Assumption DEF SaturatingInc, SaturatingDec

LEMMA TypeStep == TypeOK /\ [Next]_mvars => TypeOK'
<1> SUFFICES ASSUME TypeOK, [Next]_mvars PROVE TypeOK'
    OBVIOUS
<1> USE DEF TypeOK, MembersStore, Pubkeys
<1>1. CASE UNCHANGED mvars
  BY <1>1 DEF mvars
<1>2. ASSUME NEW signer \in Keys, Initialize(signer) PROVE TypeOK'
  BY <1>2, U16Assumption DEF Initialize
<1>3. ASSUME NEW signer \in Keys, ClaimOwnership(signer) PROVE TypeOK'
  BY <1>3 DEF ClaimOwnership
<1>4. ASSUME NEW signer \in Keys, NEW key \in Pubkeys,
             SetCustodian(signer, key)
      PROVE  TypeOK'
  BY <1>4 DEF SetCustodian, OwnedBy
<1>5. ASSUME NEW signer \in Keys, NEW key \in Pubkeys,
             AddMerchant(signer, key)
      PROVE  TypeOK'
  <2>1. members_store \in MembersStore
    BY <1>5 DEF AddMerchant, OwnedBy
  <2>2. SaturatingInc(members_store.merchant_count) \in 0..U16Max
    BY <2>1, SaturatingType
  <2> QED  BY <1>5, <2>1, <2>2 DEF AddMerchant
<1>6. ASSUME NEW signer \in Keys, NEW key \in Pubkeys,
             RemoveMerchant(signer, key)
      PROVE  TypeOK'
  <2>1. members_store \in MembersStore
    BY <1>6 DEF RemoveMerchant, OwnedBy
  <2>2. SaturatingDec(members_store.merchant_count) \in 0..U16Max
    BY <2>1, SaturatingType
  <2> QED  BY <1>6, <2>1, <2>2 DEF RemoveMerchant
<1>7. ASSUME NEW signer \in Keys, NEW key \in Pubkeys,
             TransferOwnership(signer, key)
      PROVE  TypeOK'
  BY <1>7 DEF TransferOwnership, OwnedBy
<1> QED  BY <1>1, <1>2, <1>3, <1>4, <1>5, <1>6, <1>7 DEF Next, Instruction

\* Type correctness of the Members program, whatever the keys.
THEOREM MembersTypeCorrect == Spec => []TypeOK
  BY TypeInit, TypeStep, PTL DEF Spec

-----------------------------------------------------------------------------
LEMMA CountStep == CountInv /\ [Next]_mvars => CountInv'
<1> SUFFICES ASSUME CountInv, [Next]_mvars PROVE CountInv'
    OBVIOUS
<1> USE StoreAssumption DEF CountInv, MerchantsOnRecord, CountNeverOverstates
<1>0. TypeOK'
  BY TypeStep
<1>1. CASE UNCHANGED mvars
  BY <1>0, <1>1 DEF mvars
<1>2. ASSUME NEW signer \in Keys, Initialize(signer) PROVE CountInv'
  BY <1>0, <1>2, FS_EmptySet DEF Initialize, TypeOK, MembersStore
<1>3. ASSUME NEW signer \in Keys, ClaimOwnership(signer) PROVE CountInv'
  <2>1. members_store \in MembersStore
    BY <1>3 DEF ClaimOwnership, TypeOK
  <2>2. members_store'.merchant_count = members_store.merchant_count
    BY <1>3, <2>1 DEF ClaimOwnership, MembersStore
  <2>3. members_store' # NoAccount
    BY <1>3, <2>1 DEF ClaimOwnership, MembersStore, Pubkeys
  <2> QED  BY <1>0, <1>3, <2>1, <2>2, <2>3 DEF ClaimOwnership
<1>4. ASSUME NEW signer \in Keys, NEW key \in Pubkeys,
             SetCustodian(signer, key)
      PROVE  CountInv'
  BY <1>0, <1>4 DEF SetCustodian, OwnedBy, TypeOK, MembersStore
<1>5. ASSUME NEW signer \in Keys, NEW key \in Pubkeys,
             AddMerchant(signer, key)
      PROVE  CountInv'
  <2>1. /\ members_store \in MembersStore
        /\ members_store.merchant_count \in 0..U16Max
    BY <1>5 DEF AddMerchant, OwnedBy, TypeOK, MembersStore
  <2>3. members_store'.merchant_count
          = SaturatingInc(members_store.merchant_count)
    BY <1>5, <2>1 DEF AddMerchant, MembersStore
  <2>2. /\ IsFiniteSet(merchant_infos')
        /\ Cardinality(merchant_infos') = Cardinality(merchant_infos) + 1
        /\ Cardinality(merchant_infos) \in Nat
    BY <1>5, FS_AddElement, FS_CardinalityType DEF AddMerchant, OwnedBy
  <2>4. members_store'.merchant_count <= Cardinality(merchant_infos')
    BY <1>5, <2>1, <2>2, <2>3, U16Assumption
    DEF AddMerchant, OwnedBy, SaturatingInc
  <2>5. members_store' # NoAccount
    BY <1>5, <2>1, <2>3, SaturatingType DEF AddMerchant, MembersStore
  <2> QED  BY <1>0, <2>2, <2>4, <2>5
<1>6. ASSUME NEW signer \in Keys, NEW key \in Pubkeys,
             RemoveMerchant(signer, key)
      PROVE  CountInv'
  <2>1. /\ members_store \in MembersStore
        /\ members_store.merchant_count \in 0..U16Max
    BY <1>6 DEF RemoveMerchant, OwnedBy, TypeOK, MembersStore
  <2>3. members_store'.merchant_count
          = SaturatingDec(members_store.merchant_count)
    BY <1>6, <2>1 DEF RemoveMerchant, MembersStore
  <2>2. /\ IsFiniteSet(merchant_infos')
        /\ Cardinality(merchant_infos') = Cardinality(merchant_infos) - 1
        /\ Cardinality(merchant_infos) \in Nat
        /\ Cardinality(merchant_infos') \in Nat
    BY <1>6, FS_RemoveElement, FS_CardinalityType DEF RemoveMerchant, OwnedBy
  <2>4. members_store'.merchant_count <= Cardinality(merchant_infos')
    BY <1>6, <2>1, <2>2, <2>3 DEF RemoveMerchant, OwnedBy, SaturatingDec
  <2>5. members_store' # NoAccount
    BY <1>6, <2>1, <2>3, SaturatingType DEF RemoveMerchant, MembersStore
  <2> QED  BY <1>0, <2>2, <2>4, <2>5
<1>7. ASSUME NEW signer \in Keys, NEW key \in Pubkeys,
             TransferOwnership(signer, key)
      PROVE  CountInv'
  BY <1>0, <1>7 DEF TransferOwnership, OwnedBy, TypeOK, MembersStore
<1> QED  BY <1>1, <1>2, <1>3, <1>4, <1>5, <1>6, <1>7 DEF Next, Instruction

\* The merchant count never exceeds the number of merchants, whatever the
\* instructions and however often the u16 saturated on the way.
THEOREM MerchantCountNeverOverstates == Spec => []CountNeverOverstates
<1>1. Init => CountInv
  BY TypeInit, FS_EmptySet
  DEF Init, CountInv, MerchantsOnRecord, CountNeverOverstates
<1>2. CountInv => CountNeverOverstates
  BY DEF CountInv
<1> QED  BY <1>1, <1>2, CountStep, PTL DEF Spec

-----------------------------------------------------------------------------
\* With no more keys than a u16 can count, the count is the number of
\* merchants: neither saturation can occur.
LEMMA ExactStep ==
  ASSUME IsFiniteSet(Keys), Cardinality(Keys) <= U16Max,
         CountInv, CountIsExact, [Next]_mvars
  PROVE  CountIsExact'
<1> USE StoreAssumption DEF CountIsExact
<1>1. CASE UNCHANGED mvars
  BY <1>1 DEF mvars
<1>2. ASSUME NEW signer \in Keys, Initialize(signer) PROVE CountIsExact'
  BY <1>2, FS_EmptySet DEF Initialize, CountInv, MerchantsOnRecord
<1>3. ASSUME NEW signer \in Keys, ClaimOwnership(signer) PROVE CountIsExact'
  BY <1>3 DEF ClaimOwnership, CountInv, TypeOK, MembersStore
<1>4. ASSUME NEW signer \in Keys, NEW key \in Pubkeys,
             SetCustodian(signer, key)
      PROVE  CountIsExact'
  BY <1>4 DEF SetCustodian, OwnedBy, CountInv, TypeOK, MembersStore
<1>5. ASSUME NEW signer \in Keys, NEW key \in Pubkeys,
             AddMerchant(signer, key)
      PROVE  CountIsExact'
  <2>1. members_store'.merchant_count
          = SaturatingInc(members_store.merchant_count)
    BY <1>5 DEF AddMerchant, OwnedBy, CountInv, TypeOK, MembersStore, SaturatingInc
  <2>2. /\ Cardinality(merchant_infos') = Cardinality(merchant_infos) + 1
        /\ Cardinality(merchant_infos) \in Nat
    BY <1>5, FS_AddElement, FS_CardinalityType
    DEF AddMerchant, CountInv, MerchantsOnRecord
  <2>3. merchant_infos' \subseteq Keys
    BY <1>5, TypeStep DEF CountInv, TypeOK
  <2>4. Cardinality(merchant_infos') <= Cardinality(Keys)
    BY <2>3, FS_Subset
  <2>5. Cardinality(Keys) \in Nat
    BY FS_CardinalityType
  <2> QED  BY <1>5, <2>1, <2>2, <2>4, <2>5, U16Assumption
           DEF AddMerchant, OwnedBy, SaturatingInc
<1>6. ASSUME NEW signer \in Keys, NEW key \in Pubkeys,
             RemoveMerchant(signer, key)
      PROVE  CountIsExact'
  <2>1. members_store'.merchant_count
          = SaturatingDec(members_store.merchant_count)
    BY <1>6 DEF RemoveMerchant, OwnedBy, CountInv, TypeOK, MembersStore, SaturatingDec
  <2>2. /\ Cardinality(merchant_infos') = Cardinality(merchant_infos) - 1
        /\ Cardinality(merchant_infos) \in Nat
        /\ Cardinality(merchant_infos') \in Nat
    BY <1>6, FS_RemoveElement, FS_CardinalityType
    DEF RemoveMerchant, CountInv, MerchantsOnRecord
  <2> QED  BY <1>6, <2>1, <2>2 DEF RemoveMerchant, OwnedBy, SaturatingDec
<1>7. ASSUME NEW signer \in Keys, NEW key \in Pubkeys,
             TransferOwnership(signer, key)
      PROVE  CountIsExact'
  BY <1>7 DEF TransferOwnership, OwnedBy, CountInv, TypeOK, MembersStore
<1> QED  BY <1>1, <1>2, <1>3, <1>4, <1>5, <1>6, <1>7 DEF Next, Instruction

\* The statistics are exact as long as the keys fit in a u16.
THEOREM MerchantCountExact ==
  ASSUME IsFiniteSet(Keys), Cardinality(Keys) <= U16Max
  PROVE  Spec => []CountIsExact
<1>1. Init => CountInv /\ CountIsExact
  BY TypeInit, FS_EmptySet
  DEF Init, CountInv, MerchantsOnRecord, CountNeverOverstates, CountIsExact
<1>2. CountInv /\ CountIsExact /\ [Next]_mvars => (CountInv /\ CountIsExact)'
  BY CountStep, ExactStep
<1> QED  BY <1>1, <1>2, PTL DEF Spec

-----------------------------------------------------------------------------
\* The ownership of the Members program moves exactly as Handover allows:
\* only the owner nominates, only the nominee takes over, and it does so once.
THEOREM MembersOwnershipHandover == Spec => OwnershipHandover
<1> USE DEF Ownership!Init, Ownership!Next, Ownership!hvars,
            Ownership!Found, Ownership!Nominate, Ownership!Accept
<1>1. Init => Ownership!Init
  BY DEF Init
<1>2. TypeOK /\ [Next]_mvars => [Ownership!Next]_Ownership!hvars
  <2> SUFFICES ASSUME TypeOK, [Next]_mvars
               PROVE  [Ownership!Next]_Ownership!hvars
      OBVIOUS
  <2> USE StoreAssumption DEF TypeOK, MembersStore, Pubkeys
  <2>1. CASE UNCHANGED mvars
    BY <2>1 DEF mvars
  <2>2. ASSUME NEW signer \in Keys, Initialize(signer)
        PROVE  Ownership!Next
    BY <2>2, KeysAssumption, U16Assumption DEF Initialize
  <2>3. ASSUME NEW signer \in Keys, ClaimOwnership(signer)
        PROVE  Ownership!Accept
    BY <2>3, KeysAssumption DEF ClaimOwnership
  <2>4. ASSUME NEW signer \in Keys, NEW key \in Pubkeys,
               SetCustodian(signer, key)
        PROVE  UNCHANGED Ownership!hvars
    BY <2>4 DEF SetCustodian, OwnedBy
  <2>5. ASSUME NEW signer \in Keys, NEW key \in Pubkeys,
               AddMerchant(signer, key) \/ RemoveMerchant(signer, key)
        PROVE  UNCHANGED Ownership!hvars
    <3>1. members_store \in MembersStore
      BY <2>5 DEF AddMerchant, RemoveMerchant, OwnedBy
    <3>2. PICK count \in 0..U16Max :
            members_store' = [members_store EXCEPT !.merchant_count = count]
      BY <2>5, <3>1, SaturatingType DEF AddMerchant, RemoveMerchant
    <3> QED  BY <3>1, <3>2
  <2>6. ASSUME NEW signer \in Keys, NEW key \in Pubkeys,
               TransferOwnership(signer, key)
        PROVE  Ownership!Next
    <3>1. key \in Keys /\ Ownership!Nominate(key)
      BY <2>6, KeysAssumption DEF TransferOwnership, OwnedBy
    <3> QED  BY <3>1
  <2> QED  BY <2>1, <2>2, <2>3, <2>4, <2>5, <2>6 DEF Next, Instruction
<1> QED  BY <1>1, <1>2, TypeInit, TypeStep, PTL DEF Spec, OwnershipHandover, Ownership!Spec
=============================================================================
