---------------------------- MODULE DappProofs -----------------------------
(***************************************************************************)
(* A user of the hooks reads their own writes, for any set of queries on    *)
(* the screen, any mutations, and any number of changes.                    *)
(***************************************************************************)
EXTENDS Dapp, TLAPS

(* What makes it so: an answer that is still to arrive either has what was  *)
(* announced so far or is known to have been overtaken.                     *)

\* Nothing is announced, or waits to be, that is not on chain.
AckedIsOnChain ==
    \A q \in Shown :
        /\ acked[q] <= version[q]
        /\ \A m \in Mutations : wrote[m][q] <= version[q]

AnswersAreCurrent ==
    \A q \in Shown :
        view[q].fetch = "answered" /\ ~view[q].missed => view[q].got >= acked[q]

Inv == TypeOK /\ AckedIsOnChain /\ AnswersAreCurrent /\ ReadYourWrites

-----------------------------------------------------------------------------
(* Each hook invalidates all that its transaction changes.                  *)
LEMMA HooksInvalidate ==
    ASSUME NEW m \in Mutations
    PROVE  Changes(m) \subseteq Invalidates(m)
  BY DEF Mutations, MembersMutations, ControllerMutations, TokenMutations, Changes,
         Invalidates, useInitializeMembers, useAddMerchant, useRemoveMerchant,
         useInitializeController, useSetMembers, useSetFactory, useMintToken,
         useBurnToken, useGetMembersStore, useGetMerchants, useGetControllerStore

(* What the fetches do to a view.                                           *)
LEMMA AskedView ==
    ASSUME NEW v \in View
    PROVE  /\ Ask(v) \in View
           /\ Ask(v).fetch = "asked"
           /\ Ask(v).data = v.data /\ Ask(v).invalid = v.invalid /\ Ask(v).old = v.old
  BY DEF View, Ask

LEMMA JoinedView ==
    ASSUME NEW v \in View
    PROVE  /\ Join(v) \in View
           /\ Join(v) # v => Join(v).fetch = "asked"
           /\ Join(v).data = v.data /\ Join(v).invalid = v.invalid /\ Join(v).old = v.old
  BY AskedView DEF Join

LEMMA InvalidatedView ==
    ASSUME NEW v \in View, connected \in BOOLEAN
    PROVE  /\ Invalidate(v) \in View
           /\ Invalidate(v).invalid
           /\ Invalidate(v).fetch = "answered" => Invalidate(v).missed
  <1> DEFINE w == [v EXCEPT !.invalid = TRUE]
  <1>1. w \in View /\ w.invalid /\ w.fetch = v.fetch
    BY DEF View
  <1>2. CASE connected /\ (v.fetch = "idle" \/ v.data # NoData)
    <2>1. Invalidate(v) = Ask(w)
      BY <1>2 DEF Invalidate
    <2> QED BY <2>1, <1>1, AskedView
  <1>3. CASE ~(connected /\ (v.fetch = "idle" \/ v.data # NoData))
    <2>1. Invalidate(v) = [w EXCEPT !.missed = v.fetch # "idle"]
      BY <1>3 DEF Invalidate
    <2> QED BY <2>1, <1>1 DEF View
  <1> QED BY <1>2, <1>3

-----------------------------------------------------------------------------
(* An action that leaves the chain and what was announced alone, and turns  *)
(* one view into a good one, preserves the invariant.                       *)

Good(q, v) ==
    /\ v \in View
    /\ v.fetch = "answered" /\ ~v.missed => v.got >= acked[q]
    /\ v.data # NoData /\ ~v.invalid /\ ~v.old => v.data >= acked[q]

LEMMA GoodViews ==
    ASSUME Inv, NEW q \in Shown
    PROVE  Good(q, view[q])
  BY DEF Inv, Good, AnswersAreCurrent, ReadYourWrites, TypeOK

LEMMA ViewsChange ==
    ASSUME Inv,
           view' \in [Shown -> View],
           \A q \in Shown : Good(q, view'[q]),
           connected' \in BOOLEAN,
           UNCHANGED <<version, at, wrote, acked>>
    PROVE  Inv'
  BY DEF Inv, Good, TypeOK, AckedIsOnChain, AnswersAreCurrent, ReadYourWrites

LEMMA OneViewChanges ==
    ASSUME Inv, NEW q \in Shown, NEW v, Good(q, v),
           view' = [view EXCEPT ![q] = v],
           UNCHANGED <<version, at, wrote, acked, connected>>
    PROVE  Inv'
  <1>1. view \in [Shown -> View] /\ connected \in BOOLEAN
    BY DEF Inv, TypeOK
  <1>2. view' \in [Shown -> View]
    BY <1>1 DEF Good
  <1>3. \A p \in Shown : Good(p, view'[p])
    BY <1>1, GoodViews
  <1> QED BY <1>1, <1>2, <1>3, ViewsChange

-----------------------------------------------------------------------------
LEMMA InitInv == Init => Inv
  <1> SUFFICES ASSUME Init PROVE Inv
    OBVIOUS
  <1>1. Nothing \in [Shown -> Nat] /\ \A q \in Shown : Nothing[q] = 0
    BY DEF Nothing
  <1>2. \A q \in Shown : view[q].fetch = "idle" /\ view[q].data = NoData
    BY DEF Init
  <1>3. view \in [Shown -> View]
    BY DEF Init, View, Data
  <1>4. TypeOK
    BY <1>1, <1>3 DEF Init, TypeOK
  <1>5. AckedIsOnChain
    <2>1. \A q \in Shown : version[q] = 0 /\ acked[q] = 0
      BY <1>1 DEF Init
    <2>2. \A q \in Shown, m \in Mutations : wrote[m][q] = 0
      BY <1>1 DEF Init
    <2> QED BY <2>1, <2>2 DEF AckedIsOnChain
  <1> QED BY <1>2, <1>4, <1>5 DEF Inv, AnswersAreCurrent, ReadYourWrites

LEMMA QueryInv ==
    ASSUME Inv, NEW q \in Shown, QueryStep(q)
    PROVE  Inv'
  <1> DEFINE v == view[q]
  <1>1. /\ v \in View /\ Good(q, v) /\ view \in [Shown -> View]
        /\ version \in [Shown -> Nat] /\ acked \in [Shown -> Nat]
        /\ acked[q] <= version[q]
    BY GoodViews DEF Inv, TypeOK, AckedIsOnChain
  <1>2. CASE Refocus(q)
    <2>1. view' = [view EXCEPT ![q] = Join(v)]
      BY <1>2 DEF Refocus
    <2>2. Good(q, Join(v))
      BY <1>1, JoinedView DEF Good
    <2> QED BY <1>2, <2>1, <2>2, OneViewChanges DEF Refocus
  <1>3. CASE Answer(q)
    <2> DEFINE w == [v EXCEPT !.fetch = "answered", !.got = version[q]]
    <2>1. view' = [view EXCEPT ![q] = w]
      BY <1>1, <1>3 DEF Answer
    <2>2. Good(q, w)
      BY <1>1 DEF Good, View
    <2> QED BY <1>3, <2>1, <2>2, OneViewChanges DEF Answer
  <1>4. CASE Settle(q)
    <2> DEFINE w == [data |-> v.got, invalid |-> FALSE, fetch |-> "idle", got |-> 0,
                     missed |-> FALSE, old |-> v.missed]
    <2>1. view' = [view EXCEPT ![q] = w]
      BY <1>4 DEF Settle
    <2>2. v.fetch = "answered"
      BY <1>4 DEF Settle
    <2>3. w \in View
      BY <1>1 DEF View, Data
    <2>4. Good(q, w)
      BY <1>1, <2>2, <2>3 DEF Good
    <2> QED BY <1>4, <2>1, <2>4, OneViewChanges DEF Settle
  <1>5. CASE Retry(q)
    <2>1. view' = [view EXCEPT ![q] = Ask(v)]
      BY <1>5 DEF Retry
    <2>2. Good(q, Ask(v))
      BY <1>1, AskedView DEF Good
    <2> QED BY <1>5, <2>1, <2>2, OneViewChanges DEF Retry
  <1>6. CASE FetchFails(q)
    <2> DEFINE w == [v EXCEPT !.fetch = "idle", !.got = 0, !.missed = FALSE]
    <2>1. view' = [view EXCEPT ![q] = w]
      BY <1>1, <1>6 DEF FetchFails
    <2>2. Good(q, w)
      BY <1>1 DEF Good, View
    <2> QED BY <1>6, <2>1, <2>2, OneViewChanges DEF FetchFails
  <1> QED BY <1>2, <1>3, <1>4, <1>5, <1>6 DEF QueryStep

LEMMA ConnectionInv ==
    ASSUME Inv, Connect \/ Disconnect
    PROVE  Inv'
  <1>1. view \in [Shown -> View] /\ connected \in BOOLEAN
    BY DEF Inv, TypeOK
  <1>2. CASE Connect
    <2>1. \A q \in Shown : view[q] \in View /\ Good(q, Join(view[q]))
      BY <1>1, GoodViews, JoinedView DEF Good
    <2>2. view' \in [Shown -> View] /\ \A q \in Shown : view'[q] = Join(view[q])
      BY <1>1, <1>2, JoinedView DEF Connect
    <2> QED BY <1>2, <2>1, <2>2, ViewsChange DEF Connect
  <1>3. CASE Disconnect
    BY <1>1, <1>3, GoodViews, ViewsChange DEF Disconnect
  <1> QED BY <1>2, <1>3

-----------------------------------------------------------------------------
(* The mutations.                                                           *)

LEMMA ChangedGrows ==
    ASSUME Inv, NEW m \in Mutations
    PROVE  /\ Changed(m) \in [Shown -> Nat]
           /\ \A q \in Shown : Changed(m)[q] >= version[q]
  BY DEF Inv, TypeOK, Changed

LEMMA VersionsGrow ==
    ASSUME Inv, NEW m \in Mutations,
           version' = Changed(m),
           at' \in [Mutations -> {"idle", "sent", "landed"}],
           wrote' \in [Mutations -> [Shown -> Nat]],
           \A n \in Mutations : wrote'[n] \in {wrote[n], Changed(m)},
           UNCHANGED <<view, acked, connected>>
    PROVE  Inv'
  <1>1. TypeOK'
    BY ChangedGrows DEF Inv, TypeOK
  <1>2. AckedIsOnChain'
    <2> SUFFICES ASSUME NEW q \in Shown
                 PROVE  /\ acked[q] <= Changed(m)[q]
                        /\ \A n \in Mutations : wrote'[n][q] <= Changed(m)[q]
      BY DEF AckedIsOnChain
    <2>1. /\ version[q] \in Nat /\ acked[q] \in Nat /\ Changed(m)[q] \in Nat
          /\ \A n \in Mutations : wrote[n][q] \in Nat
      BY ChangedGrows DEF Inv, TypeOK
    <2>2. Changed(m)[q] >= version[q]
      BY ChangedGrows
    <2>3. acked[q] <= version[q] /\ \A n \in Mutations : wrote[n][q] <= version[q]
      BY DEF Inv, AckedIsOnChain
    <2>4. ASSUME NEW n \in Mutations PROVE wrote'[n][q] <= Changed(m)[q]
      <3>1. CASE wrote'[n] = wrote[n]
        BY <2>1, <2>2, <2>3, <3>1
      <3>2. CASE wrote'[n] = Changed(m)
        BY <2>1, <3>2
      <3> QED BY <3>1, <3>2
    <2> QED BY <2>1, <2>2, <2>3, <2>4
  <1>3. AnswersAreCurrent' /\ ReadYourWrites'
    BY DEF Inv, AnswersAreCurrent, ReadYourWrites
  <1> QED BY <1>1, <1>2, <1>3 DEF Inv

LEMMA SucceedInv ==
    ASSUME Inv, NEW m \in Mutations, Succeed(m)
    PROVE  Inv'
  <1>1. /\ version \in [Shown -> Nat] /\ view \in [Shown -> View]
        /\ at \in [Mutations -> {"idle", "sent", "landed"}]
        /\ wrote \in [Mutations -> [Shown -> Nat]]
        /\ acked \in [Shown -> Nat] /\ connected \in BOOLEAN
    BY DEF Inv, TypeOK
  <1>2. Nothing \in [Shown -> Nat] /\ \A q \in Shown : Nothing[q] = 0
    BY DEF Nothing
  <1>3. \A q \in Shown : view[q] \in View /\ Good(q, view[q])
    BY <1>1, GoodViews
  <1>4. \A q \in Shown :
          view'[q] = IF q \in Invalidates(m) THEN Invalidate(view[q]) ELSE view[q]
    BY DEF Succeed
  <1>5. view' \in [Shown -> View]
    BY <1>1, InvalidatedView DEF Succeed
  <1>6. acked' \in [Shown -> Nat]
    BY <1>1 DEF Succeed
  <1>7. at' \in [Mutations -> {"idle", "sent", "landed"}]
    BY <1>1 DEF Succeed
  <1>8. /\ wrote' \in [Mutations -> [Shown -> Nat]]
        /\ \A n \in Mutations : wrote'[n] \in {wrote[n], Nothing}
    BY <1>1, <1>2 DEF Succeed
  <1>9. version' = version /\ connected' = connected
    BY DEF Succeed
  <1>10. TypeOK'
    BY <1>1, <1>5, <1>6, <1>7, <1>8, <1>9 DEF TypeOK
  <1>11. AckedIsOnChain'
    <2> SUFFICES ASSUME NEW q \in Shown
                 PROVE  acked'[q] <= version[q]
                        /\ \A n \in Mutations : wrote'[n][q] <= version[q]
      BY <1>9 DEF AckedIsOnChain
    <2>1. acked[q] <= version[q] /\ \A n \in Mutations : wrote[n][q] <= version[q]
      BY DEF Inv, AckedIsOnChain
    <2>2. acked'[q] \in {acked[q], wrote[m][q]}
      BY DEF Succeed
    <2>3. acked'[q] <= version[q]
      BY <2>1, <2>2
    <2>4. ASSUME NEW n \in Mutations
          PROVE  wrote'[n][q] <= version[q]
      <3>1. CASE wrote'[n] = wrote[n]
        BY <2>1, <3>1
      <3>2. CASE wrote'[n] = Nothing
        BY <1>1, <1>2, <3>2
      <3> QED BY <1>8, <3>1, <3>2
    <2> QED BY <2>3, <2>4
  <1>12. ASSUME NEW q \in Shown
         PROVE  /\ view'[q].fetch = "answered" /\ ~view'[q].missed =>
                      view'[q].got >= acked'[q]
                /\ view'[q].data # NoData /\ ~view'[q].invalid /\ ~view'[q].old =>
                      view'[q].data >= acked'[q]
    <2>1. CASE q \in Invalidates(m)
      BY <1>1, <1>3, <1>4, <2>1, InvalidatedView
    <2>2. CASE q \notin Invalidates(m)
      <3>1. q \notin Changes(m)
        BY <2>2, HooksInvalidate
      <3>2. acked'[q] = acked[q]
        BY <3>1 DEF Succeed
      <3> QED BY <1>3, <1>4, <2>2, <3>2 DEF Good
    <2> QED BY <2>1, <2>2
  <1> QED BY <1>10, <1>11, <1>12 DEF Inv, AnswersAreCurrent, ReadYourWrites

LEMMA MutationInv ==
    ASSUME Inv, NEW m \in Mutations, MutationStep(m)
    PROVE  Inv'
  <1>1. /\ version \in [Shown -> Nat] /\ view \in [Shown -> View]
        /\ at \in [Mutations -> {"idle", "sent", "landed"}]
        /\ wrote \in [Mutations -> [Shown -> Nat]]
    BY DEF Inv, TypeOK
  <1>2. CASE Mutate(m) \/ Refuse(m)
    <2>1. /\ at' \in [Mutations -> {"idle", "sent", "landed"}]
          /\ UNCHANGED <<version, view, wrote, acked, connected>>
      BY <1>1, <1>2 DEF Mutate, Refuse
    <2> QED BY <2>1 DEF Inv, TypeOK, AckedIsOnChain, AnswersAreCurrent, ReadYourWrites
  <1>3. CASE Land(m)
    <2>1. /\ at' \in [Mutations -> {"idle", "sent", "landed"}]
          /\ wrote' \in [Mutations -> [Shown -> Nat]]
          /\ \A n \in Mutations : wrote'[n] \in {wrote[n], Changed(m)}
      BY <1>1, <1>3, ChangedGrows DEF Land
    <2> QED BY <1>3, <2>1, VersionsGrow DEF Land
  <1>4. CASE Succeed(m)
    BY <1>4, SucceedInv
  <1>5. CASE TimeOut(m)
    <2>1. Nothing \in [Shown -> Nat] /\ \A q \in Shown : Nothing[q] = 0
      BY DEF Nothing
    <2>2. /\ at' \in [Mutations -> {"idle", "sent", "landed"}]
          /\ wrote' \in [Mutations -> [Shown -> Nat]]
          /\ \A n \in Mutations : wrote'[n] \in {wrote[n], Nothing}
          /\ UNCHANGED <<version, view, acked, connected>>
      BY <1>1, <1>5, <2>1 DEF TimeOut
    <2>3. \A n \in Mutations, q \in Shown : wrote'[n][q] \in {wrote[n][q], 0}
      BY <2>1, <2>2
    <2>4. AckedIsOnChain'
      BY <1>1, <2>2, <2>3 DEF Inv, AckedIsOnChain
    <2> QED BY <2>2, <2>4 DEF Inv, TypeOK, AnswersAreCurrent, ReadYourWrites
  <1> QED BY <1>2, <1>3, <1>4, <1>5 DEF MutationStep

LEMMA ElsewhereInv ==
    ASSUME Inv, NEW m \in Mutations, Elsewhere(m)
    PROVE  Inv'
  BY VersionsGrow DEF Elsewhere, Inv, TypeOK

LEMMA StepInv == Inv /\ [Next]_vars => Inv'
  <1> SUFFICES ASSUME Inv, [Next]_vars PROVE Inv'
    OBVIOUS
  <1>1. CASE Next
    BY <1>1, ConnectionInv, QueryInv, MutationInv, ElsewhereInv DEF Next, AloneNext
  <1>2. CASE UNCHANGED vars
    BY <1>2 DEF vars, Inv, TypeOK, AckedIsOnChain, AnswersAreCurrent, ReadYourWrites
  <1> QED BY <1>1, <1>2

LEMMA SpecInv == Spec => []Inv
  BY InitInv, StepInv, PTL DEF Spec

(* The hooks' state keeps its types: no data is ever made of a request that *)
(* was not answered.                                                        *)
THEOREM DappTypeCorrect == Spec => []TypeOK
  <1>1. Inv => TypeOK
    BY DEF Inv
  <1> QED BY <1>1, SpecInv, PTL

(* Once a success was announced, no data that counts as current is from     *)
(* before it, but for an answer that an invalidation could not stop.        *)
THEOREM UsersReadTheirWrites == Spec => []ReadYourWrites
  <1>1. Inv => ReadYourWrites
    BY DEF Inv
  <1> QED BY <1>1, SpecInv, PTL
=============================================================================
