---------------------------- MODULE MembersClient ----------------------------
(***************************************************************************)
(* MembersClient (client/members-client.ts) driving the Members program.    *)
(* A method derives the addresses it needs from its arguments and sends one *)
(* transaction. Its rpc() may give up on a transaction that lands later,    *)
(* see Rpc, after its caller has called again.                              *)
(***************************************************************************)
EXTENDS Members

CONSTANT MaxLate  \* bound: transactions whose sender has given up waiting

VARIABLES call, late, strays  \* the calls, see Rpc

INSTANCE Rpc

allVars == <<mvars, call, late, strays>>

KeyMethods == {"setCustodian", "addMerchant", "removeMerchant", "transferOwnership"}
MethodNames == KeyMethods \union {"initialize", "claimOwnership"}

ASSUME LateAssumption == MaxLate \in Nat

Transaction == [method : MethodNames, signer : Keys, key : Pubkeys]

ClientTypeOK == TypeOK /\ RpcTypeOK(Transaction)

-----------------------------------------------------------------------------
(* The transaction each method builds.                                     *)

initialize(tx) == tx.method = "initialize" /\ Initialize(tx.signer)

setCustodian(tx) == tx.method = "setCustodian" /\ SetCustodian(tx.signer, tx.key)

\* The account that is made, and the one that is closed, is the PDA of the key
\* passed, which is the one the program derives.
addMerchant(tx) == tx.method = "addMerchant" /\ AddMerchant(tx.signer, tx.key)

removeMerchant(tx) == tx.method = "removeMerchant" /\ RemoveMerchant(tx.signer, tx.key)

transferOwnership(tx) ==
    tx.method = "transferOwnership" /\ TransferOwnership(tx.signer, tx.key)

claimOwnership(tx) == tx.method = "claimOwnership" /\ ClaimOwnership(tx.signer)

Sent(tx) ==
    \/ initialize(tx) \/ setCustodian(tx)
    \/ addMerchant(tx) \/ removeMerchant(tx)
    \/ transferOwnership(tx) \/ claimOwnership(tx)

\* The program accepts the transaction.
Accepted(tx) ==
    CASE tx.method = "initialize"        -> CanInitialize
      [] tx.method = "setCustodian"      -> CanSetCustodian(tx.signer, tx.key)
      [] tx.method = "addMerchant"       -> CanAddMerchant(tx.signer, tx.key)
      [] tx.method = "removeMerchant"    -> CanRemoveMerchant(tx.signer, tx.key)
      [] tx.method = "transferOwnership" -> CanTransferOwnership(tx.signer, tx.key)
      [] tx.method = "claimOwnership"    -> CanClaimOwnership(tx.signer)

-----------------------------------------------------------------------------
Call(s, method) ==
    /\ \E key \in IF method \in KeyMethods THEN Keys ELSE {NoKey} :
          Begin(s, "sent", [method |-> method, signer |-> s, key |-> key])
    /\ UNCHANGED mvars

\* The transaction lands, and rpc() returns its signature.
Land(s) == Return(s) /\ Sent(call[s].tx)

\* The program refuses it, and rpc() throws.
Fail(s) ==
    /\ Refuse(s)
    /\ ~Accepted(call[s].tx)
    /\ UNCHANGED mvars

\* It lands though its sender has given up.
LandLate(tx) == Stray(tx) /\ Sent(tx)

ClientNext ==
    \/ \E s \in Keys :
          \/ \E method \in MethodNames : Call(s, method)
          \/ Land(s) \/ Fail(s)
          \/ GiveUp(s) /\ UNCHANGED mvars
    \/ \E tx \in late : LandLate(tx) \/ (Expire(tx) /\ UNCHANGED mvars)

ClientInit == Init /\ RpcInit

ClientSpec == ClientInit /\ [][ClientNext]_allVars

-----------------------------------------------------------------------------
(* What the client reads.                                                  *)

getMembersStore == members_store

getMerchantInfo(merchant) == merchant \in merchant_infos

-----------------------------------------------------------------------------
(* Properties                                                              *)

\* What a call stands for once it has ended, however it ended. An owner whose
\* addMerchant throws finds the merchant there all the same, and one whose
\* removeMerchant throws finds it gone: a retry that fails has nothing to redo.
Stands(s, phase, tx) ==
    LET store == getMembersStore
        owns  == store # NoAccount /\ store.owner = s IN
    /\ tx.method \in {"initialize", "claimOwnership"} /\ phase = "ok" => owns
    /\ owns =>
          /\ tx.method = "setCustodian" => store.custodian = tx.key
          /\ tx.method = "addMerchant" => getMerchantInfo(tx.key)
          /\ tx.method = "removeMerchant" => ~getMerchantInfo(tx.key)
          /\ tx.method = "transferOwnership" => store.pending_owner = tx.key

\* An owner's last word stands for as long as it is the owner, whoever else
\* calls whatever, and of the callers that race to initialize the program one
\* at most returns. Only a transaction of its own that it had given up on may
\* overrule it: a merchant that was removed is back when an earlier
\* addMerchant, sent twice, lands late.
LastWordStands ==
    \A s \in Keys :
        call[s].phase \in {"ok", "refused"} /\ s \notin strays =>
            Stands(s, call[s].phase, call[s].tx)
=============================================================================
