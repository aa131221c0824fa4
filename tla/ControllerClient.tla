-------------------------- MODULE ControllerClient --------------------------
(***************************************************************************)
(* ControllerClient (client/controller-client.ts) driving the Controller.   *)
(* A method derives the addresses it needs from its arguments and sends one *)
(* transaction. Its rpc() may give up on a transaction that lands later,    *)
(* see Rpc, after its caller has called again.                              *)
(***************************************************************************)
EXTENDS Controller, FiniteSets

CONSTANTS
    Methods,  \* the methods that are called
    MaxLate   \* bound: transactions whose sender has given up waiting

VARIABLES call, late, strays  \* the calls, see Rpc

INSTANCE Rpc

allVars == <<cvars, call, late, strays>>

ProgramMethods == {"setMembers", "setFactory"}
KeyMethods == {"transferOwnership", "transferMintAuthority"}
ClaimMethods == {"initialize", "claimOwnership", "claimMintAuthority"}
\* Methods that throw before they send anything.
Unbuildable == {"mint", "burn"}
MethodNames == ProgramMethods \union KeyMethods \union ClaimMethods \union Unbuildable

ASSUME MethodsAssumption == Methods \subseteq MethodNames

ASSUME LateAssumption == MaxLate \in Nat

Transaction ==
    [method : MethodNames, signer : Keys, arg : Pubkeys \union ProgramIds]

ClientTypeOK == TypeOK /\ RpcTypeOK(Transaction)

-----------------------------------------------------------------------------
(* The transaction each method builds.                                     *)

initialize(tx) == tx.method = "initialize" /\ Initialize(tx.signer)

setMembers(tx) == tx.method = "setMembers" /\ SetMembers(tx.signer, tx.arg)

\* Mutant: the other method's instruction.
setFactoryAsMembers(tx) == tx.method = "setFactory" /\ SetMembers(tx.signer, tx.arg)

setFactory(tx) == tx.method = "setFactory" /\ SetFactory(tx.signer, tx.arg)

transferOwnership(tx) ==
    tx.method = "transferOwnership" /\ TransferOwnership(tx.signer, tx.arg)

claimOwnership(tx) == tx.method = "claimOwnership" /\ ClaimOwnership(tx.signer)

transferMintAuthority(tx) ==
    tx.method = "transferMintAuthority" /\ TransferMintAuthority(tx.signer, tx.arg)

claimMintAuthority(tx) ==
    tx.method = "claimMintAuthority" /\ ClaimMintAuthority(tx.signer)

Sent(tx) ==
    \/ initialize(tx) \/ setMembers(tx) \/ setFactory(tx)
    \/ transferOwnership(tx) \/ claimOwnership(tx)
    \/ transferMintAuthority(tx) \/ claimMintAuthority(tx)

\* The program accepts the transaction.
Accepted(tx) ==
    CASE tx.method = "initialize"         -> CanInitialize
      [] tx.method = "setMembers"         -> CanSetMembers(tx.signer, tx.arg)
      [] tx.method = "setFactory"         -> CanSetFactory(tx.signer, tx.arg)
      [] tx.method = "transferOwnership"  -> CanTransferOwnership(tx.signer, tx.arg)
      [] tx.method = "claimOwnership"     -> CanClaimOwnership(tx.signer)
      [] tx.method = "transferMintAuthority" ->
            CanTransferMintAuthority(tx.signer, tx.arg)
      [] tx.method = "claimMintAuthority" -> CanClaimMintAuthority(tx.signer)

-----------------------------------------------------------------------------
Argument(method) ==
    CASE method \in KeyMethods     -> Keys
      [] method \in ProgramMethods -> Programs
      [] OTHER                     -> {NoKey}

Call(s, method) ==
    /\ method \in Methods \ Unbuildable
    /\ \E arg \in Argument(method) :
          Begin(s, "sent", [method |-> method, signer |-> s, arg |-> arg])
    /\ UNCHANGED cvars

\* mint needs the signature of the factory's PDA, which its caller cannot give,
\* and names no account for it.
mint(s) ==
    /\ "mint" \in Methods
    /\ Begin(s, "failed", [method |-> "mint", signer |-> s, arg |-> NoKey])
    /\ UNCHANGED cvars

\* burn: the program has no such instruction, so Anchor has no builder for it.
burn(s) ==
    /\ "burn" \in Methods
    /\ Begin(s, "failed", [method |-> "burn", signer |-> s, arg |-> NoKey])
    /\ UNCHANGED cvars

\* The transaction lands, and rpc() returns its signature.
Land(s) == Return(s) /\ Sent(call[s].tx)

\* The program refuses it, and rpc() throws.
Fail(s) ==
    /\ Refuse(s)
    /\ ~Accepted(call[s].tx)
    /\ UNCHANGED cvars

\* It lands though its sender has given up.
LandLate(tx) == Stray(tx) /\ Sent(tx)

\* The wallet that holds the mint authority passes it to the PDA, as the setup
\* does before it initializes the Controller.
HandIn(k) ==
    /\ controller_store = NoAccount
    /\ Token!SetAuthority(k, ControllerPda)
    /\ UNCHANGED <<controller_store, call, late, strays>>

ClientNext ==
    \/ \E s \in Keys :
          \/ \E method \in MethodNames : Call(s, method)
          \/ mint(s) \/ burn(s)
          \/ Land(s) \/ Fail(s)
          \/ GiveUp(s) /\ UNCHANGED cvars
          \/ HandIn(s)
    \/ \E tx \in late : LandLate(tx) \/ (Expire(tx) /\ UNCHANGED cvars)

ClientInit == Init /\ RpcInit

ClientSpec == ClientInit /\ [][ClientNext]_allVars

-----------------------------------------------------------------------------
(* Properties                                                              *)

getControllerStore == controller_store

\* What a call stands for once it has ended, however it ended: an owner's call
\* cannot fail. A nomination for the mint authority may have been used.
Stands(s, phase, tx) ==
    LET store == getControllerStore
        owns  == store # NoAccount /\ store.owner = s IN
    /\ tx.method \in {"initialize", "claimOwnership"} /\ phase = "ok" => owns
    /\ owns =>
          /\ tx.method = "setMembers" => store.members = tx.arg
          /\ tx.method = "setFactory" => store.factory = tx.arg
          /\ tx.method = "transferOwnership" => store.pending_owner = tx.arg
          /\ tx.method = "transferMintAuthority" =>
                store.pending_mint_authority \in {tx.arg, NoKey}

\* An owner's last word stands for as long as it is the owner, whoever else
\* calls whatever, and of the callers that race to initialize the program one
\* at most returns. Only a transaction of its own that it had given up on may
\* overrule it: a factory that was replaced is back when an earlier setFactory,
\* sent twice, lands late.
LastWordStands ==
    \A s \in Keys :
        call[s].phase \in {"ok", "refused"} /\ s \notin strays =>
            Stands(s, call[s].phase, call[s].tx)

\* mint is documented to take a "Keypair with mint authority". The key that
\* holds the mint authority cannot mint with it.
AuthorityMints ==
    \A s \in Keys :
        call[s].phase = "failed" /\ call[s].tx.method = "mint" =>
            controller_store = NoAccount \/ mint_authority # s
=============================================================================
