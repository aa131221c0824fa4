----------------------------- MODULE Deployment -----------------------------
(***************************************************************************)
(* Setting the system up (helpers/test-setup.ts), as the suites under tests *)
(* do it. Each process has its own copy of the module's state, which it     *)
(* loses when it ends. Its suites call the exported functions in one order; *)
(* a function awaits one thing after the other, and whatever throws fails   *)
(* the suite: the next one, in the same process, starts over.               *)
(*                                                                          *)
(* On chain are the accounts of the three programs and any number of token  *)
(* mints, numbered as their key pairs are drawn; 0 is null. A suite draws    *)
(* key pairs for a custodian and a merchant of its own.                      *)
(***************************************************************************)
EXTENDS Naturals, Sequences

CONSTANTS
    Processes,
    Keys, NoKey, NoAccount, U16Max,      \* see Members
    wallet,                              \* the deployer's key; a bound: those drawn
    MembersId, ControllerId, FactoryId,  \* the ids of the three programs
    ControllerPda,                       \* the controller_store PDA
    Starts,                              \* where suites begin in the Script
    MaxMints,                            \* bound: key pairs for mints
    MaxFaults                            \* bound: requests that fail

VARIABLES
    members_store, merchant_infos,  \* the Members program
    controller_store,               \* the Controller, with its token_mint
    factory_store,                  \* the controller the Factory has, if any
    mint_authority,                 \* of each token mint
    minted,                         \* key pairs drawn
    proc,                           \* each process
    late,    \* transactions that may land though nobody waits for them
    faults   \* requests that failed so far

membersVars == <<members_store, merchant_infos>>
chain == <<members_store, merchant_infos, controller_store, factory_store, mint_authority>>
vars ==
    <<members_store, merchant_infos, controller_store, factory_store,
      mint_authority, minted, proc, late, faults>>

Members == INSTANCE Members

ASSUME WalletAssumption == wallet \in Keys
ASSUME BoundAssumption == MaxMints \in Nat /\ MaxFaults \in Nat
\* See Members.
ASSUME MembersAssumption ==
    NoKey \notin Keys /\ U16Max \in Nat \ {0} /\ NoAccount \notin Members!MembersStore

-----------------------------------------------------------------------------
Null == 0
Mints == 1..MaxMints
Programs == {"members", "controller", "factory"}

\* The calls of the before hook of tests/03-factory.ts.
Script ==
    <<"initializeMembers", "initializeController", "initializeFactory",
      "configureController", "setCustodian", "addMerchant">>

ASSUME StartsAssumption == Starts \subseteq DOMAIN Script

Fetches == [members |-> "fetchMembers", controller |-> "fetchController",
            factory |-> "fetchFactory"]
Initializes == [members |-> "membersInitialize", controller |-> "controllerInitialize",
                factory |-> "factoryInitialize"]

Ops ==
    {Initializes[prog] : prog \in Programs}
      \union {"createMint", "setAuthority", "setMembers", "setFactory",
              "setCustodian", "addMerchant"}

Transaction == [op : Ops, mint : Mints \union {Null}, key : Keys \union {NoKey}]

ControllerStore ==
    [owner : Keys, token_mint : Mints,
     members : {NoKey, MembersId}, factory : {NoKey, FactoryId}]

\* What exists is not the missing account, and nothing is the null key.
ASSUME AccountAssumption ==
    /\ NoAccount \notin ControllerStore
    /\ NoAccount \notin {ControllerId, ControllerPda, wallet}
    /\ NoKey \notin {MembersId, FactoryId}

\* The call of the script a process makes (0: none), and what it may await.
Runs == 0..Len(Script)
Awaits == {"idle"} \union {Fetches[prog] : prog \in Programs} \union Ops

\* A process is at some point of some call; it has its sharedState, with the
\* stores whose addresses are known, and isInitialized; initializeController has
\* its local tokenMint, and returned some mint last. What it sends may be about
\* the key of the suite's custodian or merchant.
Process ==
    [run : Runs, at : Awaits, known : SUBSET Programs,
     sharedMint : Mints \union {Null}, isInitialized : SUBSET Programs,
     tokenMint : Mints \union {Null}, returned : Mints \union {Null},
     key : Keys \union {NoKey}]

\* Nothing is sent to an account whose address is null.
TypeOK ==
    /\ Members!TypeOK
    /\ controller_store \in ControllerStore \union {NoAccount}
    /\ factory_store \in {NoAccount, ControllerId}
    /\ mint_authority \in [Mints -> {NoAccount, wallet, ControllerPda}]
    /\ minted \in 0..MaxMints
    /\ proc \in [Processes -> Process]
    /\ \A p \in Processes :
          /\ proc[p].at \in {"setMembers", "setFactory"} => "controller" \in proc[p].known
          /\ proc[p].at \in {"setCustodian", "addMerchant"} => "members" \in proc[p].known
          /\ proc[p].at \in {"setAuthority", "controllerInitialize"} =>
                proc[p].tokenMint # Null
    /\ late \subseteq Transaction
    /\ faults \in 0..MaxFaults

Fresh ==
    [run |-> 0, at |-> "idle", known |-> {}, sharedMint |-> Null,
     isInitialized |-> {}, tokenMint |-> Null, returned |-> Null, key |-> NoKey]

Init ==
    /\ Members!Init
    /\ controller_store = NoAccount /\ factory_store = NoAccount
    /\ mint_authority = [m \in Mints |-> NoAccount]
    /\ minted = 0
    /\ proc = [p \in Processes |-> Fresh]
    /\ late = {} /\ faults = 0

-----------------------------------------------------------------------------
(* What the transactions do. All are signed by the deployer's wallet.      *)

ProgramOp(tx) ==
    /\ \/ tx.op = "membersInitialize" /\ Members!Initialize(wallet)
       \/ tx.op = "setCustodian" /\ Members!SetCustodian(wallet, tx.key)
       \/ tx.op = "addMerchant" /\ Members!AddMerchant(wallet, tx.key)
    /\ UNCHANGED <<controller_store, factory_store, mint_authority>>

TokenOp(tx) ==
    /\ \/ /\ tx.op = "createMint"
          /\ mint_authority[tx.mint] = NoAccount
          /\ mint_authority' = [mint_authority EXCEPT ![tx.mint] = wallet]
       \/ /\ tx.op = "setAuthority"
          /\ mint_authority[tx.mint] = wallet
          /\ mint_authority' = [mint_authority EXCEPT ![tx.mint] = ControllerPda]
    /\ UNCHANGED <<membersVars, controller_store, factory_store>>

ControllerOp(tx) ==
    /\ \/ /\ tx.op = "controllerInitialize"
          /\ controller_store = NoAccount
          /\ mint_authority[tx.mint] # NoAccount
          /\ controller_store' =
                [owner |-> wallet, token_mint |-> tx.mint, members |-> NoKey, factory |-> NoKey]
       \/ /\ tx.op = "setMembers"
          /\ controller_store # NoAccount /\ controller_store.owner = wallet
          /\ controller_store' = [controller_store EXCEPT !.members = MembersId]
       \/ /\ tx.op = "setFactory"
          /\ controller_store # NoAccount /\ controller_store.owner = wallet
          /\ controller_store' = [controller_store EXCEPT !.factory = FactoryId]
    /\ UNCHANGED <<membersVars, factory_store, mint_authority>>

FactoryOp(tx) ==
    /\ tx.op = "factoryInitialize"
    /\ factory_store = NoAccount
    /\ factory_store' = ControllerId
    /\ UNCHANGED <<membersVars, controller_store, mint_authority>>

Execute(tx) == ProgramOp(tx) \/ TokenOp(tx) \/ ControllerOp(tx) \/ FactoryOp(tx)

Exists(prog) ==
    CASE prog = "members"    -> members_store # NoAccount
      [] prog = "controller" -> controller_store # NoAccount
      [] prog = "factory"    -> factory_store # NoAccount

\* All that the script is for; each suite has members of its own in mind, and
\* any will do.
Up ==
    /\ controller_store # NoAccount
    /\ controller_store.members = MembersId /\ controller_store.factory = FactoryId
    /\ factory_store # NoAccount
    /\ members_store # NoAccount
    /\ members_store.custodian # NoKey /\ merchant_infos # {}

-----------------------------------------------------------------------------
(* The functions: each disjunct runs to the next await.                    *)

Become(p, s) == proc' = [proc EXCEPT ![p] = s]

Returned(s) ==
    [s EXCEPT !.at = "idle", !.key = NoKey, !.run = IF @ = Len(Script) THEN 0 ELSE @ + 1]

Thrown(s) == [s EXCEPT !.at = "idle", !.key = NoKey, !.run = 0]

\* initializeController returns the mint, too.
Initialized(s, prog) ==
    LET t == IF prog = "controller" THEN [s EXCEPT !.returned = s.tokenMint] ELSE s IN
    Returned([t EXCEPT !.isInitialized = @ \union {prog}])

Calls(p, function) ==
    LET s == proc[p] IN s.at = "idle" /\ s.run > 0 /\ Script[s.run] = function

\* A suite begins, with what is left of the script from some call on, unless
\* there is nothing left to set up.
Begin(p) ==
    /\ proc[p].run = 0
    /\ ~Up
    /\ \E k \in Starts : Become(p, [proc[p] EXCEPT !.run = k])
    /\ UNCHANGED <<chain, minted, late, faults>>

\* initializeMembers and initializeFactory, up to the fetch; force is a
\* parameter that no suite passes.
InitializeProgram(p, function, prog) ==
    LET s == proc[p] IN
    /\ Calls(p, function)
    /\ \E force \in BOOLEAN :
          Become(p, IF prog \in s.isInitialized /\ ~force THEN Returned(s)
                    ELSE [s EXCEPT !.known = @ \union {prog}, !.at = Fetches[prog]])
    /\ UNCHANGED <<chain, minted, late, faults>>

\* Mutant: there is taken to be a mint.
initializeControllerUnasked(p) ==
    /\ Calls(p, "initializeController")
    /\ Become(p, [proc[p] EXCEPT !.known = @ \union {"controller"},
                                !.tokenMint = proc[p].sharedMint, !.at = "fetchController"])
    /\ UNCHANGED <<chain, minted, late, faults>>

\* initializeController, the same way, if there is no mint to be created.
initializeController(p) ==
    LET s == proc[p] IN
    /\ Calls(p, "initializeController")
    /\ \E force \in BOOLEAN :
          \/ /\ "controller" \in s.isInitialized /\ ~force
             /\ Become(p, Returned([s EXCEPT !.returned = s.sharedMint]))
             /\ UNCHANGED minted
          \/ /\ "controller" \notin s.isInitialized \/ force
             /\ s.sharedMint # Null
             /\ Become(p, [s EXCEPT !.known = @ \union {"controller"},
                                    !.tokenMint = s.sharedMint, !.at = "fetchController"])
             /\ UNCHANGED minted
          \/ /\ "controller" \notin s.isInitialized \/ force
             /\ s.sharedMint = Null
             /\ minted < MaxMints
             /\ minted' = minted + 1
             /\ Become(p, [s EXCEPT !.known = @ \union {"controller"},
                                    !.tokenMint = minted + 1, !.at = "createMint"])
    /\ UNCHANGED <<chain, late, faults>>

\* The key pairs nobody has drawn; or drawn in vain, which comes to the same.
Undrawn ==
    Keys \ ({wallet} \union merchant_infos
               \union {proc[p].key : p \in Processes} \union {tx.key : tx \in late}
               \union {k \in Keys : members_store # NoAccount /\ members_store.custodian = k})

\* Keypair.generate(): a new one, and it makes no difference which.
Generated == {k \in Undrawn : k = CHOOSE key \in Undrawn : TRUE}

\* configureController, setCustodian and addMerchant throw if they lack the
\* address of the store.
Configure(p, function, prog, op, keys) ==
    LET s == proc[p] IN
    /\ Calls(p, function)
    /\ \/ prog \notin s.known /\ Become(p, Thrown(s))
       \/ /\ prog \in s.known
          /\ \E key \in keys : Become(p, [s EXCEPT !.at = op, !.key = key])
    /\ UNCHANGED <<chain, minted, late, faults>>

initializeMembers(p) == InitializeProgram(p, "initializeMembers", "members")
initializeFactory(p) == InitializeProgram(p, "initializeFactory", "factory")
configureController(p) ==
    Configure(p, "configureController", "controller", "setMembers", {NoKey})
setCustodian(p) ==
    Configure(p, "setCustodian", "members", "setCustodian", Generated)
addMerchant(p) ==
    Configure(p, "addMerchant", "members", "addMerchant", Generated)

Call(p) ==
    \/ initializeMembers(p) \/ initializeController(p) \/ initializeFactory(p)
    \/ configureController(p) \/ setCustodian(p) \/ addMerchant(p)

\* The account is there.
Found(p, prog) ==
    /\ proc[p].at = Fetches[prog]
    /\ Exists(prog)
    /\ Become(p, Initialized(proc[p], prog))
    /\ UNCHANGED <<chain, minted, late, faults>>

\* Mutant: the flag is set before the transaction is confirmed.
MissingFlagged(p, prog) ==
    /\ proc[p].at = Fetches[prog]
    /\ IF Exists(prog) THEN faults < MaxFaults /\ faults' = faults + 1
       ELSE UNCHANGED faults
    /\ Become(p, [proc[p] EXCEPT
          !.at = IF prog = "controller" THEN "setAuthority" ELSE Initializes[prog],
          !.isInitialized = @ \union {prog}])
    /\ UNCHANGED <<chain, minted, late>>

\* Mutant: the Controller is initialized before it has the mint.
MissingInitializesFirst(p, prog) ==
    /\ proc[p].at = Fetches[prog]
    /\ IF Exists(prog) THEN faults < MaxFaults /\ faults' = faults + 1
       ELSE UNCHANGED faults
    /\ Become(p, [proc[p] EXCEPT !.at = Initializes[prog]])
    /\ UNCHANGED <<chain, minted, late>>

\* Mutant: what the fetch throws is not caught.
MissingThrows(p, prog) ==
    /\ proc[p].at = Fetches[prog]
    /\ IF Exists(prog) THEN faults < MaxFaults /\ faults' = faults + 1
       ELSE UNCHANGED faults
    /\ Become(p, Thrown(proc[p]))
    /\ UNCHANGED <<chain, minted, late>>

\* The fetch throws. That is taken to say that there is no account, though a
\* request that failed says nothing of the kind.
Missing(p, prog) ==
    /\ proc[p].at = Fetches[prog]
    /\ IF Exists(prog) THEN faults < MaxFaults /\ faults' = faults + 1
       ELSE UNCHANGED faults
    /\ Become(p, [proc[p] EXCEPT
          !.at = IF prog = "controller" THEN "setAuthority" ELSE Initializes[prog]])
    /\ UNCHANGED <<chain, minted, late>>

\* What follows the transaction that is awaited.
Confirmed(s) ==
    CASE s.at = "createMint"           -> [s EXCEPT !.sharedMint = s.tokenMint,
                                                    !.at = "fetchController"]
      [] s.at = "setAuthority"         -> [s EXCEPT !.at = "controllerInitialize"]
      [] s.at = "membersInitialize"    -> Initialized(s, "members")
      [] s.at = "controllerInitialize" -> Initialized(s, "controller")
      [] s.at = "factoryInitialize"    -> Initialized(s, "factory")
      [] s.at = "setMembers"           -> [s EXCEPT !.at = "setFactory"]
      [] OTHER                         -> Returned(s)

Tx(p) == [op |-> proc[p].at, mint |-> proc[p].tokenMint, key |-> proc[p].key]

Land(p) ==
    /\ proc[p].at \in Ops
    /\ Execute(Tx(p))
    /\ Become(p, Confirmed(proc[p]))
    /\ UNCHANGED <<minted, late, faults>>

\* The transaction is refused.
Refused(p) ==
    /\ proc[p].at \in Ops
    /\ ~ENABLED Execute(Tx(p))
    /\ Become(p, Thrown(proc[p]))
    /\ UNCHANGED <<chain, minted, late, faults>>

\* No confirmation comes in time.
GiveUp(p) ==
    /\ proc[p].at \in Ops
    /\ faults < MaxFaults /\ faults' = faults + 1
    /\ late' = late \union {Tx(p)}
    /\ Become(p, Thrown(proc[p]))
    /\ UNCHANGED <<chain, minted>>

LandLate(tx) ==
    /\ late' = late \ {tx}
    /\ Execute(tx)
    /\ UNCHANGED <<minted, proc, faults>>

Expire(tx) ==
    /\ late' = late \ {tx}
    /\ UNCHANGED <<chain, minted, proc, faults>>

\* The process ends, and another takes its place. (One that dies while it
\* awaits something is one that gave up on it first.)
Restart(p) ==
    /\ proc[p].run = 0 /\ proc[p] # Fresh
    /\ Become(p, Fresh)
    /\ UNCHANGED <<chain, minted, late, faults>>

-----------------------------------------------------------------------------
Step(p) ==
    \/ Begin(p) \/ Call(p)
    \/ \E prog \in Programs : Found(p, prog) \/ Missing(p, prog)
    \/ Land(p) \/ Refused(p)

RetryNext ==
    \/ \E p \in Processes : Step(p) \/ GiveUp(p)
    \/ \E tx \in late : LandLate(tx) \/ Expire(tx)

Next == RetryNext \/ \E p \in Processes : Restart(p)

\* The suites of one run; and runs that follow, or run beside, each other.
RetrySpec == Init /\ [][RetryNext]_vars
Spec == Init /\ [][Next]_vars

\* Promises settle, suites follow each other, and requests fail only finitely
\* often, see MaxFaults.
Fairness == \A p \in Processes : WF_vars(Step(p))

RetryFairSpec == RetrySpec /\ Fairness

\* A run that failed is repeated in the end.
FairSpec == Spec /\ Fairness /\ \A p \in Processes : SF_vars(Restart(p))

-----------------------------------------------------------------------------
(* Properties                                                              *)

\* isInitialized is never wrong, whatever fails: what it says has been
\* initialized is on chain, so that the calls it skips had nothing to do.
FlagsAreTrue ==
    \A p \in Processes : \A prog \in proc[p].isInitialized : Exists(prog)

\* Nothing goes into operation half ready, however functions fail between two
\* awaits, are repeated, and interleave: a Controller that exists holds the
\* authority over its mint, and one that has a factory has its members program.
NothingRunsHalfReady ==
    controller_store # NoAccount =>
        /\ mint_authority[controller_store.token_mint] = ControllerPda
        /\ controller_store.factory # NoKey => controller_store.members # NoKey

\* initializeController returns the mint of the Controller. It does in a
\* process that is alone and has not been restarted, however its calls fail and
\* are repeated; the tests assert it of any. The function creates a mint
\* before it looks whether there is a Controller, and returns that one.
ReturnedMintIsTheControllers ==
    \A p \in Processes :
        proc[p].returned # Null =>
            controller_store # NoAccount /\ controller_store.token_mint = proc[p].returned

\* The system is set up in the end. It is if failed runs are repeated. It may
\* never be if they go on in one process: once the wallet has passed the mint
\* to the Controller it cannot pass it again, and initialize is never reached.
DeploymentComesUp == <>Up
=============================================================================
