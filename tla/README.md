# A verification of the Solana wBTC protocol

TLA+ models of the three Solana programs of this repository (`programs/members`,
`programs/controller`, `programs/factory`), of the TypeScript clients that drive them
(`client/*-client.ts`), of the React hooks on top of the clients (`client/hooks.ts`) and
of the deployment helpers (`helpers/test-setup.ts`); their model-checking with TLC; and
theorems about them checked by TLAPS. `PROJECT.json` maps every definition to the lines
it translates and lists the runs, mutants, hazards, findings and theorems.

## The system

| component | state it keeps | operations | modelled in |
|---|---|---|---|
| Members program | `MembersStore` (owner, custodian, `merchant_count: u16`, pending owner), one `MerchantInfo` account per merchant | initialize, set_custodian, add_merchant, remove_merchant, transfer_ownership, claim_ownership | `Members` |
| Controller program | `ControllerStore` (ids of the Members and Factory programs, token mint, owner, pending owner, pending mint authority); its PDA holds the mint authority of the token | initialize, set_members, set_factory, mint, transfer_ownership, claim_ownership, transfer_mint_authority, claim_mint_authority | `Controller` |
| Factory program | `FactoryStore` (two counters, the controller's id), a `RequestAccount` per mint and burn request at the PDA of its nonce, deposit addresses per merchant | initialize, two address setters, add/cancel/confirm/reject_mint_request, burn, confirm_burn_request | `Factory` |
| SPL token program (external) | mint authority, supply, balances | mint, burn, transfer, set authority | `SplToken` |
| FactoryClient | none between calls; within a call, what it read before it sends | a method per Factory instruction, `closeRequest`, queries, `getAllRequestAccounts` | `FactoryClient`, `RequestList` |
| MembersClient | none | a method per Members instruction, `getAllMerchants` | `MembersClient`, without the latter |
| ControllerClient | none | a method per Controller instruction, `mint` and `burn`, which cannot work | `ControllerClient` |
| React hooks | the cache of react-query: each query's data and what goes on about it | three queries, eight mutations and what each invalidates | `Dapp` |
| Test setup | per process: `isInitialized`, `sharedState` (addresses and the token mint) | initializeMembers, initializeController, initializeFactory, configureController, setCustodian, addMerchant | `Deployment` |
| client-client.ts, index.ts, migrations/deploy.ts, events, error codes | - | - | - |

How they interact. The Factory finds the Controller through `factory_store.controller`,
the Members program through `controller_store.members`, and reads their accounts to
learn who is the custodian and who is a merchant. `confirm_mint_request` calls
`Controller.mint` with the signature of the Factory's PDA; `mint` accepts it if the
Controller's owner has set that program as the factory, and calls the token program
with the signature of its own PDA. `burn` calls the token program directly. The
clients read accounts over RPC, derive addresses from them and send transactions
through Anchor's `rpc()`. The hooks call the clients and cache what they read. The setup
functions send the initializing transactions, keep flags about them in the process, and
are called by the test suites, one after the other.

What is hard about it. Each instruction is atomic, but a protocol run is made of
instructions of several people: roles, addresses, configuration and the mint
authority change between any two of them. Requests live through all that. Client
methods read first and send later, so that what they read is stale when it is used;
the outcome of a transaction that was not confirmed in time is unknown to the caller,
and it may land after the caller has called again. Lists are read one account at a time.
A cache is invalidated while fetches are under way. A setup fails between two of its
awaits and is repeated, by the same process or by another. `PROJECT.json` ("hazards")
lists these at their lines.

What makes each part correct:

- Members, Controller: ownership moves only by nomination and claim; `merchant_count`
  never overstates the merchants; the mint authority leaves the PDA only for the
  standing nominee, once per nomination.
- Factory: requests fill the counters, so the account a new request needs is free;
  a request's terms are fixed and its hash pins them; it is settled once; while the
  factory is the issuer, tokens come into being only by approving a pending mint
  request; a burn request records tokens that really were burned; a requester can
  withdraw a pending mint request whatever the owners do.
- Clients: a call that returns did what its name says; an owner's last word stands
  however its calls end; a transaction that lands late is still about what its sender
  decided; lists err on the safe side; requests get through.
- Hooks: users read their own writes.
- Setup: flags are true, nothing goes into operation half ready, and repeating a failed
  run sets the system up in the end.

## Modules

- **`Handover`** - abstract: a role with a holder and a nominee. Implemented by
  `Members` and by `Controller` (refinement mapping: owner and pending_owner).
- **`Members`**, **`Controller`**, **`SplToken`** - one action per instruction; the
  first parameter is the signer. The guard is the conjunction of the account
  constraints (`has_one`, `init`, `constraint`, PDA seeds) and the `require!`s; a
  failed check reverts the transaction, so it is a step that is not taken. `CanAddMerchant`
  and its like are these guards, calls into other programs included; what is left of an
  instruction is assignments, so that it is enabled when its guard holds. A missing
  account is `NoAccount`; `Pubkey::default()` is `NoKey`, for which nobody signs.
- **`Factory`** - instantiates the three and adds the Factory's own state and
  instructions. `ControllerResolved`, `MembersResolved`, `IsMerchant` and
  `IsCustodian` are the chains of `seeds::program` constraints; `IsPending` the
  constraints on a request account. Counters are `0..U64Max`; the workspace builds
  with `overflow-checks`, so `+= 1` at the maximum reverts. The hash is taken to be
  free of collisions on its input, which is the *concatenation* of address and txid
  without a separator: `RequestHash` keeps exactly that. The callers of the Factory
  include programs other than it, set as the factory by the owner (`ForeignMint`),
  and wallets that use the token directly (`WalletInstruction`).
- **`IssuanceBook`** - abstract: two numbered books of requests, and tokens that come
  and go only through them while the factory is the issuer. `Factory!Book` maps the
  request accounts to the lines of the books (dropping addresses, txids, hashes and
  types), and `FactoryIsIssuer` to `factoryRuns`.
- **`Rpc`** - what Anchor's `rpc()` promises whoever awaits it (external). Each key has
  one call at a time: `Begin`; `Throw` if its read fails, or else `Send`; then `Return`,
  `Refuse` or `GiveUp`. A call whose read failed has sent nothing, and is as good as none.
  A transaction given up on is in `late`, and lands (`Stray`) or expires (`Expire`). Keys
  that had one land during or after their last call are in `strays`: they have overruled
  themselves, and properties about a caller's last word exempt them.
- **`FactoryClient`**, **`MembersClient`**, **`ControllerClient`** - extend their program
  and instance `Rpc`. A method is what it reads (`ReadStore`, `ReadRequest`) and the
  transaction it builds, one operator named like the method. A fetch may throw whether the
  account exists or not (`ReadFails`), and the method throws with it. `Land` executes the
  transaction; `Accepted` says that the guard of its instruction holds, and `Fail` is the
  program refusing it. Between any two steps other callers' transactions land. Reading an
  older block than the latest is a read followed by a slow send, so reads see the latest.
- **`RequestList`** - extends `Factory` with one `getAllRequestAccounts` under way: the
  counter of a type, then one account after the other, while requests are made and
  settled; fetches may fail, and are skipped. `Circulation` is an audit over a list: the
  amounts of its approved mint requests less those of its burn requests.
- **`Dapp`** - the hooks. An account is the number of times it has changed; a query has
  data, a mark that it is outdated, and perhaps a fetch under way; `Invalidates` is what
  each `onSuccess` invalidates. react-query is external, and modelled as far as the hooks
  depend on it: fetches are joined, or canceled if there is data, disabled queries are
  marked but not fetched, failed fetches are retried or dropped.
- **`Deployment`** - the setup functions. A process is at one await of one function, with
  its copy of the module's state; `Call` and what follows an await run to the next await.
  `Refused`, `GiveUp` and a `Missing` that is a failed request throw, which ends the suite;
  `Begin` starts another in the same process, `Restart` a new process. Any number of token
  mints may be created. Each call of `setCustodian` or `addMerchant` draws the new
  custodian's or merchant's key pair (`Generated`), as the suites do; a key pair that left
  no trace may be drawn once more, which no property can tell from another new one. The
  Members program is the module `Members`; of the Controller
  and the Factory the instructions the setup sends are written out, because here there is
  more than one token mint.
- **`MC*`** - for TLC. `MCFactory!Deployed` is the state the deployment steps of the
  repository's README lead to.
- **`MembersProofs`, `ControllerProofs`, `FactoryProofs`, `MembersClientProofs`,
  `ControllerClientProofs`, `FactoryClientProofs`, `DappProofs`, `DeploymentProofs`** - the
  theorems. `FactoryProofs` has those about `IssuanceBook` too, and `FactoryClientProofs`
  those about `RequestList`, which is one more of the client's methods.

Operators marked "Mutant" in a comment are no part of the specifications. Each is a
plausible bug of the definition below it; `PROJECT.json` says which property it must
break.

## Runs

| run | question | bounds, and why they are enough |
|---|---|---|
| members_client | Does the count ever overstate, does ownership move by handover only, and does an owner's last word stand, while callers race and transactions land late? | 2 keys, a count of at most 1, 1 late transaction: the second merchant saturates the count and removals make it drift; each key can be overtaken by the other and by itself |
| controller_client | How does the mint authority leave the PDA and come back; does the factory an owner set last stand? | 2 wallets, 2 programs, 1 late transaction: a nominee and its rival, a factory and its replacement, which a late setFactory can put back. setMembers is not called (setFactory is its like; MCControllerClientPrograms has it) |
| factory_deploy | Does any order of deployment, configuration, use and misuse break the requests or the issuance; do tokens come into being that the requests do not account for? | 1 wallet in every role, one usable nonce: every instruction of every program is enabled somewhere |
| factory_operate | Is what circulates covered by the requests, while the merchant comes and goes; and do addresses that change meanwhile change a request, or what its hash pins? | 1 merchant, a custodian, 2 usable nonces, u64 of 0..2: two requests can overflow the supply together; 2 addresses, one being the other followed by the txid, so that texts coincide in a hash: addresses are set anew under pending requests of both types |
| factory_removed | Are tokens minted to merchants only? **No** | 2 merchants, a custodian, 2 usable nonces |
| client | Does a call that returns mean what it says, with races, reads that fail and late transactions; and is an addMintRequest refused only if it was overtaken? | 2 callers who both make mint requests and both burn (burns are confirmed in client_addresses), 2 usable nonces of each type, 1 late transaction: two callers can read one counter, and a late transaction meets its retry |
| client_live | Do requests get through? | the same callers, mint requests only |
| client_addresses | The first question for initialize, the address setters, burn and confirmBurnRequest; and do addresses that rotate change a burn request, before it is confirmed or while a confirmation is late? | a merchant and a custodian, from an uninitialized factory; 2 addresses; 1 usable nonce |
| request_list | What is a list that is no snapshot true of? | 1 merchant, a custodian, 2 usable nonces of each type: an approval can fall between any two reads |
| dapp | Does a user of the members page read their own writes? | 2 queries, 2 mutations, 2 changes of each account: a fetch can be overtaken by one mutation and invalidated by the next |
| deployment | Are flags true, is nothing half ready, does a repeated setup come up? | 2 processes, 1 failed request; MaxMints is 6 and no behaviour draws more than 5 key pairs for mints, and 4 keys beside the wallet are more than are in use before the system is up, so that neither cuts anything off |
| deployment_retry | Does it come up if one process retries for ever? **No** | 1 process, 1 failed request |

Where a configuration declares symmetry, what it checks are invariants and properties of
single steps that treat the permuted names alike; no liveness property is checked under
symmetry.

Deadlock is checked except in `Deployment`, where all is over once the system is up:
`Begin` asks for something that is left to set up.

The two violations are disagreements with what the repository says:

- *MintsOnlyToMerchants*: the README says only approved entities can mint and burn.
  `add_mint_request` and `burn` check it, `confirm_mint_request` mints to a requester
  that was removed meanwhile. (The custodian, which approves, may know better.)
- *DeploymentComesUp* in deployment_retry: `initializeController` is to initialize the
  account if it does not exist. It passes the mint authority on first; when that has
  landed and the call failed, there or before `initialize` landed, each later call of the
  process tries to pass it on again, with a wallet that has it no more, and throws. Only
  a new process, which draws a new mint, gets through, which run deployment shows.

### Further configurations

They answer questions next to those of the runs, and are run by hand
(`tlc -config <cfg> <module>`).

| configuration | module | what it shows |
|---|---|---|
| MCMembers | MCMembers | the program alone with 3 keys and a count of at most 2 |
| MCMembersFits | MCMembers | `CountIsExact` holds while the merchants fit in the count |
| MCMembersSaturates | MCMembers | ... and not otherwise (violated): the count saturates silently and then drifts, though an error `TooManyMerchants` is declared |
| MCController | MCController | the program alone, with two programs and an overflow of the supply |
| MCFactoryPayout | MCFactory | `PaidWhereTheMerchantAsks` violated: the README has the custodian query the merchant's address when it pays; the request carries the copy taken at the burn |
| MCFactoryClientOpen | MCFactoryClient | the invariants of `FactoryClientProofs` on an instance, other transactions landing between the steps of the calls |
| MCFactoryClientRotated | MCFactoryClient | `DesignatedDepositsAreRequested` violated: a deposit made to the address the merchant looked up cannot be requested once the custodian has set another |
| MCFactoryClientClose | MCFactoryClient | `ClosesRequests` violated: `closeRequest` calls an instruction the program does not have |
| MCRequestListData | MCRequestList | `ListedHaveData` violated: `getAllRequestAccounts` takes `req.account` of entries that have no such field |
| MCControllerClientPrograms | MCControllerClient | `LastWordStands` with setMembers, two programs to choose from, the mint authority left alone |
| MCControllerClientMint | MCControllerClient | `AuthorityMints` violated: `mint` names no factory account, and cannot be signed for by its caller |
| DappTimeout | Dapp | `SettledViewIsCurrent` violated: a mutation that was executed but not confirmed in time invalidates nothing |
| MCDeploymentSuites | MCDeployment | the invariants with suites that begin in the middle of the script |
| MCDeploymentLive | MCDeployment | `DeploymentComesUp` with two failed requests, one process after the other |
| MCDeploymentAlone | MCDeployment | `ReturnedMintIsTheControllers` holds in one process that is never restarted |
| MCDeploymentMint | MCDeployment | ... and not after a restart (violated): `initializeController` creates a mint before it looks for the Controller, and returns that one |

## Fairness

Nobody is obliged to send an instruction to a program, so the programs have none. Nor
have the members and controller clients and the hooks, of which no liveness is claimed.

- `FactoryClient!ClientFairness`: weak fairness of `Settle`: the promise a caller awaits
  settles. A fetch answers or throws; `rpc()` returns, throws, or runs into its
  confirmation timeout. A call that hung would keep its caller from asking again, so that
  `RequestsGetThrough` depends on calls that end.
- `NetworkRecovers` (for `RequestsGetThrough`): strong fairness of `ReadStore` and `Land`.
  This is an assumption about the node and the cluster, not about the code: a caller that
  reads again and again is answered in the end, and a transaction that can be executed
  again and again, because its sender retries, is executed in the end. Without it every
  fetch could fail and every transaction be dropped.
- `Persistence` (for `RequestsGetThrough`): the merchants keep asking for new mint
  requests. This is an assumption about the users, not about the code; the property
  says that the code gives them progress if they do.
- `Deployment!Fairness`: weak fairness of a process's steps: promises settle and suites
  follow each other while there is something left to set up. Requests fail only
  `MaxFaults` times: with a network that fails for ever nothing is set up. A fetch that
  fails for a store that exists counts as such a failure, one that finds none does not.
- Strong fairness of `Restart` (run deployment): a run that failed is repeated in the end,
  by whoever runs the tests. Run deployment_retry is without it.

## What is proved

For every value of the constants (any number of keys, callers, processes, mints and
queries, any width of the integers, any addresses and txids), from the assumptions the
modules state:

- **Members**: type correctness; `CountNeverOverstates`, from types and the finiteness
  of the set of merchants, which grows one at a time; `CountIsExact` when the keys fit
  in a u16; the refinement of `Handover`.
- **Controller**: type correctness, in which no balance or supply leaves a u64;
  `AuthorityIsHandedOver`; the refinement of `Handover`.
- **Factory** (`FactoryProofs`): type correctness of the composed state;
  `RequestsFillCounters`; `MiswiredFactoryIsInert`; `HashPinsTerms`; `TermsAreFixed`;
  `PendingMintsCanBeCanceled`, which follows from the numbering, from the hash that
  is stored and from the guard of `cancel_mint_request`, which looks at nothing else.
  The 20-odd instructions fall into a few *shapes* (a request is added, its status is
  written, a txid is written, the requests are left alone): lemmas classify each
  step once, and each invariant is then proved over the shapes.
- **`IssuanceRefinement`** (`FactoryProofs`): `Spec => IssuanceIsBooked`, the
  step simulation. The inductive invariant is `TypeOK /\ RequestsFillCounters`:
  without the second, a new request could be written over a line of the book that is
  in use, or past a gap. `Confirm` maps to `Issue` because the CPI into
  `Controller.mint` succeeds only if the Factory is the issuer.
- **What circulates** (`FactoryProofs`): `NothingUnbookedIsIssued`, that while the factory
  is the issuer the supply grows by no more than the books do, whatever other issuers left
  behind; and `CirculationIsBooked`, from any state whose books account for every token,
  such as the one after the deployment, and as long as the factory stays the issuer
  (with another issuer it is false, and nothing in the code promises it). The sums over
  all nonces are dealt with by lemmas about the fold of the community modules
  that say what changing it at one place, enlarging its domain or renaming it does. The
  induction over the set they need goes by a minimal subset on which the claim fails, which
  exists because strict inclusion is well-founded on the subsets of a finite set.
- **MembersClient**, **ControllerClient** (`MembersClientProofs`,
  `ControllerClientProofs`), for any callers and any bound on late transactions: type
  correctness; `LastWordStands`; and each system of program and callers implements its
  program. The invariant for the last word says that a call that made its caller the owner
  has left nobody nominated. It rests on two facts about every instruction: whoever gets
  one through owns the program afterwards, and could so only as the owner or its nominee.
  (The claim of the mint authority is the exception: its signer need not own anything, and
  it uses the nomination up.)
- **FactoryClient** (`FactoryClientProofs`), of `OpenSpec`: the callers among everybody
  else, any instruction of any program landing between two steps of theirs. Type
  correctness with the bound on late transactions; `InFlightMeansReviewed`; and
  `ClientImplementsFactory`, `OpenSpec => Factory!Spec`, so that all that is proved of the
  programs holds with the clients' races and late transactions. The runs check
  `InFlightMeansReviewed` of closed systems, from a deployed state; `OpenSpec` starts from
  the empty chain and has all their steps. The inductive invariant says of every running
  call and every late transaction that the terms its caller looked at are those of the
  request that has the nonce *now*; it is inductive because the step between the look and
  the fetch of the hash leaves the nonce alone, and because no step of the programs changes
  the terms of a request that is there (`FixedStep` of `FactoryProofs`).
- `ReturnedIsDone`: `ReturnedMeansDone`, from any state of the programs whose requests are
  numbered by the counters. What a call promises about requests and the controller is
  kept whoever does what. A deposit address, however, stays only if nobody else sets
  it: the theorem is about `SharedNext`, in which everybody sends every instruction, but
  only callers set addresses, and the custodian is not replaced by others. (Were it
  replaced, the next custodian would rightly set another address.) The invariant adds that
  a caller whose `setCustodianBtcDepositAddress` returned is still the custodian, and that
  a running burn still has the address its merchant had looked up, unless a late
  transaction of the same caller has landed since.
- `OnlyTheOvertakenAreRefused`: `RefusedMeansOvertaken`, from any such state and whatever
  everybody does, under `[]Standing`: whoever has an addMintRequest under way is a merchant,
  and the address it passed is its designated one, until the call has ended. That is what
  the property calls roles and addresses that stay, and what run client has throughout
  (merchants stay, and there is one address); without it the request is refused for
  another reason, as MCFactoryClientRotated shows. It is about what the programs refuse: a
  call whose read fails, or whose transaction is given up, ends in another way. The
  invariant: what is sent carries a nonce no greater than the counter. If it is the
  counter, all the guard asks for holds, because the account the counter points to is free.
- **RequestList** (`FactoryClientProofs`), of `OpenListSpec`: any instruction of any
  program between two fetches. Types; `ListedIsPast`; `AuditNeverOverstates`. The invariant
  for the audit: at most one entry per nonce, none at or past the one to be fetched, and,
  once the burns are being read, the approved mints on the list never exceed what the
  books had when the burn counter was read plus the burns numbered below it. If the list
  has as many burns as the counter said, it has all of those, and what it adds up to is
  no more than the books had.
- **Dapp** (`DappProofs`): type correctness and `ReadYourWrites`. The invariant adds that
  nothing is announced before it is on chain, and that an answer on its way either has all
  that was announced or is known to have been overtaken; the step that matters is
  `Succeed`, and rests on the lemma that each hook invalidates all its transaction changes.
- **Deployment** (`DeploymentProofs`), for any number of processes and failures and
  wherever suites begin: type correctness, which says that nothing is sent to a store whose
  address is unknown; `FlagsAreTrue`; `NothingRunsHalfReady`. The invariant says that a
  process or a late transaction that initializes the Controller is about a mint the PDA
  has the authority over, that one that sets the factory finds the members program set,
  and that no step takes back what a later one relies on.

Assumptions: `NoKey`, `NoAccount` and the PDA are none of the keys; the three
programs have different ids; no BTC address is the empty string; the integers are
at least one wide; bounds are natural numbers. TLC evaluates them in the runs.

Only model-checked: liveness (`RequestsGetThrough`, `DeploymentComesUp`), which
rests on fairness and so on `ENABLED`. Every invariant and every action property of the
passing runs is stated by a theorem. The properties that are violated (the two runs and
some of the further configurations) are about what the documents say and the code does not
do, and are not theorems.

## What is not modelled

- Timestamps, bumps, rent, events, error codes; the 100 and 64 character limits of
  the strings in accounts (a longer one fails the transaction).
- Several token mints in the programs: the Controller fixes one at initialization
  (`Deployment` has several). Creation of associated token accounts: an account that was
  never created holds nothing. Freezing, delegates, closing of accounts and Token-2022
  extensions.
- Transactions of several instructions: each is a sequence of the steps modelled
  here, and interleaving it with others only adds behaviours.
- BTC itself: deposits, payouts, and the custodian's judgement about them. Nothing
  in the programs compares a btc_txid with those of other requests, and a burn
  request has no way back if nobody can confirm it.
- In the clients: logging, the program ids and token mints that callers pass (taken to be
  those of the deployment), `getAllMerchants`, which is one read of all the program's
  accounts, decoded, skipping what does not decode, and cut or paged by its options, and
  `getRequestPDA`, which is an address and nothing else.
- In the hooks: toasts, the endpoint in the query keys, several calls of one mutation at a
  time. In the setup: the keys the suites of tests/01 draw for themselves.
- `client-client.ts` drives a fourth program whose source is not in the repository, and
  whose instructions it names without saying what they do. `index.ts` re-exports, three of
  its exports from files that are not there. `migrations/deploy.ts` is an empty template.

## Plan

Done: the programs, their clients, the hooks and the setup; the two abstract
specifications with their refinements proved; the clients' refinements of their programs;
every invariant of the runs proved. What is left, in this order:

1. A refinement of `Factory` by `Deployment`, so that the state the setup leaves is
   one from which the theorems about circulation start.
2. `NoHalfReadyDeployment` and what the clients promise in one system: the suites after
   the setup.
3. The BTC side (external): deposits, a custodian that follows the burning flow, and
   what keeps the peg.
4. The client program, if its source is added to the repository.
