------------------------------ MODULE SplToken ------------------------------
(***************************************************************************)
(* The SPL token program as the three programs use it (external code): one *)
(* mint with its authority and its supply, and every key's associated      *)
(* token account. An account that was never created is one that holds      *)
(* nothing: confirm_mint_request creates it when needed, and a burn from   *)
(* it fails for want of funds.                                             *)
(***************************************************************************)
EXTENDS Integers

CONSTANTS
    Keys,           \* the keys that hold tokens
    ControllerPda,  \* the controller's PDA, for which only the Controller signs
    NoKey,          \* no authority
    U64Max          \* the largest u64

VARIABLES
    mint_authority,  \* who may mint
    supply,          \* tokens in circulation
    balance          \* tokens in each key's associated account

tvars == <<mint_authority, supply, balance>>

Authorities == Keys \union {ControllerPda, NoKey}

TypeOK ==
    /\ mint_authority \in Authorities
    /\ supply \in 0..U64Max
    /\ balance \in [Keys -> 0..U64Max]

\* The mint is created by somebody's wallet, which is its first authority.
Init ==
    /\ mint_authority \in Keys
    /\ supply = 0
    /\ balance = [k \in Keys |-> 0]

\* Additions and subtractions are checked: what would leave a u64 is refused.
CanMintTo(authority, to, amount) ==
    /\ authority = mint_authority
    /\ supply + amount <= U64Max
    /\ balance[to] + amount <= U64Max

MintTo(authority, to, amount) ==
    /\ CanMintTo(authority, to, amount)
    /\ supply' = supply + amount
    /\ balance' = [balance EXCEPT ![to] = @ + amount]
    /\ UNCHANGED mint_authority

CanBurnChecked(owner, amount) == amount <= balance[owner] /\ amount <= supply

BurnChecked(owner, amount) ==
    /\ CanBurnChecked(owner, amount)
    /\ supply' = supply - amount
    /\ balance' = [balance EXCEPT ![owner] = @ - amount]
    /\ UNCHANGED mint_authority

Transfer(from, to, amount) ==
    /\ from # to
    /\ amount <= balance[from]
    /\ balance[to] + amount <= U64Max
    /\ balance' = [balance EXCEPT ![from] = @ - amount, ![to] = @ + amount]
    /\ UNCHANGED <<mint_authority, supply>>

\* set_authority(MintTokens): the present authority signs; NoKey is None,
\* after which nobody mints any more.
SetAuthority(authority, new_authority) ==
    /\ authority = mint_authority
    /\ mint_authority' = new_authority
    /\ UNCHANGED <<supply, balance>>

-----------------------------------------------------------------------------
\* What holders and a mint authority that is a wallet do directly, without
\* any of the three programs.
Wallet(k) ==
    \/ \E new_authority \in Authorities : SetAuthority(k, new_authority)
    \/ \E amount \in 1..U64Max :
          \/ BurnChecked(k, amount)
          \/ \E to \in Keys : MintTo(k, to, amount) \/ Transfer(k, to, amount)
=============================================================================
