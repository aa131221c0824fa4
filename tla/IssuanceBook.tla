---------------------------- MODULE IssuanceBook ----------------------------
(***************************************************************************)
(* What the three programs together promise about the wrapped token. There *)
(* are two books of requests, numbered from 0 without gaps. A mint request *)
(* is settled once: canceled, rejected or approved; approving it is what   *)
(* brings its amount into circulation, in its requester's account. A burn  *)
(* request is the record of tokens its requester gave up, and is settled   *)
(* by approving it. A request's requester and amount never change.         *)
(*                                                                         *)
(* As long as the issuer is the factory (the factory is configured and the *)
(* controller's PDA holds the mint authority), nothing else creates tokens.*)
(* Factory is shown to implement this specification.                       *)
(***************************************************************************)
EXTENDS Integers, Functions

CONSTANTS
    Keys,      \* those who may hold tokens
    NoEntry,   \* an unused line of a book
    Amounts,   \* what a request may be for
    Nonces     \* the numbers of the lines, an initial segment of Nat

VARIABLES
    minting,     \* the book of mint requests
    burning,     \* the book of burn requests
    supply,      \* tokens in circulation
    balance,     \* what each key holds
    factoryRuns  \* is the factory the issuer?

bvars == <<minting, burning, supply, balance, factoryRuns>>

Init ==
    /\ minting = [n \in Nonces |-> NoEntry]
    /\ burning = [n \in Nonces |-> NoEntry]
    /\ supply = 0
    /\ balance = [k \in Keys |-> 0]
    /\ factoryRuns \in BOOLEAN

\* The first unused line.
NextLine(book, n) ==
    /\ n \in Nonces
    /\ \A m \in Nonces : (book[m] # NoEntry) <=> m < n

Entry(k, a) == [requester |-> k, amount |-> a, status |-> "Pending"]

\* Line n holds a pending request, and its outcome is written next to it.
Settle(book, n, outcome) ==
    /\ book[n] # NoEntry
    /\ book[n].status = "Pending"
    /\ book' = [book EXCEPT ![n].status = outcome]

RequestMint(n) ==
    /\ NextLine(minting, n)
    /\ \E k \in Keys, a \in Amounts :
          minting' = [minting EXCEPT ![n] = Entry(k, a)]
    /\ UNCHANGED <<burning, supply, balance, factoryRuns>>

\* Canceled by its requester or rejected by the custodian.
DropMint(n) ==
    /\ \E outcome \in {"Canceled", "Rejected"} : Settle(minting, n, outcome)
    /\ UNCHANGED <<burning, supply, balance, factoryRuns>>

Issue(n) ==
    /\ factoryRuns
    /\ Settle(minting, n, "Approved")
    /\ supply' = supply + minting[n].amount
    /\ balance' = [balance EXCEPT ![minting[n].requester] = @ + minting[n].amount]
    /\ UNCHANGED <<burning, factoryRuns>>

Redeem(n) ==
    /\ NextLine(burning, n)
    /\ \E k \in Keys, a \in Amounts \ {0} :
          /\ a <= balance[k]
          /\ burning' = [burning EXCEPT ![n] = Entry(k, a)]
          /\ supply' = supply - a
          /\ balance' = [balance EXCEPT ![k] = @ - a]
    /\ UNCHANGED <<minting, factoryRuns>>

PayOut(n) ==
    /\ Settle(burning, n, "Approved")
    /\ UNCHANGED <<minting, supply, balance, factoryRuns>>

\* Holders move and destroy their tokens; only another issuer creates some.
OffTheBooks ==
    /\ factoryRuns => supply' <= supply
    /\ UNCHANGED <<minting, burning, factoryRuns>>

\* The owners change the configuration or the mint authority.
Reconfigure ==
    /\ factoryRuns' \in BOOLEAN
    /\ UNCHANGED <<minting, burning, supply, balance>>

Next ==
    \/ \E n \in Nonces :
          RequestMint(n) \/ DropMint(n) \/ Issue(n) \/ Redeem(n) \/ PayOut(n)
    \/ OffTheBooks
    \/ Reconfigure

Spec == Init /\ [][Next]_bvars

-----------------------------------------------------------------------------
(* The balance of the books                                                *)

\* What each line of the book with an outcome in `outcomes` is for.
Counted(book, outcomes) ==
    [n \in Nonces |->
        IF book[n] # NoEntry /\ book[n].status \in outcomes
        THEN book[n].amount ELSE 0]

Total(book, outcomes) == SumFunctionOnSet(Counted(book, outcomes), Nonces)

\* What the approved mint requests issued, less the tokens that the burn
\* requests recorded, paid out or not.
Booked == Total(minting, {"Approved"}) - Total(burning, {"Pending", "Approved"})

\* No more circulates than the books account for. (Holders may also destroy
\* tokens without a request, so it is not an equality.)
CirculationIsBooked == supply <= Booked

\* However many tokens other issuers left, as long as the factory is the issuer
\* every token more is one more on the books, and every request to burn has
\* taken its tokens out of circulation.
NothingUnbookedIsIssued ==
    [][factoryRuns => supply' - Booked' <= supply - Booked]_bvars
=============================================================================
