----------------------------- MODULE RequestList -----------------------------
(***************************************************************************)
(* getAllRequestAccounts of FactoryClient while the Factory runs. It lists  *)
(* the mint requests, then the burn requests; for each type it awaits the   *)
(* counter once and then one account after the other, so that what it lists *)
(* is a snapshot of no moment. A request whose fetch fails is left out with *)
(* a warning that only the console sees.                                    *)
(***************************************************************************)
EXTENDS Factory, FiniteSets, Functions

VARIABLES
    phase,           \* whether it is under way, or how the last one ended
    part,            \* which type is being read
    requestCounter,  \* the counter of that type as it was read
    i,               \* the nonce that is fetched next
    requests,        \* the requests fetched so far
    booked           \* history: the circulation when the burn counter was read

lvars == <<phase, part, requestCounter, i, requests, booked>>
listVars == <<vars, lvars>>

\* Mutant: the burn requests come first.
BurnsFirst == <<"Burn", "Mint">>

Types == <<"Mint", "Burn">>

ListTypeOK ==
    /\ phase \in {"idle", "reading", "done", "failed"}
    /\ part \in DOMAIN Types
    /\ requestCounter \in Nonces /\ i \in 0..requestCounter
    /\ requests \subseteq RequestAccount
    /\ booked \in Int

ListInit ==
    /\ phase = "idle" /\ part = 1
    /\ requestCounter = 0 /\ i = 0
    /\ requests = {}
    /\ booked = 0

Amount(S) == SumFunctionOnSet([r \in S |-> r.amount], S)

ApprovedMints(S) == {r \in S : r.request_type = "Mint" /\ r.status = "Approved"}

Burns(S) == {r \in S : r.request_type = "Burn"}

\* What the approved mint requests of a set issued less what its burn requests
\* took, paid out or not.
Circulation(S) == Amount(ApprovedMints(S)) - Amount(Burns(S))

AllRequests ==
    ({mint_requests[n] : n \in Nonces} \union {burn_requests[n] : n \in Nonces})
      \ {NoAccount}

-----------------------------------------------------------------------------
\* The account of a nonce. Its type is compared, though a request of the other
\* type has another address.
getRequest(nonce, type) ==
    LET r == IF type = "Mint" THEN mint_requests[nonce] ELSE burn_requests[nonce] IN
    IF r # NoAccount /\ r.request_type = type THEN r ELSE NoAccount

\* Mutant: the second list goes on where the first one ended.
getAllRequestsContinues(p) ==
    /\ factory_store # NoAccount
    /\ phase' = "reading" /\ part' = p
    /\ requestCounter' = IF Types[p] = "Mint" THEN factory_store.mint_request_counter
                         ELSE factory_store.burn_request_counter
    /\ UNCHANGED i

\* getAllRequests(Types[p]) begins with the counter.
getAllRequests(p) ==
    /\ factory_store # NoAccount
    /\ phase' = "reading" /\ part' = p /\ i' = 0
    /\ requestCounter' = IF Types[p] = "Mint" THEN factory_store.mint_request_counter
                         ELSE factory_store.burn_request_counter

ReadMore == phase = "reading" /\ i < requestCounter
ReadUp == phase = "reading" /\ i = requestCounter

Fetched ==
    LET r == getRequest(i, Types[part]) IN
    /\ ReadMore
    /\ r # NoAccount
    /\ requests' = requests \union {r}
    /\ i' = i + 1
    /\ UNCHANGED <<phase, part, requestCounter, booked>>

\* Caught, and the loop goes on.
Skipped ==
    /\ ReadMore
    /\ i' = i + 1
    /\ UNCHANGED <<phase, part, requestCounter, requests, booked>>

\* getAllRequestAccounts, called once the last call has ended.
Start ==
    /\ phase # "reading"
    /\ getAllRequests(1)
    /\ requests' = {} /\ booked' = 0

NextType ==
    /\ ReadUp /\ part = 1
    /\ getAllRequests(2)
    /\ booked' = Circulation(AllRequests)
    /\ UNCHANGED requests

Finish ==
    /\ ReadUp /\ part = 2
    /\ phase' = "done"
    /\ UNCHANGED <<part, requestCounter, i, requests, booked>>

\* Failing to get the counter is not caught.
StoreFails ==
    /\ ReadUp /\ part = 1
    /\ phase' = "failed"
    /\ UNCHANGED <<part, requestCounter, i, requests, booked>>

ListStep ==
    /\ Start \/ Fetched \/ Skipped \/ NextType \/ Finish \/ StoreFails
    /\ UNCHANGED vars

\* Between any two awaits anybody may send any instruction.
OpenListNext == ListStep \/ (Next /\ UNCHANGED lvars)

\* The programs may have been in use, with requests made, before the first list.
OpenListSpec ==
    TypeOK /\ RequestsFillCounters /\ ListInit /\ [][OpenListNext]_listVars

-----------------------------------------------------------------------------
(* Properties                                                              *)

\* What is listed is true of the past: each entry is the request that still
\* has its nonce, with its terms, and at most its being pending is outdated.
\* Whoever acts on an entry acts on the request it saw.
ListedIsPast ==
    \A r \in requests :
        LET now == IF r.request_type = "Mint" THEN mint_requests[r.nonce]
                   ELSE burn_requests[r.nonce] IN
        Fixed(r, now)

\* No snapshot, and yet an audit errs on one side only. Adding up a list, the
\* approved mints less the burns never exceed what the requests had in
\* circulation when the burn counter was read, provided no burn request was
\* left out: mint requests that were approved later are missing, burn requests
\* are not. It is the order of the two reads that makes it so.
AuditNeverOverstates ==
    phase = "done" /\ Cardinality(Burns(requests)) = requestCounter =>
        Circulation(requests) <= booked

\* getAllRequestAccounts is documented to return an "Array of all request
\* accounts with their data". It takes req.account of entries whose fields are
\* data and publicKey, so that the data of every entry is undefined.
Undefined == "undefined"

getAllRequestAccounts ==
    {[publicKey |-> r.nonce, isMintRequest |-> r.request_type = "Mint",
      account |-> LET req == [data |-> r, publicKey |-> r.nonce] IN
                  IF "account" \in DOMAIN req THEN req["account"] ELSE Undefined]
        : r \in requests}

ListedHaveData ==
    phase = "done" => \A entry \in getAllRequestAccounts : entry.account # Undefined
=============================================================================
