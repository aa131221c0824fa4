-------------------------------- MODULE Dapp ---------------------------------
(***************************************************************************)
(* The React hooks (client/hooks.ts): what the user interface shows of the  *)
(* accounts, and what it sends. A query keeps the last answer of the node;  *)
(* a mutation sends a transaction and, once that is confirmed, invalidates  *)
(* queries. react-query and the two Dapp clients are external, modelled as  *)
(* the hooks use them. An account is represented by the number of times it  *)
(* has changed.                                                             *)
(***************************************************************************)
EXTENDS Naturals

CONSTANTS
    NoData,     \* a query that was never answered
    Shown,      \* the queries that some component on the screen uses
    Used,       \* the mutations that are used
    MaxVersion  \* bound: changes of one account

VARIABLES
    version,    \* the changes so far of what each query reads, on chain
    view,       \* each query: its data and what goes on about it
    at,         \* each mutation: whether it is under way
    wrote,      \* the versions each mutation in flight made
    acked,      \* the newest versions whose success was announced
    connected   \* whether the wallet is, so that there are clients

vars == <<version, view, at, wrote, acked, connected>>

\* The queries.
useGetMembersStore == "get-members-store"
useGetMerchants == "get-merchants"
useGetControllerStore == "get-controller-store"

Queries == {useGetMembersStore, useGetMerchants, useGetControllerStore}

MembersMutations == {"initialize-members", "add-merchant", "remove-merchant"}
ControllerMutations == {"initialize-controller", "set-members", "set-factory"}
TokenMutations == {"mint-token", "burn-token"}
Mutations == MembersMutations \union ControllerMutations \union TokenMutations

ASSUME UsedAssumption == Shown \subseteq Queries /\ Used \subseteq Mutations
ASSUME BoundAssumption == MaxVersion \in Nat /\ NoData \notin Nat

-----------------------------------------------------------------------------
(* The accounts a transaction changes, by the queries that read them. The   *)
(* count of merchants is in the members store. The program refuses every    *)
(* mint or burn a wallet sends.                                             *)

Changes(m) ==
    CASE m = "initialize-members"                   -> {useGetMembersStore}
      [] m \in {"add-merchant", "remove-merchant"}   -> {useGetMembersStore, useGetMerchants}
      [] m \in ControllerMutations                   -> {useGetControllerStore}
      [] OTHER                                       -> {}

(* The queries each hook invalidates on success. There is no query whose    *)
(* key is get-token-accounts.                                               *)

useInitializeMembers == {useGetMembersStore}
\* Mutant: the count is forgotten.
useAddMerchantListOnly == {useGetMerchants}
useAddMerchant == {useGetMerchants, useGetMembersStore}
useRemoveMerchant == {useGetMerchants, useGetMembersStore}
useInitializeController == {useGetControllerStore}
useSetMembers == {useGetControllerStore}
useSetFactory == {useGetControllerStore}
useMintToken == {"get-token-accounts"}
useBurnToken == {"get-token-accounts"}

Invalidates(m) ==
    CASE m = "initialize-members"    -> useInitializeMembers
      [] m = "add-merchant"          -> useAddMerchant
      [] m = "remove-merchant"       -> useRemoveMerchant
      [] m = "initialize-controller" -> useInitializeController
      [] m = "set-members"           -> useSetMembers
      [] m = "set-factory"           -> useSetFactory
      [] m = "mint-token"            -> useMintToken
      [] m = "burn-token"            -> useBurnToken

-----------------------------------------------------------------------------
Data == Nat \union {NoData}

\* data is shown; invalid says that it must be fetched again. fetch is the
\* request under way and got its answer. History: missed says that what is
\* being fetched was invalidated under way without being asked for again, and
\* old that the data is such an answer.
View ==
    [data : Data, invalid : BOOLEAN, fetch : {"idle", "asked", "answered"},
     got : Nat, missed : BOOLEAN, old : BOOLEAN]

TypeOK ==
    /\ version \in [Shown -> Nat]
    /\ view \in [Shown -> View]
    /\ at \in [Mutations -> {"idle", "sent", "landed"}]
    /\ wrote \in [Mutations -> [Shown -> Nat]]
    /\ acked \in [Shown -> Nat]
    /\ connected \in BOOLEAN

Nothing == [q \in Shown |-> 0]

Init ==
    /\ version = Nothing
    /\ view = [q \in Shown |-> [data |-> NoData, invalid |-> FALSE, fetch |-> "idle",
                                  got |-> 0, missed |-> FALSE, old |-> FALSE]]
    /\ at = [m \in Mutations |-> "idle"]
    /\ wrote = [m \in Mutations |-> Nothing]
    /\ acked = Nothing
    /\ connected = FALSE

-----------------------------------------------------------------------------
(* Queries: react-query refetches what is outdated. got is a request's       *)
(* answer before it arrives.                                                *)

Ask(v) == [v EXCEPT !.fetch = "asked", !.got = 0, !.missed = FALSE]

\* A fetch starts unless one is under way, which is joined.
Join(v) == IF v.fetch = "idle" THEN Ask(v) ELSE v

\* invalidateQueries. A query in use is fetched at once. A fetch under way is
\* canceled for it only if there is data already; otherwise, and if the query
\* is disabled, what is under way remains.
Invalidate(v) ==
    LET w == [v EXCEPT !.invalid = TRUE] IN
    IF connected /\ (v.fetch = "idle" \/ v.data # NoData) THEN Ask(w)
    ELSE [w EXCEPT !.missed = v.fetch # "idle"]

\* The wallet is connected: there are clients, and the queries are enabled.
Connect ==
    /\ ~connected
    /\ connected' = TRUE
    /\ view' = [q \in Shown |-> Join(view[q])]
    /\ UNCHANGED <<version, at, wrote, acked>>

Disconnect ==
    /\ connected
    /\ connected' = FALSE
    /\ UNCHANGED <<version, view, at, wrote, acked>>

\* The window is focused, or the query mounted again.
Refocus(q) ==
    /\ connected
    /\ view' = [view EXCEPT ![q] = Join(@)]
    /\ UNCHANGED <<version, at, wrote, acked, connected>>

\* The node answers, having read the accounts as they are.
Answer(q) ==
    /\ view[q].fetch = "asked"
    /\ view' = [view EXCEPT ![q].fetch = "answered", ![q].got = version[q]]
    /\ UNCHANGED <<version, at, wrote, acked, connected>>

\* The answer arrives.
Settle(q) ==
    /\ view[q].fetch = "answered"
    /\ view' = [view EXCEPT ![q] =
          [data |-> @.got, invalid |-> FALSE, fetch |-> "idle", got |-> 0,
           missed |-> FALSE, old |-> @.missed]]
    /\ UNCHANGED <<version, at, wrote, acked, connected>>

\* It does not: the query function is called again, or the fetch is given up.
Retry(q) ==
    /\ view[q].fetch # "idle"
    /\ view' = [view EXCEPT ![q] = Ask(@)]
    /\ UNCHANGED <<version, at, wrote, acked, connected>>

FetchFails(q) ==
    /\ view[q].fetch # "idle"
    /\ view' = [view EXCEPT ![q].fetch = "idle", ![q].got = 0, ![q].missed = FALSE]
    /\ UNCHANGED <<version, at, wrote, acked, connected>>

-----------------------------------------------------------------------------
(* Mutations. A hook may be called again while it is under way; here each  *)
(* has one transaction at a time.                                          *)

\* Without a wallet the mutation throws.
Mutate(m) ==
    /\ connected
    /\ m \in Used
    /\ at[m] = "idle"
    /\ at' = [at EXCEPT ![m] = "sent"]
    /\ UNCHANGED <<version, view, wrote, acked, connected>>

Changed(m) == [q \in Shown |-> IF q \in Changes(m) THEN version[q] + 1 ELSE version[q]]

CanChange(m) ==
    /\ Changes(m) # {}
    /\ \A q \in Changes(m) \intersect Shown : version[q] < MaxVersion

\* The transaction is executed.
Land(m) ==
    /\ at[m] = "sent"
    /\ CanChange(m)
    /\ at' = [at EXCEPT ![m] = "landed"]
    /\ version' = Changed(m)
    /\ wrote' = [wrote EXCEPT ![m] = Changed(m)]
    /\ UNCHANGED <<view, acked, connected>>

\* It is confirmed: onSuccess announces it and invalidates queries.
Succeed(m) ==
    /\ at[m] = "landed"
    /\ at' = [at EXCEPT ![m] = "idle"]
    /\ wrote' = [wrote EXCEPT ![m] = Nothing]
    /\ acked' = [q \in Shown |->
          IF q \in Changes(m) /\ wrote[m][q] > acked[q] THEN wrote[m][q] ELSE acked[q]]
    /\ view' = [q \in Shown |->
          IF q \in Invalidates(m) THEN Invalidate(view[q]) ELSE view[q]]
    /\ UNCHANGED <<version, connected>>

\* Mutant: a hook that failed is left for the user to reset.
RefuseForGood(m) ==
    /\ at[m] = "sent"
    /\ at' = [at EXCEPT ![m] = "error"]
    /\ UNCHANGED <<version, view, wrote, acked, connected>>

\* It is refused or lost: onError announces a failure and does nothing else.
Refuse(m) ==
    /\ at[m] = "sent"
    /\ at' = [at EXCEPT ![m] = "idle"]
    /\ UNCHANGED <<version, view, wrote, acked, connected>>

\* It was executed, but no confirmation came in time: onError again.
TimeOut(m) ==
    /\ at[m] = "landed"
    /\ at' = [at EXCEPT ![m] = "idle"]
    /\ wrote' = [wrote EXCEPT ![m] = Nothing]
    /\ UNCHANGED <<version, view, acked, connected>>

\* A transaction that no hook waits for: the owner's from somewhere else, or
\* one that was given up on before it landed.
Elsewhere(m) ==
    /\ m \in Used
    /\ CanChange(m)
    /\ version' = Changed(m)
    /\ UNCHANGED <<view, at, wrote, acked, connected>>

-----------------------------------------------------------------------------
QueryStep(q) == Refocus(q) \/ Answer(q) \/ Settle(q) \/ Retry(q) \/ FetchFails(q)

MutationStep(m) == Mutate(m) \/ Land(m) \/ Succeed(m) \/ Refuse(m) \/ TimeOut(m)

\* The only user interface there is.
AloneNext ==
    \/ Connect \/ Disconnect
    \/ \E q \in Shown : QueryStep(q)
    \/ \E m \in Mutations : MutationStep(m)

Next == AloneNext \/ \E m \in Mutations : Elsewhere(m)

Spec == Init /\ [][Next]_vars

AloneSpec == Init /\ [][AloneNext]_vars

-----------------------------------------------------------------------------
(* Properties                                                              *)

\* A user reads their own writes: once the success of a mutation has been
\* announced, data that is not marked as outdated includes it, however fetches
\* were under way, joined, canceled, failed and retried, and the wallet
\* disconnected. But for one case, which is react-query's: the first fetch of
\* a query, or one that the wallet disconnected under, is not canceled by an
\* invalidation, and its answer may be from before.
ReadYourWrites ==
    \A q \in Shown :
        view[q].data # NoData /\ ~view[q].invalid /\ ~view[q].old =>
            view[q].data >= acked[q]

\* useGetMerchants is "the hook to get the list of merchants"; when nothing is
\* under way and nobody else changes anything, the list it shows should be the
\* list. It is not after a mutation that was executed but not confirmed in
\* time: the hook announces a failure and invalidates nothing.
Settled(q) ==
    /\ connected
    /\ view[q].fetch = "idle" /\ view[q].data # NoData
    /\ ~view[q].invalid /\ ~view[q].old

SettledViewIsCurrent ==
    \A q \in Shown :
        Settled(q) /\ (\A m \in Mutations : at[m] = "idle") => view[q].data = version[q]
=============================================================================
