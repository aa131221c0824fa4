-------------------------------- MODULE Rpc ---------------------------------
(***************************************************************************)
(* What Anchor's rpc() promises whoever awaits it (external code). Every   *)
(* key has one call of a client method at a time. A call may first read,   *)
(* which may fail; then it sends a transaction; rpc() returns once that    *)
(* has landed, throws once the program refused it, or throws because no    *)
(* confirmation came in time. In the last case the caller knows nothing,   *)
(* and the transaction is still about: it lands after all, or expires with *)
(* its blockhash.                                                          *)
(*                                                                         *)
(* What a transaction does when it lands is up to the module that uses     *)
(* this one. Two transactions of the same content that both wait to land   *)
(* count as one.                                                           *)
(***************************************************************************)
EXTENDS Naturals, FiniteSets

CONSTANTS
    Keys,       \* the callers
    NoAccount,  \* in place of the transaction of a caller that has none
    MaxLate     \* bound: transactions whose sender has given up waiting

VARIABLES
    call,   \* the last call of each key: its phase, and its transaction
    late,   \* transactions that may still land though nobody waits for them
    strays  \* keys that had one land during or after their last call

rpcVars == <<call, late, strays>>

Running == {"reading", "sent"}
\* Landed; refused by the program; failed because it can never be sent.
Ended == {"ok", "refused", "failed"}
Phases == Running \union Ended

NoCall == [phase |-> "idle", tx |-> NoAccount]

RpcTypeOK(Transaction) ==
    /\ call \in [Keys -> {NoCall} \union [phase : Phases, tx : Transaction]]
    /\ late \subseteq Transaction /\ IsFiniteSet(late) /\ Cardinality(late) <= MaxLate
    /\ strays \subseteq Keys

RpcInit ==
    /\ call = [s \in Keys |-> NoCall]
    /\ late = {}
    /\ strays = {}

\* A call begins by reading, or by sending what it was given.
Begin(s, phase, tx) ==
    /\ call[s].phase \notin Running
    /\ call' = [call EXCEPT ![s] = [phase |-> phase, tx |-> tx]]
    /\ strays' = strays \ {s}
    /\ UNCHANGED late

Send(s, tx) ==
    /\ call[s].phase = "reading"
    /\ call' = [call EXCEPT ![s] = [phase |-> "sent", tx |-> tx]]
    /\ UNCHANGED <<late, strays>>

Return(s) ==
    /\ call[s].phase = "sent"
    /\ call' = [call EXCEPT ![s].phase = "ok"]
    /\ UNCHANGED <<late, strays>>

Refuse(s) ==
    /\ call[s].phase = "sent"
    /\ call' = [call EXCEPT ![s].phase = "refused"]
    /\ UNCHANGED <<late, strays>>

\* The read fails: nothing was sent, and it is as if there had been no call.
Throw(s) ==
    /\ call[s].phase = "reading"
    /\ call' = [call EXCEPT ![s] = NoCall]
    /\ strays' = strays \ {s}
    /\ UNCHANGED late

GiveUp(s) ==
    /\ call[s].phase = "sent"
    /\ Cardinality(late) < MaxLate
    /\ call' = [call EXCEPT ![s] = NoCall]
    /\ late' = late \union {call[s].tx}
    /\ strays' = strays \ {s}

Stray(tx) ==
    /\ tx \in late
    /\ late' = late \ {tx}
    /\ strays' = strays \union ({tx.signer} \ {s \in Keys : call[s] = NoCall})
    /\ UNCHANGED call

\* Lost, refused, or too old for its blockhash.
Expire(tx) ==
    /\ tx \in late
    /\ late' = late \ {tx}
    /\ UNCHANGED <<call, strays>>

\* The transactions that may land.
InFlight == late \union {call[s].tx : s \in {k \in Keys : call[k].phase = "sent"}}
=============================================================================
