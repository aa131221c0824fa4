------------------------------ MODULE Handover ------------------------------
(***************************************************************************)
(* What the two-step ownership transfer of the Members and the Controller  *)
(* programs promises: a role has one holder; the holder's side may only    *)
(* nominate, the last nomination replaces the one before it, and the role  *)
(* moves only to the standing nominee, which uses the nomination up.       *)
(* Members and Controller are shown to implement this specification.       *)
(***************************************************************************)
CONSTANTS
    Keys,       \* the keys that can sign a transaction
    NoKey       \* nobody: Pubkey::default(), which no one can sign for

VARIABLES
    holder,     \* who holds the role, NoKey before the program is initialized
    nominee     \* who may claim it, NoKey when nobody may

hvars == <<holder, nominee>>

Init == holder = NoKey /\ nominee = NoKey

\* The first holder is whoever initializes the program.
Found(k) ==
    /\ holder = NoKey
    /\ holder' = k
    /\ nominee' = NoKey

Nominate(k) ==
    /\ holder # NoKey
    /\ nominee' = k
    /\ holder' = holder

Accept ==
    /\ nominee # NoKey
    /\ holder' = nominee
    /\ nominee' = NoKey

Next == Accept \/ \E k \in Keys : Found(k) \/ Nominate(k)

Spec == Init /\ [][Next]_hvars
=============================================================================
