--------------------------- MODULE MCMembersClient ---------------------------
(* MembersClient on a small set of keys, which are interchangeable. *)
EXTENDS MembersClient, TLC

KeySymmetry == Permutations(Keys)
=============================================================================
