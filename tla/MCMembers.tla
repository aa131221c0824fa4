----------------------------- MODULE MCMembers ------------------------------
(* Members on a small set of keys. *)
EXTENDS Members, TLC

\* Any key can play any role, so keys are interchangeable. The symmetry is
\* used by the runs that check invariants only.
KeySymmetry == Permutations(Keys)
=============================================================================
