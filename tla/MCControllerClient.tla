-------------------------- MODULE MCControllerClient -------------------------
(* ControllerClient on small sets of keys and of programs, whose members are *)
(* interchangeable. *)
EXTENDS ControllerClient, TLC

NameSymmetry == Permutations(Keys) \union Permutations(Programs)

\* Everything that is done to a Controller, but its Members program stays: what
\* goes for setFactory goes for setMembers.
Everything == MethodNames \ {"setMembers"}

\* An owner configures the Controller, and the ownership moves.
Configuring ==
    MethodNames \ {"transferMintAuthority", "claimMintAuthority"}
=============================================================================
