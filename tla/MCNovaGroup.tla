------------------------------ MODULE MCNovaGroup ------------------------------
(* Two browsers, each of which may join, leave and send once, in a group     *)
(* that holds the server and both of them.                                   *)
EXTENDS NovaGroup, TLC

CONSTANTS c1, c2

TwoConns == {c1, c2}

\* No definition tells one connection from another: the CHOOSE of PublishAdd
\* and FirstBlank range over leaves.
TwoSymmetry == Permutations(TwoConns)
=============================================================================
