---------------------------- MODULE MCNovaOperator -----------------------------
(* Two operators, of which one deals wrongly, and the clients that ask for  *)
(* a demonstration each.                                                       *)
EXTENDS NovaOperator

CONSTANTS o1, o2, a, b

TwoOperators == {o1, o2}
OneFaulty == {o1}
TwoClients == {a, b}
=============================================================================
