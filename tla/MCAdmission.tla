----------------------------- MODULE MCAdmission -----------------------------
(* Four attempts from two addresses; the limits are small enough that the  *)
(* per-address limit, the global ceiling and a ban are all reached.        *)
EXTENDS Admission

CONSTANTS c1, c2, c3, c4, a1, a2

MCConns == {c1, c2, c3, c4}
MCAddrs == {a1, a2}
MCAddrOf == [c \in MCConns |-> IF c = c4 THEN a2 ELSE a1]

\* The one from the second address may hang up wherever it is.
MCHangups == {a2}
=============================================================================
