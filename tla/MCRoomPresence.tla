---------------------------- MODULE MCRoomPresence ----------------------------
(* One visitor, or the first of two or three, with two connections (tabs, or *)
(* a reconnect that overtakes its dead socket); three visitors with one each.*)
EXTENDS RoomPresence, TLC

CONSTANTS c1, c2, c3, c4, u1, u2, u3, n1, n2, n3

TwoTabConns == {c1, c2, c3}
TwoTabUsers == {u1, u2}
TwoTabWho == [c \in TwoTabConns |-> IF c = c3 THEN u2 ELSE u1]

OneTabConns == {c1, c2, c3}
OneTabUsers == {u1, u2, u3}
OneTabWho == [c \in OneTabConns |-> CASE c = c1 -> u1 [] c = c2 -> u2 [] OTHER -> u3]

\* Three visitors, the first with two connections.
CrowdConns == {c1, c2, c3, c4}
CrowdWho == [c \in CrowdConns |-> CASE c = c3 -> u2 [] c = c4 -> u3 [] OTHER -> u1]

\* One visitor with two connections.
SoloConns == {c1, c2}
SoloUsers == {u1}
SoloWho == [c \in SoloConns |-> u1]

ThreeNames == {n1, n2, n3}

\* The names are interchangeable: no definition tells one from another.
NameSymmetry == Permutations(ThreeNames)
=============================================================================
