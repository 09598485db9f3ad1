------------------------------- MODULE Mailboxes -------------------------------
(***************************************************************************)
(* What a room promises those who are in it, whatever channels, locks and  *)
(* sockets carry it: whoever arrives is owed what the room keeps, then     *)
(* their own arrival and every frame after it; frames reach them in the    *)
(* order the room sent them, each once; whoever is too slow loses the end  *)
(* of it with the connection, never something in between. RoomStream is    *)
(* shown to implement this.                                                *)
(***************************************************************************)
EXTENDS Integers

CONSTANT Users

VARIABLES
    size,   \* frames sent so far, numbered from 1
    kept,   \* those the room keeps for whoever comes
    in,     \* the users being served
    owed,   \* frames each user has yet to get
    last    \* the frame each user got last on this connection; 0 before the first

vars == <<size, kept, in, owed, last>>

Init ==
    /\ size = 0
    /\ kept = {}
    /\ in = {}
    /\ owed = [u \in Users |-> {}]
    /\ last = [u \in Users |-> 0]

Keep == \E keep \in {kept, kept \cup {size + 1}} : kept' \subseteq keep

\* A frame goes to everyone being served.
Publish ==
    /\ size' = size + 1
    /\ Keep
    /\ owed' = [u \in Users |-> IF u \in in THEN owed[u] \cup {size + 1} ELSE owed[u]]
    /\ UNCHANGED <<in, last>>

\* The arrival is a frame too, the last of what the newcomer is owed at first.
Arrive(u) ==
    /\ u \notin in /\ owed[u] = {}
    /\ size' = size + 1
    /\ in' = in \cup {u}
    /\ owed' = [v \in Users |->
                  IF v = u THEN kept \cup {size + 1}
                  ELSE IF v \in in THEN owed[v] \cup {size + 1} ELSE owed[v]]
    /\ last' = [last EXCEPT ![u] = 0]
    /\ UNCHANGED kept

Deliver(u) ==
    /\ \E p \in owed[u] :
        /\ \A q \in owed[u] : p <= q
        /\ owed' = [owed EXCEPT ![u] = @ \ {p}]
        /\ last' = [last EXCEPT ![u] = p]
    /\ UNCHANGED <<size, kept, in>>

\* The connection ends: what is left to come is a beginning of what was owed.
Leave(u) ==
    /\ in' = in \ {u}
    /\ \E end \in 0 .. size + 1 :
        owed' = [owed EXCEPT ![u] = {p \in @ : p < end}]
    /\ UNCHANGED <<size, kept, last>>

\* The room lets go of some of what it keeps.
Forget ==
    /\ kept' \subseteq kept
    /\ UNCHANGED <<size, in, owed, last>>

Next ==
    \/ Publish \/ Forget
    \/ \E u \in Users : Arrive(u) \/ Deliver(u) \/ Leave(u)

Spec == Init /\ [][Next]_vars
=============================================================================
