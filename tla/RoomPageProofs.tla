---------------------------- MODULE RoomPageProofs ----------------------------
(***************************************************************************)
(* What is proved of RoomPage, for any numbers of attempts, sockets and    *)
(* events: TypeOK and OneSocket. Where no page is brought back from aside, *)
(* all turns on this: the sockets before ws are closed by the time there   *)
(* is a ws, a timeout of tryReconnect runs only once ws is closed too, and *)
(* a session that outlived its socket sits on a broken connection, so its  *)
(* "superseded" reaches nobody.                                            *)
(***************************************************************************)
EXTENDS RoomPage, WellFoundedInduction, TLAPS

Types ==
    /\ restores \in BOOLEAN /\ pageHiding \in BOOLEAN /\ connected \in BOOLEAN
    /\ awaitingManualRejoin \in BOOLEAN /\ armed \in BOOLEAN /\ tabbed \in BOOLEAN
    /\ reconnectAttempts \in Nat /\ timers \in Nat
    /\ ws \in Sockets /\ ready[ws] # "new"
    /\ ready \in [Sockets -> {"new", "connecting", "open", "closing", "closed"}]
    /\ session \in [Sockets -> {"none", "live", "over"}]
    /\ code \in [Sockets -> {"none", "lost", "idle", "superseded"}]
    /\ heard \subseteq Sockets /\ broken \subseteq heard
    /\ holder \in Sockets \cup {NoOne, Tab}
    /\ events \in 0 .. MaxEvents
    /\ \A i \in Sockets : ready[i] = "new" => session[i] = "none" /\ code[i] = "none"
    /\ \A i \in heard : ready[i] \notin {"new", "connecting"}

\* The sockets before ws are closed, and what the page knows of ws is true.
Page ==
    /\ pageHiding = FALSE
    /\ \A i \in Sockets \ {ws} : ready[i] \in {"new", "closed"}
    /\ connected <=> ready[ws] = "open"
    /\ timers > 0 => ready[ws] = "closed" /\ timers = 1
    /\ awaitingManualRejoin => ready[ws] = "closed" /\ timers = 0
    /\ timers + reconnectAttempts <= MaxAttempts
    /\ armed => ready[ws] = "open" /\ ws \in heard

\* A connection is counted while its session lives, and then it is the last one
\* that joined; a session that outlives its socket can tell it nothing.
Server ==
    /\ holder \in Sockets => session[holder] = "live"
    /\ session[ws] = "live" => holder \notin Sockets \ {ws}
    /\ \A i \in Sockets : ready[i] \in {"closing", "closed"} /\ session[i] = "live"
            => i \in broken
    /\ \A i \in Sockets : code[i] # "none" => session[i] # "live"
    /\ holder = Tab => tabbed
    /\ \A i \in Sockets : code[i] = "superseded" => tabbed

Alone == ~ restores => Page /\ Server
Inv == Types /\ Alone

----------------------------------------------------------------------------

\* The socket that connect makes is a new one.
LEMMA FreshIs ==
  ASSUME NEW k \in Sockets, ready[k] = "new"
  PROVE  Fresh \in Sockets /\ ready[Fresh] = "new"
<1> DEFINE S == {n \in Sockets : ready[n] = "new"}
<1>1. S \in SUBSET Nat /\ S # {} /\ S \subseteq Sockets
  BY PageAssumption DEF Sockets
<1>2. PICK n \in S : \A j \in S : ~(<<j, n>> \in OpToRel(<, Nat))
  <2> HIDE DEF S
  <2> QED
    BY <1>1, NatLessThanWellFounded, WFMin
<1>3. \A j \in S : ~(j < n)
  BY <1>1, <1>2 DEF OpToRel
<1>4. \A j \in 1 .. n - 1 : j \in Sockets /\ j < n
  BY <1>1, PageAssumption DEF Sockets
<1>5. n \in Sockets /\ ready[n] = "new" /\ \A j \in 1 .. n - 1 : ready[j] # "new"
  BY <1>3, <1>4
<1> QED
  BY <1>5 DEF Fresh

\* connect, told by the socket it makes.
LEMMA ConnectIs ==
  ASSUME connect
  PROVE  \E i \in Sockets : /\ ready[i] = "new" /\ ws' = i
                            /\ ready' = [ready EXCEPT ![i] = "connecting"]
<1>1. PICK i : i = Fresh
  OBVIOUS
<1>2. i \in Sockets /\ ready[i] = "new"
  BY <1>1, FreshIs DEF connect
<1> QED
  BY <1>1, <1>2 DEF connect

\* No socket has the number of no one, or of the other tab.
LEMMA SocketsAre ==
  /\ Sockets \subseteq Nat \ {0} /\ 1 \in Sockets
  /\ NoOne \notin Sockets /\ Tab \notin Sockets /\ NoOne # Tab
  BY PageAssumption DEF Sockets, NoOne, Tab

(* Each step keeps the invariant. *)

\* A page that opens its first socket.
LEMMA InitInv == Init => Inv
<1> SUFFICES ASSUME Init PROVE Types /\ Alone
  BY DEF Inv
<1>1. Types
  <2>1. /\ restores \in BOOLEAN /\ pageHiding \in BOOLEAN /\ connected \in BOOLEAN
        /\ awaitingManualRejoin \in BOOLEAN /\ armed \in BOOLEAN /\ tabbed \in BOOLEAN
    BY DEF Init
  <2>2. ready \in [Sockets -> {"new", "connecting", "open", "closing", "closed"}]
    BY DEF Init
  <2>3. /\ session \in [Sockets -> {"none", "live", "over"}]
        /\ code \in [Sockets -> {"none", "lost", "idle", "superseded"}]
        /\ \A i \in Sockets : session[i] = "none" /\ code[i] = "none"
    BY DEF Init
  <2>4. ws \in Sockets /\ ready[ws] # "new" /\ holder = NoOne
    BY SocketsAre DEF Init
  <2>5. events \in 0 .. MaxEvents /\ reconnectAttempts = 0 /\ timers = 0
    BY PageAssumption DEF Init
  <2>6. heard = {} /\ broken = {}
    BY DEF Init
  <2> QED
    BY <2>1, <2>2, <2>3, <2>4, <2>5, <2>6 DEF Types
<1>2. Alone
  BY SocketsAre, PageAssumption DEF Init, Alone, Page, Server
<1> QED
  BY <1>1, <1>2

\* ws.onopen.
LEMMA OpenKeeps ==
  ASSUME Inv, NEW i \in Sockets, handleWebSocketOpen(i)
  PROVE  Inv'
<1>1. Types'
  BY SocketsAre, PageAssumption DEF Inv, Types, handleWebSocketOpen, flags, server
<1>2. Alone'
  BY SocketsAre, PageAssumption
     DEF Inv, Types, Alone, Page, Server, handleWebSocketOpen, flags, server
<1> QED
  BY <1>1, <1>2 DEF Inv

\* ws.onmessage.
LEMMA MessageKeeps ==
  ASSUME Inv, NEW i \in Sockets, handleWebSocketMessage(i)
  PROVE  Inv'
<1>1. Types'
  BY SocketsAre, PageAssumption DEF Inv, Types, handleWebSocketMessage, flags, server
<1>2. Alone'
  BY SocketsAre, PageAssumption
     DEF Inv, Types, Alone, Page, Server, handleWebSocketMessage, flags, server
<1> QED
  BY <1>1, <1>2 DEF Inv

\* ws.onclose.
LEMMA CloseKeeps ==
  ASSUME Inv, NEW i \in Sockets, handleWebSocketClose(i)
  PROVE  Inv'
<1>1. Types'
  <2>1. reconnectAttempts' \in Nat /\ timers' \in Nat /\ awaitingManualRejoin' \in BOOLEAN
    <3>1. reconnectAttempts' \in {0, reconnectAttempts} /\ timers' \in {timers, timers + 1}
      BY DEF handleWebSocketClose
    <3>2. awaitingManualRejoin' \in BOOLEAN
      BY DEF Inv, Types, handleWebSocketClose
    <3> QED
      BY <3>1, <3>2 DEF Inv, Types
  <2>2. /\ ready' \in [Sockets -> {"new", "connecting", "open", "closing", "closed"}]
        /\ \A j \in Sockets : ready'[j] = ready[j] \/ (j = i /\ ready'[j] = "closed")
    BY DEF Inv, Types, handleWebSocketClose
  <2> QED
    BY <2>1, <2>2 DEF Inv, Types, handleWebSocketClose, server
<1>2. Alone'
  BY SocketsAre, PageAssumption
     DEF Inv, Types, Alone, Page, Server, handleWebSocketClose, LetGo, flags, server
<1> QED
  BY <1>1, <1>2 DEF Inv

\* The heartbeat's timeout closes ws.
LEMMA HeartbeatTimeoutKeeps ==
  ASSUME Inv, heartbeatTimeout
  PROVE  Inv'
<1>1. Types'
  BY SocketsAre, PageAssumption DEF Inv, Types, heartbeatTimeout, flags, server
<1>2. Alone'
  BY SocketsAre, PageAssumption
     DEF Inv, Types, Alone, Page, Server, heartbeatTimeout, flags, server
<1> QED
  BY <1>1, <1>2 DEF Inv

\* tryReconnect's timeout opens a socket.
LEMMA ReconnectTimeoutKeeps ==
  ASSUME Inv, reconnectTimeout
  PROVE  Inv'
<1>1. \/ UNCHANGED <<ws, ready>>
      \/ \E j \in Sockets : /\ ready[j] = "new" /\ ws' = j
                            /\ ready' = [ready EXCEPT ![j] = "connecting"]
  BY ConnectIs DEF reconnectTimeout
<1>2. Types'
  BY <1>1, SocketsAre, PageAssumption DEF Inv, Types, reconnectTimeout, flags, server
<1>3. Alone'
  BY <1>1, SocketsAre, PageAssumption
     DEF Inv, Types, Alone, Page, Server, reconnectTimeout, flags, server
<1> QED
  BY <1>2, <1>3 DEF Inv

\* The visitor asks to rejoin.
LEMMA RejoinAfterIdleKeeps ==
  ASSUME Inv, rejoinAfterIdle
  PROVE  Inv'
<1>1. \/ UNCHANGED <<ws, ready>>
      \/ \E j \in Sockets : /\ ready[j] = "new" /\ ws' = j
                            /\ ready' = [ready EXCEPT ![j] = "connecting"]
  BY ConnectIs DEF rejoinAfterIdle
<1>2. Types'
  <2>1. awaitingManualRejoin' \in BOOLEAN /\ events' \in 0 .. MaxEvents
    <3>1. awaitingManualRejoin' = FALSE
      BY DEF rejoinAfterIdle
    <3>2. events' \in 0 .. MaxEvents
      BY PageAssumption DEF Inv, Types, rejoinAfterIdle, Happens
    <3> QED
      BY <3>1, <3>2
  <2>2. UNCHANGED <<restores, pageHiding, connected, reconnectAttempts, armed, timers,
                    session, code, broken, holder, tabbed, heard>>
    BY DEF rejoinAfterIdle, server
  <2>3. CASE UNCHANGED <<ws, ready>>
    BY <2>1, <2>2, <2>3 DEF Inv, Types
  <2>4. ASSUME NEW j \in Sockets, ready[j] = "new", ws' = j,
               ready' = [ready EXCEPT ![j] = "connecting"]
        PROVE  Types'
    BY <2>1, <2>2, <2>4 DEF Inv, Types
  <2> QED
    BY <1>1, <2>3, <2>4
<1>3. Alone'
  BY <1>1, SocketsAre, PageAssumption
     DEF Inv, Types, Alone, Page, Server, rejoinAfterIdle, Happens, flags, server
<1> QED
  BY <1>2, <1>3 DEF Inv

\* The page is put aside.
LEMMA PagehideKeeps ==
  ASSUME Inv, pagehide
  PROVE  Inv'
<1>1. Types'
  BY SocketsAre, PageAssumption DEF Inv, Types, pagehide, Happens, flags, server
<1>2. Alone'
  BY SocketsAre, PageAssumption
     DEF Inv, Types, Alone, Page, Server, pagehide, Happens, flags, server
<1> QED
  BY <1>1, <1>2 DEF Inv

\* The page is brought back.
LEMMA PageshowKeeps ==
  ASSUME Inv, pageshow
  PROVE  Inv'
<1>1. \/ UNCHANGED <<ws, ready>>
      \/ \E j \in Sockets : /\ ready[j] = "new" /\ ws' = j
                            /\ ready' = [ready EXCEPT ![j] = "connecting"]
  BY ConnectIs DEF pageshow
<1>2. Types'
  BY <1>1, SocketsAre, PageAssumption DEF Inv, Types, pageshow, flags, server
<1>3. Alone'
  BY <1>1, SocketsAre, PageAssumption
     DEF Inv, Types, Alone, Page, Server, pageshow, flags, server
<1> QED
  BY <1>2, <1>3 DEF Inv

\* The server lets the socket in.
LEMMA JoinKeeps ==
  ASSUME Inv, NEW i \in Sockets, join(i)
  PROVE  Inv'
<1>1. Types'
  BY SocketsAre, PageAssumption DEF Inv, Types, join, Connecting, flags, server
<1>2. Alone'
  BY SocketsAre, PageAssumption
     DEF Inv, Types, Alone, Page, Server, join, Connecting, flags, server
<1> QED
  BY <1>1, <1>2 DEF Inv

\* The server refuses it.
LEMMA RefusedKeeps ==
  ASSUME Inv, NEW i \in Sockets, Refused(i)
  PROVE  Inv'
<1>1. Types'
  BY SocketsAre, PageAssumption DEF Inv, Types, Refused, Connecting, Happens, flags, server
<1>2. Alone'
  BY SocketsAre, PageAssumption
     DEF Inv, Types, Alone, Page, Server, Refused, Connecting, Happens, flags, server
<1> QED
  BY <1>1, <1>2 DEF Inv

\* The server ends a session that another has followed.
LEMMA SupersededKeeps ==
  ASSUME Inv, NEW i \in Sockets, Superseded(i)
  PROVE  Inv'
<1>1. Types'
  BY SocketsAre, PageAssumption DEF Inv, Types, Superseded, Ends, is_superseded, flags, server
<1>2. Alone'
  BY SocketsAre, PageAssumption
     DEF Inv, Types, Alone, Page, Server, Superseded, Ends, is_superseded, flags, server
<1> QED
  BY <1>1, <1>2 DEF Inv

\* The server ends an idle session.
LEMMA IdleKeeps ==
  ASSUME Inv, NEW i \in Sockets, Idle(i)
  PROVE  Inv'
<1>1. Types'
  BY SocketsAre, PageAssumption
     DEF Inv, Types, Idle, Ends, is_superseded, Happens, flags, server
<1>2. Alone'
  BY SocketsAre, PageAssumption
     DEF Inv, Types, Alone, Page, Server, Idle, Ends, is_superseded, Happens, flags, server
<1> QED
  BY <1>1, <1>2 DEF Inv

\* The server sees a socket close.
LEMMA ClosedKeeps ==
  ASSUME Inv, NEW i \in Sockets, Closed(i)
  PROVE  Inv'
<1>1. Types'
  BY SocketsAre, PageAssumption DEF Inv, Types, Closed, Ends, is_superseded, flags, server
<1>2. Alone'
  BY SocketsAre, PageAssumption
     DEF Inv, Types, Alone, Page, Server, Closed, Ends, is_superseded, flags, server
<1> QED
  BY <1>1, <1>2 DEF Inv

\* The server drops a session.
LEMMA DroppedKeeps ==
  ASSUME Inv, NEW i \in Sockets, Dropped(i)
  PROVE  Inv'
<1>1. Types'
  BY SocketsAre, PageAssumption
     DEF Inv, Types, Dropped, Ends, is_superseded, Happens, flags, server
<1>2. Alone'
  BY SocketsAre, PageAssumption
     DEF Inv, Types, Alone, Page, Server, Dropped, Ends, is_superseded, Happens, flags, server
<1> QED
  BY <1>1, <1>2 DEF Inv

\* A connection breaks.
LEMMA BreakKeeps ==
  ASSUME Inv, NEW i \in Sockets, Break(i)
  PROVE  Inv'
<1>1. Types'
  BY SocketsAre, PageAssumption DEF Inv, Types, Break, Happens, flags, server
<1>2. Alone'
  BY SocketsAre, PageAssumption
     DEF Inv, Types, Alone, Page, Server, Break, Happens, flags, server
<1> QED
  BY <1>1, <1>2 DEF Inv

\* Another tab opens.
LEMMA TabOpensKeeps ==
  ASSUME Inv, TabOpens
  PROVE  Inv'
<1>1. Types'
  BY SocketsAre, PageAssumption DEF Inv, Types, TabOpens, Happens, flags, server
<1>2. Alone'
  BY SocketsAre, PageAssumption
     DEF Inv, Types, Alone, Page, Server, TabOpens, Happens, flags, server
<1> QED
  BY <1>1, <1>2 DEF Inv

\* Another tab leaves.
LEMMA TabLeavesKeeps ==
  ASSUME Inv, TabLeaves
  PROVE  Inv'
<1>1. Types'
  BY SocketsAre, PageAssumption DEF Inv, Types, TabLeaves, flags, server
<1>2. Alone'
  BY SocketsAre, PageAssumption DEF Inv, Types, Alone, Page, Server, TabLeaves, flags, server
<1> QED
  BY <1>1, <1>2 DEF Inv

\* Every step keeps the invariant.
LEMMA StepKeeps == Inv /\ [Next]_vars => Inv'
<1> SUFFICES ASSUME Inv, [Next]_vars PROVE Inv'
  OBVIOUS
<1>1. CASE UNCHANGED vars
  BY <1>1 DEF vars, Inv, Types, Alone, Page, Server
<1>2. ASSUME NEW i \in Sockets, handleWebSocketOpen(i) PROVE Inv'
  BY <1>2, OpenKeeps
<1>3. ASSUME NEW i \in Sockets, handleWebSocketMessage(i) PROVE Inv'
  BY <1>3, MessageKeeps
<1>4. ASSUME NEW i \in Sockets, handleWebSocketClose(i) PROVE Inv'
  BY <1>4, CloseKeeps
<1>5. CASE heartbeatTimeout
  BY <1>5, HeartbeatTimeoutKeeps
<1>6. CASE reconnectTimeout
  BY <1>6, ReconnectTimeoutKeeps
<1>7. CASE rejoinAfterIdle
  BY <1>7, RejoinAfterIdleKeeps
<1>8. CASE pagehide
  BY <1>8, PagehideKeeps
<1>9. CASE pageshow
  BY <1>9, PageshowKeeps
<1>10. ASSUME NEW i \in Sockets, join(i) PROVE Inv'
  BY <1>10, JoinKeeps
<1>11. ASSUME NEW i \in Sockets, Refused(i) PROVE Inv'
  BY <1>11, RefusedKeeps
<1>12. ASSUME NEW i \in Sockets, Superseded(i) PROVE Inv'
  BY <1>12, SupersededKeeps
<1>13. ASSUME NEW i \in Sockets, Idle(i) PROVE Inv'
  BY <1>13, IdleKeeps
<1>14. ASSUME NEW i \in Sockets, Closed(i) PROVE Inv'
  BY <1>14, ClosedKeeps
<1>15. ASSUME NEW i \in Sockets, Dropped(i) PROVE Inv'
  BY <1>15, DroppedKeeps
<1>16. ASSUME NEW i \in Sockets, Break(i) PROVE Inv'
  BY <1>16, BreakKeeps
<1>17. CASE TabOpens
  BY <1>17, TabOpensKeeps
<1>18. CASE TabLeaves
  BY <1>18, TabLeavesKeeps
<1> QED
  BY <1>1, <1>2, <1>3, <1>4, <1>5, <1>6, <1>7, <1>8, <1>9, <1>10, <1>11, <1>12, <1>13,
     <1>14, <1>15, <1>16, <1>17, <1>18 DEF Next

\* The invariant, of every reachable state.
LEMMA InvHolds == Spec => []Inv
  BY InitInv, StepKeeps, PTL DEF Spec

\* The state of the page, of its sockets and of their sessions is of its types, and
\* where no page is brought back, the page never tries more often than it may.
THEOREM TypeCorrect == Spec => []TypeOK
<1>1. Inv => TypeOK
  BY PageAssumption DEF Inv, Types, Alone, Page, TypeOK
<1> QED
  BY <1>1, InvHolds, PTL

\* Where no page is brought back, the page has one socket at a time, is let go for
\* another tab only if there was one, and let go stays so until the person speaks.
THEOREM OneSocketAtATime == Spec => []OneSocket
<1>1. Inv => OneSocket
  BY DEF Inv, Types, Alone, Page, Server, OneSocket, Usable
<1> QED
  BY <1>1, InvHolds, PTL
=============================================================================
