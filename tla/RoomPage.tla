------------------------------- MODULE RoomPage -------------------------------
(***************************************************************************)
(* One page of a room and its sockets: connecting, the heartbeat that      *)
(* notices a silent server, the back-off, being let go for idleness or for *)
(* another tab, and a browser that puts the page aside and brings it back  *)
(* (client.js), with as much of the server as decides which socket it      *)
(* keeps and which it closes (session/tasks.rs, teardown.rs).              *)
(*                                                                         *)
(* A socket's handlers do not ask whether it is still the page's `ws`.     *)
(***************************************************************************)
EXTENDS Integers, FiniteSets

CONSTANTS
    MaxAttempts,  \* maxReconnectAttempts
    MaxSockets,   \* bound: sockets the page opens
    MaxEvents     \* bound: what happens to the page that it did not ask for

ASSUME PageAssumption ==
    MaxAttempts \in Nat /\ MaxSockets \in Nat \ {0} /\ MaxEvents \in Nat

VARIABLES
    restores,   \* whether this browser brings pages back (pagehide, pageshow)
    pageHiding, connected, awaitingManualRejoin, reconnectAttempts,
    ws,         \* the page's socket; sockets are numbered as they are made
    ready,      \* readyState of each: new until it is made
    armed,      \* heartbeatTimeoutId runs
    timers,     \* timeouts of tryReconnect that run
    session,    \* each socket's session on the server: none, live or over
    code,       \* the close on its way to the page, or none
    broken,     \* sockets over which nothing comes any more
    heard,      \* sockets that brought a frame
    holder,     \* the connection the room counts: a socket, NoOne or Tab
    tabbed,     \* history: another tab was open in the room
    events      \* how many there have been

NoOne == 0
Tab == -1
Sockets == 1 .. MaxSockets

flags == <<pageHiding, awaitingManualRejoin, reconnectAttempts>>
server == <<session, code, broken, holder, tabbed>>
vars == <<restores, pageHiding, connected, awaitingManualRejoin, reconnectAttempts, ws,
          ready, armed, timers, session, code, broken, heard, holder, tabbed, events>>

\* The page is made connecting.
Init ==
    /\ restores \in BOOLEAN
    /\ pageHiding = FALSE /\ connected = FALSE /\ awaitingManualRejoin = FALSE
    /\ reconnectAttempts = 0
    /\ ws = 1
    /\ ready = [i \in Sockets |-> IF i = 1 THEN "connecting" ELSE "new"]
    /\ armed = FALSE
    /\ timers = 0
    /\ session = [i \in Sockets |-> "none"]
    /\ code = [i \in Sockets |-> "none"]
    /\ broken = {} /\ heard = {}
    /\ holder = NoOne
    /\ tabbed = FALSE
    /\ events = 0

\* Bound.
Happens ==
    /\ events < MaxEvents
    /\ events' = events + 1

-----------------------------------------------------------------------------
\* The page.

\* The next socket to make; the last one is left, whatever its state.
Fresh == CHOOSE i \in Sockets : ready[i] = "new" /\ \A j \in 1 .. i - 1 : ready[j] # "new"

connect ==
    /\ \E i \in Sockets : ready[i] = "new"
    /\ ws' = Fresh
    /\ ready' = [ready EXCEPT ![Fresh] = "connecting"]

handleWebSocketOpen(i) ==
    /\ ~ pageHiding
    /\ ready[i] = "connecting" /\ session[i] # "none" /\ i \notin broken
    /\ ready' = [ready EXCEPT ![i] = "open"]
    /\ connected' = TRUE
    /\ reconnectAttempts' = 0
    /\ UNCHANGED <<restores, pageHiding, awaitingManualRejoin, ws, armed, timers, server,
                   heard, events>>

\* Any frame, the server's heartbeat included, sets the timeout anew.
handleWebSocketMessage(i) ==
    /\ ~ pageHiding
    /\ ready[i] = "open" /\ i \notin broken /\ code[i] = "none"
    /\ heard' = heard \cup {i}
    /\ armed' = TRUE
    /\ UNCHANGED <<restores, flags, connected, ws, ready, timers, server, events>>

\* Mutant: the timeout starts the back-off itself, as the close will too.
TimeoutReconnects ==
    /\ ~ pageHiding
    /\ armed
    /\ \A i \in heard : ready[i] = "open" => i \in broken \/ code[i] # "none"
    /\ armed' = FALSE
    /\ connected' = FALSE
    /\ timers' = timers + 1
    /\ ready' = IF ready[ws] = "open" THEN [ready EXCEPT ![ws] = "closing"] ELSE ready
    /\ UNCHANGED <<restores, flags, ws, server, heard, events>>

\* Eight seconds with no frame on any socket: the current one, if open, is closed.
\* After a time aside the timeout may be due before a new socket's first frame.
heartbeatTimeout ==
    /\ ~ pageHiding
    /\ armed
    /\ \A i \in heard : ready[i] = "open" => i \in broken \/ code[i] # "none"
    /\ armed' = FALSE
    /\ connected' = FALSE
    /\ ready' = IF ready[ws] = "open" THEN [ready EXCEPT ![ws] = "closing"] ELSE ready
    /\ UNCHANGED <<restores, flags, ws, timers, server, heard, events>>

\* A close is told of the page whichever socket it is. Let go for idleness or for
\* another tab, it waits for the person; put aside, for pageshow; otherwise it
\* tries again after a while, unless it has tried enough (tryReconnect).
LetGo(i) == code[i] \in {"idle", "superseded"}

\* Mutant: there is always another attempt.
CloseRetries(i) ==
    /\ code[i] # "none" \/ ready[i] = "closing"
    /\ ready[i] \in {"connecting", "open", "closing"}
    /\ ready' = [ready EXCEPT ![i] = "closed"]
    /\ armed' = FALSE
    /\ connected' = FALSE
    /\ awaitingManualRejoin' = (LetGo(i) \/ awaitingManualRejoin)
    /\ reconnectAttempts' = IF LetGo(i) THEN 0 ELSE reconnectAttempts
    /\ timers' = IF ~ LetGo(i) /\ ~ pageHiding THEN timers + 1 ELSE timers
    /\ UNCHANGED <<restores, pageHiding, ws, server, heard, events>>

handleWebSocketClose(i) ==
    /\ code[i] # "none" \/ ready[i] = "closing"
    /\ ready[i] \in {"connecting", "open", "closing"}
    /\ ready' = [ready EXCEPT ![i] = "closed"]
    /\ armed' = FALSE
    /\ connected' = FALSE
    /\ awaitingManualRejoin' = (LetGo(i) \/ awaitingManualRejoin)
    /\ reconnectAttempts' = IF LetGo(i) THEN 0 ELSE reconnectAttempts
    /\ timers' = IF ~ LetGo(i) /\ ~ pageHiding /\ reconnectAttempts < MaxAttempts
                 THEN timers + 1 ELSE timers
    /\ UNCHANGED <<restores, pageHiding, ws, server, heard, events>>

\* The timeout of tryReconnect.
reconnectTimeout ==
    /\ ~ pageHiding
    /\ timers > 0
    /\ timers' = timers - 1
    /\ IF ~ connected /\ ready[ws] # "connecting"
       THEN /\ reconnectAttempts' = reconnectAttempts + 1
            /\ connect
       ELSE UNCHANGED <<reconnectAttempts, ws, ready>>
    /\ UNCHANGED <<restores, pageHiding, connected, awaitingManualRejoin, armed, server,
                   heard, events>>

\* The person, told to say something, does.
rejoinAfterIdle ==
    /\ ~ pageHiding
    /\ awaitingManualRejoin /\ ~ connected
    /\ Happens
    /\ awaitingManualRejoin' = FALSE
    /\ connect
    /\ UNCHANGED <<restores, pageHiding, connected, reconnectAttempts, armed, timers,
                   server, heard>>

\* cleanup closes an open socket. With one connecting, or one that is open and
\* not the page's, the browser would not bring the page back (the HTML standard's
\* "make disappear").
pagehide ==
    /\ restores /\ ~ pageHiding
    /\ \A i \in Sockets : ready[i] # "connecting" /\ (ready[i] = "open" => i = ws)
    /\ Happens
    /\ pageHiding' = TRUE
    /\ ready' = IF ready[ws] = "open" THEN [ready EXCEPT ![ws] = "closing"] ELSE ready
    /\ UNCHANGED <<restores, connected, awaitingManualRejoin, reconnectAttempts, ws, armed,
                   timers, server, heard>>

\* Mutant: a page brought back leaves it to timeouts to connect.
ShownOnly ==
    /\ pageHiding
    /\ pageHiding' = FALSE
    /\ reconnectAttempts' = 0
    /\ UNCHANGED <<restores, connected, awaitingManualRejoin, ws, ready, armed, timers,
                   server, heard, events>>

pageshow ==
    /\ pageHiding
    /\ pageHiding' = FALSE
    /\ reconnectAttempts' = 0
    /\ IF ~ connected /\ ~ awaitingManualRejoin
       THEN connect ELSE UNCHANGED <<ws, ready>>
    /\ UNCHANGED <<restores, connected, awaitingManualRejoin, armed, timers, server, heard,
                   events>>

-----------------------------------------------------------------------------
\* The server and the network.

\* A browser connects one socket to a host at a time (RFC 6455, section 4.1).
Connecting(i) ==
    /\ ready[i] = "connecting" /\ session[i] = "none" /\ code[i] = "none"
    /\ \A j \in 1 .. i - 1 : ready[j] # "connecting"

\* Admitted and joined: the room counts this connection for the user from now.
join(i) ==
    /\ Connecting(i)
    /\ session' = [session EXCEPT ![i] = "live"]
    /\ holder' = i
    /\ UNCHANGED <<restores, flags, connected, ws, ready, armed, timers, code, broken,
                   heard, tabbed, events>>

\* The room, the limits or the network turn the connection away.
Refused(i) ==
    /\ Connecting(i)
    /\ Happens
    /\ code' = [code EXCEPT ![i] = "lost"]
    /\ UNCHANGED <<restores, flags, connected, ws, ready, armed, timers, session, broken,
                   heard, holder, tabbed>>

Ends(i, close) ==
    /\ session[i] = "live"
    /\ session' = [session EXCEPT ![i] = "over"]
    /\ holder' = IF holder = i THEN NoOne ELSE holder
    /\ code' = IF i \in broken \/ ready[i] = "closing" THEN code
               ELSE [code EXCEPT ![i] = close]
    /\ UNCHANGED <<restores, flags, connected, ws, ready, armed, timers, broken, heard,
                   tabbed>>

\* A heartbeat finds that another connection is counted for the user.
is_superseded(i) == holder \notin {NoOne, i}
Superseded(i) == is_superseded(i) /\ Ends(i, "superseded") /\ UNCHANGED events

\* The user has been quiet for too long.
Idle(i) == ~ is_superseded(i) /\ Happens /\ Ends(i, "idle")

\* The page closed the socket, or it lagged, or the server restarts.
Closed(i) == ready[i] \in {"closing", "closed"} /\ Ends(i, "lost") /\ UNCHANGED events
Dropped(i) == Happens /\ Ends(i, "lost")

\* Nothing comes any more, and no one is told; the first frame has come.
Break(i) ==
    /\ i \in heard \ broken /\ ready[i] = "open" /\ code[i] = "none"
    /\ Happens
    /\ broken' = broken \cup {i}
    /\ UNCHANGED <<restores, flags, connected, ws, ready, armed, timers, session, code,
                   heard, holder, tabbed>>

\* Another tab of the same browser, with the same cookie.
TabOpens ==
    /\ Happens
    /\ holder' = Tab
    /\ tabbed' = TRUE
    /\ UNCHANGED <<restores, flags, connected, ws, ready, armed, timers, session, code,
                   broken, heard>>

TabLeaves ==
    /\ holder = Tab
    /\ holder' = NoOne
    /\ UNCHANGED <<restores, flags, connected, ws, ready, armed, timers, session, code,
                   broken, heard, tabbed, events>>

Next ==
    \/ \E i \in Sockets :
        \/ handleWebSocketOpen(i) \/ handleWebSocketMessage(i) \/ handleWebSocketClose(i)
        \/ join(i) \/ Refused(i) \/ Superseded(i) \/ Idle(i) \/ Closed(i) \/ Dropped(i)
        \/ Break(i)
    \/ heartbeatTimeout \/ reconnectTimeout \/ rejoinAfterIdle \/ pagehide \/ pageshow
    \/ TabOpens \/ TabLeaves

Spec == Init /\ [][Next]_vars

\* What the browser has queued runs while the page is shown, timeouts expire, the
\* server answers and its heartbeats go out, and a socket being closed gets there.
\* No person is obliged to speak, nor to bring a page back.
Fairness ==
    /\ \A i \in Sockets :
        /\ WF_vars(handleWebSocketOpen(i))
        /\ WF_vars(handleWebSocketMessage(i))
        /\ WF_vars(handleWebSocketClose(i))
        /\ WF_vars(join(i) \/ Refused(i))
        /\ WF_vars(Superseded(i))
        /\ WF_vars(Closed(i))
    /\ WF_vars(heartbeatTimeout) /\ WF_vars(reconnectTimeout)

FairSpec == Spec /\ Fairness

-----------------------------------------------------------------------------
\* The types of the state; and the page tries no more often than it may. (Put aside
\* with a timeout running and brought back, it counts from 0 and keeps the timeout,
\* which may then take it past the last attempt.)
TypeOK ==
    /\ restores \in BOOLEAN /\ pageHiding \in BOOLEAN /\ connected \in BOOLEAN
    /\ awaitingManualRejoin \in BOOLEAN /\ armed \in BOOLEAN /\ tabbed \in BOOLEAN
    /\ reconnectAttempts \in Nat /\ (~ restores => reconnectAttempts <= MaxAttempts)
    /\ ws \in Sockets /\ ready[ws] # "new"
    /\ ready \in [Sockets -> {"new", "connecting", "open", "closing", "closed"}]
    /\ timers \in Nat
    /\ session \in [Sockets -> {"none", "live", "over"}]
    /\ code \in [Sockets -> {"none", "lost", "idle", "superseded"}]
    /\ heard \subseteq Sockets /\ broken \subseteq heard
    /\ holder \in Sockets \cup {NoOne, Tab}
    /\ events \in 0 .. MaxEvents

Usable(i) == ready[i] \in {"connecting", "open"}

\* Where the browser brings no page back from aside, the page has one socket at a
\* time, so it is let go for another tab only if there is one; and let go, it has
\* none and no timeout that would make one, until the person speaks. Elsewhere a
\* late close of the socket before undoes all of this (client.js: the handlers of
\* connect, handleWebSocketClose, tryReconnect, rejoinAfterIdle).
OneSocket ==
    ~ restores =>
        /\ \A i, j \in Sockets : Usable(i) /\ Usable(j) => i = j
        /\ \A i \in Sockets : code[i] = "superseded" => tabbed
        /\ awaitingManualRejoin => timers = 0 /\ \A i \in Sockets : ~ Usable(i)

\* What the message of handleSuperseded says to the person: a socket that is closed
\* for another connection has another tab to thank for it, in any browser.
OtherTabIsThere ==
    \A i \in Sockets : code[i] = "superseded" /\ ready[i] = "open" => tabbed

\* Whatever socket breaks, is refused or is closed, and however often the page is
\* put aside, in the end it can speak, or it is aside, waits for the person, or has
\* tried as often as it may.
Speaks == connected /\ ready[ws] = "open"

ComesBack ==
    []<>(Speaks \/ pageHiding \/ awaitingManualRejoin \/ reconnectAttempts >= MaxAttempts)
=============================================================================
