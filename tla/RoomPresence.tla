----------------------------- MODULE RoomPresence -----------------------------
(***************************************************************************)
(* Who is in one room: admission under a cookie, the join that follows the *)
(* upgrade, the heartbeat that notices superseded and idle sockets, the    *)
(* guarded teardown, and the sweep that reclaims users and deletes the     *)
(* room (session/admission.rs, session/lifecycle.rs, session/tasks.rs,     *)
(* session/teardown.rs, room/names.rs, room/presence.rs, cleanup.rs).      *)
(*                                                                         *)
(* Every step runs under the write lock of `rooms`, so it is atomic; what  *)
(* interleaves is the steps of different connections, and the admission of *)
(* a connection with its own join. A person may hold several connections   *)
(* at once: tabs, or a reconnect before the server saw the old socket die. *)
(* Durations are abstracted to "long enough ago" flags.                    *)
(***************************************************************************)
EXTENDS Integers, FiniteSets, SequencesExt

CONSTANTS
    Users,      \* user ids, each the identity in one browser's cookie
    Conns,      \* connection attempts (connection ids)
    Who,        \* the user id each attempt is admitted under
    Names,      \* the roster of animals
    Limit,      \* room_user_limit
    Permanent,  \* is this `main` or `nova`?
    Hangups,    \* may a client vanish between admission and the join?
    Gone,       \* the entry is Disconnected
    Unknown,    \* the room has no entry for the user
    NoName      \* a cookie without a usable name

ASSUME PresenceAssumption ==
    /\ IsFiniteSet(Names)
    /\ Who \in [Conns -> Users]
    /\ Limit \in Nat \ {0}
    /\ Cardinality(Names) > Limit
    /\ Permanent \in BOOLEAN /\ Hangups \in BOOLEAN
    /\ Gone \notin Conns /\ Unknown \notin Conns /\ Gone # Unknown
    /\ NoName \notin Names

VARIABLES
    pc,       \* where each connection is
    voice,    \* the name its session speaks under, fixed at admission
    heard,    \* connections subscribed to the present room's sender
    holder,   \* users[u].connection_state: a connection, Gone, or Unknown
    name,     \* users[u].animal_name
    quiet,    \* users silent for USER_IDLE_MESSAGE_TIMEOUT
    stale,    \* users Disconnected for DISCONNECTED_USER_RETENTION
    exists,   \* is the room in the map?
    pool,     \* RoomState::available_animals
    idle      \* has the room seen no message for EMPTY_ROOM_CLEANUP_DELAY?

users == <<holder, name, quiet, stale>>
room == <<exists, pool, idle>>
vars == <<pc, voice, heard, holder, name, quiet, stale, exists, pool, idle>>

\* A session, waiting for its heartbeat or past its is_superseded check.
Sessions == {"joined", "beating"}

Present == {u \in Users : holder[u] # Unknown}
Connected == {u \in Users : holder[u] \in Conns}

Counted(c) == holder[Who[c]] = c

Init ==
    /\ pc = [c \in Conns |-> "idle"]
    /\ voice = [c \in Conns |-> NoName]
    /\ heard = {}
    /\ holder = [u \in Users |-> Unknown]
    /\ name = [u \in Users |-> NoName]
    /\ quiet = {} /\ stale = {}
    /\ exists = FALSE
    /\ pool = <<>>
    /\ idle = FALSE

Goto(c, place) == pc' = [pc EXCEPT ![c] = place]

----------------------------------------------------------------------------
(* Names *)

names_in_use == {name[u] : u \in Connected}

\* The orders create_room may shuffle the roster into.
Orders == SetToSeqs(Names)

\* The first free name of the rotation, and the rotation after drawing it.
\* The roster is larger than a full room, so a free name is always there.
Free(p) == {i \in DOMAIN p : p[i] \notin names_in_use}
FirstFree(p) == CHOOSE i \in Free(p) : \A j \in Free(p) : i <= j
assign_animal(p) == p[FirstFree(p)]
Rotated(p) == SubSeq(p, FirstFree(p) + 1, Len(p)) \o SubSeq(p, 1, FirstFree(p))

\* Mutant: a cookie's name is taken without asking whether it is on the roster.
UsableIfFree(preferred) == preferred \notin names_in_use

\* is_animal_name, and free here.
Usable(preferred) == preferred \in Names \ names_in_use

\* The name a visitor gets and the rotation it leaves behind.
claim_animal(preferred, p) ==
    IF Usable(preferred) THEN preferred ELSE assign_animal(p)
PoolAfter(preferred, p) ==
    IF Usable(preferred) THEN p ELSE Rotated(p)

name_taken_by_another_connected_user(u, n) ==
    \E v \in Connected \ {u} : name[v] = n

----------------------------------------------------------------------------
(* admit_user *)

\* The room is created on first use, with a shuffled pool.
OpenRoom(p) == IF exists THEN p = pool ELSE p \in Orders

\* Mutant: off by one at capacity.
AllowedAtLimit == Cardinality(Connected) <= Limit

is_user_allowed == Cardinality(Connected) < Limit

Seat(c, u, n, p) ==
    /\ holder' = [holder EXCEPT ![u] = c]
    /\ name' = [name EXCEPT ![u] = n]
    /\ voice' = [voice EXCEPT ![c] = n]
    /\ quiet' = quiet \ {u}
    /\ stale' = stale \ {u}
    /\ pool' = p
    /\ exists' = TRUE
    /\ idle' = (exists /\ idle)
    /\ Goto(c, "admitted")
    /\ UNCHANGED heard

\* Mutant: the stored name is restored without asking who holds it now.
ReclaimBlindly(c) ==
    /\ pc[c] = "idle"
    /\ Who[c] \in Present
    /\ is_user_allowed
    /\ Seat(c, Who[c], name[Who[c]], pool)

\* A known user takes back the entry, and the name unless someone has it.
Reclaim(c) ==
    LET u == Who[c]
        taken == name_taken_by_another_connected_user(u, name[u])
    IN  /\ pc[c] = "idle"
        /\ u \in Present
        /\ is_user_allowed
        /\ IF taken
           THEN Seat(c, u, claim_animal(NoName, pool), PoolAfter(NoName, pool))
           ELSE Seat(c, u, name[u], pool)

\* A cookie this room has not seen, or none at all (preferred = NoName).
Recognise(c, preferred) ==
    LET u == Who[c]
    IN  /\ pc[c] = "idle"
        /\ u \notin Present
        /\ is_user_allowed
        /\ \E p \in Orders :
            /\ OpenRoom(p)
            /\ Seat(c, u, claim_animal(preferred, p), PoolAfter(preferred, p))

\* A refusal (the room is full, or a known user has spent its rejoin attempts)
\* changes nothing here, so it is no step of its own; Admission models it.

----------------------------------------------------------------------------
(* The session *)

\* join_room: the entry is taken over, or recreated if it went missing.
Join(c) ==
    LET u == Who[c]
    IN  /\ pc[c] = "admitted"
        /\ exists
        /\ holder' = [holder EXCEPT ![u] = c]
        /\ name' = IF u \in Present THEN name ELSE [name EXCEPT ![u] = voice[c]]
        /\ quiet' = IF u \in Present THEN quiet ELSE quiet \ {u}
        /\ stale' = stale \ {u}
        /\ heard' = heard \cup {c}
        /\ Goto(c, "joined")
        /\ UNCHANGED <<voice, room>>

\* The room vanished between admission and upgrade: straight to teardown.
JoinNowhere(c) ==
    /\ pc[c] = "admitted"
    /\ ~exists
    /\ Goto(c, "ending")
    /\ UNCHANGED <<voice, heard, users, room>>

\* A message: the entry is found by user id alone, whichever connection the
\* room counts for it.
Speak(c) ==
    /\ pc[c] \in Sessions
    /\ Who[c] \in Present
    /\ quiet' = quiet \ {Who[c]}
    /\ idle' = FALSE
    /\ UNCHANGED <<pc, voice, heard, holder, name, stale, exists, pool>>

\* A reaction keeps the room awake, but its author does not speak.
React(c) ==
    /\ pc[c] \in Sessions
    /\ Who[c] \in Present
    /\ idle' = FALSE
    /\ UNCHANGED <<pc, voice, heard, users, exists, pool>>

\* Another connection is current; a Disconnected user is nobody's.
is_superseded(c) ==
    holder[Who[c]] \in Conns /\ ~Counted(c)

\* Mutant: the tick never asks whether it was superseded.
BeatRegardless(c) ==
    /\ pc[c] = "joined"
    /\ Goto(c, "beating")
    /\ UNCHANGED <<voice, heard, users, room>>

\* A heartbeat tick, as far as the heartbeat frame.
Beat(c) ==
    /\ pc[c] = "joined"
    /\ Goto(c, IF is_superseded(c) THEN "ending" ELSE "beating")
    /\ UNCHANGED <<voice, heard, users, room>>

\* The rest of the tick: a user who has gone quiet is evicted.
touch_and_check_idle(c) ==
    /\ pc[c] = "beating"
    /\ Goto(c, IF Who[c] \in Present /\ Who[c] \in quiet THEN "ending" ELSE "joined")
    /\ UNCHANGED <<voice, heard, users, room>>

\* Mutant: a return that leaves the teardown out.
EndSessionBare(c) ==
    /\ pc[c] \in Sessions
    /\ Goto(c, "idle")
    /\ UNCHANGED <<voice, heard, users, room>>

\* The peer closes, fails a read or a write, or lags off the channel.
EndSession(c) ==
    /\ pc[c] \in Sessions
    /\ Goto(c, "ending")
    /\ UNCHANGED <<voice, heard, users, room>>

\* The sender was dropped with its room, which ends forward_broadcasts.
RoomClosed(c) ==
    /\ pc[c] \in Sessions
    /\ c \notin heard
    /\ Goto(c, "ending")
    /\ UNCHANGED <<voice, heard, users, room>>

\* Mutant: the teardown is not guarded on connection_id.
CleanupUnguarded(c) ==
    LET u == Who[c]
    IN  /\ pc[c] = "ending"
        /\ holder' = IF u \in Connected THEN [holder EXCEPT ![u] = Gone] ELSE holder
        /\ heard' = heard \ {c}
        /\ voice' = [voice EXCEPT ![c] = NoName]
        /\ Goto(c, "idle")
        /\ UNCHANGED <<name, quiet, stale, room>>

\* cleanup_user: only the connection the room counts marks its user as gone.
CleanupUser(c) ==
    LET u == Who[c]
    IN  /\ pc[c] = "ending"
        /\ holder' = IF Counted(c) THEN [holder EXCEPT ![u] = Gone] ELSE holder
        /\ heard' = heard \ {c}
        /\ voice' = [voice EXCEPT ![c] = NoName]
        /\ Goto(c, "idle")
        /\ UNCHANGED <<name, quiet, stale, room>>

\* The client vanished before the upgrade: the callback never runs, so
\* neither does the teardown inside it.
UpgradeFails(c) ==
    /\ Hangups
    /\ pc[c] = "admitted"
    /\ voice' = [voice EXCEPT ![c] = NoName]
    /\ Goto(c, "idle")
    /\ UNCHANGED <<heard, users, room>>

----------------------------------------------------------------------------
(* Time and housekeeping *)

GoQuiet(u) ==
    /\ u \in Present \ quiet
    /\ quiet' = quiet \cup {u}
    /\ UNCHANGED <<pc, voice, heard, holder, name, stale, room>>

\* An hour after the departure the user has been silent for ten minutes too,
\* unless a socket the room does not count went on speaking for it.
RetentionPasses(u) ==
    /\ holder[u] = Gone /\ u \notin stale
    /\ u \in quiet \/ \E c \in Conns : Who[c] = u /\ pc[c] \in Sessions
    /\ stale' = stale \cup {u}
    /\ UNCHANGED <<pc, voice, heard, holder, name, quiet, room>>

RoomIdles ==
    /\ exists /\ ~idle
    /\ idle' = TRUE
    /\ UNCHANGED <<pc, voice, heard, users, exists, pool>>

\* Mutant: an idle room is deleted whoever is in it.
AbandonedIfIdle == exists /\ ~Permanent /\ idle

is_abandoned == exists /\ ~Permanent /\ Connected = {} /\ idle

\* One housekeeping pass over this room: reclaim, then perhaps delete.
cleanup_rooms ==
    LET kept == IF is_abandoned THEN {} ELSE Present \ stale
    IN  /\ exists
        /\ holder' = [u \in Users |-> IF u \in kept THEN holder[u] ELSE Unknown]
        /\ name' = [u \in Users |-> IF u \in kept THEN name[u] ELSE NoName]
        /\ quiet' = quiet \cap kept
        /\ stale' = {}
        /\ exists' = ~is_abandoned
        /\ pool' = IF is_abandoned THEN <<>> ELSE pool
        /\ idle' = (idle /\ ~is_abandoned)
        /\ heard' = IF is_abandoned THEN {} ELSE heard
        /\ UNCHANGED <<pc, voice>>

----------------------------------------------------------------------------
Admit(c) ==
    \/ Reclaim(c)
    \/ \E preferred \in Names \cup {NoName} : Recognise(c, preferred)

Session(c) ==
    \/ Join(c) \/ JoinNowhere(c) \/ UpgradeFails(c)
    \/ Speak(c) \/ React(c) \/ EndSession(c)
    \/ Beat(c) \/ touch_and_check_idle(c) \/ RoomClosed(c) \/ CleanupUser(c)

Time == RoomIdles \/ \E u \in Users : GoQuiet(u) \/ RetentionPasses(u)

Next == \/ \E c \in Conns : Admit(c) \/ Session(c)
        \/ Time
        \/ cleanup_rooms

Spec == Init /\ [][Next]_vars

\* Every session's heartbeat keeps ticking, a finished session is torn down,
\* the housekeeping interval keeps firing and time passes. No peer is obliged
\* to connect, to complete an upgrade, to speak or to close.
Fairness ==
    /\ \A c \in Conns :
        /\ WF_vars(Beat(c))
        /\ WF_vars(touch_and_check_idle(c))
        /\ WF_vars(RoomClosed(c))
        /\ WF_vars(JoinNowhere(c))
        /\ WF_vars(CleanupUser(c))
    /\ \A u \in Users : WF_vars(GoQuiet(u)) /\ WF_vars(RetentionPasses(u))
    /\ WF_vars(RoomIdles)
    /\ WF_vars(cleanup_rooms)

FairSpec == Spec /\ Fairness

----------------------------------------------------------------------------
(* Properties *)

\* Types; also, every entry is under a roster name (no guest, nothing forged),
\* and the pool is the whole roster in this room's order, never a free list
\* that grows or shrinks.
TypeOK ==
    /\ pc \in [Conns -> {"idle", "admitted", "ending"} \cup Sessions]
    /\ voice \in [Conns -> Names \cup {NoName}]
    /\ heard \subseteq Conns
    /\ holder \in [Users -> Conns \cup {Gone, Unknown}]
    /\ name \in [Users -> Names \cup {NoName}]
    /\ \A u \in Users : name[u] = NoName <=> u \notin Present
    /\ quiet \subseteq Present
    /\ stale \subseteq {u \in Users : holder[u] = Gone}
    /\ exists \in BOOLEAN
    /\ IF exists THEN pool \in Orders ELSE pool = <<>> /\ Present = {}
    /\ idle \in BOOLEAN

\* A user is marked as gone only by the teardown of the very connection the
\* room counts for it: a superseded socket's late teardown never is.
OnlyOwnTeardownDeparts ==
    [][\A u \in Users : holder[u] \in Conns /\ holder'[u] = Gone =>
         pc[holder[u]] = "ending" /\ pc'[holder[u]] = "idle"]_vars

\* Nobody is counted on behalf of a connection that no longer exists, across
\* supersession, late joins and vanished rooms: the count means people here.
NoGhosts ==
    \A u \in Connected : pc[holder[u]] # "idle" /\ Who[holder[u]] = u

\* No two connected users share a name.
ConnectedNamesDistinct ==
    \A u, v \in Connected : u # v => name[u] # name[v]

\* The room never counts more connected users than its limit.
WithinRoomLimit == Cardinality(Connected) <= Limit

\* A running session is the one its room counts, in the room it joined, and
\* its user goes by the name it speaks under: neither a sweep nor another
\* connection's teardown takes the entry away beneath it.
SessionOwnsItsEntry ==
    \A c \in Conns : pc[c] \in Sessions =>
        exists /\ c \in heard /\ Counted(c) /\ voice[c] = name[Who[c]]

\* Once nobody is connected any more, every entry is reclaimed and the room
\* itself is deleted: rooms that die are the product.
AbandonedRoomForgotten ==
    <>[](\A c \in Conns : pc[c] = "idle") => <>[]~exists

\* A socket whose user has gone quiet is closed, unless the user speaks again or
\* the entry goes; one that another connection has superseded is closed, unless
\* that successor ends first, after which no heartbeat finds the user's entry held
\* by another (touch_and_check_idle, is_superseded).
SocketClosesUnlessOrphaned ==
    \A c \in Conns :
        LET socket == pc[c] \in Sessions
        IN  /\ socket /\ Who[c] \in quiet ~> ~socket \/ Who[c] \notin quiet
            /\ socket /\ is_superseded(c) ~> ~socket \/ Who[c] \notin Connected

\* What ENGINEERING-STANDARDS.md, section 5.9d, says of the same socket: once
\* another connection has taken the identity over, it is closed.
SupersededSocketCloses ==
    \A c \in Conns :
        pc[c] \in Sessions /\ is_superseded(c) ~> pc[c] \notin Sessions

=============================================================================
