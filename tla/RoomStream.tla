------------------------------ MODULE RoomStream ------------------------------
(***************************************************************************)
(* The way of a frame from the room to a browser: the room's broadcast     *)
(* channel, the history replayed first, the forward task, the replies of   *)
(* the receive task that share its sink, and the panel of participants     *)
(* that the page keeps from what arrives (session/lifecycle.rs, tasks.rs,  *)
(* events.rs, teardown.rs, room/presence.rs, client.js).                   *)
(*                                                                         *)
(* A user has one connection at a time here; RoomPresence has those with   *)
(* several. A user's name stands for the user. The count of users that     *)
(* goes out with an announcement is part of that frame; the one that goes  *)
(* out with an admission, which is announced later, tells of no one.       *)
(***************************************************************************)
EXTENDS Integers, FiniteSets, Sequences

CONSTANTS
    Users,
    Watchers,   \* those whose person opens and closes the panel of participants
    Capacity,   \* BROADCAST_CHANNEL_CAPACITY: frames the channel holds
    Buffer,     \* frames a socket takes before a send waits
    MaxLog,     \* bound: frames sent in the room
    MaxAsked    \* bound: requests for the roster on the way

ASSUME StreamAssumption ==
    /\ Watchers \subseteq Users
    /\ Capacity \in Nat \ {0} /\ Buffer \in Nat
    /\ MaxLog \in Nat /\ MaxAsked \in Nat

VARIABLES
    log,        \* every frame sent: who arrived or left, or talk
    kept,       \* chat_history: positions in the log
    connected,  \* users whose state is Connected
    stage,      \* each user's session: out, admitted, replay, live or ended
    backlog,    \* history copied for the session and not sent yet
    cursor,     \* the receiver: the next frame of the channel to take
    down,       \* sink, socket and network: what is on its way to the page
    last,       \* the frame the page got last on this connection
    asked,      \* RequestRoster events on their way to the session
    reply,      \* the roster that waits for the sink, and the log when it was read
    panel,      \* users whose panel of participants is open
    roster,     \* the names the page has
    answered    \* history: a roster came since the panel was opened, on this connection

session == <<stage, backlog, cursor>>
page == <<last, panel, roster, answered>>
vars == <<log, kept, connected, stage, backlog, cursor, down, last, asked, reply,
          panel, roster, answered>>

Frame(p) == [kind |-> "frame", pos |-> p]
Roster(users) == [kind |-> "roster", users |-> users]

Talk == [kind |-> "talk"]

Serving == {u \in Users : stage[u] \in {"replay", "live"}}

\* Whose arrival was announced, and whose departure was not.
Announced == {u \in Users : stage[u] \in {"replay", "live", "ended"}}
Admitted == {u \in Users : stage[u] = "admitted"}

Init ==
    /\ log = <<>>
    /\ kept = {}
    /\ connected = {}
    /\ stage = [u \in Users |-> "out"]
    /\ backlog = [u \in Users |-> {}]
    /\ cursor = [u \in Users |-> 1]
    /\ down = [u \in Users |-> <<>>]
    /\ last = [u \in Users |-> 0]
    /\ asked = [u \in Users |-> 0]
    /\ reply = [u \in Users |-> <<>>]
    /\ panel = {}
    /\ roster = [u \in Users |-> {}]
    /\ answered = {}

\* Bound: when the log is full, nobody comes, speaks or is torn down any more.
LogOpen == Len(log) < MaxLog

-----------------------------------------------------------------------------
\* The session's side.

\* admit_user, in the request that asks for the upgrade: the entry is Connected,
\* or stays so, and a head count goes out.
admit_user(u) ==
    /\ stage[u] = "out" /\ down[u] = <<>>
    /\ LogOpen
    /\ connected' = connected \cup {u}
    /\ log' = Append(log, Talk)
    /\ stage' = [stage EXCEPT ![u] = "admitted"]
    /\ UNCHANGED <<kept, backlog, cursor, down, asked, reply, page>>

\* The client vanished before the upgrade, so no session and no teardown: the
\* entry stays Connected until the same user comes again and leaves.
UpgradeFails(u) ==
    /\ stage[u] = "admitted"
    /\ stage' = [stage EXCEPT ![u] = "out"]
    /\ UNCHANGED <<log, kept, connected, backlog, cursor, down, asked, reply, page>>

\* Mutant: the channel is subscribed to after the arrival is announced.
JoinThenSubscribe(u) ==
    /\ stage[u] = "admitted"
    /\ LogOpen
    /\ connected' = connected \cup {u}
    /\ cursor' = [cursor EXCEPT ![u] = Len(log) + 2]
    /\ log' = Append(log, [kind |-> "joined", who |-> u])
    /\ backlog' = [backlog EXCEPT ![u] = kept]
    /\ stage' = [stage EXCEPT ![u] = "replay"]
    /\ last' = [last EXCEPT ![u] = 0]
    /\ answered' = answered \ {u}
    /\ UNCHANGED <<kept, down, asked, reply, panel, roster>>

\* After the upgrade, under one hold of the lock of `rooms`: the entry (Connected
\* already), the subscription, the announcement, the copy of the history. The page
\* keeps the names it had.
join_room(u) ==
    /\ stage[u] = "admitted"
    /\ LogOpen
    /\ connected' = connected \cup {u}
    /\ cursor' = [cursor EXCEPT ![u] = Len(log) + 1]
    /\ log' = Append(log, [kind |-> "joined", who |-> u])
    /\ backlog' = [backlog EXCEPT ![u] = kept]
    /\ stage' = [stage EXCEPT ![u] = "replay"]
    /\ last' = [last EXCEPT ![u] = 0]
    /\ answered' = answered \ {u}
    /\ UNCHANGED <<kept, down, asked, reply, panel, roster>>

\* Mutant: tasks queue what they have without waiting for the sink.
SinkNeverFull(u) == u \in Users

\* A task may queue on the sink when what it sent before has gone.
SinkFree(u) == Len(down[u]) <= Buffer

\* One message of the history, oldest first; after the last, the four tasks.
send_history(u) ==
    /\ stage[u] = "replay"
    /\ SinkFree(u)
    /\ IF backlog[u] = {}
       THEN /\ stage' = [stage EXCEPT ![u] = "live"]
            /\ UNCHANGED <<backlog, down>>
       ELSE \E p \in backlog[u] :
            /\ \A q \in backlog[u] : p <= q
            /\ backlog' = [backlog EXCEPT ![u] = @ \ {p}]
            /\ down' = [down EXCEPT ![u] = Append(@, Frame(p))]
            /\ UNCHANGED stage
    /\ UNCHANGED <<log, kept, connected, cursor, asked, reply, page>>

\* Mutant: whoever is quicker takes the sink.
NeverBehind(u) == u \notin Users

\* The sink's lock is taken in the order it is asked for: a frame sent after the
\* roster was read goes after it. Of those before, one may be waiting already.
Behind(u) == reply[u] # <<>> /\ cursor[u] > reply[u][1].upto

\* The channel has overwritten the frame the receiver would take next.
Lagged(u) == Len(log) - cursor[u] + 1 > Capacity

\* Mutant: a receiver that lagged goes on with the oldest frame still there.
SkipAndForward(u) ==
    LET from == IF Lagged(u) THEN Len(log) - Capacity + 1 ELSE cursor[u]
    IN  /\ stage[u] = "live"
        /\ SinkFree(u) /\ ~ Behind(u)
        /\ cursor[u] <= Len(log)
        /\ cursor' = [cursor EXCEPT ![u] = from + 1]
        /\ down' = [down EXCEPT ![u] = Append(@, Frame(from))]
        /\ UNCHANGED <<log, kept, connected, stage, backlog, asked, reply, page>>

\* Mutant: the tasks are joined, not raced: when this one ends the session goes on.
ForwardAlone(u) ==
    /\ stage[u] = "live"
    /\ SinkFree(u) /\ ~ Behind(u)
    /\ cursor[u] <= Len(log)
    /\ ~ Lagged(u)
    /\ cursor' = [cursor EXCEPT ![u] = @ + 1]
    /\ down' = [down EXCEPT ![u] = Append(@, Frame(cursor[u]))]
    /\ UNCHANGED <<log, kept, connected, stage, backlog, asked, reply, page>>

\* Any error of the receiver ends the task and with it the session.
forward_broadcasts(u) ==
    /\ stage[u] = "live"
    /\ SinkFree(u) /\ ~ Behind(u)
    /\ cursor[u] <= Len(log)
    /\ IF Lagged(u)
       THEN /\ stage' = [stage EXCEPT ![u] = "ended"]
            /\ reply' = [reply EXCEPT ![u] = <<>>]
            /\ UNCHANGED <<cursor, down>>
       ELSE /\ cursor' = [cursor EXCEPT ![u] = @ + 1]
            /\ down' = [down EXCEPT ![u] = Append(@, Frame(cursor[u]))]
            /\ UNCHANGED <<stage, reply>>
    /\ UNCHANGED <<log, kept, connected, backlog, asked, page>>

\* The receive task handles an event unless its last reply waits for the sink.
Hears(u) == stage[u] = "live" /\ reply[u] = <<>>

\* A message is stored, unless add_message refuses it for want of memory, after
\* it pruned what it could; it is broadcast in any case. A reaction is broadcast
\* and not stored.
apply_client_event(u) ==
    /\ Hears(u)
    /\ LogOpen
    /\ log' = Append(log, Talk)
    /\ kept' \in {kept \cup {Len(log) + 1}, kept} \cup
                 {{p \in kept : p > q} : q \in kept}
    /\ UNCHANGED <<connected, session, down, asked, reply, page>>

\* The roster is read under the lock of `rooms`, for the asker alone. The request
\* is dropped if it comes too soon after the last, or after a reaction, or when
\* the user's heartbeat has lapsed: time being left out, a choice.
RequestRoster(u) ==
    /\ Hears(u)
    /\ asked[u] > 0
    /\ asked' = [asked EXCEPT ![u] = @ - 1]
    /\ \/ reply' = [reply EXCEPT ![u] = <<[users |-> connected, upto |-> Len(log)]>>]
       \/ UNCHANGED reply
    /\ UNCHANGED <<log, kept, connected, session, down, page>>

\* The reply goes to the asker's own sink, which the receive task awaits.
SendReply(u) ==
    /\ stage[u] = "live" /\ reply[u] # <<>>
    /\ SinkFree(u)
    /\ down' = [down EXCEPT ![u] = Append(@, Roster(reply[u][1].users))]
    /\ reply' = [reply EXCEPT ![u] = <<>>]
    /\ UNCHANGED <<log, kept, connected, session, asked, page>>

\* cleanup_messages: messages too old are let go of, oldest first.
cleanup_messages ==
    /\ \E q \in kept : kept' = {p \in kept : p > q}
    /\ UNCHANGED <<log, connected, session, down, asked, reply, page>>

\* The heartbeat task closes an idle session, or the page closes it.
EndSession(u) ==
    /\ stage[u] = "live"
    /\ stage' = [stage EXCEPT ![u] = "ended"]
    /\ reply' = [reply EXCEPT ![u] = <<>>]
    /\ UNCHANGED <<log, kept, connected, backlog, cursor, down, asked, page>>

\* The connection breaks, or the page lets go of it: what is on it is gone.
LoseConnection(u) ==
    /\ stage[u] \in {"replay", "live"} \/ down[u] # <<>>
    /\ stage' = [stage EXCEPT ![u] = IF u \in Serving THEN "ended" ELSE @]
    /\ backlog' = [backlog EXCEPT ![u] = {}]
    /\ down' = [down EXCEPT ![u] = <<>>]
    /\ asked' = [asked EXCEPT ![u] = 0]
    /\ reply' = [reply EXCEPT ![u] = <<>>]
    /\ UNCHANGED <<log, kept, connected, cursor, page>>

\* Under one hold of the lock: the announcement and the entry.
cleanup_user(u) ==
    /\ stage[u] = "ended"
    /\ LogOpen
    /\ log' = Append(log, [kind |-> "left", who |-> u])
    /\ connected' = connected \ {u}
    /\ stage' = [stage EXCEPT ![u] = "out"]
    /\ asked' = [asked EXCEPT ![u] = 0]
    /\ UNCHANGED <<kept, backlog, cursor, down, reply, page>>

-----------------------------------------------------------------------------
\* The page's side.

\* Opening the panel asks for the roster; before the session reads, the request
\* waits in the socket.
toggleParticipants(u) ==
    /\ u \in Watchers
    /\ panel' = IF u \in panel THEN panel \ {u} ELSE panel \cup {u}
    /\ answered' = answered \ {u}
    /\ IF u \notin panel /\ u \in Serving
       THEN asked[u] < MaxAsked /\ asked' = [asked EXCEPT ![u] = @ + 1]
       ELSE UNCHANGED asked
    /\ UNCHANGED <<log, kept, connected, session, down, reply, last, roster>>

\* Names change only while the panel is open.
updateRosterFrom(u, frame) ==
    IF u \notin panel THEN roster[u]
    ELSE IF frame.kind = "joined" THEN roster[u] \cup {frame.who}
    ELSE IF frame.kind = "left" THEN roster[u] \ {frame.who}
    ELSE roster[u]

handleServerEvent(u) ==
    LET item == Head(down[u])
    IN  /\ down[u] # <<>>
        /\ down' = [down EXCEPT ![u] = Tail(@)]
        /\ IF item.kind = "roster"
           THEN /\ roster' = [roster EXCEPT ![u] = item.users]
                /\ answered' = IF u \in panel THEN answered \cup {u} ELSE answered
                /\ UNCHANGED last
           ELSE /\ last' = [last EXCEPT ![u] = item.pos]
                /\ roster' = [roster EXCEPT ![u] = updateRosterFrom(u, log[item.pos])]
                /\ UNCHANGED answered
        /\ UNCHANGED <<log, kept, connected, session, asked, reply, panel>>

Next ==
    \/ \E u \in Users :
        \/ admit_user(u) \/ UpgradeFails(u) \/ join_room(u)
        \/ send_history(u) \/ forward_broadcasts(u)
        \/ apply_client_event(u) \/ RequestRoster(u) \/ SendReply(u)
        \/ EndSession(u) \/ LoseConnection(u) \/ cleanup_user(u)
        \/ toggleParticipants(u) \/ handleServerEvent(u)
    \/ cleanup_messages

Spec == Init /\ [][Next]_vars

\* The tasks run when they can: the sink's lock is fair, so replies do not keep
\* the forward task from it for ever. The network delivers or breaks.
Fairness ==
    \A u \in Users :
        /\ WF_vars(send_history(u))
        /\ SF_vars(forward_broadcasts(u))
        /\ WF_vars(SendReply(u))
        /\ WF_vars(handleServerEvent(u) \/ LoseConnection(u))

FairSpec == Spec /\ Fairness

-----------------------------------------------------------------------------
\* The types of the state.
Frames == [kind : {"joined", "left"}, who : Users] \cup [kind : {"talk"}]
Items == [kind : {"frame"}, pos : Nat] \cup [kind : {"roster"}, users : SUBSET Users]
Replies == [users : SUBSET Users, upto : Nat]

TypeOK ==
    /\ log \in Seq(Frames)
    /\ kept \subseteq 1 .. Len(log)
    /\ connected \subseteq Users
    /\ stage \in [Users -> {"out", "admitted", "replay", "live", "ended"}]
    /\ backlog \in [Users -> SUBSET (1 .. Len(log))]
    /\ cursor \in [Users -> 1 .. Len(log) + 1]
    /\ down \in [Users -> Seq(Items)]
    /\ \A u \in Users : Len(down[u]) <= Buffer + 1
    /\ last \in [Users -> 0 .. Len(log)]
    /\ asked \in [Users -> 0 .. MaxAsked]
    /\ reply \in [Users -> Seq(Replies)]
    /\ panel \subseteq Users /\ answered \subseteq panel
    /\ roster \in [Users -> SUBSET Users]

InFlight(u) == {p \in 1 .. Len(log) : \E i \in DOMAIN down[u] : down[u][i] = Frame(p)}
ToForward(u) == IF u \in Serving THEN cursor[u] .. Len(log) ELSE {}
Owed(u) == backlog[u] \cup InFlight(u) \cup ToForward(u)

\* The stream implements the mailboxes: history, then one's own arrival, then
\* every frame in order and once, with nothing lost between the copy of the
\* history and the channel; a receiver the channel overtakes loses the session.
Mail == INSTANCE Mailboxes WITH
    size <- Len(log), in <- Serving, owed <- [u \in Users |-> Owed(u)]

StreamIsMail == Mail!Spec

\* Once a roster has come, an open panel that has got all that was sent shows
\* everyone whose arrival was announced and nobody who is not Connected: the reply
\* and the arrivals and departures around it wait for the sink in an order that
\* loses no one. It may lack, or have, those who are Connected and were never
\* announced: admitted and not joined yet, or gone before their upgrade
\* (admit_user, join_room, RequestRoster, updateRosterFrom).
CaughtUp(u) ==
    stage[u] = "live" /\ cursor[u] > Len(log) /\ reply[u] = <<>> /\ down[u] = <<>>

RosterCurrent ==
    \A u \in answered : CaughtUp(u) => Announced \subseteq roster[u] /\ roster[u] \subseteq connected

\* What the documentation of Roster in protocol.rs says of the same panel: asked
\* for when it is opened, it is kept current from arrivals and departures. Asked of
\* the moments when nobody is on the way in or out, it has whom the server has.
KeptCurrent ==
    \A u \in answered :
        CaughtUp(u) /\ (\A w \in Users : stage[w] \in {"out", "replay", "live"})
        => roster[u] = connected

\* Whoever is owed frames gets them, or the connection ends: once the room falls
\* quiet, as it does here when the log is full, no one is left behind, neither in
\* the replay nor behind one's own replies (run_session, forward_broadcasts).
OwedComes == \A u \in Users : []<>(Owed(u) = {})
=============================================================================
