------------------------------- MODULE NovaGroup -------------------------------
(***************************************************************************)
(* The shared group of the `nova` room: the server, sole committer, adds   *)
(* and removes members; the seal loop reads the room's plaintext channel,  *)
(* seals each frame once and republishes it; every connection forwards the *)
(* sealed stream to its browser (session/nova.rs, session/lifecycle.rs,    *)
(* session/tasks.rs, client.js, nova-wasm).                                *)
(*                                                                         *)
(* The mutex of `nova_group` is held across the wait for the lock of       *)
(* `rooms`, and the lock of `rooms` across the rendering of a message;     *)
(* these are the two places where a step is split. A connection's tasks    *)
(* are raced and dropped, so a join can be abandoned at such a wait.       *)
(***************************************************************************)
EXTENDS Integers, FiniteSets, Sequences, FiniteSetsExt

CONSTANTS
    Conns,      \* connections to the room, each connecting once
    Capacity,   \* NOVA_GROUP_CAPACITY; leaf 0 is the server's
    MaxFrames,  \* bound: messages rendered
    Cancels,    \* may a session end while its join awaits the room lock?
    NoOne       \* no connection: a blank leaf, a free lock

ASSUME NovaAssumption ==
    /\ Capacity \in Nat \ {0, 1}
    /\ MaxFrames \in Nat
    /\ Cancels \in BOOLEAN
    /\ NoOne \notin Conns

VARIABLES
    pc,        \* where each connection is
    slot,      \* NovaSlot::leaf_index, 0 for None
    member,    \* the group's leaves: the connection that joined there
    epoch,     \* the server's group epoch
    seq,       \* the server's next sequence number in that epoch
    holder,    \* who holds nova_group across an await
    plain,     \* frames in the room's channel, not yet read by the seal loop
    hand,      \* the frame the seal loop has read and not sealed, if any
    stream,    \* nova_sealed_sender, as each subscriber still has to forward it
    client,    \* the group state of each browser
    welcome,   \* the epoch of the NovaWelcome a connection is owed or has had
    rendered,  \* messages rendered so far
    overtaken  \* history: epochs with a frame sealed while a commit waited unrelayed

wire == <<plain, hand, stream, client>>
group == <<member, epoch, seq, holder>>
own == <<slot, welcome>>
vars == <<pc, slot, member, epoch, seq, holder, plain, hand, stream, client,
          welcome, rendered, overtaken>>

Leaves == 1 .. Capacity - 1

App == [kind |-> "app"]
NovaCommit(e) == [kind |-> "commit", epoch |-> e]
GroupSealed(e, s) == [kind |-> "sealed", epoch |-> e, seq |-> s]

\* A browser that has not joined, and one that has reached an epoch.
AwaitingJoin == [joined |-> FALSE, epoch |-> 0, next |-> 0]
Joined(e, n) == [joined |-> TRUE, epoch |-> e, next |-> n]

\* The session's tasks are running.
Running == {"in", "rendering", "adding", "owed"}

RoomsFree == \A c \in Conns : pc[c] # "rendering"
GroupFree == holder = NoOne

Init ==
    /\ pc = [c \in Conns |-> "out"]
    /\ slot = [c \in Conns |-> 0]
    /\ member = [l \in Leaves |-> NoOne]
    /\ epoch = 0 /\ seq = 0
    /\ holder = NoOne
    /\ plain = <<>> /\ hand = <<>>
    /\ stream = [c \in Conns |-> <<>>]
    /\ client = [c \in Conns |-> AwaitingJoin]
    /\ welcome = [c \in Conns |-> 0]
    /\ rendered = 0
    /\ overtaken = {}

Goto(c, place) == pc' = [pc EXCEPT ![c] = place]

\* Room code under the lock of `rooms`.
Publish(frame) ==
    /\ RoomsFree
    /\ plain' = Append(plain, frame)

----------------------------------------------------------------------------
(* Sessions *)

\* join_room: subscribe to the sealed channel, then announce the arrival.
Connect(c) ==
    /\ pc[c] = "out"
    /\ Publish(App)
    /\ Goto(c, "in")
    /\ UNCHANGED <<group, own, hand, stream, client, rendered, overtaken>>

\* A message: the room lock is held while it renders off the thread.
StartRender(c) ==
    /\ pc[c] = "in"
    /\ RoomsFree
    /\ rendered < MaxFrames
    /\ rendered' = rendered + 1
    /\ Goto(c, "rendering")
    /\ UNCHANGED <<group, own, wire, overtaken>>

FinishRender(c) ==
    /\ pc[c] = "rendering"
    /\ plain' = Append(plain, App)
    /\ Goto(c, "in")
    /\ UNCHANGED <<group, own, hand, stream, client, rendered, overtaken>>

\* The select! drops the session's tasks. The browser is gone with the socket;
\* a render or a join in progress is dropped where it waits, locks and all.
EndSession(c) ==
    /\ pc[c] \in Running
    /\ pc[c] = "adding" => Cancels
    /\ holder' = IF holder = c THEN NoOne ELSE holder
    /\ stream' = [stream EXCEPT ![c] = <<>>]
    /\ client' = [client EXCEPT ![c] = AwaitingJoin]
    /\ welcome' = [welcome EXCEPT ![c] = 0]
    /\ Goto(c, IF slot[c] = 0 THEN "closing" ELSE "leaving")
    /\ UNCHANGED <<slot, member, epoch, seq, plain, hand, rendered, overtaken>>

\* cleanup_user, which announces the departure unless it is superseded.
CleanupUser(c) ==
    /\ pc[c] = "closing"
    /\ RoomsFree
    /\ plain' \in {plain, Append(plain, App)}
    /\ Goto(c, "gone")
    /\ UNCHANGED <<group, own, hand, stream, client, rendered, overtaken>>

----------------------------------------------------------------------------
(* Membership *)

\* Mutant: nobody asks which leaves are taken.
FirstLeaf == 1

\* propose_add takes the first blank leaf.
FirstBlank == Min({l \in Leaves : member[l] = NoOne})

\* Mutant: the mutex is released before the commit is published.
CommitUnlocked(c) ==
    /\ GroupFree
    /\ epoch' = epoch + 1
    /\ seq' = 0
    /\ UNCHANGED holder

\* The group advances and its mutex stays held until the commit is published.
Commit(c) ==
    /\ GroupFree
    /\ epoch' = epoch + 1
    /\ seq' = 0
    /\ holder' = c

\* handle_join_request, as far as the wait for the room lock. A second join
\* and a full group are refused without a change.
ProposeAdd(c) ==
    /\ pc[c] = "in"
    /\ slot[c] = 0
    /\ \E l \in Leaves : member[l] = NoOne
    /\ Commit(c)
    /\ member' = [member EXCEPT ![FirstBlank] = c]
    /\ Goto(c, "adding")
    /\ UNCHANGED <<own, wire, rendered, overtaken>>

\* The commit is broadcast, the locks released and the leaf index recorded.
PublishAdd(c) ==
    /\ pc[c] = "adding"
    /\ Publish(NovaCommit(epoch))
    /\ holder' = NoOne
    /\ slot' = [slot EXCEPT ![c] = CHOOSE l \in Leaves : member[l] = c]
    /\ welcome' = [welcome EXCEPT ![c] = epoch]
    /\ Goto(c, "owed")
    /\ UNCHANGED <<member, epoch, seq, hand, stream, client, rendered, overtaken>>

\* The reply goes out on the connection's own sink; the browser joins.
SendWelcome(c) ==
    /\ pc[c] = "owed"
    /\ client' = [client EXCEPT ![c] = Joined(welcome[c], 0)]
    /\ Goto(c, "in")
    /\ UNCHANGED <<group, own, plain, hand, stream, rendered, overtaken>>

\* remove_member, as far as the wait for the room lock; nothing drops it.
ProposeRemove(c) ==
    /\ pc[c] = "leaving"
    /\ Commit(c)
    /\ member' = [member EXCEPT ![slot[c]] = NoOne]
    /\ Goto(c, "removing")
    /\ UNCHANGED <<own, wire, rendered, overtaken>>

\* Mutant: the mutex is kept.
PublishRemoveLocked(c) ==
    /\ pc[c] = "removing"
    /\ Publish(NovaCommit(epoch))
    /\ Goto(c, "closing")
    /\ UNCHANGED <<group, own, hand, stream, client, rendered, overtaken>>

PublishRemove(c) ==
    /\ pc[c] = "removing"
    /\ Publish(NovaCommit(epoch))
    /\ holder' = NoOne
    /\ Goto(c, "closing")
    /\ UNCHANGED <<member, epoch, seq, own, hand, stream, client, rendered, overtaken>>

----------------------------------------------------------------------------
(* run_seal_loop *)

Subscribed == {c \in Conns : pc[c] \in Running}
Broadcast(frame) ==
    stream' = [c \in Conns |->
                 IF c \in Subscribed THEN Append(stream[c], frame) ELSE stream[c]]

\* The next frame: a commit is relayed as it is, anything else is to be sealed.
Relay ==
    /\ hand = <<>> /\ plain # <<>>
    /\ plain' = Tail(plain)
    /\ IF Head(plain) = App
       THEN hand' = <<App>> /\ UNCHANGED stream
       ELSE Broadcast(Head(plain)) /\ UNCHANGED hand
    /\ UNCHANGED <<pc, group, own, client, rendered, overtaken>>

CommitEpochs(frames) ==
    {frames[i].epoch : i \in {j \in DOMAIN frames : frames[j].kind = "commit"}}

\* Mutant: the shared chain seals for a single connection.
SealForOne ==
    /\ hand # <<>> /\ GroupFree
    /\ hand' = <<>>
    /\ \E c \in Subscribed :
        stream' = [stream EXCEPT ![c] = Append(@, GroupSealed(epoch, seq))]
    /\ seq' = seq + 1
    /\ overtaken' = IF CommitEpochs(plain) = {} THEN overtaken ELSE overtaken \cup {epoch}
    /\ UNCHANGED <<pc, member, epoch, holder, own, plain, client, rendered>>

\* The mutex is taken, the frame sealed in the epoch of that moment: a commit may
\* have been made since the frame was read, and wait behind it in the channel.
Seal ==
    /\ hand # <<>> /\ GroupFree
    /\ hand' = <<>>
    /\ Broadcast(GroupSealed(epoch, seq))
    /\ seq' = seq + 1
    /\ overtaken' = IF CommitEpochs(plain) = {} THEN overtaken ELSE overtaken \cup {epoch}
    /\ UNCHANGED <<pc, member, epoch, holder, own, plain, client, rendered>>

----------------------------------------------------------------------------
(* The browser *)

\* Group::open takes exactly the next record of the current epoch.
Opens(b, frame) == b.joined /\ frame.epoch = b.epoch /\ frame.seq = b.next
\* Group::apply_commit takes exactly the commit to the next epoch.
Fits(b, frame) == b.joined /\ frame.epoch = b.epoch + 1

\* applyNovaGroupCommit and handleGroupSealedEvent: what does not apply, the
\* connection's own admitting commit among it, is logged and dropped.
Accept(b, frame) ==
    CASE frame.kind = "commit" /\ Fits(b, frame) -> Joined(frame.epoch, 0)
      [] frame.kind = "sealed" /\ Opens(b, frame) -> Joined(b.epoch, b.next + 1)
      [] OTHER -> b

\* forward_broadcasts, and what the browser does with the frame. The sink is a
\* FIFO mutex, so a NovaWelcome owed goes out before the next frame.
Forward(c) ==
    /\ pc[c] \in Running \ {"owed"} /\ stream[c] # <<>>
    /\ client' = [client EXCEPT ![c] = Accept(client[c], Head(stream[c]))]
    /\ stream' = [stream EXCEPT ![c] = Tail(stream[c])]
    /\ UNCHANGED <<pc, group, own, plain, hand, rendered, overtaken>>

----------------------------------------------------------------------------
Session(c) ==
    \/ Connect(c) \/ StartRender(c) \/ FinishRender(c)
    \/ EndSession(c) \/ CleanupUser(c)
    \/ ProposeAdd(c) \/ PublishAdd(c) \/ SendWelcome(c)
    \/ ProposeRemove(c) \/ PublishRemove(c)
    \/ Forward(c)

Next == Relay \/ Seal \/ \E c \in Conns : Session(c)

Spec == Init /\ [][Next]_vars

\* A task that can run does; no browser is obliged to connect, join or speak,
\* and none to stay.
FairSpec ==
    /\ Spec
    /\ WF_vars(Relay) /\ WF_vars(Seal)
    /\ \A c \in Conns :
        /\ WF_vars(FinishRender(c) \/ PublishAdd(c) \/ SendWelcome(c))
        /\ WF_vars(ProposeRemove(c) \/ PublishRemove(c) \/ CleanupUser(c))
        /\ WF_vars(Forward(c))

----------------------------------------------------------------------------
(* Properties *)

IsCommit(f) == f.kind = "commit" /\ f.epoch \in 1 .. epoch
IsSealed(f) == f.kind = "sealed" /\ f.epoch \in 0 .. epoch /\ f.seq \in Nat

\* Types; a frame never carries an epoch the group has not reached.
TypeOK ==
    /\ pc \in [Conns -> Running \cup {"out", "leaving", "removing", "closing", "gone"}]
    /\ slot \in [Conns -> 0 .. Capacity - 1]
    /\ member \in [Leaves -> Conns \cup {NoOne}]
    /\ epoch \in Nat /\ seq \in Nat /\ rendered \in 0 .. MaxFrames
    /\ holder \in {c \in Conns : pc[c] \in {"adding", "removing"}} \cup {NoOne}
    /\ \A i \in DOMAIN plain : plain[i] = App \/ IsCommit(plain[i])
    /\ hand \in {<<>>, <<App>>}
    /\ client \in [Conns -> [joined : BOOLEAN, epoch : 0 .. epoch, next : Nat]]
    /\ welcome \in [Conns -> 0 .. epoch]
    /\ overtaken \subseteq 0 .. epoch
    /\ \A c \in Conns : \A i \in DOMAIN stream[c] :
        IsCommit(stream[c][i]) \/ IsSealed(stream[c][i])

CommitsAscend(frames) ==
    \A i, j \in DOMAIN frames :
        i < j /\ frames[i].kind = "commit" /\ frames[j].kind = "commit"
        => frames[i].epoch < frames[j].epoch

\* The last epoch whose commit is out: an author that waits to publish one holds
\* the mutex.
Published == IF GroupFree THEN epoch ELSE epoch - 1

\* Commits reach every subscriber in production order with none missing,
\* whichever joins and departures overlap: producing and publishing are atomic.
\* A browser that has joined can therefore always catch up with the group.
CommitsConsecutive ==
    \A c \in Subscribed :
        LET way == stream[c] \o plain
            coming == CommitEpochs(way)
        IN  /\ CommitsAscend(way)
            /\ \A e \in coming : e .. Published \subseteq coming
            /\ client[c].joined => client[c].epoch + 1 .. Published \subseteq coming

\* What is forwarded to a browser next is a frame sealed since its leaf was added.
SealedFor(c) ==
    /\ client[c].joined
    /\ stream[c] # <<>> /\ Head(stream[c]).kind = "sealed"
    /\ Head(stream[c]).epoch >= welcome[c]

\* A member can open every frame sealed since it was added: it comes after the
\* commit to its epoch and before the next, with the number the member expects,
\* whichever joins, welcomes and departures overlap. Not so in an epoch one of whose
\* frames was sealed while a commit still waited behind it in the channel (Seal).
FramesOpen ==
    \A c \in Subscribed :
        SealedFor(c) /\ Head(stream[c]).epoch \notin overtaken
        => Opens(client[c], Head(stream[c]))

\* What nova.rs says of the one seal loop: in publish order, nothing it seals is
\* rejected as out of turn.
MembersOpenAll ==
    \A c \in Subscribed : SealedFor(c) => Opens(client[c], Head(stream[c]))

\* A leaf belongs to one connection, which has not been torn down: no dead
\* leaf's keys live on, and none is removed under a member that stays.
LeavesAreLive ==
    /\ \A l \in Leaves : member[l] # NoOne =>
        pc[member[l]] \in {"in", "rendering", "adding", "owed", "leaving"}
    /\ \A c \in Conns : pc[c] \in Running /\ slot[c] # 0 => member[slot[c]] = c

\* Neither lock of the pair is held forever and no wait is circular: a
\* connection that ends is torn down, its removal committed and published.
TeardownCompletes ==
    \A c \in Conns : pc[c] \in {"leaving", "removing", "closing"} ~> pc[c] = "gone"
=============================================================================
