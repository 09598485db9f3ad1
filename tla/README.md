# A TLA+ verification of the chat server

The program is an anonymous chat server: rooms appear when somebody opens
their address, people in them are animals, nothing is persisted, and a room
nobody is in is deleted. It is one Rust process on Tokio's `current_thread`
runtime (`src/src/main.rs:32`), with a browser client (`src/client.js`), a
WebAssembly crypto module (`src/nova-wasm`) and an optional operator process
(`src/nova-operator`).

This directory models its stateful core in TLA+, checks it with TLC on small
instances, and proves with TLAPS, for any instance, every safety property that
the passing runs check: the accounting of admission and of memory, who is counted
in a room and under which name, the order of a group's commits and what its
members can open, the agreement
of the operators on a key, the limits of anonymous posting, that a page has
one socket, and that what a room sends reaches a page as a mailbox would deliver
it.
Paths below are relative to the repository, which is `src/` here, so the
server's own sources are under `src/src/`.

## Inventory

| Component | State it keeps | Operations | What makes it correct |
|---|---|---|---|
| Admission and limits (`session/admission.rs`, `limits/`) | per-address counters, two global counters, strikes, bans | check, reserve, refuse, upgrade, release, sweep | every reservation returned once; ceilings hold; entries forgotten only when unused |
| Room presence (`session/lifecycle.rs`, `tasks.rs`, `teardown.rs`, `room/names.rs`, `presence.rs`, `cleanup.rs`) | the users of a room, which connection speaks for each, names, the name rotation | admit, join, heartbeat, evict, supersede, tear down, reclaim, delete | one name per connected user; the count means people; late teardowns harm nobody; dead rooms go |
| Room memory (`room/messages.rs`, `reactions.rs`, `limits/memory.rs`) | histories, reactions, byte counters, the shared tracker | store, prune, fade, trim, age, toggle a reaction, delete a room | what is charged is what is retained; the ceiling holds |
| Nova group (`session/nova.rs`, `nova-wasm`, `client.js`) | the shared group's epoch, sequence number and leaves; two channels; each browser's group | join, leave, publish, seal, forward, open | commits arrive in order and all of them; frames open; dead leaves go; two nested locks never block each other |
| A room's stream (`session/lifecycle.rs`, `tasks.rs`, `events.rs`) | the broadcast channel, each session's receiver, sink and pending reply | join, replay history, forward, reply, end | every frame after the arrival, once and in order, or the end of the connection; a panel that shows who is there |
| Client events and throttles (`session/events.rs`, `limits/rate_limiting.rs`) | per-user windows and throttles | message, reaction, roster, typing | budgets; nothing charged for nothing |
| Nova RLN (`session/nova_rln.rs`, `client.js`, `nova-wasm`) | membership tree, nullifiers per epoch; a page's identity, leaf, cooldown | register, path, message, slash | one text an epoch; nobody who keeps the cooldown is slashed; a post with a current path is accepted |
| Nova operators (`session/nova_operator.rs`, `nova-operator/`) | registry of operators, pending replies, key shares | enrol, DKG, sign, time out | replies match requests; a quorum suffices |
| Browser (`client.js`) | socket, back-off, timers, history | connect, reconnect, close, be put aside | one live socket; it comes back or waits for its person; no flapping between tabs |
| Routes, headers, validation, rendering | none of their own | pure functions of a request | not state machines |
| Start-up and housekeeping (`startup.rs`) | two intervals | sweep rooms, sweep limits | every sweep happens |

The components share three locks: the write lock of `AppState::rooms`, under
which all room code runs; the locks of the limit maps, taken one at a time; and
the mutex of `nova_group`, which nests outside `rooms`. Between two `.await`s a
task is never interrupted, so a step of a model is the code between two waits.
The hard behaviours are therefore what happens between the waits: requests that
pass a check together, a second connection under one identity, a client that
vanishes while its future is parked, a session's tasks dropped by `select!`
in the middle of something, a sweep between two steps of one connection, and a
reader that lags behind the lock-ordered writers. `PROJECT.json` lists each of
these hazards at its line, with the properties aimed at it.

## Plan

The order is that of importance. Written:

1. `Admission`, with its proofs in `AdmissionProofs`.
2. `RoomPresence`, with its proofs in `RoomPresenceProofs`.
3. `RoomMemory`, with its proofs in `RoomMemoryProofs`.
4. `NovaGroup`, with its proofs in `NovaGroupProofs`.
5. `NovaOperator`, with its proofs in `NovaOperatorProofs`.
6. `NovaRln`, with its proofs in `NovaRlnProofs`.
7. `Mailboxes`, the abstract specification of what a room promises those in it,
   and `RoomStream`, which implements it, with its proofs in `RoomStreamProofs`.
8. `RoomPage`, one page and its sockets, with its proofs in `RoomPageProofs`.

Left, in this order:

9. The nova seal loop as a second implementation of `Mailboxes`, with a
   bounded plaintext channel that it can lag off.
10. A composition of `Admission` and `RoomPresence`: one connection's slots and
    seat released together, and the cap on rooms.

## Modules

Each module is a state machine with one action per operation; the `MC` module
of the same name gives its constants values for TLC. Operators and actions
keep the names of the functions they model (`is_superseded`,
`fade_oldest_attachments`, `cleanup_rooms`), and `PROJECT.json` gives the lines
of each. An operator introduced by a comment that begins with `Mutant` is never
used by the specification: it is the faulty variant the property named for it
in `PROJECT.json` rejects.

### Admission

A connection attempt goes through `check_ip`, `can_accept`, the reservation of
`add_connection` and the global counter, `admit_user`'s verdict, the upgrade,
and the teardown; `pc[c]` says which lock it waits for next. The four paths out
are refusal before the reservation, refusal by the room (`ReleaseSlot`), the
teardown (`CleanupUser`) and, for the addresses in `Hangups`, a client that vanishes: hyper drops
the handler's future where it waits (`DropRequest`), or the upgrade never
completes and its callback never runs (`UpgradeFails`). Ages are sets of
entries that are old enough to be swept, grown by `Time` and reset where the
code stamps the time. Every attempt has an address: the code's `None` is
treated as one more address by the deployment, whose proxy always sets one.

### RoomPresence

One room. `holder[u]` is the entry of a user: the connection that speaks for it,
`Gone` (Disconnected) or `Unknown` (no entry). A connection is admitted (`Reclaim` for
a user the room knows, `Recognise` for any other), joins after the upgrade
(`Join`), speaks and reacts, has its heartbeat tick in two steps, because the
tick sends a frame between `is_superseded` and `touch_and_check_idle` (`Beat`,
`touch_and_check_idle`), and is torn down (`CleanupUser`). `cleanup_rooms` is
one housekeeping pass. The pool is the rotation of names, in any initial order.
That the room may be deleted and recreated between two steps of one connection
is part of the model, and so is a socket whose room was deleted (`RoomClosed`).

### RoomMemory

All rooms at once, since they share a ceiling. `rooms[r]` holds the history, the
ids, the reactions and the two byte counters of a room; `tracked` is the
process's tracker. A message's size is the sum the code takes: a constant for
the body, and the lengths of an attachment's MIME type and data. `fades` is a
history variable: the pictures each room has faded, by which the properties
state how far the counters may drift. What fading frees is one sum, over the shown
pictures that come before the room is within its budget (`FadedOf`), where the
code adds as it goes. `Post` is the whole of `add_message`; the
broadcast that follows it belongs to `RoomStream`.

### NovaGroup

The server's group (`epoch`, `seq`, `member`), the mutex held over an await
(`holder`), the plaintext channel the seal loop reads (`plain`, and `hand` for
the frame it has read and not sealed), each subscriber's sealed channel
(`stream`) and each browser (`client`). A join and a leave are two steps,
producing the commit and publishing it, with the mutex held and the lock of
`rooms` awaited in between; a message holds that lock while it renders
(`StartRender`, `FinishRender`), which is what makes the wait real. `EndSession`
may hit a session in any of its waits. The group's cryptography is
`novachannel`'s, an external crate, and is taken as `nova.rs` documents it:
a commit applies exactly at the epoch before it, and a record opens exactly at its
epoch and as the next of its sender's chain, with no recovery from a gap. A new
epoch starts a new chain. A `NovaWelcome` is on the connection's FIFO sink before the frames
forwarded after it; that a task may run out of Tokio's cooperative budget in
between is left out. Frames published together under one lock hold (a head
count and an arrival) are one frame of the model. `overtaken` is a history
variable: the epochs in which the loop sealed a frame while a commit waited behind
it in the channel. `welcome` keeps the epoch a browser was added in after its
welcome went out, by which the properties tell what was sealed for it.

### NovaOperator

Both ends of the operators' protocol. `reg` is the server's registry, under one
lock, so that each handler (`on_reveal`, `on_ceremony_ack`, ...) is one step;
`net` holds the sockets, a queue each way; `op` is each operator process, whose
local variables and position in `main` are its record; `demo` is each client's
`handle_demo_request`, which asks the quorum one by one (`request_reply`) and
advances when `OnReply` hands it an answer. A fresh connection is entered and
greeted in two critical sections (`Hello`, then `maybe_start_ceremony` or
`ConfirmReturn`), as in the code. `Break` breaks a connection at any moment: what
is in flight may still be read at either end, or not, until that end notices
(`Disconnect`, `LosesConnection`); `Kill` ends a process, which may be started
again without its share. A key is the set of dealers it sums, which is what the
two computations of it could disagree on; a deal may miss its hash, or give some
operators a share that fails. Points, proofs and signatures are
`novachannel-mpc`'s, an external crate. Messages no operator process of this repository sends
(a malformed point, a complaint that does not reproduce, `CeremonyFailed` from an
operator) are left out, and so is the outcome of a demonstration: only that it
ends is stated.

### NovaRln

The membership tree, the two slots of the nullifier set and, for each browser,
its identity, leaf, cooldown and the one place (`waiting`) for a text whose path
is awaited. `startNovaRlnRegistration`, `Send`, `PostAnonymously` and
`Registered` are the page's; `handle_register`, `handle_path_request` and
`handle_message` the server's, a session handling one event at a time; `Broadcast` is the end
of `handle_message`, which awaits the lock of `rooms` and may be dropped there.
`Tick` ends an epoch of the server, and each writer's clock is ahead of or behind
it by a fixed number of epochs (`Skews`). `careless` are pages of another
make, without a cooldown: they are who can be slashed. A proof verifies for the root,
the epoch and the text it was made for and shows a nullifier of its identity and
epoch, which is `novachannel-rln`'s interface. A root is numbered by the
leaves the tree had, since it only grows. The server's clock does not go back:
two epochs back it would empty a slot that still counts.

### RoomStream and Mailboxes

`Mailboxes` says what a room promises whoever is in it: what the room keeps when
they come, their own arrival, then every frame, each once and in order, until the connection
ends, and then a beginning of what was owed. `RoomStream` is how the code does it: `log` numbers the frames of
the room's broadcast channel, `cursor` is each session's receiver, which lags once
it is more than `Capacity` behind, `backlog` the history `join_room` copied under
the same hold of the lock, `down` all that is on its way to the page, in which
`Buffer` frames fit before a send waits. `RequestRoster` reads the roster and
`SendReply` sends it, because the lock of `rooms` is released in between; the
sink's mutex is handed over in the order it was asked for, which `Behind` states
and on which `RosterCurrent` rests. The page's panel (`toggleParticipants`,
`updateRosterFrom`, `handleServerEvent`) is in the same module. The refinement
(`StreamIsMail`) owes a user the union of the three places a frame can be
in: the history not yet sent, the way to the page, and the channel from the cursor on. One connection per
user at a time; superseded ones are in `RoomPresence`. Its arrival takes two steps, as
in the code: `admit_user`, in the HTTP request, makes the user Connected and sends a
head count, and `join_room`, after the upgrade, announces them. A client that vanishes
in between (`UpgradeFails`) stays Connected, because only a session is torn down.

### RoomPage

One page and the sockets it makes, numbered: `connect`, the handlers of a socket's
events, the timeouts of the heartbeat and of `tryReconnect`, `rejoinAfterIdle`,
`pagehide` and `pageshow`. The server is there as far as it decides what a page
is told: `holder` is the connection it counts for the user, which may be another
tab's. The handlers act on the page whichever socket they are of, as in the
code. A browser restores a page or does not (`restores`); what it does to one is
external: a page with a socket connecting, or an open one that `cleanup` did not
close, is not restored, and only one socket connects to a host at a time.

## Runs

All of them finish within two or three minutes; the instance and its bounds are in
the `.cfg`. The runs that pass:

| Run | Instance | Shows |
|---|---|---|
| `AdmissionHangups` | 4 attempts, 2 addresses, limits 2 and 2, hang-ups from one of them, fairness | types, `SlotsCovered`, `WithinLimits`, `OthersPaired`, `QuietAddressForgotten` |
| `PresenceTabs` | 1 user with 2 connections, fairness | types, `NoGhosts`, `OnlyOwnTeardownDeparts`, `AbandonedRoomForgotten`, `SocketClosesUnlessOrphaned` |
| `PresenceOneTab` | 3 users with a connection each, limit 2, hang-ups | `ConnectedNamesDistinct`, `WithinRoomLimit`, `SessionOwnsItsEntry` |
| `MemoryRooms` | 2 rooms, 4 messages, pictures of two sizes, reactions | types, `ReactionsBelongToHistory`, `TrackerAccounts`, `PicturesWithinBudget` |
| `NovaCommits` | 2 browsers, 2 leaves, 1 message, no cancelled join, fairness | types, `CommitsConsecutive`, `LeavesAreLive`, `FramesOpen`, `TeardownCompletes` |
| `OperatorQuorum` | 2 operators, one a faulty dealer, threshold 2, 2 clients, 1 fault, fairness | types, `NobodyDealsBeforeAllCommit`, `OneKey`, `CompleteMeansEveryoneHasAShare`, `NoncesSignOnce`, `CeremonyEnds`, `ReturnersServe` |
| `RlnEpochs` | a writer, a page that only registers, 3 identities for 2 leaves, 3 epochs, a clock that is right or an epoch ahead | types, `OneTextPerEpoch`, `HonestNeverSlashed`, `FreshPostAccepted` |
| `StreamFrames` | 2 users, a channel of 2, unbuffered sinks, 5 frames, one panel, fairness | types, `RosterCurrent`, `StreamIsMail`, `OwedComes` |
| `PageReconnects` | 1 page, 8 sockets, 2 attempts, 3 events, fairness | types, `OneSocket`, `ComesBack` |

The bounds are enough for what the properties are about. In admission, three
attempts share an address whose limit is two and the global ceiling is two, so
both limits are raced and the sweep meets live, idle and refused entries; no
strike is tolerated (`MaxSuspicious` is 0), so the first falls as a ban while other
requests are in flight. A larger tolerance only lengthens the way there. In the
room, two connections under one identity are enough for a takeover, its late
teardown and a late join, and what they do to an entry depends on no other
user (a second one is needed only for a drawn name, in `PresenceLateJoin`);
three users against a limit of two race for the last seat; one name more than
seats is what the code's roster guarantees. Connections and attempts are reused, so
runs of any length are covered. In memory, a ceiling of a few messages with two
rooms lets a room prune, and be refused for the other's sake; four messages are
enough for one to fade two pictures, for a faded one to be pruned, trimmed and
deleted, and for the drift to bring the process-wide sweep about. In the group, two browsers and three
leaves (one the server's) allow any overlap of a join, a leave, a render and the seal
loop, and leaves are reused. `MaxPosts` and `MaxFrames` bound the messages
sent; `Capacity` bounds the group. Among the operators, two suffice
for each to wait on the other in every phase and for a complaint to reach one that has none of its own;
two clients with a demonstration each overlap in every pair of rounds; one fault
may break a connection, kill a process or fall into a reconnection, anywhere; with two
faults, seven times the states, the invariants hold as well. `MaxFaults` also bounds
the ids: one is spent only on replacing a connection lost before the ceremony.
Three epochs are the least in which a slot is reused; a third identity finds
the tree full; a second text may be sent while the first awaits its path, and a
second identity may meet replies and a leaf of the first. A browser that only registers is enough to spoil
another's path; two that post share the slots as well, which the proofs cover for any number. In the stream, nobody comes, speaks or is torn down once the log is full
(`LogOpen`), and an arrival takes two frames: five over a channel of two let one
user speak and the other replay it, both be there and one leave, one come twice, and
a receiver lag; the channel's size matters only through being passed. `Buffer` is 0 in the runs, so that
every send may have to wait; the proofs are for any value. Three events let a page meet any three of a
refusal, a break, an eviction, a dropped session, another tab, a rejoin and being
put aside, and two attempts make the last one an ordinary case. Within these, eight
sockets are as many as a page can make: more change nothing.

Deadlock is checked everywhere but in `NovaGroup`, where each connection
connects once and the system stops when all are gone; in `NovaOperator`,
where a failed ceremony ends every process for good; in `RoomStream`, whose log
fills; and in `RoomPage`, which ends when attempts, sockets and events are
spent. `TeardownCompletes`, `CeremonyEnds`, `OwedComes` and `ComesBack` cover the waits.

Fairness is weak with one exception, and only for what the runtime keeps polling: started
handlers, heartbeats, teardowns, the seal loop, the forwarding tasks and the
two housekeeping intervals, and the passing of time. No peer is obliged to
connect, complete an upgrade, speak or close. The exception is
`forward_broadcasts` in `RoomStream`: it competes with replies for the sink, whose
mutex serves whoever asked first, and so is chosen in the end if it is able to
run again and again. The network delivers what is on it or breaks. For the
operators fairness includes
that each end of a broken connection notices in the end: the endpoint has no
heartbeat, so the server relies on TCP to fail what it writes. In `RoomPage` a
socket's events and timeouts happen while the page is shown, and the server
answers or refuses; nobody is obliged to bring a page back or to speak.

## Where the code and its own statements part

These runs are expected to find the violation; each finding in `PROJECT.json`
quotes the statement it contradicts.

| Run | What happens |
|---|---|
| `PresenceLateJoin` | A is admitted; A's other connection joins and leaves; the name is drawn by B; A's first connection joins without asking again: two connected users, one name |
| `PresenceOrphan` | a second connection takes the identity over, joins and leaves before the first one's heartbeat: the first is neither superseded (`session/tasks.rs:199-200`) nor counted, and stays open |
| `NovaOvertaken` | the loop holds a frame while a commit is made and published behind it; it seals the frame in the new epoch and sends it first, and no member at the old epoch can open it |

Six further configurations, on the same modules but not among the runs of
`PROJECT.json`, refute one property each in seconds (`tlc -config X.cfg MCModule`):

| Configuration | Property | What happens | The statement |
|---|---|---|---|
| `AdmissionLeak` (`MCAdmission`) | `ReservationsPaired` | a client that vanishes between the reservation and the upgrade callback keeps its slot until restart | `limits/connections.rs:18-20`: "Every successful [`ConnectionPool::add_connection`] must be paired with a [`ConnectionPool::remove_connection`] on every exit path" |
| `PresenceOverfull` (`MCRoomPresence`) | `WithinRoomLimit` | A is admitted twice; the second connection joins and leaves; B and C take the two places; the first joins (`lifecycle.rs:48`) without asking again: three in a room for two | `config.rs:68`: "The connected-user ceiling for `room`" |
| `NovaUnpublished` (`MCNovaGroup`) | `CommitsConsecutive` | a join dropped between its commit and the broadcast advances the epoch silently; members reject every later commit | `session/nova.rs:39-43`: "nested so producing and publishing are atomic" |
| `NovaDeadLeaf` (`MCNovaGroup`) | `LeavesAreLive` | a join dropped before its leaf index is recorded (`nova.rs:331`): the teardown does not know the leaf, which stays in the group until restart | `session/lifecycle.rs:265-267`: "remove it now rather than leaving a dead leaf's keys live until restart" |
| `StreamGhost` (`MCRoomStream`) | `KeptCurrent` | a panel is open and answered; a user is admitted and vanishes before the upgrade: the server lists a user for good whom the panel never shows | `protocol.rs:212-215`: "the client asks on open and keeps it current from `UserJoined`/`UserLeft`" |
| `PageRestored` (`MCRoomPage`) | `OtherTabIsThere` | a browser brings a page back whose old socket's close it has not been told of; told later, the page opens another socket beside the new one, the server supersedes that one, and the person is told of a tab that does not exist | `client.js:514`: "This room is open in another tab." |

More on these, and points that have no configuration of their own.

*Presence.* `is_superseded` asks every five seconds who holds the entry now. If the
successor has come and gone in between, the user is Disconnected and the old socket
receives everything uncounted: as long as its peer keeps speaking, and for good
once the entry is reclaimed. `ENGINEERING-STANDARDS.md:600-616` describes that as fixed.
`SocketClosesUnlessOrphaned`, which holds, excludes exactly that: it says that a
quiet socket is closed and that a superseded one is closed or outlives its
successor; `SupersededSocketCloses` says what the document does, and
`PresenceOrphan` refutes it. The late join that puts two users under one name
(`PresenceLateJoin`) also passes the room's limit (`PresenceOverfull`). With
`Hangups`, a client that vanishes between admission and the upgrade stays
counted in its room (`NoGhosts` fails) and keeps the room from being deleted.

*Memory.* Fading gives back the MIME type's bytes, which the faded message
keeps, so the tracker may end below what is retained (`TrackerAccounts` allows
exactly that), and past the ceiling; it is also the only way
`AppState::cleanup`'s sweep over the ceiling is ever reached. A faded picture
that is pruned lowers `attachment_bytes` twice by its MIME type, which is why
`PicturesWithinBudget` allows that much. `apply_client_event_at` broadcasts a message
(`session/events.rs:220`) that `add_message` has refused, as `RoomStream` does too.

*Group.* A frame ahead of a commit in the plaintext channel, but sealed after it,
goes out first and in the new epoch: the mutex is taken when the frame is sealed
(`nova.rs:408-410`), not when it was published. A member that the commit has not
reached rejects it and, once it has applied the commit, what follows in
that epoch as well, for a chain has no recovery from a gap. `FramesOpen` says
that this is the only way: outside an epoch that was overtaken so, a member opens
every frame sealed since it was added. `MembersOpenAll`, without the exception, is
what `nova.rs:25-28` says of the one seal loop, and `NovaOvertaken` refutes it.

*Operators.* `send` panics when a frame cannot be written
(`nova-operator/src/main.rs:663`): a connection that drops between a request and
its answer ends the process and loses its share, although the comment at line 546
says a blip after the ceremony needs no restart. An operator that leaves before
the roster is full takes its id along: shares are dealt to `1 .. n`, every
operator stops at the missing id, and no ceremony succeeds until the server
restarts. `MPC_DEMO_MIN_INTERVAL` is kept per connection, so two clients'
demonstrations do overlap and displace each other's requests, and the answer to
a request that timed out goes to the next one.

*Anonymous posts.* The nullifier is recorded before the text is rendered and
broadcast: a refused text has spent its epoch, a text whose broadcast is
cancelled is lost and its retry is a duplicate. The page starts its cooldown
whether or not the post was accepted. After a reconnection it has a new identity
and the leaf of the old one until `RlnRegistered` comes, and a post in between is
refused without a word; if the tree is full that reply never comes. That one
place holds who awaits a path is what keeps two quick texts from being two posts:
only the later one is sent. An earlier request's reply may serve a later
text with a path gone stale in the meantime. The comment on `Duplicate`
(`session/nova_rln.rs:153`) describes `Slashed`, and the one at line 139 a
case the arm before it has taken.

*Stream and panel.* The roster lists whoever is Connected, and a user is so from
`admit_user` on (`admission.rs:291-296`, `310`, `317`), while pages are told by the
`UserJoined` that follows the upgrade (`lifecycle.rs:75`). So a panel that has got
everything may lack someone admitted who has not joined yet, and lacks for good
one who vanished before the upgrade; if it asks after that, it has them, and no
`UserLeft` will ever take them away unless they come again. `RosterCurrent` therefore
says that the panel has everyone announced and nobody who is not Connected;
`KeptCurrent` says what `protocol.rs:212-215` does, even if asked only when
nobody is on the way in or out, and `StreamGhost` refutes it.
A page that reconnects by itself keeps the names it had
and does not ask for the roster again; only `rejoinAfterIdle` empties it. A roster
request that comes too soon after a reaction is dropped, and the panel keeps what
it had, or nothing, until it is opened again; so `RosterCurrent` speaks of panels
that got an answer. The head count leaves out those whose
heartbeat lapsed, whom the roster still has. A client that stops reading without closing parks all four
tasks of its session at the sink, heartbeat and eviction included, until TCP
gives up.

*The page.* Its handlers do not ask which socket they are of. If the browser
brings back a page whose old socket is still closing, that socket's late close
marks the page disconnected while the new one is open; the back-off then opens
another, the server closes the one before as superseded, and the person is told that the
room is open in another tab when it is not (`client.js:514`). `PageRestored` is that
trace; `OneSocket` is stated for browsers that bring no page back. A connection
that falls silent before its first frame is never noticed, because the heartbeat
timeout is armed by a frame (`Break` waits for one). A page evicted for idleness
with a back-off timeout still pending may reconnect without its person once it
was put aside and brought back. A page put aside during a back-off and brought back
before it ends keeps its timeout and resets its attempts, so that later attempts may
exceed their maximum by one (`client.js:1898`; it takes fewer attempts and more
events than the run has); `TypeOK` bounds them only where no page is brought
back. After ten attempts the page says it is
"Attempting to reconnect" and does not (`client.js:558`, `1898`). `cleanup`
clears two intervals on `pagehide` that `pageshow` does not start again.

## What is proved

All theorems are `THEOREM Spec => [] ...` (or, for the refinement, `Spec => Mail!Spec`)
for any value of the constants the named assumptions allow. `TLAPS` checks every step;
nothing is assumed beyond the `ASSUME`s of the modules, which the runs evaluate.

**`AdmissionProofs`**, for any number of connections and addresses and any
limits (`AdmissionAssumption`: connections are finite, limits positive):
`TypeCorrect`, `SlotsAreCovered`, `CeilingsHold`, `SweepSparesTheLiving`,
`OthersArePaired`, and, assuming no hang-ups, `ReleasedExactlyOnce`.
None of them is inductive alone. The invariant `Accounting` adds to the types
that each counter is at least the number of connections that hold a
reservation, that it is within its limit, that an address with a nonzero counter is tracked, and that
for an address outside `Hangups` the counter is equal to that number. It is needed because
a release is saturating: that `SaturatingDec` takes away exactly one is true
only where at least one holder remains to be counted, which is what the
covering part gives. The lemmas follow the accounts: `HoldersAfter` says how
the set of holders changes when one attempt moves, `ReserveAccounts`,
`GiveBackAccounts`, `SweepAccounts` and `IdlePoolAccounts` each show one way
the counters change preserves the invariant, and `AccountingStep` reduces every
action to one of them.

**`NovaRlnProofs`**, for any browsers, texts, capacity, clocks and number of epochs
(`RlnAssumption`): `TypeCorrect`, `OneTextAlways`, `HonestKeepTheirSecret`,
`FreshPostsAreAccepted`. That one text
is authorised per identity and epoch rests on the slots: what was accepted in an
epoch is in the slot of its parity while that epoch or the next is the server's
(`SlotsRemember`), because no proof for an epoch yet to come verifies, and
after that the grace is over. That
an honest page keeps its secret rests on the page: the epochs it posts in only
grow, so that what it has on the way is later than what the server has on
record and no two of its posts share an epoch (`EpochsGrow`). Its clock does not go
back, the cooldown starts in the step that posts, and a new identity has posted
nothing. That a text freshly proved is accepted, or its epoch was spent, rests on
`Knows`: while a text waits that was sent when no other request was, and nobody has
registered since, every path on its way to the page is that of its identity in the
tree as it is, so that the root it is proved for is the server's; and on `SharesAccepted`: a share on record is
of an identity that has had a text accepted in that epoch.

**`RoomStreamProofs`**, for any users, capacity, buffer and length of the log
(`StreamAssumption`): `TypeCorrect`, `StreamImplementsMail` and `RosterIsCurrent`. The
refinement rests
on an order between the three places a frame owed can be in: whatever is on the
way to the page comes before the history not sent yet, which comes before
the cursor, and within the first two the numbers increase. So what a page
gets next is the least it is owed, and a session that ends, by
lagging or otherwise, keeps a beginning. Every action is shown to be a
step of `Mailboxes` or a stutter. That the panel is right rests on `RosterInv`. The
last frame about a user says whether they are announced, and who is announced is
Connected (`LastWord`): `join_room` announces who `admit_user` has made Connected,
and `cleanup_user` changes the entry and announces it under one hold of the lock. After a frame
that tells of a user, whatever else the receiver took is still on its way
(`Whole`), because the history, from which messages may be missing, has talk
alone. So a set of names, the page's or that of a roster on its way, has every user
announced, and nobody who is not Connected, of whom nothing behind it tells (`Fits`, `Right`,
`Settled`), and a roster
that waits for the sink is right about those of whom no frame later than it tells
(`Snapshot`). The order in which the sink is handed over (`Behind`) is what turns
the second into the first.

**`RoomPresenceProofs`**, for any visitors, tabs, roster and limit below the
roster's size (`PresenceAssumption`): `TypeCorrect` and `OnlyTheCountedDepart`;
with `Hangups = FALSE`, `NobodyIsAGhost`; and where each user has one
connection (`OneConnectionEach`), `NamesAreDistinct`, `RoomNeverOverfull` and
`SessionsOwnTheirEntries`. The types rest on `NameIsFree`: names in use are no more
than people, so that a room below its limit leaves one to draw. The last three rest
on `LoneHolds`: from admission to the end of the session the entry and the name are
the connection's own, and from joining on it hears the room's channel. Both hypotheses are needed, and the configurations show why: with a
second connection `PresenceLateJoin` finds two users of one name and
`PresenceOverfull` one user too many, and a client that
vanishes before its upgrade stays counted.

**`RoomMemoryProofs`**, for any finite set of rooms, sizes, ceiling, budget and
limits, and any number of messages (`MemoryAssumption`): `TypeCorrect`,
`ReactionsFollowTheirMessages`, `ChargesMatch`, `PicturesStayWithinBudget`. The
invariant says of every room and of the tracker that what is charged is what
is retained less a debt, and that the debt is at most `Mime` for each picture
faded (`Charged`): a saturating release pays at most what is owed, so a debt never
becomes a surplus. `EnoughFades` shows that fading never takes more from
`attachment_bytes` than it holds, a subtraction the code leaves unchecked, because
the walk stops within the budget. The model's sums are folds, which take the
elements in an order of their own; `SumTake` and the lemmas after it, by
induction over finite sets through a minimal counterexample (`MinimalSet`), show
that the order does not matter and how a sum changes with one element.

**`NovaGroupProofs`**, for any connections, leaves and frames (`NovaAssumption`):
`TypeCorrect`; with `Cancels = FALSE`, `NoDeadLeaf`,
`CommitsReachEverySubscriber` and `MembersOpenFrames`. `TypeInv` adds to the types who holds the mutex at which
step, and which leaf is whose (`Locks`, `Places`). `CommitInv` follows a commit along its way, through the
plaintext channel and a stream: on that way the epochs ascend, and none is missing
from what a browser has joined at, or will be welcomed at, to what is published. It
holds because the mutex is kept from producing a commit to publishing it. With a
join dropped in between it does not, as `NovaUnpublished` shows. `SealInv` puts the
sealed frames among the commits: numbers ascend within an epoch and no frame follows
the commit to a later epoch (`Sequential`), and, for a browser that has joined or is
owed its welcome, each frame of an epoch not overtaken has before it the commit to
that epoch and every earlier frame of it that the browser still needs (`Readable`).
That the commit is there when the frame is sealed is `CommitInv`'s: with the mutex free it is
published, with none in the channel it is in the stream. That a browser never meets
a commit beyond the next (`NoCommitBeyond`) makes each forwarded frame one that
it takes or has left behind.

**`NovaOperatorProofs`**, for any number of operators, any threshold, faulty
dealers, clients, demonstrations and faults (`OperatorAssumption`): `TypeCorrect`,
`NoncesAreSpentOnce`, `DealsAwaitEveryCommitment`, `KeysAgree`,
`NobodyIsLeftBehind`. The handlers are first shown to have a few shapes (`Outcome`
for the coordinator; `GoesOn` and `GoesWithout` for an operator with and
without its connection), so that what every handler preserves is proved of a shape.
`Links` says which connection is whose, `Nonces` that who signed has spent what it
signed with. `CeremonyInv` says that the messages on a connection, either way, are
in the order of the ceremony, that what each end has done differs from what the
other has heard by what is on its way, and that everything on its way has its
ground in the registry. So all operators exclude the same dealers: a complaint is on
every connection before the word that the window has closed. A connection lost
before the end fails the ceremony, and nothing more is claimed of it.

**`RoomPageProofs`**, for any numbers of sockets, attempts and events
(`PageAssumption`): `TypeCorrect` and `OneSocketAtATime`, the latter for browsers that
bring no page back, as the property states. The invariant (`Alone`) is that every
socket before the current one is closed, a back-off timeout runs only when that one is
closed as well, and a session that outlived its socket is on a broken
connection, so that its last word reaches nobody.

Only model-checked are the liveness properties, which the prover does not reach:
`QuietAddressForgotten`, `AbandonedRoomForgotten`,
`SocketClosesUnlessOrphaned`, `TeardownCompletes`, `CeremonyEnds`, `ReturnersServe`, `OwedComes` and `ComesBack`.

## Not modelled

Rendering, validation, headers, origins, tokens, page routes, metrics and the
Cloudflare worker are pure functions or pass-throughs without state to
interleave. The limits on message rate, the throttles and the duplicate filter
compare times; where one drops an event, the models allow it to be dropped. The
duplicate filter's text is remembered after the render, so that a cancelled
message is not taken for its own retry. Of the browser, what it draws, its
sounds, typing, reactions and the local fading of messages are left out, as is cover
traffic in the `nova` room. Cryptography is taken at its documented interface. Time is abstract: a
duration is a flag that may be raised once it can have passed, with the orders
between durations kept where the code depends on them (a ban outlasts its
window; an hour's absence outlasts ten minutes' silence). The cap on rooms
(`routes/page.rs:213`) and a seal loop that lags off its channel
(`session/nova.rs:386`) are hazards without a property, for the reasons
`PROJECT.json` gives.
