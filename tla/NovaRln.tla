-------------------------------- MODULE NovaRln --------------------------------
(***************************************************************************)
(* Anonymous, rate-limited posting in the `nova` room: the membership tree *)
(* and the nullifier set on the server, and the browsers that register an  *)
(* identity, fetch its Merkle path, prove and post                         *)
(* (session/nova_rln.rs, client.js, nova-wasm).                            *)
(*                                                                         *)
(* A proof is novachannel-rln's, an external crate. It verifies exactly    *)
(* for the root, the epoch and the text it was made for, and shows a       *)
(* nullifier that depends on the identity and the epoch alone; two texts   *)
(* under one nullifier give the identity's secret away.                    *)
(***************************************************************************)
EXTENDS Integers, FiniteSets, Sequences

CONSTANTS
    Browsers,       \* pages open on the room
    Writers,        \* those whose person posts; the others only register
    Texts,          \* what may be posted
    Refused,        \* the texts validate_and_render_message refuses
    Capacity,       \* NOVA_RLN_CAPACITY
    Skews,          \* how far a writer's clock may be from the server's, in epochs
    MaxEpoch,       \* bound: the last epoch
    MaxIdentities,  \* bound: handshakes of each browser
    MaxQueue,       \* bound: requests and replies on one connection when another is made
    Nothing         \* no text, no event, no epoch

ASSUME RlnAssumption ==
    /\ Writers \subseteq Browsers
    /\ Refused \subseteq Texts
    /\ Capacity \in Nat
    /\ Skews \subseteq Int
    /\ MaxIdentities \in [Browsers -> Nat]
    /\ MaxEpoch \in Nat /\ MaxQueue \in Nat
    /\ Nothing \notin Texts \cup Int

VARIABLES
    now,       \* the server's epoch
    skew,      \* each writer's clock, less the server's
    careless,  \* the pages of another make, which keep no cooldown
    tree,      \* commitments: the identity registered at each leaf
    slots,     \* NullifierSet: an epoch and its shares, by epoch parity
    phase,     \* each browser's connection: off, open, or on (handshake done)
    identity,  \* NovaRlnIdentity, numbered per browser; 0 before the first
    leaf,      \* novaRlnLeafIndex, from 1; 0 is undefined
    waiting,   \* the text whose path is awaited (pendingRlnPathResolve)
    posted,    \* novaLastAnonymousEpoch; Nothing is undefined
    up, down,  \* each connection, a queue each way
    handler,   \* the event a session will broadcast once it has the rooms' lock
    accepted,  \* history: what the nullifier set authorised
    shown,     \* history: anonymous messages broadcast
    slashed    \* history: identities whose secret was recovered

server == <<tree, slots>>
world == <<now, skew, careless>>
page == <<identity, leaf, waiting, posted>>
wire == <<phase, up, down, handler>>
history == <<accepted, shown, slashed>>
vars == <<now, skew, careless, tree, slots, phase, identity, leaf, waiting, posted,
          up, down, handler, accepted, shown, slashed>>

Who(b) == <<b, identity[b]>>

\* An event on its way to the room: an authorised text, or a recovered secret.
Anonymous(post) == [kind |-> "anonymous", post |-> post]
Slashing(who) == [kind |-> "slashed", who |-> who]

NoShares == [key \in {} |-> Nothing]

Init ==
    /\ now = 0
    /\ skew \in [Writers -> Skews]
    /\ careless \in SUBSET Writers
    /\ tree = <<>>
    /\ slots = [i \in {0, 1} |-> [epoch |-> -1, shares |-> NoShares]]
    /\ phase = [b \in Browsers |-> "off"]
    /\ identity = [b \in Browsers |-> 0]
    /\ leaf = [b \in Browsers |-> 0]
    /\ waiting = [b \in Browsers |-> Nothing]
    /\ posted = [b \in Browsers |-> Nothing]
    /\ up = [b \in Browsers |-> <<>>]
    /\ down = [b \in Browsers |-> <<>>]
    /\ handler = [b \in Browsers |-> Nothing]
    /\ accepted = {} /\ shown = {} /\ slashed = {}

-----------------------------------------------------------------------------
\* The browser.

ClockOf(b) == now + skew[b]

Connect(b) ==
    /\ phase[b] = "off"
    /\ phase' = [phase EXCEPT ![b] = "open"]
    /\ UNCHANGED <<world, up, down, handler, server, page, history>>

\* The pairwise session exists: a new identity replaces the page's, and asks for
\* a leaf. The leaf of the one before stays until the answer.
startNovaRlnRegistration(b) ==
    /\ phase[b] = "open"
    /\ identity[b] < MaxIdentities[b]
    /\ phase' = [phase EXCEPT ![b] = "on"]
    /\ identity' = [identity EXCEPT ![b] = @ + 1]
    /\ up' = [up EXCEPT ![b] =
                Append(@, [kind |-> "register", who |-> <<b, identity[b] + 1>>])]
    /\ UNCHANGED <<world, leaf, waiting, posted, down, handler, server, history>>

\* Mutant: the cooldown is over once the epoch has begun.
CooldownEndsEarly(b) == posted[b] # Nothing /\ posted[b] > ClockOf(b)

novaAnonymousOnCooldown(b) == posted[b] = ClockOf(b)

\* The page knows the leaf of the identity it has, not of one before.
OwnLeaf(b) == leaf[b] # 0 /\ tree[leaf[b]] = Who(b)

\* A path is asked for and has not come: the next text may be given that one.
Outstanding(b) ==
    \/ \E i \in DOMAIN up[b] : up[b][i].kind = "path"
    \/ \E i \in DOMAIN down[b] : down[b][i].kind = "path"

\* The person presses send, maybe while another text awaits its path: there is
\* one place for what awaits, and the later text takes it. Before the handshake
\* is done, sendEvent drops the request. asked is a history field: the size of
\* the tree when send was pressed, or 0 if the page was not ready for it, an
\* earlier request being unanswered or the leaf not being the identity's.
Send(b, text) ==
    /\ b \in Writers
    /\ phase[b] # "off"
    /\ leaf[b] # 0
    /\ b \in careless \/ ~ novaAnonymousOnCooldown(b)
    /\ Len(up[b]) + Len(down[b]) < MaxQueue
    /\ waiting' = [waiting EXCEPT ![b] = [text |-> text,
                asked |-> IF Outstanding(b) \/ ~ OwnLeaf(b) THEN 0 ELSE Len(tree)]]
    /\ up' = IF phase[b] = "on"
             THEN [up EXCEPT ![b] = Append(@, [kind |-> "path", leaf |-> leaf[b]])]
             ELSE up
    /\ UNCHANGED <<world, identity, leaf, posted, phase, down, handler,
                   server, history>>

Registered(b) ==
    /\ down[b] # <<>> /\ Head(down[b]).kind = "registered"
    /\ leaf' = [leaf EXCEPT ![b] = Head(down[b]).leaf]
    /\ down' = [down EXCEPT ![b] = Tail(@)]
    /\ UNCHANGED <<world, identity, waiting, posted, phase, up, handler,
                   server, history>>

\* The root a path leads to from an identity: that of the tree it was read from
\* (numbered by its leaves), or none that ever was.
prove(who, path) == IF tree[path.leaf] = who THEN path.size ELSE 0

\* sendNovaAnonymousMessage, once its path is there: it proves for the page's
\* identity and the epoch of its clock, sends, and starts the cooldown.
PostAnonymously(b) ==
    LET path == Head(down[b])
        post == [kind |-> "post", who |-> Who(b), epoch |-> ClockOf(b),
                 text |-> waiting[b].text, asked |-> waiting[b].asked,
                 root |-> prove(Who(b), path)]
    IN  /\ down[b] # <<>> /\ path.kind = "path"
        /\ down' = [down EXCEPT ![b] = Tail(@)]
        /\ IF waiting[b] = Nothing
           THEN UNCHANGED <<waiting, posted, up>>
           ELSE /\ up' = [up EXCEPT ![b] = Append(@, post)]
                /\ waiting' = [waiting EXCEPT ![b] = Nothing]
                /\ posted' = [posted EXCEPT ![b] = ClockOf(b)]
        /\ UNCHANGED <<world, identity, leaf, phase, handler, server, history>>

-----------------------------------------------------------------------------
\* The server: a session handles one event at a time.

Receives(b, kind) ==
    /\ handler[b] = Nothing
    /\ up[b] # <<>> /\ Head(up[b]).kind = kind
    /\ up' = [up EXCEPT ![b] = Tail(@)]

\* Mutant: a registration is not refused when the tree is full.
RegisterUnchecked(b) ==
    /\ Receives(b, "register")
    /\ tree' = Append(tree, Head(up[b]).who)
    /\ UNCHANGED <<world, slots, page, phase, down, handler, history>>

\* Silent when the tree is full.
handle_register(b) ==
    /\ Receives(b, "register")
    /\ IF Len(tree) < Capacity
       THEN /\ tree' = Append(tree, Head(up[b]).who)
            /\ down' = [down EXCEPT ![b] =
                          Append(@, [kind |-> "registered", leaf |-> Len(tree) + 1])]
       ELSE UNCHANGED <<tree, down>>
    /\ UNCHANGED <<world, slots, page, phase, handler, history>>

handle_path_request(b) ==
    LET wanted == Head(up[b]).leaf
    IN  /\ Receives(b, "path")
        /\ down' = IF wanted <= Len(tree)
                   THEN [down EXCEPT ![b] = Append(@, [kind |-> "path", leaf |-> wanted,
                                                       size |-> Len(tree)])]
                   ELSE down
        /\ UNCHANGED <<world, server, page, phase, handler, history>>

\* The epochs a proof may be for: the current one and, as grace, the one before.
Grace == {now, IF now = 0 THEN 0 ELSE now - 1}

\* Mutant: a proof for the epoch that has just ended is refused.
VerifiesNow(post) == post.root = Len(tree) /\ post.epoch = now

Verifies(post) == post.root = Len(tree) /\ post.epoch \in Grace

\* Mutant: the slot is looked up by the clock, not by the epoch of the proof.
SlotByClock(epoch) ==
    IF slots[now % 2].epoch = epoch
    THEN slots[now % 2]
    ELSE [epoch |-> epoch, shares |-> NoShares]

\* The slot of an epoch's parity, emptied if it holds another epoch.
SlotFor(epoch) ==
    IF slots[epoch % 2].epoch = epoch
    THEN slots[epoch % 2]
    ELSE [epoch |-> epoch, shares |-> NoShares]

\* NullifierSet::record: what it finds, and the share it leaves.
Nullifier(post) == <<post.who, post.epoch>>

Outcome(post) ==
    LET shares == SlotFor(post.epoch).shares
    IN  IF Nullifier(post) \notin DOMAIN shares THEN "accepted"
        ELSE IF shares[Nullifier(post)] = post.text THEN "duplicate"
        ELSE "slashed"

Recorded(post) ==
    LET shares == SlotFor(post.epoch).shares
    IN  [epoch |-> post.epoch,
         shares |-> [key \in DOMAIN shares \cup {Nullifier(post)} |->
                       IF key = Nullifier(post) THEN post.text ELSE shares[key]]]

Text(post) == [who |-> post.who, epoch |-> post.epoch, text |-> post.text]

\* The nullifier is recorded before the text is rendered, so a refused text has
\* spent the epoch. What is left to do is the broadcast, which awaits a lock.
handle_message(b) ==
    LET post == Head(up[b])
    IN  /\ Receives(b, "post")
        /\ IF ~ Verifies(post)
           THEN UNCHANGED <<slots, handler, accepted, slashed>>
           ELSE /\ slots' = [slots EXCEPT ![post.epoch % 2] = Recorded(post)]
                /\ accepted' = IF Outcome(post) = "accepted"
                               THEN accepted \cup {Text(post)} ELSE accepted
                /\ slashed' = IF Outcome(post) = "slashed"
                              THEN slashed \cup {post.who} ELSE slashed
                /\ handler' = [handler EXCEPT ![b] =
                     IF Outcome(post) = "slashed" THEN Slashing(post.who)
                     ELSE IF Outcome(post) = "accepted" /\ post.text \notin Refused
                     THEN Anonymous(Text(post)) ELSE Nothing]
        /\ UNCHANGED <<world, tree, page, phase, down, shown>>

\* The session has the lock of `rooms`.
Broadcast(b) ==
    /\ handler[b] # Nothing
    /\ shown' = IF handler[b].kind = "anonymous"
                THEN shown \cup {handler[b].post} ELSE shown
    /\ handler' = [handler EXCEPT ![b] = Nothing]
    /\ UNCHANGED <<world, server, page, phase, up, down, accepted, slashed>>

\* The connection is lost: what is on it goes, the handler is dropped where it
\* waits, and the page keeps what it has.
LoseConnection(b) ==
    /\ phase[b] # "off"
    /\ phase' = [phase EXCEPT ![b] = "off"]
    /\ up' = [up EXCEPT ![b] = <<>>]
    /\ down' = [down EXCEPT ![b] = <<>>]
    /\ handler' = [handler EXCEPT ![b] = Nothing]
    /\ UNCHANGED <<world, server, page, history>>

Tick ==
    /\ now < MaxEpoch
    /\ now' = now + 1
    /\ UNCHANGED <<skew, careless, server, page, wire, history>>

Next ==
    \/ \E b \in Browsers :
        \/ Connect(b) \/ startNovaRlnRegistration(b)
        \/ \E text \in Texts : Send(b, text)
        \/ Registered(b) \/ PostAnonymously(b)
        \/ handle_register(b) \/ handle_path_request(b) \/ handle_message(b)
        \/ Broadcast(b) \/ LoseConnection(b)
    \/ Tick

Spec == Init /\ [][Next]_vars

-----------------------------------------------------------------------------
\* The types of the state.
Identities == Browsers \X Nat
Posts == [who : Identities, epoch : Int, text : Texts]

TypeOK ==
    /\ now \in 0 .. MaxEpoch /\ skew \in [Writers -> Skews]
    /\ careless \subseteq Writers
    /\ tree \in Seq(Identities) /\ Len(tree) <= Capacity
    /\ \A i \in {0, 1} : slots[i].epoch \in -1 .. MaxEpoch
    /\ phase \in [Browsers -> {"off", "open", "on"}]
    /\ identity \in [Browsers -> Nat]
    /\ leaf \in [Browsers -> 0 .. Capacity]
    /\ posted \in [Browsers -> Int \cup {Nothing}]
    /\ \A b \in Browsers : waiting[b] = Nothing \/ waiting[b].text \in Texts
    /\ accepted \subseteq Posts /\ shown \subseteq accepted
    /\ slashed \subseteq Identities

\* An identity gets one text an epoch past the nullifier set, and the room sees
\* it once, however late within the grace epoch its posts arrive and whichever
\* epochs share a slot (NullifierSet::record, verify_and_record).
OneTextPerEpoch ==
    /\ \A p, q \in accepted : p.who = q.who /\ p.epoch = q.epoch => p = q
    /\ \A b \in Browsers :
        handler[b] # Nothing /\ handler[b].kind = "anonymous" =>
            /\ handler[b].post \notin shown
            /\ \A c \in Browsers \ {b} : handler[c] # handler[b]

\* Nobody using the repository's page loses a secret: neither a second text sent
\* while the first awaits its path, nor a new connection, nor a late epoch makes
\* it prove two texts for one epoch (client.js, sendNovaAnonymousMessage).
HonestNeverSlashed == \A who \in slashed : who[1] \in careless

\* A path is read for each post, so that a registration only spoils a proof in
\* the round trip before it (the module documentation of nova_rln.rs): if nobody
\* registered since send was pressed on a page that was ready, and the clocks
\* agree, the text is accepted, or its epoch was already spent.
FreshlyProven(b) ==
    LET post == Head(up[b])
    IN  post.asked = Len(tree) /\ post.epoch \in Grace

FreshPostAccepted ==
    [][\A b \in Browsers :
         handle_message(b) /\ FreshlyProven(b) =>
            \E p \in accepted' : p.who = Head(up[b]).who /\ p.epoch = Head(up[b]).epoch]_vars
=============================================================================
