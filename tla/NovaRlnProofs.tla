---------------------------- MODULE NovaRlnProofs ----------------------------
(***************************************************************************)
(* Proofs about NovaRln for any browsers, texts, clocks and capacity: its  *)
(* types, that an identity gets one text an epoch, that the page of the    *)
(* repository never gives its identity's secret away, and that a text      *)
(* freshly proved is accepted unless its epoch was spent.                  *)
(*                                                                         *)
(* Two accounts are kept. The server's: what was authorised for this epoch *)
(* or the one before is still in its slot, whichever epochs share slots    *)
(* (SlotsRemember). The page's: the epochs it posts in only grow, so what  *)
(* it has on the way and what the server has recorded never meet           *)
(* (EpochsGrow). For the last, a page's paths are those of the tree as it  *)
(* is, as long as nobody registers (Knows).                                *)
(***************************************************************************)
EXTENDS NovaRln, TLAPS

Requests ==
    [kind : {"register"}, who : Identities]
    \cup [kind : {"path"}, leaf : Nat]
    \cup [kind : {"post"}, who : Identities, epoch : Int, text : Texts,
          asked : Nat, root : Nat]

Replies ==
    [kind : {"registered"}, leaf : 1 .. Capacity]
    \cup [kind : {"path"}, leaf : Nat, size : Nat]

Events ==
    [kind : {"anonymous"}, post : Posts] \cup [kind : {"slashed"}, who : Identities]

(* The types, with those of the queues, and who speaks on which connection. *)
Types ==
    /\ TypeOK
    /\ DOMAIN slots = {0, 1}
    /\ waiting \in [Browsers -> [text : Texts, asked : Nat] \cup {Nothing}]
    /\ \A b \in Browsers : waiting[b] # Nothing => b \in Writers
    /\ up \in [Browsers -> Seq(Requests)]
    /\ down \in [Browsers -> Seq(Replies)]
    /\ handler \in [Browsers -> Events \cup {Nothing}]
    /\ \A b \in Browsers : handler[b] # Nothing /\ handler[b].kind = "anonymous" =>
         handler[b].post \in accepted

----------------------------------------------------------------------------
LEMMA InitTypes == Init => Types
  BY RlnAssumption
  DEF Init, Types, TypeOK, NoShares, Posts, Identities, Requests, Replies, Events

\* Queues, one per browser, keep their types.
LEMMA TailOfQueue ==
  ASSUME NEW S, NEW q \in [Browsers -> Seq(S)], NEW b \in Browsers, q[b] # <<>>
  PROVE  Head(q[b]) \in S /\ [q EXCEPT ![b] = Tail(@)] \in [Browsers -> Seq(S)]
<1>1. q[b] \in Seq(S)
  OBVIOUS
<1>2. Head(q[b]) \in S /\ Tail(q[b]) \in Seq(S)
  BY <1>1
<1> QED
  BY <1>2

LEMMA AppendToQueue ==
  ASSUME NEW S, NEW q \in [Browsers -> Seq(S)], NEW b \in Browsers, NEW e \in S
  PROVE  [q EXCEPT ![b] = Append(@, e)] \in [Browsers -> Seq(S)]
<1>1. Append(q[b], e) \in Seq(S)
  OBVIOUS
<1> QED
  BY <1>1

LEMMA Constants ==
  /\ Capacity \in Nat /\ MaxEpoch \in Nat /\ MaxIdentities \in [Browsers -> Nat]
  /\ Skews \subseteq Int /\ Writers \subseteq Browsers
  BY RlnAssumption

\* A writer's clock shows an epoch.
LEMMA ClockIsEpoch ==
  ASSUME Types, NEW b \in Writers PROVE ClockOf(b) \in Int
<1>1. now \in 0 .. MaxEpoch /\ skew[b] \in Skews
  BY DEF Types, TypeOK
<1>2. now \in Int
  BY <1>1, Constants
<1>3. skew[b] \in Int
  <2>1. Skews \subseteq Int
    BY Constants
  <2> QED
    BY <1>1, <2>1, Zenon
<1> QED
  BY <1>2, <1>3 DEF ClockOf

\* What PostAnonymously puts on the wire is a post.
PostOf(b) ==
    [kind |-> "post", who |-> Who(b), epoch |-> ClockOf(b), text |-> waiting[b].text,
     asked |-> waiting[b].asked, root |-> prove(Who(b), Head(down[b]))]

LEMMA PostIsRequest ==
  ASSUME Types, NEW b \in Browsers, PostAnonymously(b), waiting[b] # Nothing
  PROVE  b \in Writers /\ ClockOf(b) \in Int /\ PostOf(b) \in Requests
<1>1. b \in Writers
  BY DEF Types
<1>2. Who(b) \in Identities
  BY DEF Types, TypeOK, Who, Identities
<1>3. ClockOf(b) \in Int
  BY <1>1, ClockIsEpoch
<1>4. waiting[b].text \in Texts /\ waiting[b].asked \in Nat
  BY DEF Types
<1>5. Head(down[b]) \in Replies /\ Head(down[b]).kind = "path"
  BY TailOfQueue DEF Types, PostAnonymously
<1>6. prove(Who(b), Head(down[b])) \in Nat
  BY <1>5 DEF Replies, prove
<1> QED
  BY <1>1, <1>2, <1>3, <1>4, <1>6 DEF Requests, PostOf

\* What a session takes from its connection.
LEMMA Taken ==
  ASSUME Types, NEW b \in Browsers, NEW kind, Receives(b, kind)
  PROVE  /\ Head(up[b]) \in Requests /\ Head(up[b]).kind = kind
         /\ up' \in [Browsers -> Seq(Requests)]
  BY TailOfQueue DEF Types, Receives

\* What the server makes of a post.
LEMMA PostHandled ==
  ASSUME Types, NEW b \in Browsers, handle_message(b)
  PROVE  /\ Head(up[b]) \in Requests /\ Head(up[b]).kind = "post"
         /\ Head(up[b]).who \in Identities /\ Head(up[b]).text \in Texts
         /\ Text(Head(up[b])) \in Posts
         /\ Verifies(Head(up[b])) =>
              Head(up[b]).epoch \in Nat /\ Head(up[b]).epoch \in {now, now - 1}
<1>1. Head(up[b]) \in Requests /\ Head(up[b]).kind = "post"
  BY Taken DEF handle_message
<1>2. Head(up[b]).who \in Identities /\ Head(up[b]).text \in Texts
      /\ Head(up[b]).epoch \in Int
  BY <1>1 DEF Requests
<1>3. Text(Head(up[b])) \in Posts
  BY <1>2 DEF Text, Posts
<1>4. now \in Nat
  BY RlnAssumption DEF Types, TypeOK
<1>5. Verifies(Head(up[b])) =>
        Head(up[b]).epoch \in Nat /\ Head(up[b]).epoch \in {now, now - 1}
  BY <1>2, <1>4 DEF Verifies, Grace
<1> QED
  BY <1>1, <1>2, <1>3, <1>5

LEMMA NextTypes == Types /\ [Next]_vars => Types'
<1> SUFFICES ASSUME Types, [Next]_vars PROVE Types'
  OBVIOUS
<1> USE DEF Types, TypeOK
<1>1. ASSUME NEW b \in Browsers, Connect(b) PROVE Types'
  BY <1>1 DEF Connect, world, server, page, history
<1>2. ASSUME NEW b \in Browsers, startNovaRlnRegistration(b) PROVE Types'
  <2>1. [kind |-> "register", who |-> <<b, identity[b] + 1>>] \in Requests
    BY DEF Requests, Identities
  <2>2. up' \in [Browsers -> Seq(Requests)]
    BY <1>2, <2>1, AppendToQueue DEF startNovaRlnRegistration
  <2>3. identity' \in [Browsers -> Nat] /\ phase' \in [Browsers -> {"off", "open", "on"}]
    BY <1>2 DEF startNovaRlnRegistration
  <2> QED
    BY <1>2, <2>2, <2>3 DEF startNovaRlnRegistration, world, server, history
<1>3. ASSUME NEW b \in Browsers, NEW text \in Texts, Send(b, text) PROVE Types'
  <2>1. [kind |-> "path", leaf |-> leaf[b]] \in Requests
    BY RlnAssumption DEF Requests
  <2>2. up' \in [Browsers -> Seq(Requests)]
    BY <1>3, <2>1, AppendToQueue DEF Send
  <2>3. Len(tree) \in Nat
    OBVIOUS
  <2>4. /\ waiting' \in [Browsers -> [text : Texts, asked : Nat] \cup {Nothing}]
        /\ \A c \in Browsers : waiting'[c] # Nothing => c \in Writers
    BY <1>3, <2>3 DEF Send
  <2>5. \A c \in Browsers : waiting'[c] = Nothing \/ waiting'[c].text \in Texts
    BY <2>4
  <2> QED
    BY <1>3, <2>2, <2>4, <2>5 DEF Send, world, server, history
<1>4. ASSUME NEW b \in Browsers, Registered(b) PROVE Types'
  <2>1. Head(down[b]) \in Replies /\ down' \in [Browsers -> Seq(Replies)]
    BY <1>4, TailOfQueue DEF Registered
  <2>2. Head(down[b]).leaf \in 0 .. Capacity
    BY <1>4, <2>1, RlnAssumption DEF Registered, Replies
  <2> QED
    BY <1>4, <2>1, <2>2 DEF Registered, world, server, history
<1>5. ASSUME NEW b \in Browsers, PostAnonymously(b) PROVE Types'
  <2>1. down' \in [Browsers -> Seq(Replies)]
    BY <1>5, TailOfQueue DEF PostAnonymously
  <2>2. CASE waiting[b] = Nothing
    BY <1>5, <2>1, <2>2 DEF PostAnonymously, world, server, history
  <2>3. CASE waiting[b] # Nothing
    <3>1. PostOf(b) \in Requests /\ ClockOf(b) \in Int
      BY <1>5, <2>3, PostIsRequest
    <3>2. up' \in [Browsers -> Seq(Requests)]
      <4>1. up' = [up EXCEPT ![b] = Append(@, PostOf(b))]
        BY <1>5, <2>3 DEF PostAnonymously, PostOf
      <4>2. up \in [Browsers -> Seq(Requests)]
        OBVIOUS
      <4> HIDE DEF Types, TypeOK
      <4> QED
        BY <4>1, <4>2, <3>1, AppendToQueue
    <3>3. posted' \in [Browsers -> Int \cup {Nothing}]
      BY <1>5, <2>3, <3>1 DEF PostAnonymously
    <3>4. /\ waiting' \in [Browsers -> [text : Texts, asked : Nat] \cup {Nothing}]
          /\ \A c \in Browsers : waiting'[c] # Nothing => c \in Writers
          /\ \A c \in Browsers : waiting'[c] = Nothing \/ waiting'[c].text \in Texts
      BY <1>5, <2>3 DEF PostAnonymously
    <3> QED
      BY <1>5, <2>1, <2>3, <3>2, <3>3, <3>4 DEF PostAnonymously, world, server, history
  <2> QED
    BY <2>2, <2>3
<1>6. ASSUME NEW b \in Browsers, handle_register(b) PROVE Types'
  <2>1. Head(up[b]) \in Requests /\ Head(up[b]).kind = "register"
        /\ up' \in [Browsers -> Seq(Requests)]
    BY <1>6, Taken DEF handle_register
  <2>2. Head(up[b]).who \in Identities
    BY <2>1 DEF Requests
  <2>3. CASE Len(tree) < Capacity
    <3>1. [kind |-> "registered", leaf |-> Len(tree) + 1] \in Replies
      BY <2>3, RlnAssumption DEF Replies
    <3>2. down' \in [Browsers -> Seq(Replies)]
      <4>1. down' = [down EXCEPT ![b] =
                       Append(@, [kind |-> "registered", leaf |-> Len(tree) + 1])]
        BY <1>6, <2>3 DEF handle_register
      <4>2. down \in [Browsers -> Seq(Replies)]
        OBVIOUS
      <4> HIDE DEF Types, TypeOK
      <4> QED
        BY <4>1, <4>2, <3>1, AppendToQueue
    <3>3. tree' \in Seq(Identities) /\ Len(tree') <= Capacity
      <4>1. tree' = Append(tree, Head(up[b]).who) /\ tree \in Seq(Identities)
        BY <1>6, <2>3 DEF handle_register
      <4> HIDE DEF Types, TypeOK
      <4> QED
        BY <4>1, <2>2, <2>3, Constants
    <3> QED
      BY <1>6, <2>1, <3>2, <3>3 DEF handle_register, world, page, history
  <2>4. CASE ~ (Len(tree) < Capacity)
    BY <1>6, <2>1, <2>4 DEF handle_register, world, page, history
  <2> QED
    BY <2>3, <2>4
<1>7. ASSUME NEW b \in Browsers, handle_path_request(b) PROVE Types'
  <2>1. Head(up[b]) \in Requests /\ Head(up[b]).kind = "path"
        /\ up' \in [Browsers -> Seq(Requests)]
    BY <1>7, Taken DEF handle_path_request
  <2>2. [kind |-> "path", leaf |-> Head(up[b]).leaf, size |-> Len(tree)] \in Replies
    BY <2>1 DEF Requests, Replies
  <2>3. down' \in [Browsers -> Seq(Replies)]
    BY <1>7, <2>2, AppendToQueue DEF handle_path_request
  <2> QED
    BY <1>7, <2>1, <2>3 DEF handle_path_request, world, server, page, history
<1>8. ASSUME NEW b \in Browsers, handle_message(b) PROVE Types'
  <2>1. up' \in [Browsers -> Seq(Requests)]
    BY <1>8, Taken DEF handle_message
  <2>2. CASE ~ Verifies(Head(up[b]))
    BY <1>8, <2>1, <2>2 DEF handle_message, world, page
  <2>3. CASE Verifies(Head(up[b]))
    <3> DEFINE post == Head(up[b])
    <3>1. post.who \in Identities /\ Text(post) \in Posts /\ post.epoch \in Nat
          /\ post.epoch \in {now, now - 1} /\ now \in 0 .. MaxEpoch
      BY <1>8, <2>3, PostHandled
    <3>2. post.epoch \in -1 .. MaxEpoch
      <4> HIDE DEF Types, TypeOK, post
      <4> QED
        BY <3>1, Constants
    <3>3. DOMAIN slots' = {0, 1} /\ \A i \in {0, 1} : slots'[i].epoch \in -1 .. MaxEpoch
      BY <1>8, <2>3, <3>1, <3>2 DEF handle_message, Recorded
    <3>4. Anonymous(Text(post)) \in Events /\ Slashing(post.who) \in Events
      BY <3>1 DEF Events, Anonymous, Slashing
    <3>5. handler' \in [Browsers -> Events \cup {Nothing}]
      BY <1>8, <2>3, <3>4 DEF handle_message
    <3>6. accepted' \subseteq Posts /\ shown' \subseteq accepted' /\ slashed' \subseteq Identities
      BY <1>8, <2>3, <3>1 DEF handle_message
    <3>7. \A c \in Browsers : handler'[c] # Nothing /\ handler'[c].kind = "anonymous" =>
            handler'[c].post \in accepted'
      <4> SUFFICES ASSUME NEW c \in Browsers, handler'[c] # Nothing,
                          handler'[c].kind = "anonymous"
                   PROVE  handler'[c].post \in accepted'
        OBVIOUS
      <4>1. CASE c # b
        BY <4>1, <1>8, <2>3 DEF handle_message
      <4>2. CASE c = b
        <5>1. Outcome(post) = "accepted" /\ handler'[b] = Anonymous(Text(post))
          BY <4>2, <1>8, <2>3 DEF handle_message, Slashing
        <5> QED
          BY <4>2, <5>1, <1>8, <2>3 DEF handle_message, Anonymous
      <4> QED
        BY <4>1, <4>2
    <3> QED
      BY <1>8, <2>1, <3>3, <3>5, <3>6, <3>7 DEF handle_message, world, page
  <2> QED
    BY <2>2, <2>3
<1>9. ASSUME NEW b \in Browsers, Broadcast(b) PROVE Types'
  BY <1>9 DEF Broadcast, world, server, page
<1>10. ASSUME NEW b \in Browsers, LoseConnection(b) PROVE Types'
  BY <1>10 DEF LoseConnection, world, server, page, history
<1>11. CASE Tick
  BY <1>11, RlnAssumption DEF Tick, server, page, wire, history
<1>12. CASE UNCHANGED vars
  BY <1>12 DEF vars
<1> QED
  BY <1>1, <1>2, <1>3, <1>4, <1>5, <1>6, <1>7, <1>8, <1>9, <1>10, <1>11, <1>12 DEF Next

\* The types, of the queues and the handlers included.
THEOREM TypeCorrect == Spec => []TypeOK
<1>1. Types => TypeOK
  BY DEF Types
<1> QED
  BY <1>1, InitTypes, NextTypes, PTL DEF Spec

----------------------------------------------------------------------------
(* What the nullifier set has authorised for the current epoch or the one   *)
(* before is in its slot: no epoch that could take the slot can be proved   *)
(* for yet.                                                                 *)
InSlot(p) ==
    /\ slots[p.epoch % 2].epoch = p.epoch
    /\ <<p.who, p.epoch>> \in DOMAIN slots[p.epoch % 2].shares

SlotsRemember ==
    /\ \A i \in {0, 1} : slots[i].epoch <= now
    /\ \A p \in accepted : p.epoch \in 0 .. now
    /\ \A p \in accepted : p.epoch >= now - 1 => InSlot(p)

ServerInv == Types /\ SlotsRemember /\ OneTextPerEpoch

LEMMA InitServer == Init => ServerInv
  BY InitTypes DEF Init, ServerInv, SlotsRemember, OneTextPerEpoch

\* A post that verifies is given the slot of its own epoch's parity; the epochs
\* that matter are two, so another epoch of that parity is past.
LEMMA SlotAfter ==
  ASSUME Types, SlotsRemember, NEW b \in Browsers, handle_message(b),
         NEW post, post = Head(up[b]), Verifies(post)
  PROVE  /\ \A p \in accepted : p.epoch >= now - 1 => InSlot(p)'
         /\ InSlot(Text(post))'
         /\ \A i \in {0, 1} : slots'[i].epoch <= now
         /\ Outcome(post) = "accepted" =>
              \A p \in accepted : ~ (p.who = post.who /\ p.epoch = post.epoch)
<1> DEFINE e == post.epoch
<1>1. e \in Nat /\ e \in {now, now - 1} /\ now \in Nat
  <2>1. now \in 0 .. MaxEpoch
    BY DEF Types, TypeOK
  <2>2. now \in Nat
    BY <2>1, Constants
  <2> QED
    BY <2>2, PostHandled
<1>2. DOMAIN slots = {0, 1} /\ e % 2 \in {0, 1}
  BY <1>1 DEF Types
<1>3. slots' = [slots EXCEPT ![e % 2] = Recorded(post)]
  BY DEF handle_message
<1>4. /\ slots'[e % 2] = Recorded(post)
      /\ \A i \in {0, 1} : i # e % 2 => slots'[i] = slots[i]
  BY <1>2, <1>3
<1>5. /\ Recorded(post).epoch = e
      /\ <<post.who, e>> \in DOMAIN Recorded(post).shares
      /\ DOMAIN SlotFor(e).shares \subseteq DOMAIN Recorded(post).shares
  BY DEF Recorded, Nullifier
<1>6. slots[e % 2].epoch = e => SlotFor(e) = slots[e % 2]
  BY DEF SlotFor
<1>7. ASSUME NEW p \in accepted, p.epoch >= now - 1
      PROVE  p.epoch \in Nat /\ p.epoch \in {now, now - 1} /\ InSlot(p)
  BY <1>1, <1>7 DEF SlotsRemember
<1>8. ASSUME NEW p \in accepted, p.epoch >= now - 1, p.epoch % 2 = e % 2
      PROVE  p.epoch = e
  <2> HIDE DEF e
  <2> QED
    BY <1>1, <1>7, <1>8
<1>9. ASSUME NEW p \in accepted, p.epoch >= now - 1 PROVE InSlot(p)'
  <2>1. CASE p.epoch % 2 = e % 2
    <3>1. p.epoch = e /\ InSlot(p)
      BY <1>7, <1>8, <1>9, <2>1
    <3>2. SlotFor(e) = slots[e % 2] /\ <<p.who, e>> \in DOMAIN slots[e % 2].shares
      BY <1>6, <3>1 DEF InSlot
    <3> QED
      BY <1>4, <1>5, <3>1, <3>2 DEF InSlot
  <2>2. CASE p.epoch % 2 # e % 2
    <3>1. p.epoch % 2 \in {0, 1}
      BY <1>7, <1>9
    <3> QED
      BY <1>4, <1>7, <1>9, <2>2, <3>1 DEF InSlot
  <2> QED
    BY <2>1, <2>2
<1>10. InSlot(Text(post))'
  BY <1>4, <1>5 DEF InSlot, Text
<1>11. \A i \in {0, 1} : slots'[i].epoch <= now
  BY <1>1, <1>4, <1>5 DEF SlotsRemember
<1>12. ASSUME Outcome(post) = "accepted", NEW p \in accepted,
              p.who = post.who, p.epoch = e
       PROVE  FALSE
  <2>1. InSlot(p)
    BY <1>1, <1>7, <1>12
  <2>2. <<post.who, e>> \in DOMAIN SlotFor(e).shares
    BY <1>6, <1>12, <2>1 DEF InSlot
  <2> QED
    BY <1>12, <2>2 DEF Outcome, Nullifier
<1> QED
  BY <1>9, <1>10, <1>11, <1>12

\* Steps that leave the nullifier set, its history and the handlers alone.
LEMMA ServerAlone ==
  ASSUME ServerInv, UNCHANGED <<now, slots, handler, accepted, shown>>
  PROVE  SlotsRemember' /\ OneTextPerEpoch'
  BY DEF ServerInv, SlotsRemember, InSlot, OneTextPerEpoch

LEMMA NextServer == ServerInv /\ [Next]_vars => ServerInv'
<1> SUFFICES ASSUME ServerInv, [Next]_vars PROVE SlotsRemember' /\ OneTextPerEpoch'
  BY NextTypes DEF ServerInv
<1>0. Types /\ SlotsRemember /\ OneTextPerEpoch
  BY DEF ServerInv
<1>1. ASSUME NEW b \in Browsers,
             \/ Connect(b) \/ startNovaRlnRegistration(b) \/ Registered(b)
             \/ \E text \in Texts : Send(b, text)
             \/ PostAnonymously(b) \/ handle_register(b) \/ handle_path_request(b)
      PROVE  SlotsRemember' /\ OneTextPerEpoch'
  <2>1. UNCHANGED <<now, slots, handler, accepted, shown>>
    BY <1>1 DEF Connect, startNovaRlnRegistration, Registered, Send, PostAnonymously,
                handle_register, handle_path_request, world, server, history
  <2> QED
    BY <2>1, ServerAlone
<1>2. ASSUME NEW b \in Browsers, handle_message(b)
      PROVE  SlotsRemember' /\ OneTextPerEpoch'
  <2> PICK post : post = Head(up[b])
    OBVIOUS
  <2>1. now' = now /\ shown' = shown
    BY <1>2 DEF handle_message, world
  <2>2. CASE ~ Verifies(post)
    <3>1. UNCHANGED <<now, slots, handler, accepted, shown>>
      BY <1>2, <2>1, <2>2 DEF handle_message
    <3> QED
      BY <3>1, ServerAlone
  <2>3. CASE Verifies(post)
    <3>1. post.epoch \in 0 .. now /\ now \in Nat
      <4>1. now \in 0 .. MaxEpoch
        BY <1>0 DEF Types, TypeOK
      <4>2. post.epoch \in Nat /\ post.epoch \in {now, now - 1}
        BY <1>0, <1>2, <2>3, PostHandled
      <4> QED
        BY <4>1, <4>2, Constants
    <3>2. /\ \A p \in accepted : p.epoch >= now - 1 => InSlot(p)'
          /\ InSlot(Text(post))'
          /\ \A i \in {0, 1} : slots'[i].epoch <= now
          /\ Outcome(post) = "accepted" =>
               \A p \in accepted : ~ (p.who = post.who /\ p.epoch = post.epoch)
      BY <1>0, <1>2, <2>3, SlotAfter
    <3>3. Text(post).who = post.who /\ Text(post).epoch = post.epoch
      BY DEF Text
    <3>4. accepted' = IF Outcome(post) = "accepted" THEN accepted \cup {Text(post)}
                      ELSE accepted
      BY <1>2, <2>3 DEF handle_message
    <3>5. SlotsRemember'
      <4>1. \A p \in accepted' : p.epoch \in 0 .. now
        BY <1>0, <3>1, <3>3, <3>4 DEF SlotsRemember
      <4>2. \A p \in accepted' : p.epoch >= now - 1 => InSlot(p)'
        BY <3>2, <3>4
      <4> QED
        BY <2>1, <3>2, <4>1, <4>2 DEF SlotsRemember
    <3>6. \A p, q \in accepted' : p.who = q.who /\ p.epoch = q.epoch => p = q
      BY <1>0, <3>2, <3>3, <3>4 DEF OneTextPerEpoch
    <3>7. /\ \A c \in Browsers \ {b} : handler'[c] = handler[c]
          /\ handler'[b] # Nothing /\ handler'[b].kind = "anonymous" =>
               Outcome(post) = "accepted" /\ handler'[b] = Anonymous(Text(post))
      BY <1>0, <1>2, <2>3 DEF handle_message, Slashing, Types
    <3>8. Outcome(post) = "accepted" => Text(post) \notin accepted
      BY <3>2, <3>3
    <3>9. /\ shown \subseteq accepted
          /\ \A c \in Browsers : handler[c] # Nothing /\ handler[c].kind = "anonymous" =>
               handler[c].post \in accepted
      BY <1>0 DEF Types, TypeOK
    <3>10. ASSUME NEW c \in Browsers, handler'[c] # Nothing, handler'[c].kind = "anonymous"
           PROVE  /\ handler'[c].post \notin shown'
                  /\ \A d \in Browsers \ {c} : handler'[d] # handler'[c]
      <4>1. Anonymous(Text(post)).post = Text(post) /\ Anonymous(Text(post)).kind = "anonymous"
        BY DEF Anonymous
      <4>2. CASE c = b
        BY <2>1, <3>7, <3>8, <3>9, <3>10, <4>1, <4>2
      <4>3. CASE c # b
        <5>1. handler'[c] = handler[c] /\ handler[c].post \in accepted
          BY <3>7, <3>9, <3>10, <4>3
        <5>2. handler'[b] # handler'[c]
          BY <3>7, <3>8, <3>10, <4>1, <5>1
        <5> QED
          BY <1>0, <2>1, <3>7, <3>10, <4>3, <5>1, <5>2 DEF OneTextPerEpoch
      <4> QED
        BY <4>2, <4>3
    <3> QED
      BY <3>5, <3>6, <3>10 DEF OneTextPerEpoch
  <2> QED
    BY <2>2, <2>3
<1>3. ASSUME NEW b \in Browsers, Broadcast(b) \/ LoseConnection(b)
      PROVE  SlotsRemember' /\ OneTextPerEpoch'
  <2>1. UNCHANGED <<now, slots, accepted>>
    BY <1>3 DEF Broadcast, LoseConnection, world, server, history
  <2>2. SlotsRemember'
    BY <1>0, <2>1 DEF SlotsRemember, InSlot
  <2>3. handler' = [handler EXCEPT ![b] = Nothing]
    BY <1>3 DEF Broadcast, LoseConnection
  <2>4. \A c \in Browsers : handler'[c] # Nothing => c # b /\ handler'[c] = handler[c]
    BY <1>0, <2>3 DEF Types
  <2>5. \/ shown' = shown
        \/ /\ handler[b] # Nothing /\ handler[b].kind = "anonymous"
           /\ shown' = shown \cup {handler[b].post}
    <3>1. CASE Broadcast(b)
      BY <3>1 DEF Broadcast
    <3>2. CASE LoseConnection(b)
      BY <3>2 DEF LoseConnection, history
    <3> QED
      BY <1>3, <3>1, <3>2
  <2>6. ASSUME NEW c \in Browsers, handler'[c] # Nothing, handler'[c].kind = "anonymous"
        PROVE  /\ handler'[c].post \notin shown'
               /\ \A d \in Browsers \ {c} : handler'[d] # handler'[c]
    <3>1. c # b /\ handler'[c] = handler[c] /\ handler[c] # handler[b]
          /\ handler[c].post \notin shown
      BY <1>0, <2>4, <2>6 DEF OneTextPerEpoch
    <3>2. handler[b] # Nothing /\ handler[b].kind = "anonymous" =>
            handler[b].post # handler[c].post
      <4>1. ASSUME NEW d \in {b, c}, handler[d] # Nothing, handler[d].kind = "anonymous"
            PROVE  handler[d] = [kind |-> "anonymous", post |-> handler[d].post]
        BY <1>0, <4>1 DEF Types, Events
      <4> QED
        BY <2>6, <3>1, <4>1
    <3>3. handler'[c].post \notin shown'
      BY <2>5, <3>1, <3>2
    <3> QED
      BY <1>0, <2>4, <2>6, <3>1, <3>3 DEF OneTextPerEpoch
  <2> QED
    BY <1>0, <2>1, <2>2, <2>6 DEF OneTextPerEpoch
<1>4. CASE Tick
  <2>1. now' = now + 1 /\ UNCHANGED <<slots, handler, accepted, shown>>
    BY <1>4 DEF Tick, server, wire, history
  <2>2. now \in Nat /\ \A i \in {0, 1} : slots[i].epoch \in Int
    <3>1. now \in 0 .. MaxEpoch /\ \A i \in {0, 1} : slots[i].epoch \in -1 .. MaxEpoch
      BY <1>0 DEF Types, TypeOK
    <3> QED
      BY <3>1, Constants
  <2>3. SlotsRemember'
    BY <1>0, <2>1, <2>2 DEF SlotsRemember, InSlot
  <2> QED
    BY <1>0, <2>1, <2>3 DEF OneTextPerEpoch
<1>5. CASE UNCHANGED vars
  BY <1>5, ServerAlone DEF vars
<1> QED
  BY <1>1, <1>2, <1>3, <1>4, <1>5 DEF Next

\* An identity gets one text an epoch, and the room sees it once, for any number of
\* browsers, identities and connections and any clocks.
THEOREM OneTextAlways == Spec => []OneTextPerEpoch
<1>1. ServerInv => OneTextPerEpoch
  BY DEF ServerInv
<1> QED
  BY <1>1, InitServer, NextServer, PTL DEF Spec

----------------------------------------------------------------------------
(* A page of the repository posts in epochs that only grow: what it has on  *)
(* the way, what the server has recorded of it, and what it may still post  *)
(* are three sets of epochs that never meet.                                *)
IsPost(c, i) == i \in DOMAIN up[c] /\ up[c][i].kind = "post"

OwnPosts == \A c \in Browsers : \A i \in Nat : IsPost(c, i) => up[c][i].who[1] = c

\* The clock has reached the last epoch posted in, and passed it if a text waits.
ClockAhead(c) ==
    posted[c] # Nothing =>
        /\ posted[c] <= ClockOf(c)
        /\ waiting[c] # Nothing => posted[c] < ClockOf(c)

OnTheWay(c) ==
    /\ \A i \in Nat : IsPost(c, i) => posted[c] # Nothing /\ up[c][i].epoch <= posted[c]
    /\ \A i, j \in Nat : IsPost(c, i) /\ IsPost(c, j) /\ i # j => up[c][i].epoch # up[c][j].epoch

Spent(c, key) ==
    /\ posted[c] # Nothing /\ key[2] \in Int /\ key[2] <= posted[c]
    /\ \A i \in Nat : IsPost(c, i) => up[c][i].epoch # key[2]

OnRecord(c) ==
    \A s \in {0, 1} : \A key \in DOMAIN slots[s].shares : key[1][1] = c => Spent(c, key)

EpochsGrow ==
    /\ OwnPosts
    /\ \A c \in Writers \ careless : ClockAhead(c)
    /\ \A c \in Browsers \ careless : OnTheWay(c) /\ OnRecord(c)

PageInv == Types /\ EpochsGrow /\ HonestNeverSlashed

LEMMA InitPage == Init => PageInv
<1> SUFFICES ASSUME Init PROVE PageInv
  OBVIOUS
<1>1. \A c \in Browsers, i \in Nat : ~ IsPost(c, i)
  BY DEF Init, IsPost
<1>2. \A s \in {0, 1} : DOMAIN slots[s].shares = {}
  BY DEF Init, NoShares
<1>3. OwnPosts
  BY <1>1 DEF OwnPosts
<1>4. \A c \in Writers : ClockAhead(c)
  BY Constants DEF Init, ClockAhead
<1>5. \A c \in Browsers : OnTheWay(c) /\ OnRecord(c)
  BY <1>1, <1>2 DEF OnTheWay, OnRecord, Spent
<1> QED
  BY <1>3, <1>4, <1>5, InitTypes, Constants DEF PageInv, EpochsGrow, HonestNeverSlashed, Init

\* What comes after Tail and Append, by position.
LEMMA TailAt ==
  ASSUME NEW S, NEW q \in Seq(S), q # <<>>
  PROVE  /\ \A i \in DOMAIN Tail(q) : i + 1 \in DOMAIN q /\ Tail(q)[i] = q[i + 1]
         /\ DOMAIN Tail(q) \subseteq Nat \ {0} /\ Head(q) = q[1] /\ 1 \in DOMAIN q
  OBVIOUS

LEMMA AppendAt ==
  ASSUME NEW S, NEW q \in Seq(S), NEW e
  PROVE  /\ DOMAIN Append(q, e) = DOMAIN q \cup {Len(q) + 1}
         /\ Len(q) + 1 \notin DOMAIN q
         /\ Append(q, e)[Len(q) + 1] = e
         /\ \A i \in DOMAIN q : Append(q, e)[i] = q[i]
  OBVIOUS

\* A step that brings a connection no new post: what is left may move up by one.
Fewer(c) ==
    \E k \in {0, 1} : \A i \in Nat :
        IsPost(c, i)' => /\ IsPost(c, i + k)
                         /\ up'[c][i].epoch = up[c][i + k].epoch
                         /\ up'[c][i].who = up[c][i + k].who

LEMMA FewerPosts ==
  ASSUME PageInv, NEW c \in Browsers, Fewer(c), posted'[c] = posted[c]
  PROVE  /\ \A i \in Nat : IsPost(c, i)' => up'[c][i].who[1] = c
         /\ c \notin careless => OnTheWay(c)'
         /\ \A key : Spent(c, key) => Spent(c, key)'
         /\ c \notin careless /\ slots' = slots => OnRecord(c)'
<1> PICK k \in {0, 1} : \A i \in Nat :
        IsPost(c, i)' => /\ IsPost(c, i + k)
                         /\ up'[c][i].epoch = up[c][i + k].epoch
                         /\ up'[c][i].who = up[c][i + k].who
  BY DEF Fewer
<1>1. \A i \in Nat : i + k \in Nat /\ \A j \in Nat : i # j => i + k # j + k
  OBVIOUS
<1>2. \A i \in Nat : IsPost(c, i)' => up'[c][i].who[1] = c
  BY <1>1 DEF PageInv, EpochsGrow, OwnPosts
<1>3. ASSUME c \notin careless PROVE OnTheWay(c)'
  BY <1>1, <1>3 DEF PageInv, EpochsGrow, OnTheWay
<1>4. ASSUME NEW key, Spent(c, key) PROVE Spent(c, key)'
  BY <1>1, <1>4 DEF Spent
<1>5. ASSUME c \notin careless, slots' = slots PROVE OnRecord(c)'
  BY <1>5, <1>4 DEF PageInv, EpochsGrow, OnRecord
<1> QED
  BY <1>2, <1>3, <1>4, <1>5

\* Queues that stay, lose their head, are emptied or get something else.
LEMMA FewerWhen ==
  ASSUME Types, NEW c \in Browsers, NEW e, e.kind # "post",
         \/ up'[c] = up[c]
         \/ up'[c] = <<>>
         \/ up[c] # <<>> /\ up'[c] = Tail(up[c])
         \/ up'[c] = Append(up[c], e)
  PROVE  Fewer(c)
<1>1. up[c] \in Seq(Requests)
  BY DEF Types
<1>2. CASE up'[c] = up[c]
  <2>1. \A i \in Nat : i + 0 = i
    OBVIOUS
  <2> QED
    BY <1>2, <2>1 DEF Fewer, IsPost
<1>3. CASE up'[c] = <<>>
  <2>1. \A i \in Nat : ~ IsPost(c, i)'
    BY <1>3 DEF IsPost
  <2> QED
    BY <2>1 DEF Fewer
<1>4. CASE up[c] # <<>> /\ up'[c] = Tail(up[c])
  <2>1. \A i \in DOMAIN up'[c] : i + 1 \in DOMAIN up[c] /\ up'[c][i] = up[c][i + 1]
    BY <1>1, <1>4, TailAt
  <2> QED
    BY <2>1 DEF Fewer, IsPost
<1>5. CASE up'[c] = Append(up[c], e)
  <2>1. \A i \in DOMAIN up'[c] : up'[c][i] = e \/ (i \in DOMAIN up[c] /\ up'[c][i] = up[c][i])
    <3>1. PICK n : n = Len(up[c]) + 1
      OBVIOUS
    <3>2. PICK q : q = Append(up[c], e)
      OBVIOUS
    <3>3. DOMAIN q = DOMAIN up[c] \cup {n} /\ q[n] = e /\ \A i \in DOMAIN up[c] : q[i] = up[c][i]
      BY <1>1, <3>1, <3>2, AppendAt
    <3>4. up'[c] = q
      BY <1>5, <3>2
    <3> QED
      BY <3>3, <3>4, Zenon
  <2>2. \A i \in Nat : i + 0 = i
    OBVIOUS
  <2> QED
    BY <2>1, <2>2 DEF Fewer, IsPost
<1> QED
  BY <1>2, <1>3, <1>4, <1>5

\* Steps in which nobody posts and the server records nothing.
LEMMA NoPost ==
  ASSUME PageInv, \A c \in Browsers : Fewer(c), posted' = posted, slots' = slots,
         slashed' = slashed, careless' = careless,
         \A c \in Writers \ careless : ClockAhead(c)'
  PROVE  EpochsGrow' /\ HonestNeverSlashed'
<1>1. \A c \in Browsers :
        /\ \A i \in Nat : IsPost(c, i)' => up'[c][i].who[1] = c
        /\ c \notin careless => OnTheWay(c)' /\ OnRecord(c)'
  BY FewerPosts
<1>2. OwnPosts'
  BY <1>1 DEF OwnPosts
<1>3. EpochsGrow'
  BY <1>1, <1>2 DEF EpochsGrow
<1> QED
  BY <1>3 DEF PageInv, HonestNeverSlashed

\* The page posts: for an epoch past all it has posted in.
LEMMA PostsLater ==
  ASSUME PageInv, NEW b \in Browsers, PostAnonymously(b), waiting[b] # Nothing
  PROVE  EpochsGrow' /\ HonestNeverSlashed'
<1>0. Types /\ EpochsGrow /\ b \in Writers
  BY DEF PageInv, Types
<1>1. PICK e : e = ClockOf(b)
  OBVIOUS
<1>2. PICK post : post = PostOf(b)
  OBVIOUS
<1>3. e \in Int /\ post.kind = "post" /\ post.epoch = e /\ post.who[1] = b
  BY <1>0, <1>1, <1>2, PostIsRequest DEF PostOf, Who
<1>4. /\ posted' = [posted EXCEPT ![b] = e] /\ up' = [up EXCEPT ![b] = Append(@, post)]
      /\ waiting' = [waiting EXCEPT ![b] = Nothing]
      /\ UNCHANGED <<now, skew, careless, slots, slashed>>
  BY <1>1, <1>2 DEF PostAnonymously, PostOf, world, server, history
<1>5. /\ posted'[b] = e /\ waiting'[b] = Nothing /\ up'[b] = Append(up[b], post)
      /\ \A c \in Browsers \ {b} :
           posted'[c] = posted[c] /\ waiting'[c] = waiting[c] /\ up'[c] = up[c]
  BY <1>0, <1>4 DEF Types, TypeOK
<1>6. \A c \in Writers : ClockOf(c)' = ClockOf(c)
  BY <1>4 DEF ClockOf
<1>7. PICK n \in Nat : n = Len(up[b]) + 1
  BY <1>0 DEF Types
<1>8. /\ DOMAIN up'[b] = DOMAIN up[b] \cup {n} /\ n \notin DOMAIN up[b]
      /\ up'[b][n] = post /\ \A i \in DOMAIN up[b] : up'[b][i] = up[b][i]
  <2>1. up[b] \in Seq(Requests)
    BY <1>0 DEF Types
  <2> QED
    BY <1>5, <1>7, <2>1, AppendAt
<1>9. /\ IsPost(b, n)' /\ ~ IsPost(b, n)
      /\ \A i \in Nat : i # n => (IsPost(b, i)' <=> IsPost(b, i))
      /\ \A i \in Nat : IsPost(b, i) => up'[b][i] = up[b][i]
  BY <1>3, <1>8 DEF IsPost
<1>10. \A c \in Browsers \ {b} : \A i \in Nat :
         (IsPost(c, i)' <=> IsPost(c, i)) /\ up'[c][i] = up[c][i]
  BY <1>5 DEF IsPost
<1>11. OwnPosts'
  <2> SUFFICES ASSUME NEW c \in Browsers, NEW i \in Nat, IsPost(c, i)'
               PROVE  up'[c][i].who[1] = c
    BY DEF OwnPosts
  <2>1. CASE c = b /\ i = n
    BY <1>3, <1>8, <2>1
  <2>2. CASE ~ (c = b /\ i = n)
    BY <1>0, <1>9, <1>10, <2>2 DEF EpochsGrow, OwnPosts
  <2> QED
    BY <2>1, <2>2
<1>12. \A c \in Writers \ careless : ClockAhead(c)'
  <2> SUFFICES ASSUME NEW c \in Writers \ careless PROVE ClockAhead(c)'
    OBVIOUS
  <2>1. CASE c = b
    BY <1>1, <1>3, <1>5, <1>6, <2>1 DEF ClockAhead
  <2>2. CASE c # b
    BY <1>0, <1>5, <1>6, <2>2, Constants DEF EpochsGrow, ClockAhead
  <2> QED
    BY <2>1, <2>2
<1>13. ASSUME b \notin careless
       PROVE  posted[b] = Nothing \/ (posted[b] \in Int /\ posted[b] < e)
  <2>1. posted[b] \in Int \cup {Nothing}
    BY <1>0 DEF Types, TypeOK
  <2>2. ClockAhead(b)
    BY <1>0, <1>13 DEF EpochsGrow
  <2>3. waiting[b] # Nothing
    OBVIOUS
  <2> QED
    BY <1>1, <2>1, <2>2, <2>3 DEF ClockAhead
<1>14. \A i \in Nat : IsPost(b, i) => up[b][i].epoch \in Int
  <2>1. up[b] \in Seq(Requests)
    BY <1>0 DEF Types
  <2>2. \A i \in DOMAIN up[b] : up[b][i] \in Requests
    BY <2>1
  <2> QED
    BY <2>2 DEF IsPost, Requests
<1>15. ASSUME b \notin careless PROVE OnTheWay(b)' /\ OnRecord(b)'
  <2>1. OnTheWay(b) /\ OnRecord(b)
    BY <1>0, <1>15 DEF EpochsGrow
  <2>2. \A i \in Nat : IsPost(b, i) => up[b][i].epoch < e
    BY <1>3, <1>13, <1>14, <1>15, <2>1 DEF OnTheWay
  <2>3. e # Nothing
    BY <1>3, RlnAssumption
  <2>4. OnTheWay(b)'
    <3>1. ASSUME NEW i \in Nat, IsPost(b, i)'
          PROVE  posted'[b] # Nothing /\ up'[b][i].epoch <= posted'[b]
      <4>1. CASE i = n
        BY <1>3, <1>5, <1>8, <2>3, <4>1
      <4>2. CASE i # n
        <5>1. IsPost(b, i) /\ up'[b][i] = up[b][i]
          BY <1>9, <3>1, <4>2
        <5>2. up[b][i].epoch \in Int /\ up[b][i].epoch < e
          BY <1>14, <2>2, <5>1
        <5> QED
          BY <1>3, <1>5, <2>3, <5>1, <5>2
      <4> QED
        BY <4>1, <4>2
    <3>2. ASSUME NEW i \in Nat, NEW j \in Nat, IsPost(b, i)', IsPost(b, j)', i # j
          PROVE  up'[b][i].epoch # up'[b][j].epoch
      <4>1. CASE i # n /\ j # n
        BY <1>9, <2>1, <3>2, <4>1 DEF OnTheWay
      <4>2. CASE i = n
        BY <1>3, <1>8, <1>9, <1>14, <2>2, <3>2, <4>2
      <4>3. CASE j = n
        BY <1>3, <1>8, <1>9, <1>14, <2>2, <3>2, <4>3
      <4> QED
        BY <4>1, <4>2, <4>3
    <3> QED
      BY <3>1, <3>2 DEF OnTheWay
  <2>5. OnRecord(b)'
    <3> SUFFICES ASSUME NEW s \in {0, 1}, NEW key \in DOMAIN slots[s].shares, key[1][1] = b
                 PROVE  /\ posted'[b] # Nothing /\ key[2] \in Int /\ key[2] <= posted'[b]
                        /\ \A i \in Nat : IsPost(b, i)' => up'[b][i].epoch # key[2]
      BY <1>4 DEF OnRecord, Spent
    <3>1. posted[b] # Nothing /\ key[2] \in Int /\ key[2] <= posted[b]
          /\ \A i \in Nat : IsPost(b, i) => up[b][i].epoch # key[2]
      BY <2>1 DEF OnRecord, Spent
    <3>2. key[2] < e
      BY <1>3, <1>13, <1>15, <3>1
    <3>3. \A i \in Nat : IsPost(b, i)' => up'[b][i].epoch # key[2]
      BY <1>3, <1>8, <1>9, <3>1, <3>2
    <3>4. posted'[b] # Nothing /\ key[2] <= posted'[b]
      BY <1>3, <1>5, <2>3, <3>1, <3>2
    <3> QED
      BY <3>1, <3>3, <3>4
  <2> QED
    BY <2>4, <2>5
<1>16. ASSUME NEW c \in Browsers \ careless, c # b PROVE OnTheWay(c)' /\ OnRecord(c)'
  <2>1. OnTheWay(c) /\ OnRecord(c)
    BY <1>0, <1>16 DEF EpochsGrow
  <2>2. posted'[c] = posted[c] /\ slots' = slots
    BY <1>4, <1>5, <1>16
  <2>3. \A i \in Nat : (IsPost(c, i)' <=> IsPost(c, i)) /\ up'[c][i] = up[c][i]
    BY <1>10, <1>16
  <2>4. OnTheWay(c)'
    BY <2>1, <2>2, <2>3 DEF OnTheWay
  <2>5. ASSUME NEW key, Spent(c, key) PROVE Spent(c, key)'
    BY <2>2, <2>3, <2>5 DEF Spent
  <2>6. OnRecord(c)'
    BY <2>1, <2>2, <2>5 DEF OnRecord
  <2> QED
    BY <2>4, <2>6
<1> QED
  BY <1>4, <1>11, <1>12, <1>15, <1>16 DEF PageInv, EpochsGrow, HonestNeverSlashed

\* The server takes a post: what it records is spent, and was not before.
LEMMA RecordsSpent ==
  ASSUME PageInv, NEW b \in Browsers, handle_message(b)
  PROVE  EpochsGrow' /\ HonestNeverSlashed'
<1>0. Types /\ EpochsGrow
  BY DEF PageInv
<1>1. PICK post : post = Head(up[b])
  OBVIOUS
<1>2. /\ post.kind = "post" /\ post.who \in Identities
      /\ Verifies(post) => post.epoch \in Nat /\ now \in Nat
  BY <1>0, <1>1, PostHandled, Constants DEF Types, TypeOK
<1>3. /\ up[b] # <<>> /\ up' = [up EXCEPT ![b] = Tail(@)]
      /\ UNCHANGED <<now, skew, careless, posted, waiting>>
  BY DEF handle_message, Receives, world, page
<1>4. up[b] \in Seq(Requests)
  BY <1>0 DEF Types
<1>5. up'[b] = Tail(up[b]) /\ \A c \in Browsers \ {b} : up'[c] = up[c]
  BY <1>0, <1>3 DEF Types
<1>6. \A c \in Browsers : Fewer(c)
  <2>1. [kind |-> "path"].kind # "post"
    OBVIOUS
  <2> QED
    BY <1>0, <1>3, <1>5, <2>1, FewerWhen
<1>7. \A c \in Browsers :
        /\ \A i \in Nat : IsPost(c, i)' => up'[c][i].who[1] = c
        /\ c \notin careless => OnTheWay(c)'
        /\ \A key : Spent(c, key) => Spent(c, key)'
  BY <1>3, <1>6, FewerPosts
<1>8. OwnPosts'
  BY <1>7 DEF OwnPosts
<1>9. \A c \in Writers \ careless : ClockAhead(c)'
  BY <1>0, <1>3 DEF EpochsGrow, ClockAhead, ClockOf
<1>10. /\ IsPost(b, 1) /\ up[b][1] = post
       /\ \A i \in Nat : IsPost(b, i)' =>
            i + 1 # 1 /\ IsPost(b, i + 1) /\ up'[b][i] = up[b][i + 1]
  <2>1. /\ \A i \in DOMAIN up'[b] : i + 1 \in DOMAIN up[b] /\ up'[b][i] = up[b][i + 1]
        /\ DOMAIN up'[b] \subseteq Nat \ {0} /\ Head(up[b]) = up[b][1] /\ 1 \in DOMAIN up[b]
    <3>1. PICK q : q = up[b]
      OBVIOUS
    <3>2. PICK rest : rest = Tail(q)
      OBVIOUS
    <3>3. q \in Seq(Requests) /\ q # <<>>
      BY <1>3, <1>4, <3>1
    <3>4. /\ \A i \in DOMAIN rest : i + 1 \in DOMAIN q /\ rest[i] = q[i + 1]
          /\ DOMAIN rest \subseteq Nat \ {0} /\ Head(q) = q[1] /\ 1 \in DOMAIN q
      BY <3>2, <3>3, TailAt
    <3>5. up'[b] = rest
      BY <1>5, <3>1, <3>2
    <3> QED
      BY <3>1, <3>4, <3>5, Zenon
  <2>2. \A i \in Nat \ {0} : i + 1 # 1
    OBVIOUS
  <2> QED
    BY <1>1, <1>2, <2>1, <2>2 DEF IsPost
<1>11. post.who[1] = b
  BY <1>0, <1>10 DEF EpochsGrow, OwnPosts
<1>12. CASE ~ Verifies(post)
  <2>1. slots' = slots /\ slashed' = slashed
    BY <1>1, <1>12 DEF handle_message
  <2> QED
    BY <1>3, <1>6, <1>9, <2>1, NoPost
<1>13. CASE Verifies(post)
  <2>1. PICK e : e = post.epoch
    OBVIOUS
  <2>2. PICK spent : spent = <<post.who, e>>
    OBVIOUS
  <2>3. e \in Nat /\ e % 2 \in {0, 1} /\ DOMAIN slots = {0, 1}
        /\ spent[1][1] = b /\ spent[2] = e /\ Nullifier(post) = spent
    BY <1>0, <1>2, <1>11, <1>13, <2>1, <2>2 DEF Types, Nullifier
  <2>4. DOMAIN SlotFor(e).shares \subseteq DOMAIN slots[e % 2].shares
    BY DEF SlotFor, NoShares
  <2>5. \A s \in {0, 1} : \A key \in DOMAIN slots'[s].shares :
          key = spent \/ key \in DOMAIN slots[s].shares
    <3>1. slots' = [slots EXCEPT ![e % 2] = Recorded(post)]
      BY <1>1, <1>13, <2>1 DEF handle_message
    <3>2. DOMAIN Recorded(post).shares = DOMAIN SlotFor(e).shares \cup {spent}
      BY <2>1, <2>3 DEF Recorded
    <3>3. /\ slots'[e % 2] = Recorded(post)
          /\ \A s \in {0, 1} : s # e % 2 => slots'[s] = slots[s]
      BY <2>3, <3>1
    <3> QED
      BY <2>3, <2>4, <3>2, <3>3
  <2>6. ASSUME b \notin careless
        PROVE  /\ Spent(b, spent)'
               /\ \A s \in {0, 1} : spent \notin DOMAIN slots[s].shares
    <3>1. OnTheWay(b) /\ OnRecord(b)
      BY <1>0, <2>6 DEF EpochsGrow
    <3>2. posted[b] # Nothing /\ e <= posted[b]
      BY <1>10, <2>1, <3>1 DEF OnTheWay
    <3>3. ASSUME NEW i \in Nat, IsPost(b, i)' PROVE up'[b][i].epoch # e
      <4>1. i + 1 \in Nat /\ i + 1 # 1 /\ IsPost(b, i + 1) /\ up'[b][i] = up[b][i + 1]
        BY <1>10, <3>3
      <4> QED
        BY <1>10, <2>1, <3>1, <4>1 DEF OnTheWay
    <3>4. Spent(b, spent)'
      <4>1. posted'[b] # Nothing /\ spent[2] \in Int /\ spent[2] <= posted'[b]
        BY <1>3, <2>3, <3>2
      <4>2. \A i \in Nat : IsPost(b, i)' => up'[b][i].epoch # spent[2]
        BY <2>3, <3>3
      <4> QED
        BY <4>1, <4>2 DEF Spent
    <3>5. \A s \in {0, 1} : spent \notin DOMAIN slots[s].shares
      BY <1>10, <2>1, <2>3, <3>1 DEF OnRecord, Spent
    <3> QED
      BY <3>4, <3>5
  <2>7. ASSUME NEW c \in Browsers \ careless PROVE OnRecord(c)'
    <3> SUFFICES ASSUME NEW s \in {0, 1}, NEW key \in DOMAIN slots'[s].shares, key[1][1] = c
                 PROVE  Spent(c, key)'
      BY DEF OnRecord
    <3>1. CASE key = spent
      BY <2>3, <2>6, <3>1
    <3>2. CASE key \in DOMAIN slots[s].shares
      BY <1>0, <1>7, <3>2 DEF EpochsGrow, OnRecord
    <3> QED
      BY <2>5, <3>1, <3>2
  <2>8. HonestNeverSlashed'
    <3>1. Outcome(post) = "slashed" => b \in careless
      BY <2>1, <2>3, <2>4, <2>6 DEF Outcome
    <3>2. slashed' = IF Outcome(post) = "slashed" THEN slashed \cup {post.who} ELSE slashed
      BY <1>1, <1>13 DEF handle_message
    <3> QED
      BY <1>3, <1>11, <3>1, <3>2 DEF PageInv, HonestNeverSlashed
  <2> QED
    BY <1>3, <1>7, <1>8, <1>9, <2>7, <2>8 DEF EpochsGrow
<1> QED
  BY <1>12, <1>13

LEMMA NextPage == PageInv /\ [Next]_vars => PageInv'
<1> SUFFICES ASSUME PageInv, [Next]_vars PROVE EpochsGrow' /\ HonestNeverSlashed'
  BY NextTypes DEF PageInv
<1>0. Types /\ EpochsGrow
  BY DEF PageInv
<1>1. ASSUME NEW b \in Browsers,
             UNCHANGED <<now, skew, careless, slots, waiting, posted, slashed>>,
             NEW e, e.kind # "post",
             \/ up' = up
             \/ up' = [up EXCEPT ![b] = <<>>]
             \/ up[b] # <<>> /\ up' = [up EXCEPT ![b] = Tail(@)]
             \/ up' = [up EXCEPT ![b] = Append(@, e)]
      PROVE  EpochsGrow' /\ HonestNeverSlashed'
  <2>1. \A c \in Browsers :
          \/ up'[c] = up[c]
          \/ up'[c] = <<>>
          \/ up[c] # <<>> /\ up'[c] = Tail(up[c])
          \/ up'[c] = Append(up[c], e)
    <3>1. up \in [Browsers -> Seq(Requests)]
      BY <1>0 DEF Types
    <3>2. CASE up' = up
      BY <3>2
    <3>3. CASE up' = [up EXCEPT ![b] = <<>>]
      BY <3>1, <3>3
    <3>4. CASE up[b] # <<>> /\ up' = [up EXCEPT ![b] = Tail(@)]
      BY <3>1, <3>4
    <3>5. CASE up' = [up EXCEPT ![b] = Append(@, e)]
      BY <3>1, <3>5
    <3> QED
      BY <1>1, <3>2, <3>3, <3>4, <3>5
  <2>2. \A c \in Browsers : Fewer(c)
    BY <1>0, <1>1, <2>1, FewerWhen
  <2>3. \A c \in Writers \ careless : ClockAhead(c)'
    BY <1>0, <1>1 DEF EpochsGrow, ClockAhead, ClockOf
  <2> QED
    BY <1>1, <2>2, <2>3, NoPost
<1>2. [kind |-> "path"].kind # "post"
  OBVIOUS
<1>3. ASSUME NEW b \in Browsers,
             Connect(b) \/ Registered(b) \/ Broadcast(b) \/ LoseConnection(b)
      PROVE  EpochsGrow' /\ HonestNeverSlashed'
  <2>1. /\ UNCHANGED <<now, skew, careless, slots, waiting, posted, slashed>>
        /\ up' = up \/ up' = [up EXCEPT ![b] = <<>>]
    BY <1>3 DEF Connect, Registered, Broadcast, LoseConnection, world, server, page, history
  <2> QED
    BY <1>1, <1>2, <2>1
<1>4. ASSUME NEW b \in Browsers, handle_register(b) \/ handle_path_request(b)
      PROVE  EpochsGrow' /\ HonestNeverSlashed'
  <2>1. /\ UNCHANGED <<now, skew, careless, slots, waiting, posted, slashed>>
        /\ up[b] # <<>> /\ up' = [up EXCEPT ![b] = Tail(@)]
    BY <1>4 DEF handle_register, handle_path_request, Receives, world, server, page, history
  <2> QED
    BY <1>1, <1>2, <2>1
<1>5. ASSUME NEW b \in Browsers, startNovaRlnRegistration(b)
      PROVE  EpochsGrow' /\ HonestNeverSlashed'
  <2>1. PICK e : e = [kind |-> "register", who |-> <<b, identity[b] + 1>>]
    OBVIOUS
  <2>2. /\ UNCHANGED <<now, skew, careless, slots, waiting, posted, slashed>>
        /\ up' = [up EXCEPT ![b] = Append(@, e)] /\ e.kind # "post"
    BY <1>5, <2>1 DEF startNovaRlnRegistration, world, server, history
  <2> QED
    BY <1>1, <2>2
<1>6. ASSUME NEW b \in Browsers, NEW text \in Texts, Send(b, text)
      PROVE  EpochsGrow' /\ HonestNeverSlashed'
  <2>1. PICK e : e = [kind |-> "path", leaf |-> leaf[b]]
    OBVIOUS
  <2>2. /\ UNCHANGED <<now, skew, careless, slots, posted, slashed>>
        /\ e.kind # "post"
        /\ \A c \in Browsers : up'[c] = up[c] \/ up'[c] = Append(up[c], e)
    BY <1>0, <1>6, <2>1 DEF Send, Types, world, server, history
  <2>3. \A c \in Browsers : Fewer(c)
    BY <1>0, <2>2, FewerWhen
  <2>4. \A c \in Browsers \ {b} : waiting'[c] = waiting[c]
    BY <1>0, <1>6 DEF Send, Types
  <2>5. ASSUME NEW c \in Writers \ careless PROVE ClockAhead(c)'
    <3>1. ClockAhead(c) /\ ClockOf(c) \in Int /\ ClockOf(c)' = ClockOf(c) /\ c \in Browsers
      BY <1>0, <2>2, <2>5, ClockIsEpoch, Constants DEF EpochsGrow, ClockOf
    <3>2. CASE c = b
      <4>1. posted[b] # ClockOf(b)
        BY <1>6, <2>5, <3>2 DEF Send, novaAnonymousOnCooldown
      <4>2. posted[b] \in Int \cup {Nothing}
        BY <1>0 DEF Types, TypeOK
      <4> QED
        BY <2>2, <3>1, <3>2, <4>1, <4>2 DEF ClockAhead
    <3>3. CASE c # b
      BY <2>2, <2>4, <3>1, <3>3 DEF ClockAhead
    <3> QED
      BY <3>2, <3>3
  <2> QED
    BY <2>2, <2>3, <2>5, NoPost
<1>7. ASSUME NEW b \in Browsers, PostAnonymously(b)
      PROVE  EpochsGrow' /\ HonestNeverSlashed'
  <2>1. CASE waiting[b] = Nothing
    <3>1. UNCHANGED <<now, skew, careless, slots, waiting, posted, slashed, up>>
      BY <1>7, <2>1 DEF PostAnonymously, world, server, history
    <3> QED
      BY <1>1, <1>2, <3>1
  <2>2. CASE waiting[b] # Nothing
    BY <1>7, <2>2, PostsLater
  <2> QED
    BY <2>1, <2>2
<1>8. ASSUME NEW b \in Browsers, handle_message(b)
      PROVE  EpochsGrow' /\ HonestNeverSlashed'
  BY <1>8, RecordsSpent
<1>9. CASE Tick
  <2>1. /\ now' = now + 1
        /\ UNCHANGED <<skew, careless, slots, waiting, posted, slashed, up>>
    BY <1>9 DEF Tick, server, page, wire, history
  <2>2. \A c \in Browsers : Fewer(c)
    BY <1>0, <1>2, <2>1, FewerWhen
  <2>3. ASSUME NEW c \in Writers \ careless PROVE ClockAhead(c)'
    <3>1. ClockAhead(c) /\ c \in Browsers /\ posted[c] \in Int \cup {Nothing}
      BY <1>0, <2>3, Constants DEF EpochsGrow, Types, TypeOK
    <3>2. now \in Int /\ skew[c] \in Int
      <4>1. now \in 0 .. MaxEpoch /\ skew[c] \in Skews
        BY <1>0 DEF Types, TypeOK
      <4>2. Skews \subseteq Int
        BY Constants
      <4>3. skew[c] \in Int
        BY <4>1, <4>2, Zenon
      <4> QED
        BY <4>1, <4>3, Constants
    <3>3. ClockOf(c) \in Int /\ ClockOf(c)' = ClockOf(c) + 1
      BY <2>1, <3>2 DEF ClockOf
    <3> QED
      BY <2>1, <3>1, <3>3 DEF ClockAhead
  <2> QED
    BY <2>1, <2>2, <2>3, NoPost
<1>10. CASE UNCHANGED vars
  <2>1. UNCHANGED <<now, skew, careless, slots, waiting, posted, slashed, up>>
    BY <1>10 DEF vars
  <2>2. \A c \in Browsers : Fewer(c)
    BY <1>0, <1>2, <2>1, FewerWhen
  <2>3. \A c \in Writers \ careless : ClockAhead(c)'
    BY <1>0, <2>1 DEF EpochsGrow, ClockAhead, ClockOf
  <2> QED
    BY <2>1, <2>2, <2>3, NoPost
<1> QED
  BY <1>3, <1>4, <1>5, <1>6, <1>7, <1>8, <1>9, <1>10 DEF Next

\* Nobody using the repository's page loses a secret, for any number of browsers,
\* identities, connections and texts, and any clock that does not go back.
THEOREM HonestKeepTheirSecret == Spec => []HonestNeverSlashed
<1>1. PageInv => HonestNeverSlashed
  BY DEF PageInv
<1> QED
  BY <1>1, InitPage, NextPage, PTL DEF Spec

----------------------------------------------------------------------------
(* A text sent while nothing else awaits a path is proved for the tree the   *)
(* path was read from, so as long as nobody registers it is proved for the   *)
(* tree the server has.                                                      *)

On(queue) == {queue[i] : i \in DOMAIN queue}

\* What is on a queue one longer.
LEMMA OnAppended ==
  ASSUME NEW S, NEW q \in Seq(S), NEW e \in S
  PROVE  On(Append(q, e)) = On(q) \cup {e}
<1>1. /\ DOMAIN q = 1 .. Len(q) /\ DOMAIN Append(q, e) = 1 .. Len(q) + 1 /\ Len(q) \in Nat
      /\ Append(q, e)[Len(q) + 1] = e /\ \A i \in 1 .. Len(q) : Append(q, e)[i] = q[i]
  OBVIOUS
<1>2. 1 .. Len(q) + 1 = 1 .. Len(q) \cup {Len(q) + 1}
  BY <1>1
<1> QED
  BY <1>1, <1>2 DEF On

\* The head of a queue, and what is left, were on it.
LEMMA OnTail ==
  ASSUME NEW S, NEW q \in Seq(S), q # <<>>
  PROVE  Head(q) \in On(q) /\ On(Tail(q)) \subseteq On(q)
<1>1. /\ DOMAIN q = 1 .. Len(q) /\ DOMAIN Tail(q) = 1 .. Len(q) - 1 /\ Len(q) \in Nat \ {0}
      /\ Head(q) = q[1] /\ \A i \in 1 .. Len(q) - 1 : Tail(q)[i] = q[i + 1]
  OBVIOUS
<1>2. \A i \in 1 .. Len(q) - 1 : i + 1 \in 1 .. Len(q)
  BY <1>1
<1> QED
  BY <1>1, <1>2 DEF On

\* Every path on its way to b, and every one it will be given, is that of its
\* identity in the tree as it is.
PathsTrue(b) ==
    /\ \A e \in On(up[b]) : e.kind = "path" => tree[e.leaf] = Who(b)
    /\ \A e \in On(down[b]) : e.kind = "path" =>
         e.size = Len(tree) /\ tree[e.leaf] = Who(b)

\* A text that waits since the tree was as it is gets a true path, and a text on its
\* way that waited so is proved for that tree.
Knows(b) ==
    /\ leaf[b] <= Len(tree) /\ \A e \in On(down[b]) : e.leaf <= Len(tree)
    /\ phase[b] # "on" => up[b] = <<>> /\ down[b] = <<>>
    /\ waiting[b] # Nothing =>
         waiting[b].asked <= Len(tree) /\ (waiting[b].asked = Len(tree) => PathsTrue(b))
    /\ \A e \in On(up[b]) : e.kind = "post" =>
         e.asked <= Len(tree) /\ (e.asked = Len(tree) => e.root = Len(tree))

\* Whose share the set holds has had a text accepted.
SharesAccepted == \A i \in {0, 1} : \A key \in DOMAIN slots[i].shares :
                     \E p \in accepted : key = <<p.who, p.epoch>>

FreshInv == Types /\ SharesAccepted /\ \A b \in Browsers : Knows(b)

\* What the types say of the queues and of the tree.
LEMMA QueuesTyped ==
  ASSUME Types, NEW b \in Browsers
  PROVE  /\ up[b] \in Seq(Requests) /\ down[b] \in Seq(Replies)
         /\ tree \in Seq(Identities) /\ Len(tree) \in Nat
         /\ leaf[b] \in Nat /\ waiting[b] \in [text : Texts, asked : Nat] \cup {Nothing}
         /\ \A e \in On(up[b]) : e \in Requests
         /\ \A e \in On(down[b]) : e \in Replies /\ e.leaf \in Nat
<1>1. /\ up[b] \in Seq(Requests) /\ down[b] \in Seq(Replies)
      /\ tree \in Seq(Identities)
      /\ leaf[b] \in 0 .. Capacity /\ waiting[b] \in [text : Texts, asked : Nat] \cup {Nothing}
  BY DEF Types, TypeOK
<1>2. leaf[b] \in Nat /\ Len(tree) \in Nat
  BY <1>1, Constants
<1>3. (\A e \in On(up[b]) : e \in Requests) /\ \A e \in On(down[b]) : e \in Replies
  BY <1>1 DEF On
<1>4. \A e \in Replies : e.leaf \in Nat
  BY Constants DEF Replies
<1> QED
  BY <1>1, <1>2, <1>3, <1>4

\* A browser of which nothing changes but that its connection carries less.
LEMMA KnowsStill ==
  ASSUME NEW b \in Browsers, Knows(b), tree' = tree,
         leaf'[b] = leaf[b], identity'[b] = identity[b], waiting'[b] \in {waiting[b], Nothing},
         On(up'[b]) \subseteq On(up[b]), On(down'[b]) \subseteq On(down[b]),
         \/ up'[b] = <<>> /\ down'[b] = <<>>
         \/ phase[b] = "on" /\ phase'[b] = "on"
  PROVE  Knows(b)'
<1>1. Who(b)' = Who(b)
  BY DEF Who
<1>2. PathsTrue(b) => PathsTrue(b)'
  BY <1>1 DEF PathsTrue
<1> QED
  BY <1>2 DEF Knows

\* A browser of which nothing changes.
LEMMA KnowsAlways ==
  ASSUME NEW b \in Browsers, Knows(b), tree' = tree,
         leaf'[b] = leaf[b], identity'[b] = identity[b], waiting'[b] = waiting[b],
         up'[b] = up[b], down'[b] = down[b],
         phase'[b] = phase[b] \/ phase[b] # "on"
  PROVE  Knows(b)'
<1>1. Who(b)' = Who(b) /\ On(up[b])' = On(up[b]) /\ On(down[b])' = On(down[b])
  BY DEF Who, On
<1>2. PathsTrue(b)' <=> PathsTrue(b)
  BY <1>1 DEF PathsTrue
<1> QED
  BY <1>1, <1>2 DEF Knows

\* The tree grows: nothing that was asked of the one before is fresh.
LEMMA KnowsOfGrowth ==
  ASSUME Types, NEW b \in Browsers, Knows(b), NEW who \in Identities, tree' = Append(tree, who),
         leaf' = leaf, waiting' = waiting, phase'[b] = phase[b],
         On(up'[b]) \subseteq On(up[b]), up[b] = <<>> => up'[b] = <<>>,
         \A e \in On(down'[b]) : e \in On(down[b]) \/ e.leaf = Len(tree) + 1,
         phase[b] # "on" => down'[b] = <<>>
  PROVE  Knows(b)'
<1>1. Len(tree) \in Nat /\ Len(tree') = Len(tree) + 1
  BY QueuesTyped
<1>2. \A e \in On(down'[b]) : e.leaf <= Len(tree')
  BY <1>1, QueuesTyped DEF Knows
<1>3. leaf'[b] <= Len(tree')
  BY <1>1, QueuesTyped DEF Knows
<1>4. waiting'[b] # Nothing => waiting'[b].asked < Len(tree')
  <2> SUFFICES ASSUME waiting[b] # Nothing PROVE waiting[b].asked < Len(tree')
    OBVIOUS
  <2>1. waiting[b].asked \in Nat /\ waiting[b].asked <= Len(tree)
    BY QueuesTyped DEF Knows
  <2> QED
    BY <1>1, <2>1
<1>5. \A e \in On(up'[b]) : e.kind = "post" => e.asked < Len(tree')
  <2> SUFFICES ASSUME NEW e \in On(up[b]), e.kind = "post" PROVE e.asked < Len(tree')
    OBVIOUS
  <2>1. e \in Requests /\ e.asked <= Len(tree)
    BY QueuesTyped DEF Knows
  <2>2. e.asked \in Nat
    BY <2>1 DEF Requests
  <2> QED
    BY <1>1, <2>1, <2>2
<1>6. phase'[b] # "on" => up'[b] = <<>> /\ down'[b] = <<>>
  BY DEF Knows
<1>7. \A n \in Nat : n < Len(tree') => n <= Len(tree') /\ n # Len(tree')
  BY <1>1
<1>8. waiting'[b] # Nothing => waiting'[b].asked \in Nat
  BY QueuesTyped
<1>9. \A e \in On(up'[b]) : e.kind = "post" => e.asked \in Nat
  BY QueuesTyped DEF Requests
<1> QED
  BY <1>2, <1>3, <1>4, <1>5, <1>6, <1>7, <1>8, <1>9 DEF Knows

\* At the start nothing is on its way and nothing is recorded.
LEMMA InitFresh == Init => FreshInv
<1> SUFFICES ASSUME Init PROVE FreshInv
  OBVIOUS
<1>1. SharesAccepted
  BY DEF Init, SharesAccepted, NoShares
<1>2. \A b \in Browsers : Knows(b)
  BY DEF Init, Knows, On
<1> QED
  BY <1>1, <1>2, InitTypes DEF FreshInv

\* A page sends a text, and with it the only request for a path, if it is fresh.
LEMMA SendKnows ==
  ASSUME Types, NEW b \in Browsers, Knows(b), NEW text \in Texts, Send(b, text)
  PROVE  Knows(b)'
<1>1. /\ up[b] \in Seq(Requests) /\ Len(tree) \in Nat /\ leaf[b] \in Nat
      /\ leaf[b] # 0 /\ leaf[b] <= Len(tree)
  BY QueuesTyped DEF Send, Knows
<1> DEFINE ask == [kind |-> "path", leaf |-> leaf[b]]
           stale == Outstanding(b) \/ ~ OwnLeaf(b)
<1>2. ask \in Requests
  BY <1>1 DEF Requests
<1>3. On(up'[b]) \subseteq On(up[b]) \cup {ask}
  <2>1. On(Append(up[b], ask)) = On(up[b]) \cup {ask}
    BY <1>1, <1>2, OnAppended
  <2>2. up'[b] \in {up[b], Append(up[b], ask)}
    BY DEF Send, Types
  <2> QED
    BY <2>1, <2>2 DEF On
<1>4. /\ tree' = tree /\ leaf' = leaf /\ identity' = identity /\ phase' = phase /\ down' = down
      /\ phase[b] # "on" => up' = up
      /\ waiting'[b] = [text |-> text, asked |-> IF stale THEN 0 ELSE Len(tree)]
  BY DEF Send, server, Types
<1>5. Who(b)' = Who(b) /\ On(down[b])' = On(down[b])
  BY <1>4 DEF Who, On
<1>6. waiting'[b].asked = (IF stale THEN 0 ELSE Len(tree))
  BY <1>4
<1>7. waiting'[b].asked <= Len(tree) /\ (waiting'[b].asked = Len(tree) => ~ stale)
  BY <1>1, <1>6
<1>8. ~ stale => PathsTrue(b)'
  <2> SUFFICES ASSUME ~ stale PROVE PathsTrue(b)'
    OBVIOUS
  <2>1. /\ \A e \in On(up[b]) : e.kind # "path"
        /\ \A e \in On(down[b]) : e.kind # "path"
        /\ tree[leaf[b]] = Who(b)
    BY DEF Outstanding, OwnLeaf, On
  <2>2. ask.leaf = leaf[b]
    OBVIOUS
  <2> QED
    BY <1>3, <1>4, <1>5, <2>1, <2>2 DEF PathsTrue
<1>9. ask.kind = "path"
  OBVIOUS
<1> QED
  BY <1>3, <1>4, <1>5, <1>7, <1>8, <1>9 DEF Knows

\* A page proves: for the tree it was given a path in, which is the tree as it is
\* if the text is fresh.
LEMMA PostKnows ==
  ASSUME Types, NEW b \in Browsers, Knows(b), PostAnonymously(b), waiting[b] # Nothing
  PROVE  Knows(b)'
<1>1. /\ up[b] \in Seq(Requests) /\ down[b] \in Seq(Replies) /\ PostOf(b) \in Requests
      /\ Len(tree) \in Nat
  BY QueuesTyped, PostIsRequest
<1>2. Head(down[b]) \in On(down[b]) /\ On(Tail(down[b])) \subseteq On(down[b])
      /\ Head(down[b]).kind = "path"
  BY <1>1, OnTail DEF PostAnonymously
<1>3. /\ tree' = tree /\ leaf' = leaf /\ phase' = phase /\ phase[b] = "on"
      /\ waiting'[b] = Nothing /\ down'[b] = Tail(down[b])
      /\ up'[b] = Append(up[b], PostOf(b))
  BY DEF PostAnonymously, PostOf, server, Types, Knows
<1>4. On(up'[b]) = On(up[b]) \cup {PostOf(b)}
  BY <1>1, <1>3, OnAppended
<1>5. PostOf(b).asked = waiting[b].asked /\ waiting[b].asked <= Len(tree)
      /\ PostOf(b).root = prove(Who(b), Head(down[b]))
  BY DEF PostOf, Knows
<1>6. PostOf(b).asked = Len(tree) => PostOf(b).root = Len(tree)
  BY <1>2, <1>5 DEF Knows, PathsTrue, prove
<1> QED
  BY <1>2, <1>3, <1>4, <1>5, <1>6 DEF Knows

\* The server reads a path of the tree it has.
LEMMA PathKnows ==
  ASSUME Types, NEW b \in Browsers, Knows(b), handle_path_request(b)
  PROVE  Knows(b)'
<1> DEFINE wanted == Head(up[b]).leaf
           path == [kind |-> "path", leaf |-> wanted, size |-> Len(tree)]
<1>1. /\ up[b] \in Seq(Requests) /\ down[b] \in Seq(Replies) /\ Len(tree) \in Nat
      /\ \A e \in On(down[b]) : e.leaf <= Len(tree)
  BY QueuesTyped DEF Knows
<1>2. /\ Head(up[b]) \in On(up[b]) /\ On(Tail(up[b])) \subseteq On(up[b])
      /\ Head(up[b]).kind = "path" /\ Head(up[b]) \in Requests
  BY <1>1, OnTail, Taken DEF handle_path_request, Receives
<1>3. /\ tree' = tree /\ leaf' = leaf /\ identity' = identity /\ waiting' = waiting
      /\ phase' = phase /\ phase[b] = "on" /\ up'[b] = Tail(up[b])
  BY DEF handle_path_request, Receives, server, page, Types, Knows
<1>4. CASE ~ (wanted <= Len(tree))
  <2>1. down' = down
    BY <1>4 DEF handle_path_request
  <2> QED
    BY <1>2, <1>3, <2>1, KnowsStill
<1>5. CASE wanted <= Len(tree)
  <2>1. path \in Replies
    BY <1>1, <1>2 DEF Requests, Replies
  <2>2. down'[b] = Append(down[b], path)
    BY <1>5 DEF handle_path_request, Types
  <2>3. On(down'[b]) = On(down[b]) \cup {path}
    BY <1>1, <2>1, <2>2, OnAppended
  <2>4. path.leaf = wanted /\ path.size = Len(tree)
    OBVIOUS
  <2>5. Who(b)' = Who(b)
    BY <1>3 DEF Who
  <2>6. PathsTrue(b) => PathsTrue(b)'
    BY <1>2, <1>3, <2>3, <2>4, <2>5 DEF PathsTrue
  <2>7. \A e \in On(down'[b]) : e.leaf <= Len(tree)
    BY <1>1, <1>5, <2>3, <2>4
  <2> QED
    BY <1>2, <1>3, <2>6, <2>7 DEF Knows
<1> QED
  BY <1>4, <1>5

\* An identity takes a leaf.
LEMMA RegisterKnows ==
  ASSUME Types, NEW b \in Browsers, NEW c \in Browsers, Knows(b), Knows(c), handle_register(b)
  PROVE  Knows(c)'
<1>1. /\ up[b] \in Seq(Requests) /\ down[b] \in Seq(Replies) /\ Len(tree) \in Nat
  BY QueuesTyped
<1>2. /\ On(Tail(up[b])) \subseteq On(up[b])
      /\ Head(up[b]).kind = "register" /\ Head(up[b]) \in Requests
  BY <1>1, OnTail, Taken DEF handle_register, Receives
<1>3. Head(up[b]).who \in Identities
  BY <1>2 DEF Requests
<1>4. /\ leaf' = leaf /\ identity' = identity /\ waiting' = waiting
      /\ phase' = phase /\ phase[b] = "on" /\ up'[b] = Tail(up[b])
      /\ c # b => up'[c] = up[c] /\ down'[c] = down[c]
      /\ up[b] # <<>>
  BY DEF handle_register, Receives, page, Types, Knows
<1>5. CASE ~ (Len(tree) < Capacity)
  <2>1. down' = down /\ tree' = tree
    BY <1>5 DEF handle_register
  <2>2. CASE c = b
    BY <1>2, <1>4, <2>1, <2>2, KnowsStill
  <2>3. CASE c # b
    BY <1>4, <2>1, <2>3, KnowsAlways
  <2> QED
    BY <2>2, <2>3
<1>6. CASE Len(tree) < Capacity
  <2> DEFINE reply == [kind |-> "registered", leaf |-> Len(tree) + 1]
  <2>1. tree' = Append(tree, Head(up[b]).who) /\ down'[b] = Append(down[b], reply)
    BY <1>6 DEF handle_register, Types
  <2>2. reply \in Replies /\ reply.leaf = Len(tree) + 1
    BY <1>1, <1>6, Constants DEF Replies
  <2>3. On(down'[b]) = On(down[b]) \cup {reply}
    BY <1>1, <2>1, <2>2, OnAppended
  <2>4. \A e \in On(down'[c]) : e \in On(down[c]) \/ e.leaf = Len(tree) + 1
    BY <1>4, <2>2, <2>3
  <2>5. On(up'[c]) \subseteq On(up[c]) /\ (up[c] = <<>> => up'[c] = <<>>)
    BY <1>2, <1>4
  <2>6. phase[c] # "on" => down'[c] = <<>>
    BY <1>4 DEF Knows
  <2> QED
    BY <1>3, <1>4, <2>1, <2>4, <2>5, <2>6, KnowsOfGrowth
<1> QED
  BY <1>5, <1>6

\* The set comes to hold the share of a post, whose text is accepted if the set held
\* none.
LEMMA Accepts ==
  ASSUME Types, SharesAccepted, NEW b \in Browsers, handle_message(b)
  PROVE  /\ SharesAccepted'
         /\ FreshlyProven(b) /\ Head(up[b]).root = Len(tree) =>
              \E p \in accepted' : p.who = Head(up[b]).who /\ p.epoch = Head(up[b]).epoch
<1> PICK post : post = Head(up[b])
  OBVIOUS
<1>1. CASE ~ Verifies(post)
  <2>1. slots' = slots /\ accepted' = accepted
    BY <1>1 DEF handle_message
  <2>2. ~ (FreshlyProven(b) /\ post.root = Len(tree))
    BY <1>1 DEF FreshlyProven, Verifies
  <2> QED
    BY <2>1, <2>2 DEF SharesAccepted
<1>2. CASE Verifies(post)
  <2>1. post.epoch \in Nat /\ DOMAIN slots = {0, 1}
    BY <1>2, PostHandled DEF Types
  <2>2. post.epoch % 2 \in {0, 1}
    BY <2>1
  <2>3. /\ slots' = [slots EXCEPT ![post.epoch % 2] = Recorded(post)]
        /\ accepted' = IF Outcome(post) = "accepted"
                       THEN accepted \cup {Text(post)} ELSE accepted
    BY <1>2 DEF handle_message
  <2>4. Text(post).who = post.who /\ Text(post).epoch = post.epoch
    BY DEF Text
  <2>5. \A key \in DOMAIN SlotFor(post.epoch).shares :
          \E p \in accepted : key = <<p.who, p.epoch>>
    BY <2>2 DEF SlotFor, NoShares, SharesAccepted
  <2>6. \E p \in accepted' : p.who = post.who /\ p.epoch = post.epoch
    <3>1. CASE Outcome(post) = "accepted"
      BY <2>3, <2>4, <3>1
    <3>2. CASE Outcome(post) # "accepted"
      <4>1. <<post.who, post.epoch>> \in DOMAIN SlotFor(post.epoch).shares
        BY <3>2 DEF Outcome, Nullifier
      <4> QED
        BY <2>3, <2>5, <3>2, <4>1
    <3> QED
      BY <3>1, <3>2
  <2>7. ASSUME NEW i \in {0, 1}, NEW key \in DOMAIN slots'[i].shares
        PROVE  \E p \in accepted' : key = <<p.who, p.epoch>>
    <3>1. CASE i = post.epoch % 2
      <4>1. slots'[i] = Recorded(post)
        BY <2>1, <2>3, <3>1
      <4>2. key \in DOMAIN SlotFor(post.epoch).shares \cup {<<post.who, post.epoch>>}
        BY <2>7, <4>1 DEF Recorded, Nullifier
      <4> QED
        BY <2>3, <2>5, <2>6, <4>2
    <3>2. CASE i # post.epoch % 2
      <4>1. slots'[i] = slots[i]
        BY <2>1, <2>3, <3>2
      <4> QED
        BY <2>3, <2>7, <4>1 DEF SharesAccepted
    <3> QED
      BY <3>1, <3>2
  <2> QED
    BY <2>6, <2>7 DEF SharesAccepted
<1> QED
  BY <1>1, <1>2

\* Every step of a page and of the server keeps it.
LEMMA NextFresh == FreshInv /\ [Next]_vars => FreshInv'
<1> SUFFICES ASSUME FreshInv, [Next]_vars PROVE SharesAccepted' /\ \A c \in Browsers : Knows(c)'
  BY NextTypes DEF FreshInv
<1>0. Types /\ SharesAccepted /\ \A c \in Browsers : Knows(c)
  BY DEF FreshInv
<1>1. ASSUME UNCHANGED <<slots, accepted>> PROVE SharesAccepted'
  BY <1>0, <1>1 DEF SharesAccepted
<1>2. ASSUME NEW b \in Browsers, Connect(b)
      PROVE  SharesAccepted' /\ \A c \in Browsers : Knows(c)'
  <2>1. /\ UNCHANGED <<slots, accepted, tree, leaf, identity, waiting, up, down>>
        /\ \A c \in Browsers : phase'[c] = phase[c] \/ phase[c] # "on"
    BY <1>0, <1>2 DEF Connect, server, page, history, Types, TypeOK
  <2> QED
    BY <1>0, <1>1, <2>1, KnowsAlways
<1>3. ASSUME NEW b \in Browsers, startNovaRlnRegistration(b)
      PROVE  SharesAccepted' /\ \A c \in Browsers : Knows(c)'
  <2> DEFINE ask == [kind |-> "register", who |-> <<b, identity[b] + 1>>]
  <2>1. /\ UNCHANGED <<slots, accepted, tree, leaf, waiting, down>>
        /\ \A c \in Browsers \ {b} : identity'[c] = identity[c] /\ up'[c] = up[c]
                                     /\ phase'[c] = phase[c]
        /\ phase[b] = "open" /\ up'[b] = Append(up[b], ask) /\ phase'[b] = "on"
    BY <1>0, <1>3 DEF startNovaRlnRegistration, server, history, Types, TypeOK
  <2>2. Knows(b)'
    <3>1. up[b] = <<>> /\ down[b] = <<>>
      BY <1>0, <2>1 DEF Knows
    <3>2. ask \in Requests /\ ask.kind = "register"
      BY <1>0 DEF Requests, Identities, Types, TypeOK
    <3>3. up[b] \in Seq(Requests)
      BY <1>0, QueuesTyped
    <3>4. On(up'[b]) = {ask} /\ On(down'[b]) = {}
      BY <2>1, <3>1, <3>2, <3>3, OnAppended DEF On
    <3>5. PathsTrue(b)'
      BY <3>2, <3>4 DEF PathsTrue
    <3> QED
      BY <1>0, <2>1, <3>2, <3>4, <3>5 DEF Knows
  <2> QED
    BY <1>0, <1>1, <2>1, <2>2, KnowsAlways
<1>4. ASSUME NEW b \in Browsers, NEW text \in Texts, Send(b, text)
      PROVE  SharesAccepted' /\ \A c \in Browsers : Knows(c)'
  <2>1. /\ UNCHANGED <<slots, accepted, tree, leaf, identity, phase, down>>
        /\ \A c \in Browsers \ {b} : waiting'[c] = waiting[c] /\ up'[c] = up[c]
    BY <1>0, <1>4 DEF Send, server, history, Types, TypeOK
  <2>2. Knows(b)'
    BY <1>0, <1>4, SendKnows
  <2> QED
    BY <1>0, <1>1, <2>1, <2>2, KnowsAlways
<1>5. ASSUME NEW b \in Browsers, Registered(b)
      PROVE  SharesAccepted' /\ \A c \in Browsers : Knows(c)'
  <2>1. /\ UNCHANGED <<slots, accepted, tree, identity, waiting, phase, up>>
        /\ \A c \in Browsers \ {b} : leaf'[c] = leaf[c] /\ down'[c] = down[c]
        /\ leaf'[b] = Head(down[b]).leaf /\ down'[b] = Tail(down[b]) /\ down[b] # <<>>
    BY <1>0, <1>5 DEF Registered, server, history, Types, TypeOK
  <2>2. Knows(b)'
    <3>1. Head(down[b]) \in On(down[b]) /\ On(down'[b]) \subseteq On(down[b])
      BY <1>0, <2>1, QueuesTyped, OnTail
    <3>2. Who(b)' = Who(b) /\ On(up[b])' = On(up[b])
      BY <2>1 DEF Who, On
    <3>3. PathsTrue(b) => PathsTrue(b)'
      BY <2>1, <3>1, <3>2 DEF PathsTrue
    <3>4. phase[b] = "on"
      BY <1>0, <2>1 DEF Knows
    <3>5. leaf'[b] <= Len(tree)
      BY <1>0, <2>1, <3>1 DEF Knows
    <3> QED
      BY <1>0, <2>1, <3>1, <3>2, <3>3, <3>4, <3>5 DEF Knows
  <2> QED
    BY <1>0, <1>1, <2>1, <2>2, KnowsAlways
<1>6. ASSUME NEW b \in Browsers, PostAnonymously(b)
      PROVE  SharesAccepted' /\ \A c \in Browsers : Knows(c)'
  <2>1. /\ UNCHANGED <<slots, accepted, tree, leaf, identity, phase>>
        /\ \A c \in Browsers \ {b} : /\ waiting'[c] = waiting[c] /\ up'[c] = up[c]
                                     /\ down'[c] = down[c]
        /\ down'[b] = Tail(down[b]) /\ down[b] # <<>>
        /\ waiting[b] = Nothing => waiting' = waiting /\ up' = up
    BY <1>0, <1>6 DEF PostAnonymously, server, history, Types, TypeOK
  <2>2. Knows(b)'
    <3>1. CASE waiting[b] # Nothing
      BY <1>0, <1>6, <3>1, PostKnows
    <3>2. CASE waiting[b] = Nothing
      <4>1. On(down'[b]) \subseteq On(down[b]) /\ phase[b] = "on"
        BY <1>0, <2>1, QueuesTyped, OnTail DEF Knows
      <4> QED
        BY <1>0, <2>1, <3>2, <4>1, KnowsStill
    <3> QED
      BY <3>1, <3>2
  <2> QED
    BY <1>0, <1>1, <2>1, <2>2, KnowsAlways
<1>7. ASSUME NEW b \in Browsers, handle_register(b)
      PROVE  SharesAccepted' /\ \A c \in Browsers : Knows(c)'
  <2>1. UNCHANGED <<slots, accepted>>
    BY <1>7 DEF handle_register, history
  <2> QED
    BY <1>0, <1>1, <1>7, <2>1, RegisterKnows
<1>8. ASSUME NEW b \in Browsers, handle_path_request(b)
      PROVE  SharesAccepted' /\ \A c \in Browsers : Knows(c)'
  <2>1. /\ UNCHANGED <<slots, accepted, tree, leaf, identity, waiting, phase>>
        /\ \A c \in Browsers \ {b} : up'[c] = up[c] /\ down'[c] = down[c]
    BY <1>0, <1>8 DEF handle_path_request, Receives, server, page, history, Types, TypeOK
  <2>2. Knows(b)'
    BY <1>0, <1>8, PathKnows
  <2> QED
    BY <1>0, <1>1, <2>1, <2>2, KnowsAlways
<1>9. ASSUME NEW b \in Browsers, handle_message(b)
      PROVE  SharesAccepted' /\ \A c \in Browsers : Knows(c)'
  <2>1. /\ UNCHANGED <<tree, leaf, identity, waiting, phase, down>>
        /\ \A c \in Browsers \ {b} : up'[c] = up[c]
        /\ up'[b] = Tail(up[b]) /\ up[b] # <<>>
    BY <1>0, <1>9 DEF handle_message, Receives, page, Types, TypeOK
  <2>2. Knows(b)'
    <3>1. On(up'[b]) \subseteq On(up[b]) /\ phase[b] = "on"
      BY <1>0, <2>1, QueuesTyped, OnTail DEF Knows
    <3> QED
      BY <1>0, <2>1, <3>1, KnowsStill
  <2> QED
    BY <1>0, <1>9, <2>1, <2>2, KnowsAlways, Accepts
<1>10. ASSUME NEW b \in Browsers, LoseConnection(b)
       PROVE  SharesAccepted' /\ \A c \in Browsers : Knows(c)'
  <2>1. /\ UNCHANGED <<slots, accepted, tree, leaf, identity, waiting>>
        /\ \A c \in Browsers \ {b} : /\ up'[c] = up[c] /\ down'[c] = down[c]
                                     /\ phase'[c] = phase[c]
        /\ up'[b] = <<>> /\ down'[b] = <<>>
    BY <1>0, <1>10 DEF LoseConnection, server, page, history, Types, TypeOK
  <2>2. Knows(b)'
    <3>1. On(<<>>) = {}
      BY DEF On
    <3> QED
      BY <1>0, <2>1, <3>1, KnowsStill
  <2> QED
    BY <1>0, <1>1, <2>1, <2>2, KnowsAlways
<1>11. ASSUME \/ \E b \in Browsers : Broadcast(b)
              \/ Tick \/ UNCHANGED vars
       PROVE  SharesAccepted' /\ \A c \in Browsers : Knows(c)'
  <2>1. UNCHANGED <<slots, accepted, tree, leaf, identity, waiting, phase, up, down>>
    BY <1>11 DEF Broadcast, Tick, server, page, wire, history, vars
  <2> QED
    BY <1>0, <1>1, <2>1, KnowsAlways
<1> QED
  BY <1>2, <1>3, <1>4, <1>5, <1>6, <1>7, <1>8, <1>9, <1>10, <1>11 DEF Next

\* A text proved for the tree the server still has, and for an epoch still good, is
\* accepted or its epoch was spent, whoever else registers and posts.
THEOREM FreshPostsAreAccepted == Spec => FreshPostAccepted
<1> DEFINE A == \A b \in Browsers :
         handle_message(b) /\ FreshlyProven(b) =>
            \E p \in accepted' : p.who = Head(up[b]).who /\ p.epoch = Head(up[b]).epoch
<1>1. FreshInv /\ [Next]_vars => [A]_vars
  <2> SUFFICES ASSUME FreshInv, NEW b \in Browsers, handle_message(b), FreshlyProven(b)
               PROVE  \E p \in accepted' : /\ p.who = Head(up[b]).who
                                           /\ p.epoch = Head(up[b]).epoch
    OBVIOUS
  <2>1. Head(up[b]) \in On(up[b]) /\ Head(up[b]).kind = "post"
    BY QueuesTyped, OnTail DEF FreshInv, handle_message, Receives
  <2>2. Head(up[b]).root = Len(tree)
    BY <2>1 DEF FreshInv, Knows, FreshlyProven
  <2> QED
    BY <2>2, Accepts DEF FreshInv
<1> QED
  BY <1>1, InitFresh, NextFresh, PTL DEF Spec, FreshPostAccepted
=============================================================================
