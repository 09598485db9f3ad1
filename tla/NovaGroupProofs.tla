---------------------------- MODULE NovaGroupProofs ----------------------------
(***************************************************************************)
(* What NovaGroup claims of a room's group, for any connections, number of *)
(* leaves and number of frames.                                            *)
(*                                                                         *)
(* TypeInv adds to the types who holds the mutex (Locks), which leaf is    *)
(* whose at each stage of a session (Places), and that a session that does *)
(* not run has no browser (Unconnected). A leaf is a connection's from the *)
(* commit that adds it to the one that removes it; a join abandoned at its *)
(* wait for the room lock (Cancels) leaves one behind, so that what is     *)
(* claimed of leaves and of commits is claimed where no join is abandoned. *)
(*                                                                         *)
(* The order of commits needs the ways they go: a commit is held with the  *)
(* mutex, in the plaintext channel, or in a stream, and what each browser  *)
(* still lacks is there, in order (CommitInv). That a commit is published  *)
(* while the mutex is held, and that the next is made only then, is what   *)
(* keeps them in order. What a member can open needs the frames' place     *)
(* among the commits (SealInv): a frame sealed while no commit waits in    *)
(* the channel is in each stream after the commit to its epoch, because    *)
(* CommitInv has that commit nowhere else, and before the next, which is   *)
(* not made yet.                                                           *)
(***************************************************************************)
EXTENDS NovaGroup, WellFoundedInduction, TLAPS

\* The assumption on the constants.
LEMMA Constants ==
  Capacity \in Nat \ {0, 1} /\ MaxFrames \in Nat /\ Cancels \in BOOLEAN /\ NoOne \notin Conns
  BY NovaAssumption

\* A set of naturals has a least element.
LEMMA LeastNumber ==
  ASSUME NEW S \in SUBSET Nat, S # {}
  PROVE  \E x \in S : \A y \in S : x <= y
<1>1. PICK x \in S : \A y \in S : ~(<<y, x>> \in OpToRel(<, Nat))
  BY WFMin, NatLessThanWellFounded
<1>2. \A y \in S : ~(y < x)
  BY <1>1 DEF OpToRel
<1> QED
  BY <1>2

----------------------------------------------------------------------------
(* Queues *)

\* A queue one longer.
LEMMA AppendAt ==
  ASSUME NEW S, NEW s \in Seq(S), NEW e \in S
  PROVE  /\ Append(s, e) \in Seq(S)
         /\ Len(s) \in Nat
         /\ DOMAIN s = 1 .. Len(s) /\ DOMAIN Append(s, e) = 1 .. Len(s) + 1
         /\ Append(s, e)[Len(s) + 1] = e
         /\ \A i \in DOMAIN s : Append(s, e)[i] = s[i]
  OBVIOUS

\* A queue one shorter.
LEMMA TailAt ==
  ASSUME NEW S, NEW s \in Seq(S), s # <<>>
  PROVE  /\ Tail(s) \in Seq(S)
         /\ Len(s) \in Nat \ {0}
         /\ DOMAIN s = 1 .. Len(s) /\ DOMAIN Tail(s) = 1 .. Len(s) - 1
         /\ Head(s) = s[1] /\ s[1] \in S
         /\ \A i \in DOMAIN Tail(s) : Tail(s)[i] = s[i + 1]
  OBVIOUS

Frames == [kind : {"app"}] \cup [kind : {"commit"}, epoch : Nat]
          \cup [kind : {"sealed"}, epoch : Nat, seq : Nat]

\* What the frames are.
LEMMA FrameKinds ==
  /\ App \in Frames /\ App.kind = "app"
  /\ \A e \in Nat : NovaCommit(e) \in Frames /\ NovaCommit(e).kind = "commit"
                    /\ NovaCommit(e).epoch = e
  /\ \A e, s \in Nat : /\ GroupSealed(e, s) \in Frames /\ GroupSealed(e, s).kind = "sealed"
                       /\ GroupSealed(e, s).epoch = e /\ GroupSealed(e, s).seq = s
  /\ \A f \in Frames : /\ f.kind = "app" => f = App
                       /\ f.kind = "commit" => f.epoch \in Nat
                       /\ f.kind = "sealed" => f.epoch \in Nat /\ f.seq \in Nat
                       /\ f.kind \in {"app", "commit", "sealed"}
  BY DEF Frames, App, NovaCommit, GroupSealed

----------------------------------------------------------------------------
(* Types, locks and leaves *)

\* Frames of the plaintext channel, and of a sealed stream.
PlainOK(s) == s \in Seq(Frames) /\ \A i \in DOMAIN s : s[i] = App \/ IsCommit(s[i])
StreamOK(s) ==
    s \in Seq(Frames) /\ \A i \in DOMAIN s : IsCommit(s[i]) \/ IsSealed(s[i])

\* The types, with the queues as sequences.
Types ==
    /\ pc \in [Conns -> Running \cup {"out", "leaving", "removing", "closing", "gone"}]
    /\ slot \in [Conns -> 0 .. Capacity - 1]
    /\ member \in [Leaves -> Conns \cup {NoOne}]
    /\ epoch \in Nat /\ seq \in Nat /\ rendered \in 0 .. MaxFrames
    /\ holder \in {c \in Conns : pc[c] \in {"adding", "removing"}} \cup {NoOne}
    /\ PlainOK(plain)
    /\ hand \in {<<>>, <<App>>}
    /\ stream \in [Conns -> Seq(Frames)] /\ \A c \in Conns : StreamOK(stream[c])
    /\ client \in [Conns -> [joined : BOOLEAN, epoch : 0 .. epoch, next : Nat]]
    /\ welcome \in [Conns -> 0 .. epoch]
    /\ overtaken \subseteq 0 .. epoch

\* The mutex is held by whoever waits with a commit to publish.
Locks ==
    /\ \A c \in Conns : pc[c] \in {"adding", "removing"} <=> holder = c
    /\ holder # NoOne => epoch > 0

HasNoLeaf(c) == \A l \in Leaves : member[l] # c

\* The leaf of a connection is the one its slot names, once the slot is filled.
Place(c) ==
    /\ pc[c] = "out" => slot[c] = 0 /\ HasNoLeaf(c)
    /\ pc[c] \in {"in", "rendering", "owed", "leaving"} =>
         \A l \in Leaves : member[l] = c <=> l = slot[c]
    /\ pc[c] = "adding" =>
         slot[c] = 0 /\ \E k \in Leaves : \A l \in Leaves : member[l] = c <=> l = k
    /\ pc[c] \in {"owed", "leaving", "removing"} => slot[c] # 0
    /\ ~Cancels /\ pc[c] \in {"removing", "closing", "gone"} => HasNoLeaf(c)
Places == \A c \in Conns : Place(c)

\* A connection whose session does not run has no browser.
Quiet(c) == pc[c] \notin Running =>
    stream[c] = <<>> /\ ~client[c].joined /\ welcome[c] = 0
Unconnected == \A c \in Conns : Quiet(c)

TypeInv == Types /\ Locks /\ Places /\ Unconnected

\* Nobody is there.
LEMMA TypeInit ==
  ASSUME Init
  PROVE  TypeInv
<1>1. Types
  BY Constants DEF Init, Types, AwaitingJoin, Running, PlainOK, StreamOK
<1>2. Locks /\ Unconnected
  BY Constants DEF Init, Locks, Unconnected, Quiet, Running, AwaitingJoin
<1>3. Places
  BY Constants DEF Init, Places, Place, HasNoLeaf
<1> QED
  BY <1>1, <1>2, <1>3 DEF TypeInv

\* The first blank leaf is blank.
LEMMA FirstBlankIs ==
  ASSUME \E l \in Leaves : member[l] = NoOne
  PROVE  FirstBlank \in Leaves /\ member[FirstBlank] = NoOne
<1> DEFINE S == {l \in Leaves : member[l] = NoOne}
<1>1. S \in SUBSET Nat /\ S # {}
  BY DEF Leaves
<1>2. \E x \in S : \A y \in S : x <= y
  BY <1>1, LeastNumber
<1>3. FirstBlank \in S
  BY <1>2 DEF FirstBlank, Min
<1> QED
  BY <1>3

\* What may be published keeps the channel's frames what they are.
LEMMA PlainAppend ==
  ASSUME NEW s, PlainOK(s), NEW f \in Frames, f = App \/ IsCommit(f)
  PROVE  PlainOK(Append(s, f))
<1>1. PICK r : r = Append(s, f)
  OBVIOUS
<1>2. /\ r \in Seq(Frames) /\ Len(s) \in Nat
      /\ DOMAIN s = 1 .. Len(s) /\ DOMAIN r = 1 .. Len(s) + 1
      /\ r[Len(s) + 1] = f
      /\ \A i \in DOMAIN s : r[i] = s[i]
  BY <1>1, AppendAt DEF PlainOK
<1>3. \A i \in DOMAIN r : i \in DOMAIN s \/ i = Len(s) + 1
  BY <1>2
<1> QED
  BY <1>1, <1>2, <1>3 DEF PlainOK

\* What may be broadcast keeps a stream's frames what they are.
LEMMA StreamAppend ==
  ASSUME NEW s, StreamOK(s), NEW f \in Frames, IsCommit(f) \/ IsSealed(f)
  PROVE  StreamOK(Append(s, f))
<1>1. PICK r : r = Append(s, f)
  OBVIOUS
<1>2. /\ r \in Seq(Frames) /\ Len(s) \in Nat
      /\ DOMAIN s = 1 .. Len(s) /\ DOMAIN r = 1 .. Len(s) + 1
      /\ r[Len(s) + 1] = f
      /\ \A i \in DOMAIN s : r[i] = s[i]
  BY <1>1, AppendAt DEF StreamOK
<1>3. \A i \in DOMAIN r : i \in DOMAIN s \/ i = Len(s) + 1
  BY <1>2
<1> QED
  BY <1>1, <1>2, <1>3 DEF StreamOK

\* The loop receives a frame of the channel.
LEMMA PlainTail ==
  ASSUME NEW s, PlainOK(s), s # <<>>
  PROVE  PlainOK(Tail(s)) /\ Head(s) \in Frames /\ (Head(s) = App \/ IsCommit(Head(s)))
<1>1. PICK r : r = Tail(s)
  OBVIOUS
<1>2. /\ r \in Seq(Frames) /\ Len(s) \in Nat \ {0}
      /\ DOMAIN s = 1 .. Len(s) /\ DOMAIN r = 1 .. Len(s) - 1
      /\ Head(s) = s[1] /\ s[1] \in Frames
      /\ \A i \in DOMAIN r : r[i] = s[i + 1]
  BY <1>1, TailAt DEF PlainOK
<1>3. 1 \in DOMAIN s /\ \A i \in DOMAIN r : i + 1 \in DOMAIN s
  BY <1>2
<1> QED
  BY <1>1, <1>2, <1>3 DEF PlainOK

\* A session forwards a frame of its stream.
LEMMA StreamTail ==
  ASSUME NEW s, StreamOK(s), s # <<>>
  PROVE  StreamOK(Tail(s)) /\ Head(s) \in Frames /\ (IsCommit(Head(s)) \/ IsSealed(Head(s)))
<1>1. PICK r : r = Tail(s)
  OBVIOUS
<1>2. /\ r \in Seq(Frames) /\ Len(s) \in Nat \ {0}
      /\ DOMAIN s = 1 .. Len(s) /\ DOMAIN r = 1 .. Len(s) - 1
      /\ Head(s) = s[1] /\ s[1] \in Frames
      /\ \A i \in DOMAIN r : r[i] = s[i + 1]
  BY <1>1, TailAt DEF StreamOK
<1>3. 1 \in DOMAIN s /\ \A i \in DOMAIN r : i + 1 \in DOMAIN s
  BY <1>2
<1> QED
  BY <1>1, <1>2, <1>3 DEF StreamOK


\* With a greater epoch, a frame that was possible still is.
LEMMA EpochGrows ==
  ASSUME Types, epoch' \in {epoch, epoch + 1}
  PROVE  /\ \A s : PlainOK(s) => PlainOK(s)'
         /\ \A s : StreamOK(s) => StreamOK(s)'
         /\ epoch' \in Nat /\ 0 .. epoch \subseteq 0 .. epoch'
<1>1. epoch \in Nat /\ epoch' \in Nat /\ epoch <= epoch'
  BY DEF Types
<1>2. \A f : IsCommit(f) => IsCommit(f)'
  BY <1>1 DEF IsCommit
<1>3. \A f : IsSealed(f) => IsSealed(f)'
  BY <1>1 DEF IsSealed
<1> QED
  BY <1>1, <1>2, <1>3 DEF PlainOK, StreamOK

\* A published frame.
LEMMA PublishTypes ==
  ASSUME TypeInv, NEW f \in Frames, f = App \/ IsCommit(f), Publish(f), epoch' = epoch
  PROVE  PlainOK(plain)'
<1>1. PlainOK(Append(plain, f))
  BY PlainAppend DEF TypeInv, Types
<1> QED
  BY <1>1, EpochGrows DEF TypeInv, Types, Publish

\* A broadcast reaches those who listen.
LEMMA BroadcastTypes ==
  ASSUME TypeInv, NEW f \in Frames, IsCommit(f) \/ IsSealed(f), Broadcast(f), epoch' = epoch
  PROVE  /\ stream' \in [Conns -> Seq(Frames)]
         /\ \A c \in Conns : StreamOK(stream[c])'
         /\ \A c \in Conns : pc[c] \notin Running => stream'[c] = stream[c]
<1>1. \A c \in Conns : StreamOK(Append(stream[c], f)) /\ StreamOK(stream[c])
  BY StreamAppend DEF TypeInv, Types
<1>2. \A c \in Conns : stream'[c] \in {stream[c], Append(stream[c], f)}
  BY DEF Broadcast
<1>3. \A c \in Conns : StreamOK(stream'[c])
  BY <1>1, <1>2
<1>4. stream' \in [Conns -> Seq(Frames)]
  BY <1>3 DEF StreamOK, Broadcast
<1>5. \A c \in Conns : StreamOK(stream[c])'
  BY <1>3, EpochGrows DEF TypeInv, Types
<1> QED
  BY <1>4, <1>5 DEF Broadcast, Subscribed

Browser(e) == [joined : BOOLEAN, epoch : 0 .. e, next : Nat]

\* The states of a browser at an epoch.
LEMMA Browsers ==
  ASSUME NEW e \in Nat
  PROVE  /\ AwaitingJoin \in Browser(e) /\ ~AwaitingJoin.joined
         /\ \A x \in 0 .. e, n \in Nat :
              /\ Joined(x, n) \in Browser(e)
              /\ Joined(x, n).joined /\ Joined(x, n).epoch = x /\ Joined(x, n).next = n
         /\ \A b \in Browser(e) : b.joined \in BOOLEAN /\ b.epoch \in 0 .. e /\ b.next \in Nat
         /\ Browser(e) \subseteq Browser(e + 1)
  BY DEF Browser, AwaitingJoin, Joined

\* What a session does for itself: nobody else's part changes, nor the group.
Stages == Running \cup {"out", "leaving", "removing", "closing", "gone"}
Local(c) ==
    /\ pc' \in [Conns -> Stages]
    /\ stream' \in [Conns -> Seq(Frames)]
    /\ client' \in [Conns -> Browser(epoch)]
    /\ welcome' \in [Conns -> 0 .. epoch]
    /\ \A d \in Conns \ {c} :
        /\ pc'[d] = pc[d] /\ stream'[d] = stream[d]
        /\ client'[d] = client[d] /\ welcome'[d] = welcome[d]
    /\ stream'[c] \in {stream[c], <<>>}
    /\ UNCHANGED <<slot, member, epoch, seq, hand, overtaken>>
    /\ plain' \in {plain, Append(plain, App)}
    /\ rendered' \in 0 .. MaxFrames

Begins(c) ==
    /\ pc[c] = "out" /\ pc'[c] = "in"
    /\ UNCHANGED <<stream, client, welcome, holder>>
Renders(c) ==
    /\ pc[c] \in {"in", "rendering"} /\ pc'[c] \in {"in", "rendering"}
    /\ UNCHANGED <<stream, client, welcome, holder>>
Closes(c) ==
    /\ pc[c] = "closing" /\ pc'[c] = "gone"
    /\ UNCHANGED <<stream, client, welcome, holder>>
Answered(c) ==
    /\ pc[c] = "owed" /\ pc'[c] = "in"
    /\ client'[c] = Joined(welcome[c], 0)
    /\ UNCHANGED <<stream, welcome, holder, plain>>
Ends(c) ==
    /\ pc[c] \in Running /\ (pc[c] = "adding" => Cancels)
    /\ pc'[c] = IF slot[c] = 0 THEN "closing" ELSE "leaving"
    /\ client'[c] = AwaitingJoin /\ welcome'[c] = 0 /\ stream'[c] = <<>>
    /\ holder' = IF holder = c THEN NoOne ELSE holder
    /\ UNCHANGED plain

\* The steps a session takes on its own.
Moves(c) == Begins(c) \/ Renders(c) \/ Closes(c) \/ Answered(c) \/ Ends(c)

\* The steps that touch neither the mutex nor the streams are such.
LEMMA SessionMoves ==
  ASSUME TypeInv, NEW c \in Conns,
         \/ Connect(c) \/ StartRender(c) \/ FinishRender(c)
         \/ EndSession(c) \/ CleanupUser(c) \/ SendWelcome(c)
  PROVE  Local(c) /\ Moves(c)
<1>1. /\ pc \in [Conns -> Stages] /\ stream \in [Conns -> Seq(Frames)]
      /\ epoch \in Nat /\ client \in [Conns -> Browser(epoch)]
      /\ welcome \in [Conns -> 0 .. epoch]
      /\ rendered \in 0 .. MaxFrames /\ MaxFrames \in Nat
  BY Constants DEF TypeInv, Types, Stages, Browser
<1>2. /\ AwaitingJoin \in Browser(epoch) /\ Joined(welcome[c], 0) \in Browser(epoch)
      /\ 0 \in 0 .. epoch /\ <<>> \in Seq(Frames)
      /\ {"in", "rendering", "gone", "closing", "leaving"} \subseteq Stages
  BY <1>1, Browsers DEF Stages, Running
<1>3. CASE Connect(c)
  BY <1>1, <1>2, <1>3 DEF Connect, Goto, Publish, group, own, Local, Moves, Begins
<1>4. CASE StartRender(c)
  BY <1>1, <1>2, <1>4 DEF StartRender, Goto, group, own, wire, Local, Moves, Renders
<1>5. CASE FinishRender(c)
  BY <1>1, <1>2, <1>5 DEF FinishRender, Goto, group, own, Local, Moves, Renders
<1>6. CASE EndSession(c)
  BY <1>1, <1>2, <1>6 DEF EndSession, Goto, Local, Moves, Ends
<1>7. CASE CleanupUser(c)
  BY <1>1, <1>2, <1>7 DEF CleanupUser, Goto, group, own, Local, Moves, Closes
<1>8. CASE SendWelcome(c)
  BY <1>1, <1>2, <1>8 DEF SendWelcome, Goto, group, own, Local, Moves, Answered
<1> QED
  BY <1>3, <1>4, <1>5, <1>6, <1>7, <1>8

\* They keep the invariant.
LEMMA SessionTypes ==
  ASSUME TypeInv, NEW c \in Conns, Local(c), Moves(c)
  PROVE  TypeInv'
<1>1. PlainOK(plain)'
  <2>1. PlainOK(plain) /\ PlainOK(Append(plain, App))
    BY FrameKinds, PlainAppend DEF TypeInv, Types
  <2>2. epoch' = epoch /\ PlainOK(plain')
    BY <2>1 DEF Local
  <2> QED
    BY <2>2, EpochGrows DEF TypeInv
<1>2. \A d \in Conns : StreamOK(stream[d])'
  <2>1. StreamOK(<<>>)
    BY DEF StreamOK
  <2>2. \A d \in Conns : StreamOK(stream'[d])
    BY <2>1 DEF TypeInv, Types, Local
  <2> QED
    BY <2>2, EpochGrows DEF TypeInv, Local
<1>3. Locks' /\ holder' \in Conns \cup {NoOne}
  <2>1. holder \in Conns \cup {NoOne} /\ NoOne \notin Conns
    BY Constants DEF TypeInv, Types
  <2>2. CASE Begins(c) \/ Renders(c) \/ Closes(c) \/ Answered(c)
    BY <2>1, <2>2 DEF Local, TypeInv, Locks, Begins, Renders, Closes, Answered
  <2>3. CASE Ends(c)
    BY <2>1, <2>3 DEF Local, TypeInv, Locks, Ends
  <2> QED
    BY <2>2, <2>3 DEF Moves
<1>4. Types'
  BY <1>1, <1>2, <1>3 DEF TypeInv, Types, Locks, Local, Browser, Stages
<1>5. Unconnected'
  <2>1. Quiet(c) /\ ~AwaitingJoin.joined
    BY DEF TypeInv, Unconnected, AwaitingJoin
  <2>2. Quiet(c)'
    <3>1. CASE Begins(c) \/ Renders(c) \/ Answered(c)
      BY <3>1 DEF Begins, Renders, Answered, Quiet, Running
    <3>2. CASE Closes(c)
      BY <2>1, <3>2 DEF Closes, Quiet, Running
    <3>3. CASE Ends(c)
      BY <2>1, <3>3 DEF Ends, Quiet
    <3> QED
      BY <3>1, <3>2, <3>3 DEF Moves
  <2>3. \A d \in Conns \ {c} : Quiet(d)'
    BY DEF Local, TypeInv, Unconnected, Quiet
  <2> QED
    BY <2>2, <2>3 DEF Unconnected
<1>6. Places'
  <2>1. Place(c) /\ slot' = slot /\ member' = member /\ slot[c] \in 0 .. Capacity - 1
    BY DEF Local, TypeInv, Types, Places
  <2>2. Place(c)'
    <3>1. CASE Begins(c)
      BY <2>1, <3>1 DEF Begins, Place, HasNoLeaf, Leaves
    <3>2. CASE Renders(c) \/ Answered(c)
      BY <2>1, <3>2 DEF Renders, Answered, Place, HasNoLeaf
    <3>3. CASE Closes(c)
      BY <2>1, <3>3 DEF Closes, Place, HasNoLeaf
    <3>4. CASE Ends(c)
      BY <2>1, <3>4, Constants DEF Ends, Place, HasNoLeaf, Running, Leaves
    <3> QED
      BY <3>1, <3>2, <3>3, <3>4 DEF Moves
  <2>3. ASSUME NEW d \in Conns \ {c} PROVE Place(d)'
    <3>1. pc'[d] = pc[d] /\ Place(d)
      BY DEF Local, TypeInv, Places
    <3> QED
      BY <2>1, <3>1 DEF Place, HasNoLeaf
  <2> QED
    BY <2>2, <2>3 DEF Places
<1> QED
  BY <1>4, <1>3, <1>5, <1>6 DEF TypeInv

\* A join takes the mutex and a leaf (handle_join_request).
LEMMA ProposeAddTypes ==
  ASSUME TypeInv, NEW c \in Conns, ProposeAdd(c)
  PROVE  TypeInv'
<1> DEFINE b == FirstBlank
<1>1. /\ pc[c] = "in" /\ slot[c] = 0 /\ holder = NoOne
      /\ epoch' = epoch + 1 /\ seq' = 0 /\ holder' = c
      /\ pc' = [pc EXCEPT ![c] = "adding"]
      /\ UNCHANGED <<slot, welcome, plain, hand, stream, client, rendered, overtaken>>
  BY DEF ProposeAdd, Commit, Goto, own, wire, GroupFree
<1>2. b \in Leaves /\ member[b] = NoOne /\ member' = [member EXCEPT ![b] = c]
  BY FirstBlankIs DEF ProposeAdd
<1> HIDE DEF b
<1>3. Types'
  <2>1. epoch \in Nat /\ epoch' \in Nat /\ 0 .. epoch \subseteq 0 .. epoch'
    BY <1>1, EpochGrows DEF TypeInv, Types
  <2>2. PlainOK(plain)' /\ \A d \in Conns : StreamOK(stream[d])'
    BY <1>1, EpochGrows DEF TypeInv, Types
  <2>3. pc' \in [Conns -> Stages]
    BY <1>1 DEF TypeInv, Types, Stages, Running
  <2>4. member' \in [Leaves -> Conns \cup {NoOne}]
    BY <1>2 DEF TypeInv, Types
  <2>5. client' \in [Conns -> Browser(epoch')] /\ welcome' \in [Conns -> 0 .. epoch']
    BY <1>1, <2>1, Browsers DEF TypeInv, Types, Browser
  <2>6. holder' \in {d \in Conns : pc'[d] \in {"adding", "removing"}} \cup {NoOne}
    BY <1>1, <2>3 DEF TypeInv, Types
  <2> QED
    BY <1>1, <2>1, <2>2, <2>3, <2>4, <2>5, <2>6 DEF TypeInv, Types, Browser, Stages
<1>4. Locks'
  BY <1>1, Constants DEF TypeInv, Types, Locks
<1>5. Unconnected'
  BY <1>1 DEF TypeInv, Types, Unconnected, Quiet, Running
<1>6. Places'
  <2>1. ASSUME NEW d \in Conns \ {c} PROVE Place(d)'
    <3>1. pc'[d] = pc[d] /\ slot'[d] = slot[d] /\ Place(d)
      BY <1>1 DEF TypeInv, Types, Places
    <3>2. \A l \in Leaves : member'[l] = d <=> member[l] = d
      BY <1>2, Constants DEF TypeInv, Types
    <3> QED
      BY <3>1, <3>2 DEF Place, HasNoLeaf
  <2>2. HasNoLeaf(c)
    BY <1>1 DEF TypeInv, Places, Place, HasNoLeaf, Leaves
  <2>3. \A l \in Leaves : member'[l] = c <=> l = b
    BY <1>2, <2>2 DEF HasNoLeaf, TypeInv, Types
  <2>4. Place(c)'
    BY <1>1, <1>2, <2>3 DEF Place, TypeInv, Types
  <2> QED
    BY <2>1, <2>4 DEF Places
<1> QED
  BY <1>3, <1>4, <1>5, <1>6 DEF TypeInv

\* It publishes its commit and lets the mutex go.
LEMMA PublishAddTypes ==
  ASSUME TypeInv, NEW c \in Conns, PublishAdd(c)
  PROVE  TypeInv'
<1> DEFINE k == CHOOSE l \in Leaves : member[l] = c
<1>1. /\ pc[c] = "adding" /\ holder' = NoOne /\ holder = c
      /\ pc' = [pc EXCEPT ![c] = "owed"]
      /\ slot' = [slot EXCEPT ![c] = k]
      /\ welcome' = [welcome EXCEPT ![c] = epoch]
      /\ UNCHANGED <<member, epoch, seq, hand, stream, client, rendered, overtaken>>
  BY DEF PublishAdd, Goto, TypeInv, Locks
<1>2. k \in Leaves /\ \A l \in Leaves : member[l] = c <=> l = k
  <2>1. PICK x \in Leaves : \A l \in Leaves : member[l] = c <=> l = x
    BY <1>1 DEF TypeInv, Places, Place
  <2>2. k = x
    BY <2>1
  <2> QED
    BY <2>1, <2>2
<1> HIDE DEF k
<1>3. epoch \in Nat \ {0} /\ PlainOK(plain)'
  <2>1. epoch \in Nat /\ epoch > 0
    BY <1>1, Constants DEF TypeInv, Types, Locks
  <2>2. NovaCommit(epoch) \in Frames /\ IsCommit(NovaCommit(epoch))
    BY <2>1, FrameKinds DEF IsCommit
  <2> QED
    BY <1>1, <2>1, <2>2, PublishTypes DEF PublishAdd
<1>4. Types'
  <2>1. \A d \in Conns : StreamOK(stream[d])'
    BY <1>1, EpochGrows DEF TypeInv, Types
  <2>2. pc' \in [Conns -> Stages] /\ slot' \in [Conns -> 0 .. Capacity - 1]
    BY <1>1, <1>2, Constants DEF TypeInv, Types, Stages, Running, Leaves
  <2>3. welcome' \in [Conns -> 0 .. epoch]
    BY <1>1, <1>3 DEF TypeInv, Types
  <2> QED
    BY <1>1, <1>3, <2>1, <2>2, <2>3 DEF TypeInv, Types, Stages
<1>5. Locks'
  BY <1>1, Constants DEF TypeInv, Types, Locks
<1>6. Unconnected'
  BY <1>1 DEF TypeInv, Types, Unconnected, Quiet, Running
<1>7. Places'
  <2>1. ASSUME NEW d \in Conns \ {c} PROVE Place(d)'
    <3>1. pc'[d] = pc[d] /\ slot'[d] = slot[d] /\ Place(d)
      BY <1>1 DEF TypeInv, Types, Places
    <3> QED
      BY <1>1, <3>1 DEF Place, HasNoLeaf
  <2>2. Place(c)'
    BY <1>1, <1>2 DEF Place, Leaves, TypeInv, Types
  <2> QED
    BY <2>1, <2>2 DEF Places
<1> QED
  BY <1>4, <1>5, <1>6, <1>7 DEF TypeInv

\* A departure takes the mutex, and its leaf is blank again (remove_member).
LEMMA ProposeRemoveTypes ==
  ASSUME TypeInv, NEW c \in Conns, ProposeRemove(c)
  PROVE  TypeInv'
<1>1. /\ pc[c] = "leaving" /\ holder = NoOne
      /\ epoch' = epoch + 1 /\ seq' = 0 /\ holder' = c
      /\ pc' = [pc EXCEPT ![c] = "removing"]
      /\ member' = [member EXCEPT ![slot[c]] = NoOne]
      /\ UNCHANGED <<slot, welcome, plain, hand, stream, client, rendered, overtaken>>
  BY DEF ProposeRemove, Commit, Goto, own, wire, GroupFree
<1>2. slot[c] \in Leaves /\ \A l \in Leaves : member[l] = c <=> l = slot[c]
  BY <1>1, Constants DEF TypeInv, Types, Places, Place, Leaves
<1>3. Types'
  <2>1. epoch \in Nat /\ epoch' \in Nat /\ 0 .. epoch \subseteq 0 .. epoch'
    BY <1>1, EpochGrows DEF TypeInv, Types
  <2>2. PlainOK(plain)' /\ \A d \in Conns : StreamOK(stream[d])'
    BY <1>1, EpochGrows DEF TypeInv, Types
  <2>3. pc' \in [Conns -> Stages]
    BY <1>1 DEF TypeInv, Types, Stages, Running
  <2>4. member' \in [Leaves -> Conns \cup {NoOne}]
    BY <1>1 DEF TypeInv, Types
  <2>5. client' \in [Conns -> Browser(epoch')] /\ welcome' \in [Conns -> 0 .. epoch']
    BY <1>1, <2>1, Browsers DEF TypeInv, Types, Browser
  <2>6. holder' \in {d \in Conns : pc'[d] \in {"adding", "removing"}} \cup {NoOne}
    BY <1>1, <2>3 DEF TypeInv, Types
  <2> QED
    BY <1>1, <2>1, <2>2, <2>3, <2>4, <2>5, <2>6 DEF TypeInv, Types, Browser, Stages
<1>4. Locks'
  BY <1>1, Constants DEF TypeInv, Types, Locks
<1>5. Unconnected'
  BY <1>1 DEF TypeInv, Types, Unconnected, Quiet, Running
<1>6. Places'
  <2>1. ASSUME NEW d \in Conns \ {c} PROVE Place(d)'
    <3>1. pc'[d] = pc[d] /\ slot'[d] = slot[d] /\ Place(d)
      BY <1>1 DEF TypeInv, Types, Places
    <3>2. \A l \in Leaves : member'[l] = d <=> member[l] = d
      BY <1>1, <1>2, Constants DEF TypeInv, Types
    <3> QED
      BY <3>1, <3>2 DEF Place, HasNoLeaf
  <2>2. \A l \in Leaves : member'[l] # c
    BY <1>1, <1>2, Constants DEF TypeInv, Types
  <2>3. Place(c)'
    BY <1>1, <1>2, <2>2, Constants DEF Place, HasNoLeaf, TypeInv, Types, Leaves
  <2> QED
    BY <2>1, <2>3 DEF Places
<1> QED
  BY <1>3, <1>4, <1>5, <1>6 DEF TypeInv

\* It publishes its commit and lets the mutex go.
LEMMA PublishRemoveTypes ==
  ASSUME TypeInv, NEW c \in Conns, PublishRemove(c)
  PROVE  TypeInv'
<1>1. /\ pc[c] = "removing" /\ holder' = NoOne /\ holder = c
      /\ pc' = [pc EXCEPT ![c] = "closing"]
      /\ UNCHANGED <<member, epoch, seq, slot, welcome, hand, stream, client, rendered, overtaken>>
  BY DEF PublishRemove, Goto, own, TypeInv, Locks
<1>2. epoch \in Nat \ {0} /\ PlainOK(plain)'
  <2>1. epoch \in Nat /\ epoch > 0
    BY <1>1, Constants DEF TypeInv, Types, Locks
  <2>2. NovaCommit(epoch) \in Frames /\ IsCommit(NovaCommit(epoch))
    BY <2>1, FrameKinds DEF IsCommit
  <2> QED
    BY <1>1, <2>1, <2>2, PublishTypes DEF PublishRemove
<1>3. Types'
  <2>1. \A d \in Conns : StreamOK(stream[d])'
    BY <1>1, EpochGrows DEF TypeInv, Types
  <2>2. pc' \in [Conns -> Stages]
    BY <1>1 DEF TypeInv, Types, Stages
  <2> QED
    BY <1>1, <1>2, <2>1, <2>2 DEF TypeInv, Types, Stages
<1>4. Locks'
  BY <1>1, Constants DEF TypeInv, Types, Locks
<1>5. Unconnected'
  BY <1>1 DEF TypeInv, Types, Unconnected, Quiet, Running
<1>6. Places'
  <2>1. ASSUME NEW d \in Conns \ {c} PROVE Place(d)'
    <3>1. pc'[d] = pc[d] /\ slot'[d] = slot[d] /\ Place(d)
      BY <1>1 DEF TypeInv, Types, Places
    <3> QED
      BY <1>1, <3>1 DEF Place, HasNoLeaf
  <2>2. Place(c)'
    BY <1>1 DEF Place, HasNoLeaf, TypeInv, Types, Places
  <2> QED
    BY <2>1, <2>2 DEF Places
<1> QED
  BY <1>3, <1>4, <1>5, <1>6 DEF TypeInv

\* What a browser makes of a frame.
LEMMA AcceptIs ==
  ASSUME NEW b, NEW f
  PROVE  IF f.kind = "commit" /\ Fits(b, f) THEN Accept(b, f) = Joined(f.epoch, 0)
         ELSE IF f.kind = "sealed" /\ Opens(b, f)
         THEN Accept(b, f) = Joined(b.epoch, b.next + 1) ELSE Accept(b, f) = b
<1>1. CASE f.kind = "commit" /\ Fits(b, f)
  BY <1>1 DEF Accept
<1>2. CASE f.kind = "sealed" /\ Opens(b, f)
  BY <1>2 DEF Accept
<1>3. CASE ~(f.kind = "commit" /\ Fits(b, f)) /\ ~(f.kind = "sealed" /\ Opens(b, f))
  BY <1>3 DEF Accept
<1> QED
  BY <1>1, <1>2, <1>3

\* A browser accepts a frame or not.
LEMMA ForwardTypes ==
  ASSUME TypeInv, NEW c \in Conns, Forward(c)
  PROVE  TypeInv'
<1>1. /\ pc[c] \in Running /\ stream[c] # <<>>
      /\ client' = [client EXCEPT ![c] = Accept(client[c], Head(stream[c]))]
      /\ stream' = [stream EXCEPT ![c] = Tail(stream[c])]
      /\ UNCHANGED <<pc, member, epoch, seq, holder, slot, welcome, plain, hand, rendered,
                     overtaken>>
  BY DEF Forward, group, own
<1>2. StreamOK(Tail(stream[c])) /\ (IsCommit(Head(stream[c])) \/ IsSealed(Head(stream[c])))
  BY <1>1, StreamTail DEF TypeInv, Types
<1>3. Accept(client[c], Head(stream[c])) \in Browser(epoch)
  <2>1. client[c] \in Browser(epoch) /\ epoch \in Nat
    BY DEF TypeInv, Types, Browser
  <2>2. client[c].next + 1 \in Nat /\ client[c].epoch \in 0 .. epoch
    BY <2>1, Browsers
  <2> DEFINE f == Head(stream[c])
             b == client[c]
  <2>3. CASE f.kind = "commit" /\ Fits(b, f)
    <3>1. f.epoch \in 0 .. epoch
      BY <1>2, <2>1, <2>3 DEF IsCommit, IsSealed
    <3>2. Accept(b, f) = Joined(f.epoch, 0)
      BY <2>3, AcceptIs
    <3> QED
      BY <2>1, <3>1, <3>2, Browsers
  <2>4. CASE f.kind = "sealed" /\ Opens(b, f)
    <3>1. Accept(b, f) = Joined(b.epoch, b.next + 1)
      BY <2>4, AcceptIs
    <3> QED
      BY <2>1, <2>2, <3>1, Browsers
  <2>5. CASE ~(f.kind = "commit" /\ Fits(b, f)) /\ ~(f.kind = "sealed" /\ Opens(b, f))
    <3>1. Accept(b, f) = b
      BY <2>5, AcceptIs
    <3> QED
      BY <2>1, <3>1
  <2> QED
    BY <2>3, <2>4, <2>5
<1>4. Types'
  <2>1. \A d \in Conns : StreamOK(stream'[d])
    BY <1>1, <1>2 DEF TypeInv, Types
  <2>2. \A d \in Conns : StreamOK(stream[d])'
    BY <1>1, <2>1, EpochGrows DEF TypeInv, Types
  <2>3. PlainOK(plain)'
    BY <1>1, EpochGrows DEF TypeInv, Types
  <2>4. stream' \in [Conns -> Seq(Frames)]
    BY <1>1, <1>2 DEF TypeInv, Types, StreamOK
  <2>5. client' \in [Conns -> Browser(epoch)]
    BY <1>1, <1>3 DEF TypeInv, Types, Browser
  <2> QED
    BY <1>1, <2>2, <2>3, <2>4, <2>5 DEF TypeInv, Types, Browser
<1>5. Locks' /\ Places'
  BY <1>1 DEF TypeInv, Locks, Places, Place, HasNoLeaf
<1>6. Unconnected'
  BY <1>1 DEF TypeInv, Types, Unconnected, Quiet
<1> QED
  BY <1>4, <1>5, <1>6 DEF TypeInv

\* The seal loop touches queues only.
LEMMA LoopTypes ==
  ASSUME TypeInv, Relay \/ Seal
  PROVE  TypeInv'
<1>1. /\ UNCHANGED <<pc, member, epoch, holder, slot, welcome, client, rendered>>
      /\ seq' \in Nat /\ hand' \in {<<>>, <<App>>}
      /\ overtaken' \subseteq 0 .. epoch
  <2>1. UNCHANGED <<pc, member, epoch, holder, slot, welcome, client, rendered>>
        /\ seq' \in Nat /\ hand' \in {<<>>, <<App>>}
    BY DEF Relay, Seal, group, own, TypeInv, Types
  <2>2. overtaken' \subseteq overtaken \cup {epoch}
    BY DEF Relay, Seal
  <2>3. overtaken \subseteq 0 .. epoch /\ epoch \in 0 .. epoch
    BY DEF TypeInv, Types
  <2> QED
    BY <2>1, <2>2, <2>3
<1>2. PlainOK(plain)'
  <2>1. PlainOK(plain')
    BY PlainTail DEF Relay, Seal, TypeInv, Types
  <2> QED
    BY <1>1, <2>1, EpochGrows DEF TypeInv, Types
<1>3. /\ stream' \in [Conns -> Seq(Frames)]
      /\ \A c \in Conns : StreamOK(stream[c])'
      /\ \A c \in Conns : pc[c] \notin Running => stream'[c] = stream[c]
  <2>1. CASE stream' = stream
    BY <1>1, <2>1, EpochGrows DEF TypeInv, Types
  <2>2. CASE Relay /\ Head(plain) # App /\ Broadcast(Head(plain))
    <3>1. Head(plain) \in Frames /\ IsCommit(Head(plain))
      BY <2>2, PlainTail DEF Relay, TypeInv, Types
    <3> QED
      BY <1>1, <2>2, <3>1, BroadcastTypes
  <2>3. CASE Seal
    <3>1. epoch \in Nat /\ seq \in Nat
      BY DEF TypeInv, Types
    <3>2. GroupSealed(epoch, seq) \in Frames /\ IsSealed(GroupSealed(epoch, seq))
      BY <3>1, FrameKinds DEF IsSealed
    <3> QED
      BY <1>1, <2>3, <3>2, BroadcastTypes DEF Seal
  <2> QED
    BY <2>1, <2>2, <2>3 DEF Relay
<1>4. Types'
  BY <1>1, <1>2, <1>3 DEF TypeInv, Types
<1>5. Locks' /\ Places'
  BY <1>1 DEF TypeInv, Locks, Places, Place, HasNoLeaf
<1>6. Unconnected'
  BY <1>1, <1>3 DEF TypeInv, Unconnected, Quiet
<1> QED
  BY <1>4, <1>5, <1>6 DEF TypeInv

\* Every step keeps the types, the locks, the leaves and the quiet.
LEMMA TypeStep ==
  ASSUME TypeInv, [Next]_vars
  PROVE  TypeInv'
<1>1. CASE UNCHANGED vars
  BY <1>1 DEF vars, TypeInv, Types, Locks, Places, Place, HasNoLeaf, Unconnected, Quiet,
              PlainOK, StreamOK, IsCommit, IsSealed
<1>2. CASE Relay \/ Seal
  BY <1>2, LoopTypes
<1>3. ASSUME NEW c \in Conns, Session(c) PROVE TypeInv'
  <2>1. CASE \/ Connect(c) \/ StartRender(c) \/ FinishRender(c)
             \/ EndSession(c) \/ CleanupUser(c) \/ SendWelcome(c)
    BY <2>1, SessionMoves, SessionTypes
  <2> QED
    BY <1>3, <2>1, ProposeAddTypes, PublishAddTypes, ProposeRemoveTypes,
       PublishRemoveTypes, ForwardTypes DEF Session
<1> QED
  BY <1>1, <1>2, <1>3 DEF Next

\* The types, the locks, the leaves and the quiet, of every reachable state.
THEOREM TypeInvariant == Spec => []TypeInv
<1>1. Init => TypeInv
  BY TypeInit
<1>2. TypeInv /\ [Next]_vars => TypeInv'
  BY TypeStep
<1> QED
  BY <1>1, <1>2, PTL DEF Spec

\* Types; a frame never carries an epoch the group has not reached, whether or
\* not a join may be abandoned at its wait.
THEOREM TypeCorrect == Spec => []TypeOK
<1>1. TypeInv => TypeOK
  BY DEF TypeInv, Types, TypeOK, PlainOK, StreamOK
<1> QED
  BY <1>1, TypeInvariant, PTL

\* A leaf belongs to one connection, which has not been torn down, if no join is
\* abandoned at its wait (session/nova.rs, handle_join_request, remove_member).
THEOREM NoDeadLeaf ==
  ASSUME Cancels = FALSE
  PROVE  Spec => []LeavesAreLive
<1>1. TypeInv => LeavesAreLive
  <2> SUFFICES ASSUME TypeInv PROVE LeavesAreLive
    OBVIOUS
  <2>1. ASSUME NEW l \in Leaves, member[l] # NoOne
        PROVE  pc[member[l]] \in {"in", "rendering", "adding", "owed", "leaving"}
    <3>1. member[l] \in Conns /\ Place(member[l]) /\ pc[member[l]] \in Stages
      BY <2>1 DEF TypeInv, Types, Places, Stages
    <3> QED
      BY <3>1 DEF Place, HasNoLeaf, Stages, Running
  <2>2. ASSUME NEW c \in Conns, pc[c] \in Running, slot[c] # 0
        PROVE  member[slot[c]] = c
    <3>1. Place(c) /\ slot[c] \in Leaves
      BY <2>2, Constants DEF TypeInv, Types, Places, Leaves
    <3> QED
      BY <2>2, <3>1 DEF Place, Running
  <2> QED
    BY <2>1, <2>2 DEF LeavesAreLive
<1> QED
  BY <1>1, TypeInvariant, PTL

----------------------------------------------------------------------------
(* The order of commits *)

\* Every commit of s is before those of t.
Before(s, t) == \A x \in CommitEpochs(s), y \in CommitEpochs(t) : x < y

\* The epoch of a frame, if it is a commit.
EpochOf(f) == IF f.kind = "commit" THEN {f.epoch} ELSE {}

\* The epochs of the commits in a queue.
LEMMA CommitsOf ==
  ASSUME NEW s
  PROVE  \A x : x \in CommitEpochs(s) <=>
           \E i \in DOMAIN s : s[i].kind = "commit" /\ s[i].epoch = x
  BY DEF CommitEpochs

\* A commit later than all others may be appended.
LEMMA CommitsAppend ==
  ASSUME NEW s \in Seq(Frames), NEW f \in Frames
  PROVE  /\ CommitEpochs(Append(s, f)) = CommitEpochs(s) \cup EpochOf(f)
         /\ CommitsAscend(s) /\ (\A x \in CommitEpochs(s), y \in EpochOf(f) : x < y)
              => CommitsAscend(Append(s, f))
<1> DEFINE m == Len(s) + 1
<1>1. PICK r : r = Append(s, f)
  OBVIOUS
<1>2. /\ Len(s) \in Nat /\ m \in Nat
      /\ DOMAIN s = 1 .. Len(s) /\ DOMAIN r = 1 .. m
      /\ r[m] = f /\ \A i \in DOMAIN s : r[i] = s[i]
  BY <1>1, AppendAt
<1>3. /\ DOMAIN r = DOMAIN s \cup {m}
      /\ \A i \in DOMAIN s : i \in Nat /\ ~(m < i)
      /\ m \notin DOMAIN s /\ ~(m < m)
  BY <1>2
<1> HIDE DEF m
<1>4. CommitEpochs(r) = CommitEpochs(s) \cup EpochOf(f)
  BY <1>2, <1>3, CommitsOf DEF EpochOf
<1>5. ASSUME CommitsAscend(s), \A x \in CommitEpochs(s), y \in EpochOf(f) : x < y
      PROVE  CommitsAscend(r)
  <2> SUFFICES ASSUME NEW i \in DOMAIN r, NEW j \in DOMAIN r, i < j,
                      r[i].kind = "commit", r[j].kind = "commit"
               PROVE  r[i].epoch < r[j].epoch
    BY DEF CommitsAscend
  <2>1. i \in DOMAIN s /\ r[i] = s[i]
    BY <1>2, <1>3
  <2>2. CASE j \in DOMAIN s
    BY <1>2, <1>5, <2>1, <2>2 DEF CommitsAscend
  <2>3. CASE j = m
    <3>1. s[i].epoch \in CommitEpochs(s) /\ f.epoch \in EpochOf(f) /\ r[j] = f
      BY <1>2, <2>1, <2>3, CommitsOf DEF EpochOf
    <3> QED
      BY <1>5, <2>1, <3>1
  <2> QED
    BY <1>3, <2>2, <2>3
<1> QED
  BY <1>1, <1>4, <1>5

\* The first commit of a queue is earlier than all others.
LEMMA CommitsTail ==
  ASSUME NEW s \in Seq(Frames), s # <<>>
  PROVE  /\ CommitEpochs(s) = EpochOf(Head(s)) \cup CommitEpochs(Tail(s))
         /\ CommitsAscend(s) => /\ CommitsAscend(Tail(s))
                                /\ \A x \in EpochOf(Head(s)), y \in CommitEpochs(Tail(s)) : x < y
<1>1. PICK r : r = Tail(s)
  OBVIOUS
<1>2. /\ Len(s) \in Nat \ {0}
      /\ DOMAIN s = 1 .. Len(s) /\ DOMAIN r = 1 .. Len(s) - 1
      /\ Head(s) = s[1]
      /\ \A i \in DOMAIN r : r[i] = s[i + 1]
  BY <1>1, TailAt
<1>3. 1 \in DOMAIN s /\ \A i \in DOMAIN r : i + 1 \in DOMAIN s /\ 1 < i + 1
  BY <1>2
<1>4. \A i \in DOMAIN s : i = 1 \/ \E k \in DOMAIN r : i = k + 1
  <2>1. ASSUME NEW i \in DOMAIN s, i # 1 PROVE i - 1 \in DOMAIN r /\ i = (i - 1) + 1
    BY <1>2, <2>1
  <2> QED
    BY <2>1
<1>5. CommitEpochs(s) = EpochOf(s[1]) \cup CommitEpochs(r)
  <2>1. ASSUME NEW x \in CommitEpochs(s) PROVE x \in EpochOf(s[1]) \cup CommitEpochs(r)
    <3>1. PICK i \in DOMAIN s : s[i].kind = "commit" /\ s[i].epoch = x
      BY <2>1, CommitsOf
    <3>2. CASE i = 1
      BY <3>1, <3>2 DEF EpochOf
    <3>3. CASE i # 1
      <4>1. PICK k \in DOMAIN r : i = k + 1
        BY <1>4, <3>3
      <4>2. r[k] = s[i]
        BY <1>2, <4>1
      <4> QED
        BY <3>1, <4>2, CommitsOf
    <3> QED
      BY <3>2, <3>3
  <2>2. ASSUME NEW x \in EpochOf(s[1]) PROVE x \in CommitEpochs(s)
    BY <1>3, <2>2, CommitsOf DEF EpochOf
  <2>3. ASSUME NEW x \in CommitEpochs(r) PROVE x \in CommitEpochs(s)
    BY <1>2, <1>3, <2>3, CommitsOf
  <2> QED
    BY <2>1, <2>2, <2>3
<1>6. ASSUME CommitsAscend(s) PROVE CommitsAscend(r)
  <2> SUFFICES ASSUME NEW i \in DOMAIN r, NEW j \in DOMAIN r, i < j,
                      r[i].kind = "commit", r[j].kind = "commit"
               PROVE  r[i].epoch < r[j].epoch
    BY DEF CommitsAscend
  <2>1. i + 1 < j + 1
    BY <1>2
  <2> QED
    BY <1>2, <1>3, <1>6, <2>1 DEF CommitsAscend
<1>7. ASSUME CommitsAscend(s), NEW x \in EpochOf(s[1]), NEW y \in CommitEpochs(r)
      PROVE  x < y
  <2>1. PICK i \in DOMAIN r : r[i].kind = "commit" /\ r[i].epoch = y
    BY <1>7, CommitsOf
  <2>2. s[1].kind = "commit" /\ s[1].epoch = x
    BY <1>7 DEF EpochOf
  <2> QED
    BY <1>2, <1>3, <1>7, <2>1, <2>2 DEF CommitsAscend
<1> QED
  BY <1>1, <1>2, <1>5, <1>6, <1>7

\* One queue after another.
LEMMA CommitsJoin ==
  ASSUME NEW s \in Seq(Frames), NEW t \in Seq(Frames)
  PROVE  /\ CommitEpochs(s \o t) = CommitEpochs(s) \cup CommitEpochs(t)
         /\ CommitsAscend(s) /\ CommitsAscend(t) /\ Before(s, t) => CommitsAscend(s \o t)
<1>1. PICK r : r = s \o t
  OBVIOUS
<1>2. /\ Len(s) \in Nat /\ Len(t) \in Nat
      /\ DOMAIN s = 1 .. Len(s) /\ DOMAIN t = 1 .. Len(t)
      /\ DOMAIN r = 1 .. Len(s) + Len(t)
      /\ \A i \in DOMAIN r : r[i] = IF i <= Len(s) THEN s[i] ELSE t[i - Len(s)]
  BY <1>1
<1>3. \A i \in DOMAIN s : i \in DOMAIN r /\ r[i] = s[i]
  BY <1>2
<1>4. \A i \in DOMAIN t : i + Len(s) \in DOMAIN r /\ r[i + Len(s)] = t[i]
  BY <1>2
<1>5. \A i \in DOMAIN r : i \in DOMAIN s \/ \E k \in DOMAIN t : i = k + Len(s)
  <2>1. ASSUME NEW i \in DOMAIN r, i \notin DOMAIN s
        PROVE  i - Len(s) \in DOMAIN t /\ i = (i - Len(s)) + Len(s)
    BY <1>2, <2>1
  <2> QED
    BY <2>1
<1>6. CommitEpochs(r) = CommitEpochs(s) \cup CommitEpochs(t)
  BY <1>3, <1>4, <1>5, CommitsOf
<1>7. ASSUME CommitsAscend(s), CommitsAscend(t), Before(s, t) PROVE CommitsAscend(r)
  <2> SUFFICES ASSUME NEW i \in DOMAIN r, NEW j \in DOMAIN r, i < j,
                      r[i].kind = "commit", r[j].kind = "commit"
               PROVE  r[i].epoch < r[j].epoch
    BY DEF CommitsAscend
  <2>1. CASE i \in DOMAIN s /\ j \in DOMAIN s
    BY <1>3, <1>7, <2>1 DEF CommitsAscend
  <2>2. CASE i \in DOMAIN s /\ j \notin DOMAIN s
    <3>1. PICK k \in DOMAIN t : j = k + Len(s)
      BY <1>5, <2>2
    <3>2. r[i].epoch \in CommitEpochs(s) /\ r[j].epoch \in CommitEpochs(t)
      BY <1>3, <1>4, <2>2, <3>1, CommitsOf
    <3> QED
      BY <1>7, <3>2 DEF Before
  <2>3. CASE i \notin DOMAIN s
    <3>1. PICK h \in DOMAIN t : i = h + Len(s)
      BY <1>5, <2>3
    <3>2. j \notin DOMAIN s
      BY <1>2, <2>3
    <3>3. PICK k \in DOMAIN t : j = k + Len(s)
      BY <1>5, <3>2
    <3>4. h < k
      BY <1>2, <3>1, <3>3
    <3> QED
      BY <1>4, <1>7, <3>1, <3>3, <3>4 DEF CommitsAscend
  <2> QED
    BY <2>1, <2>2, <2>3
<1> QED
  BY <1>1, <1>6, <1>7

\* No frames, no commits.
LEMMA CommitsNone == CommitEpochs(<<>>) = {} /\ CommitsAscend(<<>>)
  BY DEF CommitEpochs, CommitsAscend

\* No commit is later than the group's epoch.
LEMMA CommitsTyped ==
  ASSUME TypeInv
  PROVE  /\ epoch \in Nat /\ Published \in Int /\ Published <= epoch
         /\ plain \in Seq(Frames) /\ CommitEpochs(plain) \subseteq 1 .. epoch
         /\ \A c \in Conns : /\ stream[c] \in Seq(Frames)
                             /\ CommitEpochs(stream[c]) \subseteq 1 .. epoch
                             /\ client[c].epoch \in Nat /\ welcome[c] \in Nat
<1>1. epoch \in Nat /\ Published \in Int /\ Published <= epoch
  BY DEF TypeInv, Types, Published
<1>2. ASSUME NEW s, PlainOK(s) \/ StreamOK(s)
      PROVE  s \in Seq(Frames) /\ CommitEpochs(s) \subseteq 1 .. epoch
  <2>1. s \in Seq(Frames)
        /\ \A i \in DOMAIN s : s[i].kind = "commit" => IsCommit(s[i])
    BY <1>2 DEF PlainOK, StreamOK, App, IsCommit, IsSealed
  <2>2. \A i \in DOMAIN s : s[i].kind = "commit" => s[i].epoch \in 1 .. epoch
    BY <2>1 DEF IsCommit
  <2> QED
    BY <2>1, <2>2, CommitsOf
<1>3. PlainOK(plain) /\ \A c \in Conns : StreamOK(stream[c])
  BY DEF TypeInv, Types
<1>4. ASSUME NEW c \in Conns PROVE client[c].epoch \in Nat /\ welcome[c] \in Nat
  BY <1>1 DEF TypeInv, Types
<1> QED
  BY <1>1, <1>2, <1>3, <1>4

\* Of the commits up to n, those from e on are in S.
Due(e, n, S) == e - 1 <= n /\ e .. n \subseteq S

WayOK(c) ==
    LET coming == CommitEpochs(stream[c]) \cup CommitEpochs(plain)
    IN  /\ CommitsAscend(stream[c]) /\ Before(stream[c], plain)
        /\ \A e \in CommitEpochs(stream[c]) : e <= Published /\ Due(e, Published, coming)
        /\ client[c].joined => Due(client[c].epoch + 1, Published, coming)
        /\ pc[c] = "owed" => Due(welcome[c] + 1, Published, coming)
PlainCommits ==
    /\ CommitsAscend(plain)
    /\ \A e \in CommitEpochs(plain) : e <= Published /\ Due(e, Published, CommitEpochs(plain))

\* The commits in flight are in order and complete up to what is published, for
\* the browsers that have joined and for those owed a welcome.
CommitInv == PlainCommits /\ \A c \in Subscribed : WayOK(c)

\* A frame is published that is no commit.
LEMMA PublishApp ==
  ASSUME TypeInv, CommitInv, plain' \in {plain, Append(plain, App)}
  PROVE  CommitEpochs(plain)' = CommitEpochs(plain) /\ CommitsAscend(plain)'
<1>1. plain \in Seq(Frames) /\ App \in Frames /\ EpochOf(App) = {}
  BY CommitsTyped, FrameKinds DEF EpochOf
<1>2. CommitsAscend(plain)
  BY DEF CommitInv, PlainCommits
<1>3. CommitEpochs(Append(plain, App)) = CommitEpochs(plain) /\ CommitsAscend(Append(plain, App))
  BY <1>1, <1>2, CommitsAppend
<1> QED
  BY <1>2, <1>3

\* What a session does for itself moves no commit.
LEMMA LocalCommits ==
  ASSUME TypeInv, CommitInv, NEW c \in Conns, Local(c), Moves(c), ~Cancels
  PROVE  CommitInv'
<1>1. CommitEpochs(plain)' = CommitEpochs(plain) /\ CommitsAscend(plain)'
  BY PublishApp DEF Local
<1>2. Published' = Published
  <2>1. holder' = holder
    <3>1. CASE Ends(c)
      <4>1. holder # c
        BY <3>1 DEF Ends, TypeInv, Locks, Running
      <4> QED
        BY <3>1, <4>1 DEF Ends
    <3> QED
      BY <3>1 DEF Moves, Begins, Renders, Closes, Answered
  <2> QED
    BY <2>1 DEF Local, Published, GroupFree
<1>3. PlainCommits'
  BY <1>1, <1>2 DEF CommitInv, PlainCommits, Due
<1>4. ASSUME NEW d \in Conns \ {c}, pc'[d] \in Running PROVE WayOK(d)'
  <2>1. UNCHANGED <<pc[d], stream[d], client[d], welcome[d]>>
    BY DEF Local
  <2>2. WayOK(d)
    BY <1>4, <2>1 DEF CommitInv, Subscribed
  <2> QED
    BY <1>1, <1>2, <2>1, <2>2 DEF WayOK, Due, Before
<1>5. ASSUME pc'[c] \in Running PROVE WayOK(c)'
  <2>1. CASE Begins(c)
    <3>1. stream'[c] = <<>> /\ ~client'[c].joined /\ pc'[c] = "in"
      BY <2>1 DEF Begins, TypeInv, Unconnected, Quiet, Running
    <3> QED
      BY <3>1, CommitsNone DEF WayOK, Before
  <2>2. CASE Renders(c)
    <3>1. WayOK(c) /\ UNCHANGED <<stream, client>> /\ pc'[c] # "owed"
      BY <2>2 DEF Renders, CommitInv, Subscribed, Running
    <3> QED
      BY <1>1, <1>2, <3>1 DEF WayOK, Due, Before
  <2>3. CASE Answered(c)
    <3>1. /\ WayOK(c) /\ UNCHANGED stream /\ pc[c] = "owed" /\ pc'[c] # "owed"
          /\ client'[c] = Joined(welcome[c], 0)
      BY <2>3 DEF Answered, CommitInv, Subscribed, Running
    <3>2. client'[c].epoch = welcome[c]
      BY <3>1 DEF Joined
    <3> QED
      BY <1>1, <1>2, <3>1, <3>2 DEF WayOK, Due, Before
  <2> QED
    BY <1>5, <2>1, <2>2, <2>3 DEF Moves, Closes, Ends, Running
<1> QED
  BY <1>3, <1>4, <1>5 DEF CommitInv, Subscribed

\* A commit that is made is not published yet.
LEMMA ProposeCommits ==
  ASSUME TypeInv, CommitInv, NEW c \in Conns, ProposeAdd(c) \/ ProposeRemove(c)
  PROVE  CommitInv'
<1>1. /\ UNCHANGED <<plain, stream, client, welcome>>
      /\ holder = NoOne /\ epoch' = epoch + 1 /\ holder' = c
  BY DEF ProposeAdd, ProposeRemove, Commit, own, wire, GroupFree
<1>2. Published' = Published
  BY <1>1, Constants, CommitsTyped DEF Published, GroupFree
<1>3. \A d \in Conns : /\ pc'[d] \in Running => pc[d] \in Running
                       /\ pc'[d] = "owed" => pc[d] = "owed"
  BY DEF ProposeAdd, ProposeRemove, Goto, TypeInv, Types, Running
<1>4. \A d \in Conns : pc'[d] \in Running /\ WayOK(d) => WayOK(d)'
  BY <1>1, <1>2, <1>3 DEF WayOK, Due, Before
<1>5. PlainCommits'
  BY <1>1, <1>2 DEF CommitInv, PlainCommits, Due
<1> QED
  BY <1>3, <1>4, <1>5 DEF CommitInv, Subscribed

\* A published commit is the next for everyone who listens.
LEMMA PublishCommits ==
  ASSUME TypeInv, CommitInv, NEW c \in Conns, PublishAdd(c) \/ PublishRemove(c)
  PROVE  CommitInv'
<1> DEFINE f == NovaCommit(epoch)
<1>1. /\ plain' = Append(plain, f) /\ UNCHANGED <<epoch, stream, client>>
      /\ holder = c /\ holder' = NoOne
  BY DEF PublishAdd, PublishRemove, Publish, TypeInv, Locks
<1>2. epoch \in Nat /\ Published = epoch - 1 /\ Published' = epoch
  BY <1>1, Constants, CommitsTyped DEF Published, GroupFree
<1>3. f \in Frames /\ EpochOf(f) = {epoch}
  BY <1>2, FrameKinds DEF EpochOf
<1> HIDE DEF f
<1>4. plain \in Seq(Frames) /\ CommitEpochs(plain) \subseteq Nat
  BY CommitsTyped
<1>5. \A x \in CommitEpochs(plain) : x < epoch
  BY <1>2, <1>4 DEF CommitInv, PlainCommits
<1>6. CommitEpochs(plain)' = CommitEpochs(plain) \cup {epoch} /\ CommitsAscend(plain)'
  BY <1>1, <1>3, <1>4, <1>5, CommitsAppend DEF CommitInv, PlainCommits
<1>7. ASSUME NEW S, NEW e \in Int, Due(e, epoch - 1, S) PROVE Due(e, epoch, S \cup {epoch})
  BY <1>2, <1>7 DEF Due
<1>8. Due(epoch, epoch, {epoch})
  BY <1>2 DEF Due
<1>9. PlainCommits'
  <2>1. ASSUME NEW e \in CommitEpochs(plain) \cup {epoch}
        PROVE  e <= epoch /\ Due(e, epoch, CommitEpochs(plain) \cup {epoch})
    <3>1. CASE e = epoch
      BY <1>2, <1>8, <3>1 DEF Due
    <3>2. CASE e \in CommitEpochs(plain)
      <4>1. e \in Int /\ e < epoch /\ Due(e, epoch - 1, CommitEpochs(plain))
        BY <1>2, <1>4, <1>5, <3>2 DEF CommitInv, PlainCommits
      <4> QED
        BY <1>2, <1>7, <4>1
    <3> QED
      BY <3>1, <3>2
  <2> QED
    BY <1>1, <1>2, <1>6, <2>1 DEF PlainCommits
<1>10. ASSUME NEW d \in Conns, pc'[d] \in Running PROVE WayOK(d)'
  <2> DEFINE S == CommitEpochs(stream[d])
             P == CommitEpochs(plain)
  <2>1. /\ pc[d] \in Running /\ (d # c => pc'[d] = pc[d] /\ welcome'[d] = welcome[d])
        /\ pc'[c] = "owed" => welcome'[c] = epoch
    BY <1>10 DEF PublishAdd, PublishRemove, Goto, TypeInv, Types, Running, own
  <2>2. WayOK(d) /\ S \subseteq Nat /\ client[d].epoch \in Nat /\ welcome[d] \in Nat
    <3>1. WayOK(d)
      BY <2>1 DEF CommitInv, Subscribed
    <3>2. S \subseteq 1 .. epoch /\ client[d].epoch \in Nat /\ welcome[d] \in Nat
      BY CommitsTyped
    <3> HIDE DEF S
    <3> QED
      BY <1>2, <3>1, <3>2
  <2>3. S \cup (P \cup {epoch}) = (S \cup P) \cup {epoch}
    OBVIOUS
  <2>4. \A e \in S : e <= epoch /\ Due(e, epoch, (S \cup P) \cup {epoch})
    <3>1. ASSUME NEW e \in S PROVE e \in Int /\ e <= epoch - 1 /\ Due(e, epoch - 1, S \cup P)
      <4>1. e <= Published /\ Due(e, Published, S \cup P)
        BY <2>2, <3>1 DEF WayOK
      <4>2. e \in Int
        BY <2>2, <3>1
      <4> QED
        BY <1>2, <4>1, <4>2
    <3> QED
      BY <1>2, <1>7, <3>1
  <2>5. CommitsAscend(stream[d]) /\ \A x \in S, y \in P \cup {epoch} : x < y
    <3>1. \A x \in S : x < epoch
      BY <1>2, <2>2 DEF WayOK
    <3> QED
      BY <2>2, <3>1 DEF WayOK, Before
  <2>6. client[d].joined => Due(client[d].epoch + 1, epoch, (S \cup P) \cup {epoch})
    BY <1>2, <1>7, <2>2 DEF WayOK
  <2>7. pc'[d] = "owed" => Due(welcome'[d] + 1, epoch, (S \cup P) \cup {epoch})
    <3>1. CASE d = c
      BY <1>2, <2>1, <3>1 DEF Due
    <3>2. CASE d # c
      BY <1>2, <1>7, <2>1, <2>2, <3>2 DEF WayOK
    <3> QED
      BY <3>1, <3>2
  <2>8. stream'[d] = stream[d] /\ client'[d] = client[d]
    BY <1>1
  <2> HIDE DEF S, P
  <2>9. CommitEpochs(stream[d])' = S /\ CommitEpochs(plain)' = P \cup {epoch}
    BY <1>6, <2>8 DEF S, P
  <2> QED
    BY <1>2, <2>3, <2>4, <2>5, <2>6, <2>7, <2>8, <2>9 DEF WayOK, Before
<1> QED
  BY <1>9, <1>10 DEF CommitInv, Subscribed

\* The loop passes a commit on, in the order in which it was published.
LEMMA RelayCommits ==
  ASSUME TypeInv, CommitInv, Relay
  PROVE  CommitInv'
<1> DEFINE f == Head(plain)
           P == CommitEpochs(plain)
           Q == CommitEpochs(Tail(plain))
<1>1. /\ plain' = Tail(plain) /\ plain # <<>>
      /\ UNCHANGED <<pc, epoch, holder, client, welcome>>
  BY DEF Relay, group, own
<1>2. Published' = Published
  BY <1>1 DEF Published, GroupFree
<1>3. f \in Frames /\ (f = App \/ IsCommit(f)) /\ plain \in Seq(Frames) /\ P \subseteq Nat
      /\ epoch \in Nat /\ Published \in Int
  <2>1. P \subseteq 1 .. epoch /\ epoch \in Nat /\ plain \in Seq(Frames) /\ Published \in Int
    BY CommitsTyped
  <2>2. f \in Frames /\ (f = App \/ IsCommit(f))
    BY <1>1, PlainTail DEF TypeInv, Types
  <2> HIDE DEF P
  <2> QED
    BY <2>1, <2>2
<1>4. /\ P = EpochOf(f) \cup Q /\ CommitsAscend(Tail(plain))
      /\ \A x \in EpochOf(f), y \in Q : x < y
  BY <1>1, <1>3, CommitsTail DEF CommitInv, PlainCommits
<1>5. /\ CommitEpochs(plain)' = Q /\ CommitsAscend(plain)'
  BY <1>1, <1>4
<1> HIDE DEF P, Q
<1>6. PlainCommits'
  <2>1. ASSUME NEW e \in Q PROVE e <= Published /\ Due(e, Published, Q)
    <3>1. e \in Nat /\ e <= Published /\ Due(e, Published, P)
      BY <1>3, <1>4, <2>1 DEF CommitInv, PlainCommits, P
    <3>2. \A x \in EpochOf(f) : x < e /\ x \in Nat
      BY <1>3, <1>4, <2>1
    <3>3. \A x \in e .. Published : x \in P /\ x \notin EpochOf(f)
      BY <1>3, <3>1, <3>2 DEF Due
    <3> QED
      BY <1>4, <3>1, <3>3 DEF Due
  <2> QED
    BY <1>2, <1>5, <2>1 DEF PlainCommits
<1>7. ASSUME NEW c \in Conns, pc[c] \in Running
      PROVE  /\ CommitEpochs(stream[c])' \cup Q = CommitEpochs(stream[c]) \cup P
             /\ CommitEpochs(stream[c])' = CommitEpochs(stream[c]) \cup EpochOf(f)
             /\ CommitsAscend(stream[c])'
  <2>1. WayOK(c) /\ stream[c] \in Seq(Frames)
    BY <1>7, CommitsTyped DEF CommitInv, Subscribed
  <2>2. CASE stream' = stream /\ f = App
    <3>1. EpochOf(f) = {}
      BY <2>2, FrameKinds DEF EpochOf
    <3> QED
      BY <1>4, <2>1, <2>2, <3>1 DEF WayOK
  <2>3. CASE Broadcast(f)
    <3>1. stream'[c] = Append(stream[c], f)
      BY <1>7, <2>3 DEF Broadcast, Subscribed
    <3>2. \A x \in CommitEpochs(stream[c]), y \in EpochOf(f) : x < y
      BY <1>4, <2>1 DEF WayOK, Before, P
    <3>3. CommitEpochs(stream'[c]) = CommitEpochs(stream[c]) \cup EpochOf(f)
          /\ CommitsAscend(stream'[c])
      BY <1>3, <2>1, <3>1, <3>2, CommitsAppend DEF WayOK
    <3> QED
      BY <1>4, <3>3
  <2> QED
    BY <2>2, <2>3 DEF Relay
<1>8. ASSUME NEW c \in Conns, pc[c] \in Running PROVE WayOK(c)'
  <2> DEFINE S == CommitEpochs(stream[c])
  <2>1. WayOK(c)
    BY <1>8 DEF CommitInv, Subscribed
  <2>2. /\ \A e \in S : e <= Published /\ Due(e, Published, S \cup P)
        /\ \A x \in S, y \in P : x < y
        /\ client[c].joined => Due(client[c].epoch + 1, Published, S \cup P)
        /\ pc[c] = "owed" => Due(welcome[c] + 1, Published, S \cup P)
    BY <2>1 DEF WayOK, Before, P
  <2>3. \A e \in S \cup EpochOf(f) : e <= Published /\ Due(e, Published, S \cup P)
    <3>1. ASSUME NEW e \in EpochOf(f) PROVE e <= Published /\ Due(e, Published, P)
      BY <1>4, <3>1 DEF CommitInv, PlainCommits, P
    <3> QED
      BY <2>2, <3>1 DEF Due
  <2>4. \A x \in S \cup EpochOf(f), y \in Q : x < y
    BY <1>4, <2>2
  <2>5. /\ CommitEpochs(stream[c])' = S \cup EpochOf(f)
        /\ CommitEpochs(stream[c])' \cup Q = S \cup P
        /\ CommitsAscend(stream[c])'
    BY <1>7, <1>8
  <2> HIDE DEF S
  <2> QED
    BY <1>1, <1>2, <1>5, <2>2, <2>3, <2>4, <2>5 DEF WayOK, Before
<1> QED
  BY <1>1, <1>6, <1>8 DEF CommitInv, Subscribed

\* The sealed frame it sends after an app frame is none.
LEMMA SealCommits ==
  ASSUME TypeInv, CommitInv, Seal
  PROVE  CommitInv'
<1>1. UNCHANGED <<pc, epoch, holder, plain, client, welcome>>
      /\ Broadcast(GroupSealed(epoch, seq))
  BY DEF Seal, own
<1>2. GroupSealed(epoch, seq) \in Frames /\ EpochOf(GroupSealed(epoch, seq)) = {}
  BY FrameKinds DEF TypeInv, Types, EpochOf
<1>3. ASSUME NEW c \in Conns, pc[c] \in Running PROVE WayOK(c)'
  <2>1. WayOK(c) /\ stream[c] \in Seq(Frames)
    BY <1>3, CommitsTyped DEF CommitInv, Subscribed
  <2>2. stream'[c] = Append(stream[c], GroupSealed(epoch, seq))
    BY <1>1, <1>3 DEF Broadcast, Subscribed
  <2>3. CommitEpochs(stream'[c]) = CommitEpochs(stream[c]) /\ CommitsAscend(stream'[c])
    BY <1>2, <2>1, <2>2, CommitsAppend DEF WayOK
  <2> QED
    BY <1>1, <2>1, <2>3 DEF WayOK, Before, Published, GroupFree
<1>4. PlainCommits'
  BY <1>1 DEF CommitInv, PlainCommits, Published, GroupFree
<1> QED
  BY <1>1, <1>3, <1>4 DEF CommitInv, Subscribed

\* A browser that has joined takes the next, and is owed one less.
LEMMA ForwardCommits ==
  ASSUME TypeInv, CommitInv, NEW c \in Conns, Forward(c)
  PROVE  CommitInv'
<1> DEFINE f == Head(stream[c])
           b == client[c]
           S == CommitEpochs(Tail(stream[c]))
           P == CommitEpochs(plain)
<1>1. /\ pc[c] \in Running /\ pc[c] # "owed" /\ stream[c] # <<>>
      /\ client' = [client EXCEPT ![c] = Accept(b, f)]
      /\ stream' = [stream EXCEPT ![c] = Tail(stream[c])]
      /\ UNCHANGED <<pc, epoch, holder, welcome, plain>>
  BY DEF Forward, group, own
<1>2. Published' = Published
  BY <1>1 DEF Published, GroupFree
<1>3. WayOK(c) /\ stream[c] \in Seq(Frames)
  BY <1>1, CommitsTyped DEF CommitInv, Subscribed
<1>4. stream'[c] = Tail(stream[c]) /\ client'[c] = Accept(b, f)
  BY <1>1 DEF TypeInv, Types
<1>5. /\ CommitEpochs(stream[c]) = EpochOf(f) \cup S /\ CommitsAscend(Tail(stream[c]))
      /\ \A x \in EpochOf(f), y \in S : x < y
  BY <1>1, <1>3, CommitsTail DEF WayOK
<1>6. epoch \in Nat /\ Published \in Int /\ b.epoch \in Nat
      /\ EpochOf(f) \cup S \subseteq Nat /\ P \subseteq Nat
  <2>1. EpochOf(f) \cup S \subseteq 1 .. epoch /\ P \subseteq 1 .. epoch
        /\ epoch \in Nat /\ Published \in Int /\ b.epoch \in Nat
    BY <1>5, CommitsTyped
  <2> HIDE DEF f, S, P, b
  <2> QED
    BY <2>1
<1>7. /\ \A x \in EpochOf(f) \cup S, y \in P : x < y
      /\ \A e \in EpochOf(f) \cup S :
           e <= Published /\ Due(e, Published, (EpochOf(f) \cup S) \cup P)
      /\ b.joined => Due(b.epoch + 1, Published, (EpochOf(f) \cup S) \cup P)
  BY <1>3, <1>5 DEF WayOK, Before
<1>8. /\ CommitEpochs(stream[c])' = S /\ CommitsAscend(stream[c])'
      /\ CommitEpochs(plain)' = P
  BY <1>1, <1>4, <1>5
<1>9. client'[c] = Accept(b, f)
  BY <1>4
<1> HIDE DEF S, P, b
<1>10. \A e \in S : e <= Published /\ Due(e, Published, S \cup P)
  <2> TAKE e \in S
  <2>1. e \in Nat /\ e <= Published /\ Due(e, Published, (EpochOf(f) \cup S) \cup P)
    BY <1>6, <1>7
  <2>2. \A x \in EpochOf(f) : x < e /\ x \in Nat
    BY <1>5, <1>6
  <2>3. \A x \in e .. Published : x \notin EpochOf(f)
    BY <1>6, <2>1, <2>2
  <2> QED
    BY <2>1, <2>3 DEF Due
<1>11. Accept(b, f).joined => Due(Accept(b, f).epoch + 1, Published, S \cup P)
  <2> SUFFICES ASSUME Accept(b, f).joined
               PROVE  Due(Accept(b, f).epoch + 1, Published, S \cup P)
    OBVIOUS
  <2>1. CASE f.kind = "commit" /\ Fits(b, f)
    <3>1. Accept(b, f).epoch = f.epoch /\ EpochOf(f) = {f.epoch}
      BY <2>1, AcceptIs DEF Joined, EpochOf
    <3>2. f.epoch \in Nat /\ f.epoch <= Published
          /\ Due(f.epoch, Published, (EpochOf(f) \cup S) \cup P)
      BY <1>6, <1>7, <3>1
    <3>3. \A x \in f.epoch + 1 .. Published : x \in f.epoch .. Published /\ x # f.epoch
      BY <1>6, <3>2
    <3>4. f.epoch + 1 .. Published \subseteq S \cup P
      BY <3>1, <3>2, <3>3 DEF Due
    <3> QED
      BY <1>6, <3>1, <3>2, <3>4 DEF Due
  <2>2. CASE ~(f.kind = "commit" /\ Fits(b, f))
    <3>1. Accept(b, f).epoch = b.epoch /\ b.joined
      BY <2>2, AcceptIs DEF Joined, Opens
    <3>2. Due(b.epoch + 1, Published, (EpochOf(f) \cup S) \cup P)
      BY <1>7, <3>1
    <3>3. ASSUME NEW k \in EpochOf(f) PROVE k \notin b.epoch + 1 .. Published
      <4>1. k \in Nat /\ k <= Published /\ k # b.epoch + 1
            /\ \A y \in S \cup P : k < y
        BY <1>5, <1>6, <1>7, <2>2, <3>1, <3>3 DEF Fits, EpochOf
      <4>2. ASSUME k > b.epoch + 1 PROVE FALSE
        <5>1. b.epoch + 1 \in b.epoch + 1 .. Published
          BY <1>6, <4>1, <4>2
        <5>2. b.epoch + 1 \in S \cup P \/ b.epoch + 1 = k
          BY <3>2, <3>3, <5>1 DEF Due, EpochOf
        <5> QED
          BY <1>6, <4>1, <4>2, <5>2
      <4> QED
        BY <1>6, <4>1, <4>2
    <3> QED
      BY <3>1, <3>2, <3>3 DEF Due
  <2> QED
    BY <2>1, <2>2
<1>12. WayOK(c)'
  <2>1. \A x \in S, y \in P : x < y
    BY <1>7
  <2> QED
    BY <1>1, <1>2, <1>8, <1>9, <1>10, <1>11, <2>1 DEF WayOK, Before
<1>13. ASSUME NEW d \in Conns \ {c}, pc[d] \in Running PROVE WayOK(d)'
  <2>1. UNCHANGED <<pc[d], stream[d], client[d], welcome[d]>>
    BY <1>1 DEF TypeInv, Types
  <2>2. WayOK(d)
    BY <1>13 DEF CommitInv, Subscribed
  <2> QED
    BY <1>1, <1>2, <2>1, <2>2 DEF WayOK, Before
<1>14. PlainCommits'
  BY <1>1, <1>2 DEF CommitInv, PlainCommits
<1> QED
  BY <1>1, <1>12, <1>13, <1>14 DEF CommitInv, Subscribed

\* Every step keeps the commits in order and complete.
LEMMA CommitStep ==
  ASSUME TypeInv, CommitInv, [Next]_vars, ~Cancels
  PROVE  CommitInv'
<1>1. CASE UNCHANGED vars
  BY <1>1 DEF vars, CommitInv, PlainCommits, WayOK, Subscribed, Before, Published, GroupFree
<1>2. CASE Relay \/ Seal
  BY <1>2, RelayCommits, SealCommits
<1>3. ASSUME NEW c \in Conns, Session(c) PROVE CommitInv'
  <2>1. CASE \/ Connect(c) \/ StartRender(c) \/ FinishRender(c)
             \/ EndSession(c) \/ CleanupUser(c) \/ SendWelcome(c)
    BY <2>1, SessionMoves, LocalCommits
  <2> QED
    BY <1>3, <2>1, ProposeCommits, PublishCommits, ForwardCommits DEF Session
<1> QED
  BY <1>1, <1>2, <1>3 DEF Next

\* So what is on its way to a browser is what it lacks.
LEMMA CommitsFit ==
  ASSUME TypeInv, CommitInv
  PROVE  CommitsConsecutive
<1> SUFFICES ASSUME NEW c \in Subscribed
             PROVE  /\ CommitsAscend(stream[c] \o plain)
                    /\ \A e \in CommitEpochs(stream[c] \o plain) :
                         e .. Published \subseteq CommitEpochs(stream[c] \o plain)
                    /\ client[c].joined =>
                         client[c].epoch + 1 .. Published \subseteq CommitEpochs(stream[c] \o plain)
  BY DEF CommitsConsecutive
<1>1. /\ WayOK(c) /\ PlainCommits
      /\ stream[c] \in Seq(Frames) /\ plain \in Seq(Frames)
  BY CommitsTyped DEF CommitInv, Subscribed
<1>2. CommitEpochs(stream[c] \o plain) = CommitEpochs(stream[c]) \cup CommitEpochs(plain)
  BY <1>1, CommitsJoin
<1>3. CommitsAscend(stream[c] \o plain)
  BY <1>1, CommitsJoin DEF WayOK, PlainCommits
<1> QED
  BY <1>1, <1>2, <1>3 DEF WayOK, PlainCommits, Due

\* Commits reach every subscriber in production order with none missing, so that
\* a browser that has joined can catch up, if no join is abandoned at its wait
\* for the room lock (session/nova.rs, handle_join_request, run_seal_loop).
THEOREM CommitsReachEverySubscriber ==
  ASSUME Cancels = FALSE
  PROVE  Spec => []CommitsConsecutive
<1>1. Init => CommitInv
  BY CommitsNone DEF Init, CommitInv, PlainCommits, Subscribed, Running
<1>2. TypeInv /\ CommitInv /\ [Next]_vars => CommitInv'
  BY CommitStep
<1>3. TypeInv /\ CommitInv => CommitsConsecutive
  BY CommitsFit
<1> QED
  BY <1>1, <1>2, <1>3, TypeInvariant, PTL DEF Spec

----------------------------------------------------------------------------
(* The frames a member can open *)

Sealed(s) == {i \in DOMAIN s : s[i].kind = "sealed"}

\* f is in s before position i.
Precedes(s, i, f) == \E k \in DOMAIN s : k < i /\ s[k] = f

\* The sealed frames of a stream keep the order of the server's chain, whose next
\* is number q of epoch e, and none follows the commit to a later epoch than its own.
Sequential(s, e, q) ==
    /\ \A i \in Sealed(s) : s[i].epoch = e => s[i].seq < q
    /\ \A i, j \in Sealed(s) : i < j /\ s[i].epoch = s[j].epoch => s[i].seq < s[j].seq
    /\ \A i \in DOMAIN s, j \in Sealed(s) :
         i < j /\ s[i].kind = "commit" => s[i].epoch <= s[j].epoch

\* The first frame of epoch e that browser b has not opened.
Since(b, e) == IF e = b.epoch THEN b.next ELSE 0

\* What b has to open of epoch e before the frame numbered n is before i.
Whole(s, i, b, e, n) ==
    /\ Since(b, e) <= n
    /\ \A q \in Since(b, e) .. n - 1 : Precedes(s, i, GroupSealed(e, q))

\* What browser b, added in epoch w, can do with its stream: nothing that was
\* sealed since is of an epoch it has left, and to each frame of an epoch that is
\* not in O its stream leads in order, by commit and by number.
Leads(s, b, i, O) ==
    s[i].epoch >= b.epoch /\ s[i].epoch \notin O =>
      /\ s[i].epoch > b.epoch => Precedes(s, i, NovaCommit(s[i].epoch))
      /\ Whole(s, i, b, s[i].epoch, s[i].seq)
Readable(s, b, w, e, q, O) ==
    /\ \A i \in Sealed(s) : (s[i].epoch >= w => s[i].epoch >= b.epoch) /\ Leads(s, b, i, O)
    /\ e \notin O => Whole(s, Len(s) + 1, b, e, q)

\* Whoever waits to publish a commit has sealed nothing in its epoch.
Fresh == holder # NoOne => seq = 0

\* A browser with the welcome it is owed.
Group(c) == IF pc[c] = "owed" THEN Joined(welcome[c], 0) ELSE client[c]

FramesOK(c) ==
    /\ Sequential(stream[c], epoch, seq)
    /\ Group(c).joined =>
         Readable(stream[c], Group(c), welcome[c], epoch, seq, overtaken)
SealInv == Fresh /\ \A c \in Subscribed : FramesOK(c)

\* A frame of a queue stays before what it was before, and a new one follows all.
LEMMA PrecedesAppend ==
  ASSUME NEW s \in Seq(Frames), NEW f \in Frames
  PROVE  /\ \A i, x : Precedes(s, i, x) => Precedes(Append(s, f), i, x)
         /\ \A x : Precedes(s, Len(s) + 1, x) => Precedes(Append(s, f), Len(s) + 2, x)
         /\ Precedes(Append(s, f), Len(s) + 2, f)
<1> DEFINE m == Len(s) + 1
<1>1. PICK r : r = Append(s, f)
  OBVIOUS
<1>2. /\ Len(s) \in Nat /\ DOMAIN s = 1 .. Len(s) /\ DOMAIN r = 1 .. m
      /\ r[m] = f /\ \A i \in DOMAIN s : r[i] = s[i]
  BY <1>1, AppendAt
<1>3. \A k \in DOMAIN s : k \in DOMAIN r /\ k < Len(s) + 2
  BY <1>2
<1>4. m \in DOMAIN r /\ m < Len(s) + 2
  BY <1>2
<1> HIDE DEF m
<1> QED
  BY <1>1, <1>2, <1>3, <1>4 DEF Precedes

\* Without its first frame, the others of a queue stay before what they were.
LEMMA PrecedesTail ==
  ASSUME NEW s \in Seq(Frames), s # <<>>, NEW i \in Nat, NEW x, Precedes(s, i + 1, x),
         x # Head(s)
  PROVE  Precedes(Tail(s), i, x)
<1>1. PICK r : r = Tail(s)
  OBVIOUS
<1>2. /\ Len(s) \in Nat \ {0}
      /\ DOMAIN s = 1 .. Len(s) /\ DOMAIN r = 1 .. Len(s) - 1 /\ Head(s) = s[1]
      /\ \A k \in DOMAIN r : r[k] = s[k + 1]
  BY <1>1, TailAt
<1>3. PICK k \in DOMAIN s : k < i + 1 /\ s[k] = x
  BY DEF Precedes
<1>4. k - 1 \in DOMAIN r /\ k - 1 < i /\ k = (k - 1) + 1
  BY <1>2, <1>3
<1>5. r[k - 1] = x
  BY <1>2, <1>3, <1>4
<1> QED
  BY <1>1, <1>4, <1>5 DEF Precedes

\* Nothing precedes the first place.
LEMMA PrecedesNone ==
  ASSUME NEW s \in Seq(Frames), NEW x
  PROVE  ~Precedes(s, 1, x)
  BY DEF Precedes

\* A sealed frame is the sealed frame of its epoch and number, a commit of its epoch.
LEMMA FrameIs ==
  ASSUME NEW f \in Frames
  PROVE  /\ f.kind = "sealed" => f = GroupSealed(f.epoch, f.seq) /\ f.epoch \in Nat /\ f.seq \in Nat
         /\ f.kind = "commit" => f = NovaCommit(f.epoch) /\ f.epoch \in Nat
         /\ \A e, q : f = GroupSealed(e, q) => f.kind = "sealed" /\ f.epoch = e /\ f.seq = q
         /\ \A e : f = NovaCommit(e) => f.kind = "commit" /\ f.epoch = e
<1>1. CASE f \in [kind : {"app"}]
  BY <1>1 DEF GroupSealed, NovaCommit
<1>2. CASE f \in [kind : {"commit"}, epoch : Nat]
  BY <1>2 DEF GroupSealed, NovaCommit
<1>3. CASE f \in [kind : {"sealed"}, epoch : Nat, seq : Nat]
  BY <1>3 DEF GroupSealed, NovaCommit
<1> QED
  BY <1>1, <1>2, <1>3 DEF Frames

\* A commit is appended, and changes nothing.
LEMMA OtherFrame ==
  ASSUME NEW s \in Seq(Frames), NEW f \in Frames, f.kind # "sealed",
         NEW e \in Nat, NEW q \in Nat
  PROVE  /\ Sequential(s, e, q) => Sequential(Append(s, f), e, q)
         /\ \A b, w, O : Since(b, e) \in Nat /\ Readable(s, b, w, e, q, O)
              => Readable(Append(s, f), b, w, e, q, O)
<1>1. PICK r : r = Append(s, f)
  OBVIOUS
<1>2. /\ Len(s) \in Nat /\ DOMAIN s = 1 .. Len(s) /\ DOMAIN r = 1 .. Len(s) + 1
      /\ r[Len(s) + 1] = f /\ \A i \in DOMAIN s : r[i] = s[i]
      /\ r \in Seq(Frames) /\ Len(r) = Len(s) + 1
  BY <1>1, AppendAt
<1>3. /\ Sealed(r) = Sealed(s) /\ Sealed(s) \subseteq DOMAIN s
      /\ \A i \in Sealed(s) : r[i] = s[i]
  <2>1. \A i \in DOMAIN r : i \in DOMAIN s \/ i = Len(s) + 1
    BY <1>2
  <2>2. \A i \in DOMAIN s : i \in DOMAIN r
    BY <1>2
  <2> QED
    BY <1>2, <2>1, <2>2 DEF Sealed
<1>4. ASSUME Sequential(s, e, q) PROVE Sequential(r, e, q)
  <2>1. ASSUME NEW i \in DOMAIN r, NEW j \in Sealed(s), i < j
        PROVE  i \in DOMAIN s
    BY <1>2, <1>3, <2>1
  <2> QED
    BY <1>2, <1>3, <1>4, <2>1 DEF Sequential
<1>5. ASSUME NEW b, NEW w, NEW O, Readable(s, b, w, e, q, O)
      PROVE  Readable(r, b, w, e, q, O)
  <2>1. \A i, x : Precedes(s, i, x) => Precedes(r, i, x)
    BY <1>1, PrecedesAppend
  <2>2. \A x : Precedes(s, Len(s) + 1, x) => Precedes(r, Len(r) + 1, x)
    BY <1>1, <1>2, PrecedesAppend
  <2>3. e \notin O => Whole(r, Len(r) + 1, b, e, q)
    BY <1>5, <2>2 DEF Readable, Whole
  <2>4. ASSUME NEW i \in Sealed(s) PROVE Leads(r, b, i, O)
    BY <1>3, <1>5, <2>1, <2>4 DEF Readable, Leads, Whole
  <2> QED
    BY <1>3, <1>5, <2>3, <2>4 DEF Readable
<1> QED
  BY <1>1, <1>4, <1>5

\* The next frame of the chain is sealed and appended.
LEMMA SealedFrame ==
  ASSUME NEW s \in Seq(Frames), NEW e \in Nat, NEW q \in Nat,
         \A i \in DOMAIN s : s[i].kind = "commit" => s[i].epoch <= e
  PROVE  /\ Sequential(s, e, q) => Sequential(Append(s, GroupSealed(e, q)), e, q + 1)
         /\ \A b, w, O, P :
              /\ Since(b, e) \in Nat /\ b.epoch \in Nat /\ b.epoch <= e /\ O \subseteq P
              /\ e \notin P /\ b.epoch < e => Precedes(s, Len(s) + 1, NovaCommit(e))
              /\ Readable(s, b, w, e, q, O)
              => Readable(Append(s, GroupSealed(e, q)), b, w, e, q + 1, P)
<1> DEFINE f == GroupSealed(e, q)
           m == Len(s) + 1
<1>1. PICK r : r = Append(s, f)
  OBVIOUS
<1>2. f \in Frames /\ f.kind = "sealed" /\ f.epoch = e /\ f.seq = q
  BY FrameKinds
<1>3. /\ Len(s) \in Nat /\ DOMAIN s = 1 .. Len(s) /\ DOMAIN r = 1 .. m
      /\ r[m] = f /\ \A i \in DOMAIN s : r[i] = s[i]
      /\ r \in Seq(Frames) /\ Len(r) = m /\ m \in Nat
  BY <1>1, <1>2, AppendAt
<1>4. /\ Sealed(r) = Sealed(s) \cup {m} /\ Sealed(s) \subseteq DOMAIN s
      /\ \A i \in Sealed(s) : r[i] = s[i] /\ i < m
  <2>1. \A i \in DOMAIN r : i \in DOMAIN s \/ i = m
    BY <1>3
  <2>2. m \in DOMAIN r /\ \A i \in DOMAIN s : i \in DOMAIN r /\ i < m
    BY <1>3
  <2> QED
    BY <1>2, <1>3, <2>1, <2>2 DEF Sealed
<1>5. \A i \in Sealed(s) : s[i].epoch \in Nat /\ s[i].seq \in Nat
  <2>1. \A i \in DOMAIN s : s[i] \in Frames
    OBVIOUS
  <2> QED
    BY <2>1, FrameKinds DEF Sealed
<1> HIDE DEF f, m
<1>6. ASSUME Sequential(s, e, q) PROVE Sequential(r, e, q + 1)
  <2>1. \A i \in Sealed(s) : s[i].epoch = e => s[i].seq < q
    BY <1>6 DEF Sequential
  <2>2. \A i \in Sealed(r) : r[i].epoch = e => r[i].seq < q + 1
    BY <1>2, <1>3, <1>4, <1>5, <2>1
  <2>3. ASSUME NEW i \in Sealed(r), NEW j \in Sealed(r), i < j, r[i].epoch = r[j].epoch
        PROVE  r[i].seq < r[j].seq
    <3>1. i \in Sealed(s) /\ r[i] = s[i]
      BY <1>3, <1>4, <2>3
    <3>2. CASE j = m
      BY <1>2, <1>3, <2>1, <2>3, <3>1, <3>2
    <3>3. CASE j \in Sealed(s)
      BY <1>4, <1>6, <2>3, <3>1, <3>3 DEF Sequential
    <3> QED
      BY <1>4, <3>2, <3>3
  <2>4. ASSUME NEW i \in DOMAIN r, NEW j \in Sealed(r), i < j, r[i].kind = "commit"
        PROVE  r[i].epoch <= r[j].epoch
    <3>1. i # m
      BY <1>2, <1>3, <2>4
    <3>2. i \in DOMAIN s /\ r[i] = s[i]
      BY <1>3, <2>4, <3>1 DEF m
    <3>3. CASE j = m
      BY <1>2, <1>3, <2>4, <3>2, <3>3
    <3>4. CASE j \in Sealed(s)
      BY <1>4, <1>6, <2>4, <3>2, <3>4 DEF Sequential
    <3> QED
      BY <1>4, <3>3, <3>4
  <2> QED
    BY <2>2, <2>3, <2>4 DEF Sequential
<1>7. ASSUME NEW b, NEW w, NEW O, NEW P, Since(b, e) \in Nat,
             b.epoch \in Nat, b.epoch <= e, O \subseteq P,
             e \notin P /\ b.epoch < e => Precedes(s, m, NovaCommit(e)),
             Readable(s, b, w, e, q, O)
      PROVE  Readable(r, b, w, e, q + 1, P)
  <2>1. /\ \A i, x : Precedes(s, i, x) => Precedes(r, i, x)
        /\ \A x : Precedes(s, m, x) => Precedes(r, m, x) /\ Precedes(r, m + 1, x)
        /\ Precedes(r, m + 1, f)
    <3>1. Len(s) + 2 = m + 1
      BY <1>3 DEF m
    <3> QED
      BY <1>1, <1>2, <3>1, PrecedesAppend DEF m
  <2>2. e \notin P => Whole(s, m, b, e, q)
    BY <1>7 DEF Readable, m
  <2>3. e \notin P => Whole(r, m + 1, b, e, q + 1)
    <3>1. \A x \in Since(b, e) .. (q + 1) - 1 : x = q \/ x \in Since(b, e) .. q - 1
      BY <1>7
    <3> QED
      BY <1>7, <2>1, <2>2, <3>1 DEF Whole, f
  <2>4. ASSUME NEW i \in Sealed(s)
        PROVE  (r[i].epoch >= w => r[i].epoch >= b.epoch) /\ Leads(r, b, i, P)
    BY <1>4, <1>7, <2>1, <2>4 DEF Readable, Leads, Whole
  <2>5. r[m].epoch >= b.epoch /\ Leads(r, b, m, P)
    <3>1. e >= b.epoch /\ (e > b.epoch <=> b.epoch < e)
      BY <1>7
    <3> QED
      BY <1>2, <1>3, <1>7, <2>1, <2>2, <3>1 DEF Leads, Whole
  <2> QED
    BY <1>3, <1>4, <2>3, <2>4, <2>5 DEF Readable
<1> QED
  BY <1>1, <1>6, <1>7 DEF f, m

\* A new epoch, in which nothing is sealed yet.
LEMMA FreshEpoch ==
  ASSUME NEW s \in Seq(Frames), NEW e \in Nat,
         \A i \in Sealed(s) : s[i].epoch \in Nat /\ s[i].epoch <= e
  PROVE  /\ \A q : Sequential(s, e, q) => Sequential(s, e + 1, 0)
         /\ \A b, w, q, O : b.epoch \in 0 .. e /\ Readable(s, b, w, e, q, O)
              => Readable(s, b, w, e + 1, 0, O)
         /\ \A O : Sequential(s, e, 0) /\ (\A i \in Sealed(s) : s[i].seq \in Nat)
              => Readable(s, Joined(e, 0), e, e, 0, O)
<1>1. \A i \in Sealed(s) : s[i].epoch # e + 1
  OBVIOUS
<1>2. ASSUME NEW q, Sequential(s, e, q) PROVE Sequential(s, e + 1, 0)
  BY <1>1, <1>2 DEF Sequential
<1>3. ASSUME NEW b, NEW w, NEW q, NEW O, b.epoch \in 0 .. e, Readable(s, b, w, e, q, O)
      PROVE  Readable(s, b, w, e + 1, 0, O)
  <2>1. Since(b, e + 1) = 0
    BY <1>3 DEF Since
  <2>2. Whole(s, Len(s) + 1, b, e + 1, 0)
    BY <2>1 DEF Whole
  <2> QED
    BY <1>3, <2>2 DEF Readable
<1>4. ASSUME NEW O, Sequential(s, e, 0), \A i \in Sealed(s) : s[i].seq \in Nat
      PROVE  Readable(s, Joined(e, 0), e, e, 0, O)
  <2> DEFINE b == Joined(e, 0)
  <2>1. b.epoch = e /\ b.next = 0
    BY DEF Joined
  <2>2. \A i \in Sealed(s) : s[i].epoch < e
    BY <1>4 DEF Sequential
  <2>3. Whole(s, Len(s) + 1, b, e, 0)
    BY <2>1 DEF Whole, Since
  <2> HIDE DEF b
  <2>4. ASSUME NEW i \in Sealed(s) PROVE ~(s[i].epoch >= e)
    BY <2>2
  <2> QED
    BY <2>1, <2>3, <2>4 DEF Readable, Leads, b
<1> QED
  BY <1>2, <1>3, <1>4

\* The first frame of a stream that leads to it, if it is sealed, is the next.
LEMMA FirstOpens ==
  ASSUME NEW s \in Seq(Frames), 1 \in Sealed(s), NEW b, NEW O, Leads(s, b, 1, O),
         b.epoch \in Nat, b.next \in Nat, s[1].epoch >= b.epoch, s[1].epoch \notin O
  PROVE  s[1].epoch = b.epoch /\ s[1].seq = b.next
<1>1. s[1] \in Frames /\ s[1].kind = "sealed"
  BY DEF Sealed
<1>2. s[1].epoch \in Nat /\ s[1].seq \in Nat
  BY <1>1, FrameKinds
<1>3. ~(s[1].epoch > b.epoch) /\ Whole(s, 1, b, s[1].epoch, s[1].seq)
  BY PrecedesNone DEF Leads
<1>4. s[1].epoch = b.epoch
  BY <1>2, <1>3
<1>5. b.next <= s[1].seq /\ \A x \in b.next .. s[1].seq - 1 : FALSE
  BY <1>3, <1>4, PrecedesNone DEF Whole, Since
<1>6. ~(b.next < s[1].seq)
  BY <1>2, <1>5
<1> QED
  BY <1>2, <1>4, <1>5, <1>6

\* A stream without its first frame is as ordered.
LEMMA SequentialTail ==
  ASSUME NEW s \in Seq(Frames), s # <<>>, NEW e, NEW q, Sequential(s, e, q)
  PROVE  Sequential(Tail(s), e, q)
<1>1. PICK r : r = Tail(s)
  OBVIOUS
<1>2. /\ Len(s) \in Nat \ {0}
      /\ DOMAIN s = 1 .. Len(s) /\ DOMAIN r = 1 .. Len(s) - 1
      /\ \A k \in DOMAIN r : r[k] = s[k + 1]
  BY <1>1, TailAt
<1>3. \A i \in DOMAIN r : i + 1 \in DOMAIN s /\ i \in Nat
  BY <1>2
<1>4. \A i \in Sealed(r) : i + 1 \in Sealed(s) /\ i \in DOMAIN r /\ r[i] = s[i + 1]
  BY <1>2, <1>3 DEF Sealed
<1>5. \A i, j \in DOMAIN r : i < j => i + 1 < j + 1
  BY <1>3
<1>6. \A i \in Sealed(r) : r[i].epoch = e => r[i].seq < q
  BY <1>4 DEF Sequential
<1>7. \A i, j \in Sealed(r) : i < j /\ r[i].epoch = r[j].epoch => r[i].seq < r[j].seq
  BY <1>4, <1>5 DEF Sequential
<1>8. \A i \in DOMAIN r, j \in Sealed(r) :
        i < j /\ r[i].kind = "commit" => r[i].epoch <= r[j].epoch
  BY <1>2, <1>3, <1>4, <1>5 DEF Sequential
<1> QED
  BY <1>1, <1>6, <1>7, <1>8 DEF Sequential

\* A browser that takes the first frame, or drops it, can read on.
LEMMA ReadsOn ==
  ASSUME NEW s \in Seq(Frames), s # <<>>, NEW e \in Nat, NEW q \in Nat, Sequential(s, e, q),
         NEW b, b.joined, b.epoch \in 0 .. e, b.next \in Nat,
         Head(s).kind = "commit" => Head(s).epoch \in 0 .. e /\ Head(s).epoch <= b.epoch + 1,
         Head(s).kind \in {"commit", "sealed"},
         NEW w \in Nat, NEW O, Readable(s, b, w, e, q, O)
  PROVE  Readable(Tail(s), Accept(b, Head(s)), w, e, q, O)
<1> DEFINE a == Accept(b, Head(s))
<1>1. PICK r : r = Tail(s)
  OBVIOUS
<1>2. /\ Len(s) \in Nat \ {0} /\ Head(s) = s[1] /\ s[1] \in Frames
      /\ DOMAIN s = 1 .. Len(s) /\ DOMAIN r = 1 .. Len(s) - 1
      /\ \A k \in DOMAIN r : r[k] = s[k + 1]
      /\ Len(r) + 1 \in Nat /\ (Len(r) + 1) + 1 = Len(s) + 1
  BY <1>1, TailAt
<1>3. \A i \in Sealed(r) : i \in Nat /\ i + 1 \in Sealed(s) /\ r[i] = s[i + 1] /\ 1 < i + 1
  BY <1>2 DEF Sealed
<1>4. \A i \in Sealed(s) : s[i].epoch \in Nat /\ s[i].seq \in Nat
  <2>1. \A i \in DOMAIN s : s[i] \in Frames
    OBVIOUS
  <2> QED
    BY <2>1, FrameKinds DEF Sealed
<1>5. ASSUME NEW i \in Nat, NEW x, Precedes(s, i + 1, x), x # s[1] PROVE Precedes(r, i, x)
  BY <1>1, <1>2, <1>5, PrecedesTail
<1>6. 1 \in DOMAIN s /\ (s[1].kind = "sealed" => 1 \in Sealed(s))
  BY <1>2 DEF Sealed
\* It opens the frame.
<1>7. CASE s[1].kind = "sealed" /\ Opens(b, s[1])
  <2>1. a = Joined(b.epoch, b.next + 1)
    BY <1>2, <1>7, AcceptIs
  <2>2. a.epoch = b.epoch /\ a.next = b.next + 1
    BY <2>1 DEF Joined
  <2>3. s[1] = GroupSealed(b.epoch, b.next) /\ s[1].epoch = b.epoch /\ s[1].seq = b.next
    BY <1>2, <1>7, FrameIs DEF Opens
  <2> HIDE DEF a
  <2>4. ASSUME NEW i \in Nat, NEW x, NEW n \in Nat, Whole(s, i + 1, b, x, n),
               x = b.epoch => b.next < n
        PROVE  Whole(r, i, a, x, n)
    <3>1. Since(a, x) <= n
      BY <2>2, <2>4 DEF Whole, Since
    <3>2. ASSUME NEW y \in Since(a, x) .. n - 1 PROVE Precedes(r, i, GroupSealed(x, y))
      <4>1. y \in Since(b, x) .. n - 1 /\ (x = b.epoch => y # b.next)
        BY <2>2, <3>2 DEF Since
      <4>2. GroupSealed(x, y) # s[1]
        BY <1>2, <2>3, <4>1, FrameIs
      <4> QED
        BY <1>5, <2>4, <4>1, <4>2 DEF Whole
    <3> QED
      BY <3>1, <3>2 DEF Whole
  <2>5. ASSUME NEW i \in Sealed(r)
        PROVE  (r[i].epoch >= w => r[i].epoch >= a.epoch) /\ Leads(r, a, i, O)
    <3>1. /\ s[i + 1].epoch >= w => s[i + 1].epoch >= b.epoch
          /\ Leads(s, b, i + 1, O)
          /\ s[i + 1].epoch = b.epoch => b.next < s[i + 1].seq
      BY <1>3, <1>6, <1>7, <2>3, <2>5 DEF Readable, Sequential
    <3>2. NovaCommit(s[i + 1].epoch) # s[1]
      BY <1>2, <1>7, FrameIs
    <3> QED
      BY <1>3, <1>4, <1>5, <2>2, <2>4, <2>5, <3>1, <3>2 DEF Leads
  <2>6. e \notin O => Whole(r, Len(r) + 1, a, e, q)
    <3>1. e = b.epoch => b.next < q
      BY <1>6, <1>7, <2>3 DEF Sequential
    <3> QED
      BY <1>2, <2>4, <3>1 DEF Readable
  <2> QED
    BY <1>1, <1>2, <2>5, <2>6 DEF Readable, a
\* It applies the commit.
<1>8. CASE s[1].kind = "commit" /\ Fits(b, s[1])
  <2>1. a = Joined(b.epoch + 1, 0) /\ s[1].epoch = b.epoch + 1
    BY <1>2, <1>8, AcceptIs DEF Fits
  <2>2. a.epoch = b.epoch + 1 /\ a.next = 0
    BY <2>1 DEF Joined
  <2> HIDE DEF a
  <2>3. ASSUME NEW i \in Nat, NEW x \in Nat, x > b.epoch, NEW n, Whole(s, i + 1, b, x, n)
        PROVE  Whole(r, i, a, x, n)
    <3>1. Since(a, x) = 0 /\ Since(b, x) = 0
      BY <2>2, <2>3 DEF Since
    <3>2. \A y : GroupSealed(x, y) # s[1]
      BY <1>2, <1>8, FrameIs
    <3> QED
      BY <1>5, <2>3, <3>1, <3>2 DEF Whole
  <2>4. ASSUME NEW i \in Sealed(r)
        PROVE  (r[i].epoch >= w => r[i].epoch >= a.epoch) /\ Leads(r, a, i, O)
    <3>1. Leads(s, b, i + 1, O) /\ s[i + 1].epoch >= b.epoch + 1
      BY <1>3, <1>6, <1>8, <2>1, <2>4 DEF Readable, Sequential
    <3>2. s[i + 1].epoch > b.epoch + 1 => NovaCommit(s[i + 1].epoch) # s[1]
      BY <1>2, <1>3, <1>4, <2>1, <2>4, FrameIs
    <3>3. s[i + 1].epoch \in Nat /\ s[i + 1].epoch > b.epoch /\ r[i] = s[i + 1] /\ i \in Nat
      BY <1>3, <1>4, <2>4, <3>1
    <3>4. r[i].epoch \notin O => Whole(r, i, a, r[i].epoch, r[i].seq)
      BY <2>3, <3>1, <3>3 DEF Leads
    <3>5. r[i].epoch \notin O /\ r[i].epoch > a.epoch => Precedes(r, i, NovaCommit(r[i].epoch))
      BY <1>5, <2>2, <3>1, <3>2, <3>3 DEF Leads
    <3> QED
      BY <2>2, <3>1, <3>3, <3>4, <3>5 DEF Leads
  <2>5. e \notin O => Whole(r, Len(r) + 1, a, e, q)
    <3>1. e > b.epoch
      BY <1>2, <1>8, <2>1
    <3> QED
      BY <1>2, <2>3, <3>1 DEF Readable
  <2> QED
    BY <1>1, <1>2, <2>4, <2>5 DEF Readable, a
\* It drops the frame.
<1>9. CASE ~(s[1].kind = "sealed" /\ Opens(b, s[1])) /\ ~(s[1].kind = "commit" /\ Fits(b, s[1]))
  <2>1. a = b
    BY <1>2, <1>9, AcceptIs
  <2>2. ASSUME NEW x \in Nat, x >= b.epoch, x \notin O, NEW y, s[1] = GroupSealed(x, y)
        PROVE  FALSE
    <3>1. s[1].kind = "sealed" /\ s[1].epoch = x /\ 1 \in Sealed(s)
      BY <1>2, <1>6, <2>2, FrameIs
    <3>2. Opens(b, s[1])
      BY <2>2, <3>1, FirstOpens DEF Readable, Opens
    <3> QED
      BY <1>9, <3>1, <3>2
  <2>3. \A x \in Nat : x > b.epoch => NovaCommit(x) # s[1]
    <3> SUFFICES ASSUME NEW x \in Nat, x > b.epoch, NovaCommit(x) = s[1] PROVE FALSE
      OBVIOUS
    <3>1. s[1].kind = "commit" /\ s[1].epoch = x
      BY <1>2, FrameIs
    <3>2. x = b.epoch + 1
      BY <1>2, <3>1
    <3> QED
      BY <1>9, <3>1, <3>2 DEF Fits
  <2> HIDE DEF a
  <2>4. ASSUME NEW i \in Nat, NEW x \in Nat, x >= b.epoch, x \notin O, NEW n,
               Whole(s, i + 1, b, x, n)
        PROVE  Whole(r, i, b, x, n)
    BY <1>5, <2>2, <2>4 DEF Whole
  <2>5. ASSUME NEW i \in Sealed(r)
        PROVE  (r[i].epoch >= w => r[i].epoch >= b.epoch) /\ Leads(r, b, i, O)
    <3>1. (s[i + 1].epoch >= w => s[i + 1].epoch >= b.epoch) /\ Leads(s, b, i + 1, O)
      BY <1>3, <2>5 DEF Readable
    <3> QED
      BY <1>3, <1>4, <1>5, <2>3, <2>4, <2>5, <3>1 DEF Leads
  <2>6. e \notin O => Whole(r, Len(r) + 1, b, e, q)
    <3>1. e >= b.epoch
      OBVIOUS
    <3> QED
      BY <1>2, <2>4, <3>1 DEF Readable
  <2> QED
    BY <1>1, <1>2, <2>1, <2>5, <2>6 DEF Readable, a
<1> QED
  BY <1>7, <1>8, <1>9

\* What the invariants of the types say of a stream.
LEMMA StreamTyped ==
  ASSUME TypeInv, NEW c \in Conns
  PROVE  /\ stream[c] \in Seq(Frames) /\ epoch \in Nat /\ seq \in Nat
         /\ \A i \in DOMAIN stream[c] :
              /\ stream[c][i].kind \in {"commit", "sealed"}
              /\ stream[c][i].epoch \in 0 .. epoch
              /\ stream[c][i].kind = "sealed" => stream[c][i].seq \in Nat
         /\ Group(c).joined \in BOOLEAN /\ Group(c).epoch \in 0 .. epoch /\ Group(c).next \in Nat
         /\ client[c].epoch \in 0 .. epoch /\ client[c].next \in Nat
         /\ welcome[c] \in 0 .. epoch
<1>1. /\ stream[c] \in Seq(Frames) /\ epoch \in Nat /\ seq \in Nat
      /\ StreamOK(stream[c]) /\ welcome[c] \in 0 .. epoch /\ client[c] \in Browser(epoch)
  BY DEF TypeInv, Types, Browser
<1>2. ASSUME NEW i \in DOMAIN stream[c]
      PROVE  /\ stream[c][i].kind \in {"commit", "sealed"}
             /\ stream[c][i].epoch \in 0 .. epoch
             /\ stream[c][i].kind = "sealed" => stream[c][i].seq \in Nat
  BY <1>1 DEF StreamOK, IsCommit, IsSealed
<1>3. /\ client[c].joined \in BOOLEAN /\ client[c].epoch \in 0 .. epoch /\ client[c].next \in Nat
      /\ Joined(welcome[c], 0).joined \in BOOLEAN
      /\ Joined(welcome[c], 0).epoch \in 0 .. epoch /\ Joined(welcome[c], 0).next \in Nat
  BY <1>1, Browsers DEF Joined
<1>4. Group(c).joined \in BOOLEAN /\ Group(c).epoch \in 0 .. epoch /\ Group(c).next \in Nat
  BY <1>3 DEF Group
<1> QED
  BY <1>1, <1>2, <1>3, <1>4

\* What a session does for itself leaves it its place in its stream.
LEMMA LocalFrames ==
  ASSUME TypeInv, SealInv, NEW c \in Conns, Local(c), Moves(c)
  PROVE  SealInv'
<1>1. UNCHANGED <<epoch, seq, overtaken>>
  BY DEF Local
<1>2. Fresh'
  BY <1>1 DEF SealInv, Fresh, Moves, Begins, Renders, Closes, Answered, Ends
<1>3. ASSUME NEW d \in Conns \ {c}, pc'[d] \in Running PROVE FramesOK(d)'
  <2>1. UNCHANGED <<pc[d], stream[d], client[d], welcome[d]>>
    BY DEF Local
  <2>2. FramesOK(d) /\ Group(d)' = Group(d)
    BY <1>3, <2>1 DEF SealInv, Subscribed, Group
  <2> QED
    BY <1>1, <2>1, <2>2 DEF FramesOK
<1>4. ASSUME pc'[c] \in Running PROVE FramesOK(c)'
  <2>1. CASE Begins(c)
    <3>1. stream'[c] = <<>> /\ ~client'[c].joined /\ pc'[c] = "in"
      BY <2>1 DEF Begins, TypeInv, Unconnected, Quiet, Running
    <3> QED
      BY <3>1 DEF FramesOK, Sequential, Sealed, Group
  <2>2. CASE Renders(c) \/ Answered(c)
    <3>1. FramesOK(c) /\ UNCHANGED <<stream, welcome>>
      BY <2>2 DEF Renders, Answered, SealInv, Subscribed, Running
    <3>2. Group(c)' = Group(c)
      BY <2>2 DEF Renders, Answered, Group
    <3> QED
      BY <1>1, <3>1, <3>2 DEF FramesOK
  <2> QED
    BY <1>4, <2>1, <2>2 DEF Moves, Closes, Ends, Running
<1> QED
  BY <1>2, <1>3, <1>4 DEF SealInv, Subscribed

\* A commit that is made begins an epoch.
LEMMA ProposeFrames ==
  ASSUME TypeInv, SealInv, NEW c \in Conns, ProposeAdd(c) \/ ProposeRemove(c)
  PROVE  SealInv'
<1>1. /\ UNCHANGED <<stream, client, welcome, overtaken>>
      /\ epoch' = epoch + 1 /\ seq' = 0
  BY DEF ProposeAdd, ProposeRemove, Commit, own, wire
<1>2. \A d \in Conns : /\ pc'[d] \in Running => pc[d] \in Running
                       /\ pc'[d] = "owed" <=> pc[d] = "owed"
  BY DEF ProposeAdd, ProposeRemove, Goto, TypeInv, Types, Running
<1>3. ASSUME NEW d \in Conns, pc'[d] \in Running PROVE FramesOK(d)'
  <2>1. FramesOK(d) /\ Group(d)' = Group(d)
    BY <1>1, <1>2, <1>3 DEF SealInv, Subscribed, Group
  <2>2. \A i \in Sealed(stream[d]) : stream[d][i].epoch \in Nat /\ stream[d][i].epoch <= epoch
    BY StreamTyped DEF Sealed
  <2>3. Sequential(stream[d], epoch + 1, 0)
    BY <2>1, <2>2, StreamTyped, FreshEpoch DEF FramesOK
  <2>4. Group(d).joined =>
          Readable(stream[d], Group(d), welcome[d], epoch + 1, 0, overtaken)
    BY <2>1, <2>2, StreamTyped, FreshEpoch DEF FramesOK
  <2> QED
    BY <1>1, <2>1, <2>3, <2>4 DEF FramesOK
<1> QED
  BY <1>1, <1>3 DEF SealInv, Fresh, Subscribed

\* The welcome is to an epoch in which nothing is sealed yet.
LEMMA PublishFrames ==
  ASSUME TypeInv, SealInv, NEW c \in Conns, PublishAdd(c) \/ PublishRemove(c)
  PROVE  SealInv'
<1>1. /\ UNCHANGED <<epoch, seq, stream, client, overtaken>>
      /\ holder = c /\ holder' = NoOne
  BY DEF PublishAdd, PublishRemove, TypeInv, Locks
<1>2. seq = 0
  BY <1>1, Constants DEF SealInv, Fresh
<1>3. ASSUME NEW d \in Conns, pc'[d] \in Running PROVE FramesOK(d)'
  <2>1. pc[d] \in Running /\ (d # c => pc'[d] = pc[d] /\ welcome'[d] = welcome[d])
        /\ (d = c => PublishAdd(c) /\ pc'[c] = "owed" /\ welcome'[c] = epoch)
    BY <1>3 DEF PublishAdd, PublishRemove, Goto, TypeInv, Types, Running, own
  <2>2. FramesOK(d)
    BY <2>1 DEF SealInv, Subscribed
  <2>3. CASE d # c
    BY <1>1, <2>1, <2>2, <2>3 DEF FramesOK, Group
  <2>4. CASE d = c
    <3>1. Group(c)' = Joined(epoch, 0)
      BY <1>1, <2>1, <2>4 DEF Group
    <3>2. \A i \in Sealed(stream[c]) : /\ stream[c][i].epoch \in Nat
                                       /\ stream[c][i].epoch <= epoch
                                       /\ stream[c][i].seq \in Nat
      BY StreamTyped DEF Sealed
    <3>3. Readable(stream[c], Joined(epoch, 0), epoch, epoch, 0, overtaken)
      BY <1>2, <2>2, <2>4, <3>2, StreamTyped, FreshEpoch DEF FramesOK
    <3> QED
      BY <1>1, <1>2, <2>1, <2>2, <2>4, <3>1, <3>3 DEF FramesOK
  <2> QED
    BY <2>3, <2>4
<1> QED
  BY <1>1, <1>3 DEF SealInv, Fresh, Subscribed

\* A commit that is passed on is before all that is sealed after it.
LEMMA RelayFrames ==
  ASSUME TypeInv, SealInv, Relay
  PROVE  SealInv'
<1>1. UNCHANGED <<pc, epoch, seq, holder, welcome, client, overtaken>>
  BY DEF Relay, group, own
<1>2. ASSUME NEW c \in Subscribed PROVE FramesOK(c)'
  <2>1. FramesOK(c) /\ Group(c)' = Group(c)
    BY <1>1, <1>2 DEF SealInv, Group
  <2>2. CASE stream' = stream
    BY <1>1, <2>1, <2>2 DEF FramesOK
  <2>3. CASE Head(plain) # App /\ Broadcast(Head(plain))
    <3>1. Head(plain) \in Frames /\ Head(plain).kind # "sealed"
      BY <2>3, PlainTail DEF Relay, TypeInv, Types, IsCommit
    <3>2. stream'[c] = Append(stream[c], Head(plain)) /\ c \in Conns
      BY <1>2, <2>3 DEF Broadcast, Subscribed
    <3>3. Since(Group(c), epoch) \in Nat
      BY <3>2, StreamTyped DEF Since
    <3>4. Sequential(stream'[c], epoch, seq)
      BY <2>1, <3>1, <3>2, StreamTyped, OtherFrame DEF FramesOK
    <3>5. Group(c).joined =>
            Readable(stream'[c], Group(c), welcome[c], epoch, seq, overtaken)
      BY <2>1, <3>1, <3>2, <3>3, StreamTyped, OtherFrame DEF FramesOK
    <3> QED
      BY <1>1, <2>1, <3>4, <3>5 DEF FramesOK
  <2> QED
    BY <2>2, <2>3 DEF Relay
<1> QED
  BY <1>1, <1>2 DEF SealInv, Fresh, Subscribed

\* A frame sealed while no commit waits in the channel is after the commit to its
\* epoch, which has been passed on to whoever has not reached it.
LEMMA SealFrames ==
  ASSUME TypeInv, CommitInv, SealInv, Seal
  PROVE  SealInv'
<1>1. /\ UNCHANGED <<pc, epoch, holder, welcome, client, plain>>
      /\ holder = NoOne /\ seq' = seq + 1
      /\ Broadcast(GroupSealed(epoch, seq))
      /\ overtaken \subseteq overtaken'
      /\ epoch \notin overtaken' => CommitEpochs(plain) = {}
  BY DEF Seal, own, GroupFree
<1>2. ASSUME NEW c \in Subscribed PROVE FramesOK(c)'
  <2> DEFINE b == Group(c)
  <2>1. FramesOK(c) /\ WayOK(c) /\ b' = b /\ c \in Conns
    BY <1>1, <1>2 DEF SealInv, CommitInv, Group, Subscribed
  <2>2. stream'[c] = Append(stream[c], GroupSealed(epoch, seq))
    BY <1>1, <1>2 DEF Broadcast, Subscribed
  <2>3. /\ stream[c] \in Seq(Frames) /\ epoch \in Nat /\ seq \in Nat
        /\ \A i \in DOMAIN stream[c] : stream[c][i].kind = "commit" => stream[c][i].epoch <= epoch
        /\ Since(b, epoch) \in Nat /\ b.epoch \in Nat /\ b.epoch <= epoch
    <3>1. b.epoch \in 0 .. epoch /\ b.next \in Nat
      BY <2>1, StreamTyped
    <3> QED
      BY <2>1, <3>1, StreamTyped DEF Since
  <2>4. ASSUME b.joined, epoch \notin overtaken', b.epoch < epoch
        PROVE  Precedes(stream[c], Len(stream[c]) + 1, NovaCommit(epoch))
    <3>1. Due(b.epoch + 1, epoch, CommitEpochs(stream[c]))
      <4>1. Published = epoch /\ CommitEpochs(plain) = {}
        BY <1>1, <2>4 DEF Published, GroupFree
      <4>2. pc[c] = "owed" => b.epoch = welcome[c]
        BY DEF Group, Joined
      <4>3. pc[c] # "owed" => b = client[c]
        BY DEF Group
      <4> HIDE DEF b
      <4> QED
        BY <2>1, <2>4, <4>1, <4>2, <4>3 DEF WayOK, Due
    <3>2. epoch \in CommitEpochs(stream[c])
      BY <2>3, <2>4, <3>1 DEF Due
    <3>3. PICK i \in DOMAIN stream[c] :
            stream[c][i].kind = "commit" /\ stream[c][i].epoch = epoch
      BY <3>2, CommitsOf
    <3>4. stream[c][i] = NovaCommit(epoch) /\ i < Len(stream[c]) + 1
      <4>1. stream[c][i] \in Frames /\ i < Len(stream[c]) + 1
        BY <2>3
      <4> QED
        BY <3>3, <4>1, FrameIs
    <3> QED
      BY <3>3, <3>4 DEF Precedes
  <2> HIDE DEF b
  <2>5. Sequential(stream'[c], epoch, seq + 1)
    BY <2>1, <2>2, <2>3, SealedFrame DEF FramesOK
  <2>6. b.joined => Readable(stream'[c], b, welcome[c], epoch, seq + 1, overtaken')
    <3>1. b.joined => Readable(stream[c], b, welcome[c], epoch, seq, overtaken)
      BY <2>1 DEF FramesOK, b
    <3> QED
      BY <1>1, <2>2, <2>3, <2>4, <3>1, SealedFrame
  <2>7. Group(c)' = b
    BY <2>1 DEF b
  <2> QED
    BY <1>1, <2>5, <2>6, <2>7 DEF FramesOK
<1> QED
  BY <1>1, <1>2 DEF SealInv, Fresh, Subscribed

\* No commit that reaches a browser is beyond the one it waits for.
LEMMA NoCommitBeyond ==
  ASSUME TypeInv, CommitInv, NEW c \in Subscribed, client[c].joined, stream[c] # <<>>,
         Head(stream[c]).kind = "commit"
  PROVE  Head(stream[c]).epoch <= client[c].epoch + 1
<1> DEFINE f == Head(stream[c])
           n == client[c].epoch + 1
           S == CommitEpochs(Tail(stream[c]))
           P == CommitEpochs(plain)
<1>1. WayOK(c) /\ stream[c] \in Seq(Frames) /\ c \in Conns
  BY CommitsTyped DEF CommitInv, Subscribed
<1>2. EpochOf(f) = {f.epoch}
  BY DEF EpochOf
<1>3. CommitEpochs(stream[c]) = {f.epoch} \cup S /\ \A y \in S : f.epoch < y
  BY <1>1, <1>2, CommitsTail DEF WayOK
<1>4. /\ f.epoch <= Published /\ Due(n, Published, ({f.epoch} \cup S) \cup P)
      /\ \A y \in P : f.epoch < y
  BY <1>1, <1>3 DEF WayOK, Before
<1>5. f.epoch \in Nat /\ n \in Nat /\ Published \in Int /\ S \cup P \subseteq Nat
  <2>1. /\ {f.epoch} \cup S \subseteq 1 .. epoch /\ P \subseteq 1 .. epoch
        /\ client[c].epoch \in Nat /\ Published \in Int /\ epoch \in Nat
    BY <1>1, <1>3, CommitsTyped
  <2>2. 1 .. epoch \subseteq Nat
    BY <2>1
  <2>3. f.epoch \in 1 .. epoch /\ S \subseteq 1 .. epoch
    BY <2>1
  <2> HIDE DEF f, S, P
  <2>4. f.epoch \in Nat /\ S \cup P \subseteq Nat
    BY <2>1, <2>2, <2>3
  <2> QED
    BY <2>1, <2>4
<1> HIDE DEF f, n, S, P
<1>6. ASSUME n < f.epoch PROVE FALSE
  <2>1. n \in n .. Published
    BY <1>4, <1>5, <1>6
  <2>2. n = f.epoch \/ n \in S \/ n \in P
    BY <1>4, <2>1 DEF Due
  <2> QED
    BY <1>3, <1>4, <1>5, <1>6, <2>2
<1> QED
  BY <1>5, <1>6 DEF f, n

\* A session forwards a frame, and its browser takes it or drops it.
LEMMA ForwardFrames ==
  ASSUME TypeInv, CommitInv, SealInv, NEW c \in Conns, Forward(c)
  PROVE  SealInv'
<1> DEFINE f == Head(stream[c])
           b == client[c]
<1>1. /\ pc[c] \in Running /\ pc[c] # "owed" /\ stream[c] # <<>>
      /\ client' = [client EXCEPT ![c] = Accept(b, f)]
      /\ stream' = [stream EXCEPT ![c] = Tail(stream[c])]
      /\ UNCHANGED <<pc, epoch, seq, holder, welcome, overtaken>>
  BY DEF Forward, group, own
<1>2. FramesOK(c) /\ Group(c) = b /\ Group(c)' = client'[c] /\ c \in Subscribed
  BY <1>1 DEF SealInv, Group, Subscribed
<1>3. stream'[c] = Tail(stream[c]) /\ client'[c] = Accept(b, f)
  BY <1>1 DEF TypeInv, Types
<1>4. /\ stream[c] \in Seq(Frames) /\ epoch \in Nat /\ seq \in Nat
      /\ b.epoch \in 0 .. epoch /\ b.next \in Nat /\ welcome[c] \in Nat
      /\ f.kind \in {"commit", "sealed"} /\ f.epoch \in 0 .. epoch
  <2>1. 1 \in DOMAIN stream[c] /\ f = stream[c][1] /\ stream[c] \in Seq(Frames)
    BY <1>1, StreamTyped
  <2>2. f.kind \in {"commit", "sealed"} /\ f.epoch \in 0 .. epoch
    BY <2>1, StreamTyped
  <2>3. epoch \in Nat /\ seq \in Nat /\ welcome[c] \in 0 .. epoch
        /\ b.epoch \in 0 .. epoch /\ b.next \in Nat
    BY StreamTyped
  <2> QED
    BY <2>1, <2>2, <2>3
<1>5. b.joined /\ f.kind = "commit" => f.epoch <= b.epoch + 1
  BY <1>1, <1>2, NoCommitBeyond
<1>6. ~b.joined => ~Accept(b, f).joined
  BY AcceptIs DEF Fits, Opens
<1> HIDE DEF f
<1>7. FramesOK(c)'
  <2>1. Sequential(stream'[c], epoch, seq)
    BY <1>1, <1>2, <1>3, <1>4, SequentialTail DEF FramesOK
  <2>2. b.joined => Readable(stream'[c], client'[c], welcome[c], epoch, seq, overtaken)
    <3>1. b.joined => Readable(stream[c], b, welcome[c], epoch, seq, overtaken)
      BY <1>2 DEF FramesOK
    <3>2. Sequential(stream[c], epoch, seq)
      BY <1>2 DEF FramesOK
    <3> HIDE DEF b
    <3> QED
      BY <1>1, <1>3, <1>4, <1>5, <3>1, <3>2, ReadsOn DEF f
  <2> QED
    BY <1>1, <1>2, <1>3, <1>6, <2>1, <2>2 DEF FramesOK
<1>8. ASSUME NEW d \in Conns \ {c}, pc[d] \in Running PROVE FramesOK(d)'
  <2>1. UNCHANGED <<pc[d], stream[d], client[d], welcome[d]>>
    BY <1>1 DEF TypeInv, Types
  <2>2. FramesOK(d) /\ Group(d)' = Group(d)
    BY <1>8, <2>1 DEF SealInv, Subscribed, Group
  <2> QED
    BY <1>1, <2>1, <2>2 DEF FramesOK
<1> QED
  BY <1>1, <1>2, <1>7, <1>8 DEF SealInv, Fresh, Subscribed

\* Every step keeps the frames readable.
LEMMA SealStep ==
  ASSUME TypeInv, CommitInv, SealInv, [Next]_vars
  PROVE  SealInv'
<1>1. CASE UNCHANGED vars
  BY <1>1 DEF vars, SealInv, Fresh, FramesOK, Group, Subscribed
<1>2. CASE Relay \/ Seal
  BY <1>2, RelayFrames, SealFrames
<1>3. ASSUME NEW c \in Conns, Session(c) PROVE SealInv'
  <2>1. CASE \/ Connect(c) \/ StartRender(c) \/ FinishRender(c)
             \/ EndSession(c) \/ CleanupUser(c) \/ SendWelcome(c)
    BY <2>1, SessionMoves, LocalFrames
  <2> QED
    BY <1>3, <2>1, ProposeFrames, PublishFrames, ForwardFrames DEF Session
<1> QED
  BY <1>1, <1>2, <1>3 DEF Next

\* A browser that has not been welcomed has not joined.
Unwelcomed == \A c \in Conns :
    slot[c] = 0 \/ pc[c] \in {"adding", "owed"} => ~client[c].joined

\* It joins when its welcome goes out, and in no other step.
LEMMA UnwelcomedStep ==
  ASSUME TypeInv, Unwelcomed, [Next]_vars
  PROVE  Unwelcomed'
<1>1. CASE UNCHANGED vars
  BY <1>1 DEF vars, Unwelcomed
<1>2. CASE Relay \/ Seal
  BY <1>2 DEF Relay, Seal, own, Unwelcomed
<1>3. ASSUME NEW c \in Conns, Session(c) PROVE Unwelcomed'
  <2>1. CASE \/ Connect(c) \/ StartRender(c) \/ FinishRender(c)
             \/ EndSession(c) \/ CleanupUser(c) \/ SendWelcome(c)
    <3>1. Local(c) /\ Moves(c) /\ ~AwaitingJoin.joined
      BY <2>1, SessionMoves DEF AwaitingJoin
    <3>2. pc[c] = "owed" => slot[c] # 0
      BY DEF TypeInv, Places, Place
    <3> QED
      BY <3>1, <3>2 DEF Local, Moves, Begins, Renders, Closes, Answered, Ends, Unwelcomed
  <2>2. CASE ProposeAdd(c) \/ ProposeRemove(c)
    BY <2>2 DEF ProposeAdd, ProposeRemove, Goto, own, wire, Unwelcomed, TypeInv, Types
  <2>3. CASE PublishAdd(c) \/ PublishRemove(c)
    <3>1. /\ client' = client /\ \A d \in Conns \ {c} : pc'[d] = pc[d] /\ slot'[d] = slot[d]
          /\ pc[c] = "adding" \/ (pc'[c] = "closing" /\ slot' = slot)
      BY <2>3 DEF PublishAdd, PublishRemove, Goto, own, TypeInv, Types
    <3> QED
      BY <3>1 DEF Unwelcomed
  <2>4. CASE Forward(c)
    <3>1. /\ UNCHANGED <<pc, slot>>
          /\ client' = [client EXCEPT ![c] = Accept(client[c], Head(stream[c]))]
      BY <2>4 DEF Forward, own
    <3>2. ~client[c].joined => Accept(client[c], Head(stream[c])) = client[c]
      BY AcceptIs DEF Fits, Opens
    <3> QED
      BY <3>1, <3>2 DEF Unwelcomed, TypeInv, Types
  <2> QED
    BY <1>3, <2>1, <2>2, <2>3, <2>4 DEF Session
<1> QED
  BY <1>1, <1>2, <1>3 DEF Next

\* So the frame that reaches a member is the one it can open.
LEMMA FramesFit ==
  ASSUME TypeInv, SealInv, Unwelcomed
  PROVE  FramesOpen
<1> SUFFICES ASSUME NEW c \in Subscribed, SealedFor(c), Head(stream[c]).epoch \notin overtaken
             PROVE  Opens(client[c], Head(stream[c]))
  BY DEF FramesOpen
<1>1. FramesOK(c) /\ c \in Conns /\ client[c].joined
  BY DEF SealInv, Subscribed, SealedFor
<1>2. /\ stream[c] \in Seq(Frames) /\ Head(stream[c]) = stream[c][1] /\ 1 \in DOMAIN stream[c]
      /\ 1 \in Sealed(stream[c]) /\ stream[c][1].epoch >= welcome[c]
  BY <1>1, StreamTyped DEF SealedFor, Sealed
<1>3. client[c].epoch \in Nat /\ client[c].next \in Nat
  BY <1>1, CommitsTyped, StreamTyped
<1>4. Readable(stream[c], client[c], welcome[c], epoch, seq, overtaken)
  BY <1>1 DEF FramesOK, Group, Unwelcomed
<1>5. Leads(stream[c], client[c], 1, overtaken) /\ stream[c][1].epoch >= client[c].epoch
  BY <1>2, <1>4 DEF Readable
<1> QED
  BY <1>1, <1>2, <1>3, <1>5, FirstOpens DEF Opens

\* A member opens every frame sealed since it was added, whichever joins, welcomes
\* and departures overlap, of any epoch in which no frame was sealed while a commit
\* waited in the channel, if no join is abandoned at its wait for the room lock
\* (session/nova.rs, run_seal_loop; nova-wasm, Group::open).
THEOREM MembersOpenFrames ==
  ASSUME Cancels = FALSE
  PROVE  Spec => []FramesOpen
<1>1. Init => CommitInv /\ SealInv /\ Unwelcomed
  BY CommitsNone DEF Init, CommitInv, PlainCommits, SealInv, Fresh, Subscribed, Running,
                     Unwelcomed, AwaitingJoin
<1>2. TypeInv /\ CommitInv /\ SealInv /\ Unwelcomed /\ [Next]_vars
        => CommitInv' /\ SealInv' /\ Unwelcomed'
  BY CommitStep, SealStep, UnwelcomedStep
<1>3. TypeInv /\ SealInv /\ Unwelcomed => FramesOpen
  BY FramesFit
<1> QED
  BY <1>1, <1>2, <1>3, TypeInvariant, PTL DEF Spec
=============================================================================
