--------------------------- MODULE RoomStreamProofs ---------------------------
(***************************************************************************)
(* RoomStream implements Mailboxes, and a panel that was answered shows    *)
(* whoever arrived and no one who is not Connected, for any users,         *)
(* channel, socket buffer and length of the log.                           *)
(*                                                                         *)
(* What a user is owed is in three places: the history still to be sent,   *)
(* the frames on their way, and those still in the channel. The places     *)
(* follow one another without overlap (Ordered): that is what makes the    *)
(* next frame to arrive the least of those owed, and what a session that   *)
(* ends has sent a beginning of them.                                      *)
(*                                                                         *)
(* A set of names, the page's or a roster's on its way, fits every user of *)
(* whom nothing that comes after it tells (Right): it has whoever arrived, *)
(* and no one who is not Connected (Fits). A roster still to be sent fits  *)
(* those of whom nothing tells that was said since it was read (Snapshot). *)
(* An admission, which tells of no one, only adds to those Connected. The  *)
(* last word on a user says whether they are there (LastWord), and what    *)
(* tells of one is never passed over (Whole).                              *)
(***************************************************************************)
EXTENDS RoomStream, TLAPS

LEMMA Constants ==
  Watchers \subseteq Users /\ Capacity \in Nat \ {0} /\ Buffer \in Nat
  /\ MaxLog \in Nat /\ MaxAsked \in Nat
  BY StreamAssumption

\* A queue on its way to a page, and the frames of a log of n that it carries.
Flying(q, n) == {p \in 1 .. n : \E i \in DOMAIN q : q[i] = Frame(p)}

InRange(q, n) == \A i \in DOMAIN q : q[i].kind = "frame" => q[i].pos \in 1 .. n

Rising(q) ==
    \A i, j \in DOMAIN q :
        i < j /\ q[i].kind = "frame" /\ q[j].kind = "frame" => q[i].pos < q[j].pos

LEMMA IsFrame ==
  ASSUME NEW e \in Items
  PROVE  /\ e.kind = "frame" => e.pos \in Nat /\ e = Frame(e.pos)
         /\ \A p : e = Frame(p) => e.kind = "frame" /\ e.pos = p
  BY DEF Items, Frame

LEMMA NothingFlies ==
  ASSUME NEW n \in Nat
  PROVE  Flying(<<>>, n) = {} /\ InRange(<<>>, n) /\ Rising(<<>>)
  BY DEF Flying, InRange, Rising

\* What a queue carries is what its frames say.
LEMMA FlyingIs ==
  ASSUME NEW q \in Seq(Items), NEW n \in Nat, InRange(q, n)
  PROVE  \A p : p \in Flying(q, n) <=> \E i \in DOMAIN q : q[i].kind = "frame" /\ q[i].pos = p
<1>1. \A i \in DOMAIN q : q[i] \in Items
  OBVIOUS
<1>2. ASSUME NEW p \in Flying(q, n)
      PROVE  \E i \in DOMAIN q : q[i].kind = "frame" /\ q[i].pos = p
  BY <1>1, IsFrame DEF Flying
<1>3. ASSUME NEW p, NEW i \in DOMAIN q, q[i].kind = "frame", q[i].pos = p
      PROVE  p \in Flying(q, n)
  BY <1>1, <1>3, IsFrame DEF Flying, InRange
<1> QED
  BY <1>2, <1>3

\* The log grows: what is on its way stays what it is.
LEMMA LogGrows ==
  ASSUME NEW q \in Seq(Items), NEW n \in Nat, InRange(q, n)
  PROVE  InRange(q, n + 1) /\ Flying(q, n + 1) = Flying(q, n)
<1>1. InRange(q, n + 1)
  BY DEF InRange
<1>2. \A p : p \in Flying(q, n + 1) <=> p \in Flying(q, n)
  BY <1>1, FlyingIs
<1> QED
  BY <1>1, <1>2

LEMMA AppendAt ==
  ASSUME NEW q \in Seq(Items), NEW e \in Items
  PROVE  /\ Append(q, e) \in Seq(Items)
         /\ DOMAIN Append(q, e) = DOMAIN q \cup {Len(q) + 1}
         /\ Len(q) + 1 \notin DOMAIN q
         /\ \A i \in DOMAIN q : i \in Nat /\ i < Len(q) + 1
         /\ Append(q, e)[Len(q) + 1] = e
         /\ \A i \in DOMAIN q : Append(q, e)[i] = q[i]
  OBVIOUS

\* A frame past all those in the queue is added at its end.
LEMMA AppendFrame ==
  ASSUME NEW q \in Seq(Items), NEW n \in Nat, InRange(q, n), Rising(q),
         NEW p \in 1 .. n, \A x \in Flying(q, n) : x < p
  PROVE  /\ Append(q, Frame(p)) \in Seq(Items)
         /\ InRange(Append(q, Frame(p)), n) /\ Rising(Append(q, Frame(p)))
         /\ Flying(Append(q, Frame(p)), n) = Flying(q, n) \cup {p}
<1>1. PICK e : e = Frame(p)
  OBVIOUS
<1>2. e \in Items /\ e.kind = "frame" /\ e.pos = p
  BY <1>1 DEF Frame, Items
<1>3. PICK r : r = Append(q, e)
  OBVIOUS
<1>4. PICK m : m = Len(q) + 1
  OBVIOUS
<1>5. /\ r \in Seq(Items) /\ DOMAIN r = DOMAIN q \cup {m} /\ m \notin DOMAIN q
      /\ \A i \in DOMAIN q : i \in Nat /\ i < m /\ r[i] = q[i]
      /\ r[m] = e /\ m \in Nat
  BY <1>2, <1>3, <1>4, AppendAt
<1>6. InRange(r, n)
  BY <1>2, <1>5 DEF InRange
<1>7. \A x : x \in Flying(r, n) <=> x \in Flying(q, n) \/ x = p
  BY <1>2, <1>5, <1>6, FlyingIs
<1>8. Rising(r)
  <2> SUFFICES ASSUME NEW i \in DOMAIN r, NEW j \in DOMAIN r, i < j,
                      r[i].kind = "frame", r[j].kind = "frame"
               PROVE  r[i].pos < r[j].pos
    BY DEF Rising
  <2>1. i \in DOMAIN q
    BY <1>5
  <2>2. CASE j \in DOMAIN q
    BY <1>5, <2>1, <2>2 DEF Rising
  <2>3. CASE j = m
    <3>1. r[i].pos \in Flying(q, n)
      BY <1>5, <2>1, FlyingIs
    <3> QED
      BY <1>2, <1>5, <2>3, <3>1
  <2> QED
    BY <1>5, <2>2, <2>3
<1>9. Flying(r, n) = Flying(q, n) \cup {p}
  BY <1>7
<1> QED
  BY <1>1, <1>3, <1>5, <1>6, <1>8, <1>9

\* A roster changes nothing of the frames.
LEMMA AppendRoster ==
  ASSUME NEW q \in Seq(Items), NEW n \in Nat, InRange(q, n), Rising(q),
         NEW users \in SUBSET Users
  PROVE  /\ Append(q, Roster(users)) \in Seq(Items)
         /\ InRange(Append(q, Roster(users)), n) /\ Rising(Append(q, Roster(users)))
         /\ Flying(Append(q, Roster(users)), n) = Flying(q, n)
<1>1. PICK e : e = Roster(users)
  OBVIOUS
<1>2. e \in Items /\ e.kind = "roster"
  BY <1>1 DEF Roster, Items
<1>3. PICK r : r = Append(q, e)
  OBVIOUS
<1>4. PICK m : m = Len(q) + 1
  OBVIOUS
<1>5. /\ r \in Seq(Items) /\ DOMAIN r = DOMAIN q \cup {m}
      /\ \A i \in DOMAIN q : r[i] = q[i]
      /\ r[m] = e
  BY <1>2, <1>3, <1>4, AppendAt
<1>6. \A i \in DOMAIN r : r[i].kind = "frame" => i \in DOMAIN q /\ r[i] = q[i]
  BY <1>2, <1>5
<1>7. InRange(r, n) /\ Rising(r)
  BY <1>6 DEF InRange, Rising
<1>8. \A x : x \in Flying(r, n) <=> x \in Flying(q, n)
  BY <1>5, <1>6, <1>7, FlyingIs
<1>9. Flying(r, n) = Flying(q, n)
  BY <1>8
<1> QED
  BY <1>1, <1>3, <1>5, <1>7, <1>9

LEMMA TailAt ==
  ASSUME NEW q \in Seq(Items), q # <<>>
  PROVE  /\ Tail(q) \in Seq(Items) /\ Head(q) \in Items
         /\ Head(q) = q[1] /\ 1 \in DOMAIN q
         /\ \A i \in DOMAIN Tail(q) : i \in Nat \ {0} /\ i + 1 \in DOMAIN q /\ Tail(q)[i] = q[i + 1]
         /\ \A i \in DOMAIN q : i \in Nat /\ (i # 1 => i - 1 \in DOMAIN Tail(q) /\ Tail(q)[i - 1] = q[i])
  OBVIOUS

\* What is taken first is the least of what the queue carries.
LEMMA TakeHead ==
  ASSUME NEW q \in Seq(Items), NEW n \in Nat, InRange(q, n), Rising(q), q # <<>>
  PROVE  /\ Tail(q) \in Seq(Items) /\ Head(q) \in Items
         /\ InRange(Tail(q), n) /\ Rising(Tail(q))
         /\ Head(q).kind # "frame" => Flying(Tail(q), n) = Flying(q, n)
         /\ Head(q).kind = "frame" =>
              /\ Head(q).pos \in 1 .. n /\ Head(q).pos \in Flying(q, n)
              /\ \A x \in Flying(q, n) : Head(q).pos <= x
              /\ Flying(Tail(q), n) = Flying(q, n) \ {Head(q).pos}
<1>1. PICK e : e = Head(q)
  OBVIOUS
<1>2. PICK r : r = Tail(q)
  OBVIOUS
<1>3. /\ r \in Seq(Items) /\ e \in Items /\ e = q[1] /\ 1 \in DOMAIN q
      /\ \A i \in DOMAIN r : i \in Nat \ {0} /\ i + 1 \in DOMAIN q /\ r[i] = q[i + 1]
      /\ \A i \in DOMAIN q : i \in Nat /\ (i # 1 => i - 1 \in DOMAIN r /\ r[i - 1] = q[i])
  BY <1>1, <1>2, TailAt
<1>4. InRange(r, n)
  BY <1>3 DEF InRange
<1>5. Rising(r)
  <2> SUFFICES ASSUME NEW i \in DOMAIN r, NEW j \in DOMAIN r, i < j,
                      r[i].kind = "frame", r[j].kind = "frame"
               PROVE  r[i].pos < r[j].pos
    BY DEF Rising
  <2>1. i + 1 \in DOMAIN q /\ j + 1 \in DOMAIN q /\ i + 1 < j + 1
    BY <1>3
  <2> QED
    BY <1>3, <2>1 DEF Rising
<1>6. \A x : x \in Flying(q, n) <=>
               \/ x \in Flying(r, n)
               \/ e.kind = "frame" /\ x = e.pos
  <2>1. ASSUME NEW i \in DOMAIN r, r[i].kind = "frame" PROVE r[i].pos \in Flying(q, n)
    BY <1>3, <2>1, FlyingIs
  <2>2. ASSUME NEW i \in DOMAIN q, q[i].kind = "frame", i # 1 PROVE q[i].pos \in Flying(r, n)
    <3>1. PICK j \in DOMAIN r : r[j] = q[i]
      BY <1>3, <2>2
    <3>2. r[j].kind = "frame" /\ r[j].pos = q[i].pos
      BY <2>2, <3>1
    <3>3. \A p : p \in Flying(r, n) <=> \E k \in DOMAIN r : r[k].kind = "frame" /\ r[k].pos = p
      BY <1>3, <1>4, FlyingIs
    <3> QED
      BY <3>1, <3>2, <3>3, Zenon
  <2>3. e.kind = "frame" => e.pos \in Flying(q, n)
    BY <1>3, FlyingIs
  <2>4. ASSUME NEW x \in Flying(q, n) PROVE x \in Flying(r, n) \/ (e.kind = "frame" /\ x = e.pos)
    <3>1. PICK i \in DOMAIN q : q[i].kind = "frame" /\ q[i].pos = x
      BY FlyingIs
    <3> QED
      BY <1>3, <2>2, <3>1
  <2>5. ASSUME NEW x \in Flying(r, n) PROVE x \in Flying(q, n)
    <3>1. PICK i \in DOMAIN r : r[i].kind = "frame" /\ r[i].pos = x
      BY <1>3, <1>4, FlyingIs
    <3> QED
      BY <2>1, <3>1
  <2> QED
    BY <2>3, <2>4, <2>5
<1>7. ASSUME e.kind = "frame", NEW x \in Flying(r, n) PROVE e.pos < x
  <2>1. PICK i \in DOMAIN r : r[i].kind = "frame" /\ r[i].pos = x
    BY <1>3, <1>4, FlyingIs
  <2>2. i + 1 \in DOMAIN q /\ 1 < i + 1 /\ q[i + 1] = r[i]
    BY <1>3
  <2> QED
    BY <1>3, <1>7, <2>1, <2>2 DEF Rising
<1>8. e.kind = "frame" => e.pos \in 1 .. n
  BY <1>3 DEF InRange
<1>9. \A x \in Flying(r, n) : x \in Nat
  BY DEF Flying
<1>10. ~ (e.kind = "frame") => Flying(r, n) = Flying(q, n)
  BY <1>6
<1>11. e.kind = "frame" =>
        /\ e.pos \in Flying(q, n)
        /\ \A x \in Flying(q, n) : e.pos <= x
        /\ Flying(r, n) = Flying(q, n) \ {e.pos}
  BY <1>6, <1>7, <1>8, <1>9
<1> QED
  BY <1>1, <1>2, <1>3, <1>4, <1>5, <1>8, <1>10, <1>11

----------------------------------------------------------------------------
\* The history to be sent comes after what is on its way, and before what the
\* receiver will take; only a replay has any. Who is only admitted has nothing on
\* its way.
Ordered(u) ==
    /\ InRange(down[u], Len(log)) /\ Rising(down[u])
    /\ \A x \in Flying(down[u], Len(log)) : x < cursor[u] /\ \A p \in backlog[u] : x < p
    /\ \A p \in backlog[u] : p < cursor[u]
    /\ stage[u] # "replay" => backlog[u] = {}
    /\ stage[u] = "admitted" => down[u] = <<>>

Inv == TypeOK /\ \A u \in Users : Ordered(u)

LEMMA InitInv == Init => Inv
<1> SUFFICES ASSUME Init PROVE Inv
  OBVIOUS
<1>1. TypeOK
  BY Constants DEF Init, TypeOK, Frames, Items
<1>2. \A u \in Users : down[u] = <<>> /\ backlog[u] = {} /\ Len(log) = 0
  BY DEF Init
<1>3. Flying(<<>>, 0) = {} /\ InRange(<<>>, 0) /\ Rising(<<>>)
  BY NothingFlies
<1> QED
  BY <1>1, <1>2, <1>3 DEF Inv, Ordered

\* The three places, before a step and after it.
Channel(serving, c, n) == IF serving THEN c .. n ELSE {}

LEMMA Places ==
  ASSUME NEW u \in Users
  PROVE  /\ Owed(u) = backlog[u] \cup Flying(down[u], Len(log))
                        \cup Channel(u \in Serving, cursor[u], Len(log))
         /\ Owed(u)' = backlog'[u] \cup Flying(down'[u], Len(log'))
                         \cup Channel(u \in Serving', cursor'[u], Len(log'))
         /\ u \in Serving <=> stage[u] \in {"replay", "live"}
         /\ u \in Serving' <=> stage'[u] \in {"replay", "live"}
<1>1. InFlight(u) = Flying(down[u], Len(log)) /\ InFlight(u)' = Flying(down'[u], Len(log'))
  BY DEF InFlight, Flying
<1>2. /\ ToForward(u) = Channel(u \in Serving, cursor[u], Len(log))
      /\ ToForward(u)' = Channel(u \in Serving', cursor'[u], Len(log'))
  BY DEF ToForward, Channel
<1>3. Owed(u) = backlog[u] \cup InFlight(u) \cup ToForward(u)
      /\ Owed(u)' = backlog'[u] \cup InFlight(u)' \cup ToForward(u)'
  BY DEF Owed
<1>4. /\ u \in Serving <=> stage[u] \in {"replay", "live"}
      /\ u \in Serving' <=> stage'[u] \in {"replay", "live"}
  BY DEF Serving
<1> QED
  BY <1>1, <1>2, <1>3, <1>4

\* A user whom a step does not touch, while the log stays or grows by a frame.
Untouched(u) ==
    /\ stage'[u] = stage[u] /\ backlog'[u] = backlog[u]
    /\ cursor'[u] = cursor[u] /\ down'[u] = down[u]

LEMMA TypesOf ==
  ASSUME Inv, NEW u \in Users
  PROVE  /\ Ordered(u) /\ Len(log) \in Nat
         /\ stage[u] \in {"out", "admitted", "replay", "live", "ended"}
         /\ backlog[u] \in SUBSET (1 .. Len(log))
         /\ cursor[u] \in 1 .. Len(log) + 1
         /\ down[u] \in Seq(Items)
  BY DEF Inv, TypeOK

LEMMA Same ==
  ASSUME Inv, NEW u \in Users, Untouched(u), Len(log') = Len(log)
  PROVE  Ordered(u)' /\ Owed(u)' = Owed(u)
<1>1. (u \in Serving') = (u \in Serving)
  BY Places DEF Untouched
<1>2. Owed(u)' = Owed(u)
  BY <1>1, Places DEF Untouched
<1>3. Ordered(u)'
  BY TypesOf DEF Untouched, Ordered
<1> QED
  BY <1>2, <1>3

LEMMA Grows ==
  ASSUME Inv, NEW u \in Users, Untouched(u), Len(log') = Len(log) + 1
  PROVE  /\ Ordered(u)'
         /\ Owed(u)' = IF u \in Serving THEN Owed(u) \cup {Len(log) + 1} ELSE Owed(u)
<1>1. PICK n \in Nat : n = Len(log)
  BY TypesOf
<1>2. InRange(down[u], n + 1) /\ Flying(down[u], n + 1) = Flying(down[u], n)
  BY <1>1, TypesOf, LogGrows DEF Ordered
<1>3. (u \in Serving') = (u \in Serving)
  BY Places DEF Untouched
<1>4. cursor[u] \in 1 .. n + 1
  BY <1>1, TypesOf
<1>5. u \in Serving => Channel(u \in Serving, cursor[u], n + 1)
                         = Channel(u \in Serving, cursor[u], n) \cup {n + 1}
  BY <1>4 DEF Channel
<1>6. u \notin Serving => Channel(u \in Serving, cursor[u], n + 1)
                            = Channel(u \in Serving, cursor[u], n)
  BY DEF Channel
<1>7. /\ Owed(u) = backlog[u] \cup Flying(down[u], n) \cup Channel(u \in Serving, cursor[u], n)
      /\ Owed(u)' = backlog[u] \cup Flying(down[u], n + 1)
                      \cup Channel(u \in Serving, cursor[u], n + 1)
  BY <1>1, <1>3, Places DEF Untouched
<1>8. Owed(u)' = IF u \in Serving THEN Owed(u) \cup {n + 1} ELSE Owed(u)
  BY <1>2, <1>5, <1>6, <1>7
<1>9. Ordered(u)'
  BY <1>1, <1>2, TypesOf DEF Untouched, Ordered
<1> QED
  BY <1>1, <1>8, <1>9

----------------------------------------------------------------------------
\* The log grows by a frame: positions stay positions.
LEMMA Positions ==
  ASSUME TypeOK, NEW e \in Frames, log' = Append(log, e)
  PROVE  /\ log' \in Seq(Frames) /\ Len(log) \in Nat /\ Len(log') = Len(log) + 1
         /\ 1 .. Len(log) \subseteq 1 .. Len(log')
         /\ Len(log) + 1 \in 1 .. Len(log')
         /\ kept \subseteq 1 .. Len(log')
         /\ backlog \in [Users -> SUBSET (1 .. Len(log'))]
         /\ cursor \in [Users -> 1 .. Len(log') + 1]
         /\ last \in [Users -> 0 .. Len(log')]
<1>1. log \in Seq(Frames) /\ Len(log) \in Nat
  BY DEF TypeOK
<1>2. log' \in Seq(Frames) /\ Len(log') = Len(log) + 1
  BY <1>1
<1>3. PICK n \in Nat : n = Len(log)
  BY <1>1
<1>4. 1 .. n \subseteq 1 .. n + 1 /\ n + 1 \in 1 .. n + 1 /\ 1 .. n + 1 \subseteq 1 .. n + 2
      /\ 0 .. n \subseteq 0 .. n + 1
  OBVIOUS
<1> QED
  BY <1>1, <1>2, <1>3, <1>4 DEF TypeOK

LEMMA QueueTypes ==
  ASSUME TypeOK, NEW u \in Users, SinkFree(u), NEW e \in Items,
         down' = [down EXCEPT ![u] = Append(@, e)]
  PROVE  down' \in [Users -> Seq(Items)] /\ \A v \in Users : Len(down'[v]) <= Buffer + 1
<1>1. down \in [Users -> Seq(Items)] /\ \A v \in Users : Len(down[v]) <= Buffer + 1
  BY DEF TypeOK
<1>2. PICK q \in Seq(Items) : q = down[u]
  BY <1>1
<1>3. Append(q, e) \in Seq(Items) /\ Len(Append(q, e)) = Len(q) + 1 /\ Len(q) <= Buffer
  BY <1>2 DEF SinkFree
<1>4. down' = [down EXCEPT ![u] = Append(q, e)]
  BY <1>1, <1>2
<1>5. Len(q) \in Nat
  OBVIOUS
<1> QED
  BY <1>1, <1>3, <1>4, <1>5, Constants

\* The reply that waits, if any, is a roster.
LEMMA ReplyTypes ==
  ASSUME TypeOK, [Next]_vars PROVE reply' \in [Users -> Seq(Replies)]
<1>1. reply \in [Users -> Seq(Replies)] /\ connected \in SUBSET Users /\ Len(log) \in Nat
  BY DEF TypeOK
<1>2. ASSUME NEW u \in Users, reply' = [reply EXCEPT ![u] = <<>>]
      PROVE  reply' \in [Users -> Seq(Replies)]
  BY <1>1, <1>2
<1>3. ASSUME NEW u \in Users, RequestRoster(u) PROVE reply' \in [Users -> Seq(Replies)]
  <2>1. PICK r : r = [users |-> connected, upto |-> Len(log)]
    OBVIOUS
  <2>2. r \in Replies
    BY <1>1, <2>1 DEF Replies
  <2>3. <<r>> \in Seq(Replies)
    BY <2>2
  <2>4. reply' = reply \/ reply' = [reply EXCEPT ![u] = <<r>>]
    BY <1>3, <2>1 DEF RequestRoster
  <2> QED
    BY <1>1, <2>3, <2>4
<1>4. ASSUME NEW u \in Users,
             \/ forward_broadcasts(u) \/ EndSession(u) \/ LoseConnection(u) \/ SendReply(u)
      PROVE  reply' = reply \/ reply' = [reply EXCEPT ![u] = <<>>]
  BY <1>4 DEF forward_broadcasts, EndSession, LoseConnection, SendReply
<1>5. ASSUME NEW u \in Users,
             \/ admit_user(u) \/ UpgradeFails(u) \/ join_room(u)
             \/ send_history(u) \/ apply_client_event(u)
             \/ cleanup_user(u) \/ toggleParticipants(u) \/ handleServerEvent(u)
      PROVE  reply' = reply
  BY <1>5 DEF admit_user, UpgradeFails, join_room, send_history, apply_client_event, cleanup_user, toggleParticipants,
              handleServerEvent
<1>6. cleanup_messages \/ UNCHANGED vars => reply' = reply
  BY DEF cleanup_messages, vars
<1> QED
  BY <1>1, <1>2, <1>3, <1>4, <1>5, <1>6 DEF Next

LEMMA RepliesAre ==
  ASSUME TypeOK, NEW u \in Users, reply[u] # <<>>
  PROVE  reply[u][1].users \in SUBSET Users
<1>1. PICK s \in Seq(Replies) : s = reply[u]
  BY DEF TypeOK
<1>2. s[1] \in Replies
  BY <1>1
<1> QED
  BY <1>1, <1>2 DEF Replies

LEMMA NextTypes ==
  ASSUME Inv, [Next]_vars PROVE TypeOK'
<1>0. TypeOK
  BY DEF Inv
<1>r. reply' \in [Users -> Seq(Replies)]
  BY <1>0, ReplyTypes
<1> USE DEF TypeOK
<1>1. ASSUME NEW u \in Users, join_room(u) PROVE TypeOK'
  <2>1. [kind |-> "joined", who |-> u] \in Frames
    BY DEF Frames
  <2>2. /\ log' \in Seq(Frames) /\ Len(log) \in Nat /\ Len(log') = Len(log) + 1
        /\ 1 .. Len(log) \subseteq 1 .. Len(log')
        /\ Len(log) + 1 \in 1 .. Len(log') + 1
        /\ kept \subseteq 1 .. Len(log')
        /\ backlog \in [Users -> SUBSET (1 .. Len(log'))]
        /\ cursor \in [Users -> 1 .. Len(log') + 1]
        /\ last \in [Users -> 0 .. Len(log')]
    <3> HIDE DEF TypeOK
    <3>1. log' = Append(log, [kind |-> "joined", who |-> u])
      BY <1>1 DEF join_room
    <3> QED
      BY <1>0, <2>1, <3>1, Positions
  <2>3. /\ backlog' \in [Users -> SUBSET (1 .. Len(log'))]
        /\ cursor' \in [Users -> 1 .. Len(log') + 1]
        /\ last' \in [Users -> 0 .. Len(log')]
    BY <1>0, <1>1, <2>2 DEF join_room
  <2>4. /\ kept' = kept /\ connected' \subseteq Users
        /\ stage' \in [Users -> {"out", "admitted", "replay", "live", "ended"}]
        /\ UNCHANGED <<down, asked, panel, roster>> /\ answered' \subseteq panel
    BY <1>0, <1>1 DEF join_room
  <2> QED
    BY <1>0, <1>r, <2>2, <2>3, <2>4
<1>2. ASSUME NEW u \in Users, send_history(u) PROVE TypeOK'
  <2>1. UNCHANGED <<log, kept, connected, cursor, asked, last, panel, roster, answered>>
    BY <1>2 DEF send_history, page
  <2>2. CASE backlog[u] = {}
    BY <1>0, <1>r, <1>2, <2>1, <2>2 DEF send_history
  <2>3. CASE backlog[u] # {}
    <3>1. PICK p \in backlog[u] : /\ backlog' = [backlog EXCEPT ![u] = @ \ {p}]
                                  /\ down' = [down EXCEPT ![u] = Append(@, Frame(p))]
                                  /\ stage' = stage
      BY <1>2, <2>3 DEF send_history
    <3>2. Frame(p) \in Items
      <4>1. p \in 1 .. Len(log) /\ Len(log) \in Nat
        BY <1>0
      <4> QED
        BY <4>1 DEF Frame, Items
    <3>3. down' \in [Users -> Seq(Items)] /\ \A v \in Users : Len(down'[v]) <= Buffer + 1
      <4> HIDE DEF TypeOK
      <4> QED
        BY <1>0, <1>2, <3>1, <3>2, QueueTypes DEF send_history
    <3>4. backlog' \in [Users -> SUBSET (1 .. Len(log))]
      BY <1>0, <3>1
    <3> QED
      BY <1>0, <1>r, <2>1, <3>1, <3>3, <3>4
  <2> QED
    BY <2>2, <2>3
<1>3. ASSUME NEW u \in Users, forward_broadcasts(u) PROVE TypeOK'
  <2>1. UNCHANGED <<log, kept, connected, backlog, asked, last, panel, roster, answered>>
    BY <1>3 DEF forward_broadcasts, page
  <2>2. CASE Lagged(u)
    BY <1>0, <1>r, <1>3, <2>1, <2>2 DEF forward_broadcasts
  <2>3. CASE ~ Lagged(u)
    <3>1. /\ cursor' = [cursor EXCEPT ![u] = @ + 1] /\ stage' = stage
          /\ down' = [down EXCEPT ![u] = Append(@, Frame(cursor[u]))]
      BY <1>3, <2>3 DEF forward_broadcasts
    <3>2. cursor[u] \in 1 .. Len(log) /\ Len(log) \in Nat
      BY <1>0, <1>3 DEF forward_broadcasts
    <3>3. Frame(cursor[u]) \in Items
      BY <3>2 DEF Frame, Items
    <3>4. down' \in [Users -> Seq(Items)] /\ \A v \in Users : Len(down'[v]) <= Buffer + 1
      <4> HIDE DEF TypeOK
      <4> QED
        BY <1>0, <1>3, <3>1, <3>3, QueueTypes DEF forward_broadcasts
    <3>5. cursor' \in [Users -> 1 .. Len(log) + 1]
      BY <1>0, <3>1, <3>2
    <3> QED
      BY <1>0, <1>r, <2>1, <3>1, <3>4, <3>5
  <2> QED
    BY <2>2, <2>3
<1>4. ASSUME NEW u \in Users, apply_client_event(u) PROVE TypeOK'
  <2>1. Talk \in Frames
    BY DEF Frames, Talk
  <2>2. /\ log' \in Seq(Frames) /\ Len(log) + 1 \in 1 .. Len(log')
        /\ kept \subseteq 1 .. Len(log')
        /\ backlog \in [Users -> SUBSET (1 .. Len(log'))]
        /\ cursor \in [Users -> 1 .. Len(log') + 1]
        /\ last \in [Users -> 0 .. Len(log')]
    <3> HIDE DEF TypeOK
    <3>1. log' = Append(log, Talk)
      BY <1>4 DEF apply_client_event
    <3> QED
      BY <1>0, <2>1, <3>1, Positions
  <2>3. kept' \subseteq 1 .. Len(log')
    BY <1>4, <2>2 DEF apply_client_event
  <2>4. UNCHANGED <<connected, stage, backlog, cursor, down, asked, last, panel, roster, answered>>
    BY <1>4 DEF apply_client_event, session, page
  <2> QED
    BY <1>0, <1>r, <2>2, <2>3, <2>4
<1>5. ASSUME NEW u \in Users, RequestRoster(u) PROVE TypeOK'
  <2>1. UNCHANGED <<log, kept, connected, stage, backlog, cursor, down, last, panel, roster,
                    answered>>
    BY <1>5 DEF RequestRoster, session, page
  <2>2. asked' \in [Users -> 0 .. MaxAsked]
    BY <1>0, <1>5, Constants DEF RequestRoster
  <2> QED
    BY <1>0, <1>r, <2>1, <2>2
<1>6. CASE cleanup_messages
  BY <1>0, <1>r, <1>6 DEF cleanup_messages, session, page
<1>7. ASSUME NEW u \in Users, EndSession(u) PROVE TypeOK'
  BY <1>0, <1>r, <1>7 DEF EndSession, page
<1>8. ASSUME NEW u \in Users, LoseConnection(u) PROVE TypeOK'
  <2>1. UNCHANGED <<log, kept, connected, cursor, last, panel, roster, answered>>
    BY <1>8 DEF LoseConnection, page
  <2>2. /\ stage' \in [Users -> {"out", "admitted", "replay", "live", "ended"}]
        /\ backlog' \in [Users -> SUBSET (1 .. Len(log))]
        /\ asked' \in [Users -> 0 .. MaxAsked]
    BY <1>0, <1>8, Constants DEF LoseConnection
  <2>3. down' = [down EXCEPT ![u] = <<>>]
    BY <1>8 DEF LoseConnection
  <2>4. <<>> \in Seq(Items) /\ Len(<<>>) = 0
    OBVIOUS
  <2>5. down' \in [Users -> Seq(Items)]
    BY <1>0, <2>3, <2>4
  <2>6. \A v \in Users : Len(down'[v]) <= Buffer + 1
    BY <1>0, <2>3, <2>4, Constants
  <2> QED
    BY <1>0, <1>r, <2>1, <2>2, <2>5, <2>6
<1>9. ASSUME NEW u \in Users, cleanup_user(u) PROVE TypeOK'
  <2>1. [kind |-> "left", who |-> u] \in Frames
    BY DEF Frames
  <2>2. /\ log' \in Seq(Frames)
        /\ kept \subseteq 1 .. Len(log')
        /\ backlog \in [Users -> SUBSET (1 .. Len(log'))]
        /\ cursor \in [Users -> 1 .. Len(log') + 1]
        /\ last \in [Users -> 0 .. Len(log')]
    <3> HIDE DEF TypeOK
    <3>1. log' = Append(log, [kind |-> "left", who |-> u])
      BY <1>9 DEF cleanup_user
    <3> QED
      BY <1>0, <2>1, <3>1, Positions
  <2>3. /\ UNCHANGED <<kept, backlog, cursor, down, last, panel, roster, answered>>
        /\ connected' \subseteq Users
        /\ stage' \in [Users -> {"out", "admitted", "replay", "live", "ended"}]
        /\ asked' \in [Users -> 0 .. MaxAsked]
    BY <1>0, <1>9, Constants DEF cleanup_user, page
  <2> QED
    BY <1>0, <1>r, <2>2, <2>3
<1>10. ASSUME NEW u \in Users, toggleParticipants(u) PROVE TypeOK'
  <2>1. UNCHANGED <<log, kept, connected, stage, backlog, cursor, down, last, roster>>
    BY <1>10 DEF toggleParticipants, session
  <2>2. asked' \in [Users -> 0 .. MaxAsked]
    <3>1. \/ asked' = asked
          \/ asked[u] < MaxAsked /\ asked' = [asked EXCEPT ![u] = @ + 1]
      BY <1>10 DEF toggleParticipants
    <3>2. asked \in [Users -> 0 .. MaxAsked]
      BY <1>0
    <3> HIDE DEF TypeOK
    <3>3. ASSUME asked[u] < MaxAsked PROVE asked[u] + 1 \in 0 .. MaxAsked
      BY <3>2, <3>3, Constants
    <3> QED
      BY <3>1, <3>2, <3>3
  <2>3. panel' \subseteq Users /\ answered' \subseteq panel'
    BY <1>0, <1>10 DEF toggleParticipants
  <2> QED
    BY <1>0, <1>r, <2>1, <2>2, <2>3
<1>11. ASSUME NEW u \in Users, handleServerEvent(u) PROVE TypeOK'
  <2>1. /\ UNCHANGED <<log, kept, connected, stage, backlog, cursor, asked, panel>>
        /\ down[u] # <<>> /\ down' = [down EXCEPT ![u] = Tail(@)]
    BY <1>11 DEF handleServerEvent, session
  <2>2. PICK q \in Seq(Items) : q = down[u]
    BY <1>0
  <2>3. PICK item : item = Head(q)
    OBVIOUS
  <2>4. /\ Tail(q) \in Seq(Items) /\ item \in Items /\ Len(log) \in Nat
        /\ item.kind = "frame" => item.pos \in 1 .. Len(log)
    <3> HIDE DEF TypeOK
    <3> QED
      BY <2>1, <2>2, <2>3, TypesOf, TakeHead DEF Ordered
  <2>5. Len(Tail(q)) <= Len(q) /\ Len(q) \in Nat /\ Len(Tail(q)) \in Nat
    BY <2>1, <2>2
  <2>6. down' \in [Users -> Seq(Items)]
    BY <1>0, <2>1, <2>2, <2>4
  <2>7. \A v \in Users : Len(down'[v]) <= Buffer + 1
    <3>1. Len(q) <= Buffer + 1
      BY <1>0, <2>2
    <3> QED
      BY <1>0, <2>1, <2>2, <2>5, <3>1, Constants
  <2>8. /\ roster' \in [Users -> SUBSET Users]
        /\ last' \in [Users -> 0 .. Len(log)]
        /\ answered' \subseteq panel
    <3>1. CASE item.kind = "roster"
      <4>1. item.users \in SUBSET Users
        BY <2>4, <3>1 DEF Items
      <4> QED
        BY <1>0, <1>11, <2>2, <2>3, <3>1, <4>1 DEF handleServerEvent
    <3>2. CASE item.kind # "roster"
      <4>1. item.kind = "frame"
        BY <2>4, <3>2 DEF Items
      <4>2. item.pos \in 1 .. Len(log) /\ log[item.pos] \in Frames
        BY <1>0, <2>4, <4>1
      <4>3. updateRosterFrom(u, log[item.pos]) \in SUBSET Users
        BY <1>0, <4>2 DEF updateRosterFrom, Frames
      <4>4. /\ last' = [last EXCEPT ![u] = item.pos] /\ answered' = answered
            /\ roster' = [roster EXCEPT ![u] = updateRosterFrom(u, log[item.pos])]
        BY <1>11, <2>2, <2>3, <3>2 DEF handleServerEvent
      <4>5. /\ roster \in [Users -> SUBSET Users] /\ last \in [Users -> 0 .. Len(log)]
            /\ answered \subseteq panel /\ item.pos \in 0 .. Len(log)
        BY <1>0, <2>4, <4>2
      <4> HIDE DEF TypeOK
      <4> QED
        BY <4>3, <4>4, <4>5
    <3> QED
      BY <3>1, <3>2
  <2> QED
    BY <1>0, <1>r, <2>1, <2>6, <2>7, <2>8
<1>12. ASSUME NEW u \in Users, SendReply(u) PROVE TypeOK'
  <2>1. UNCHANGED <<log, kept, connected, stage, backlog, cursor, asked, last, panel, roster,
                    answered>>
    BY <1>12 DEF SendReply, session, page
  <2>2. PICK users \in SUBSET Users : users = reply[u][1].users
    BY <1>0, <1>12, RepliesAre DEF SendReply
  <2>3. Roster(users) \in Items
    BY DEF Roster, Items
  <2>4. down' \in [Users -> Seq(Items)] /\ \A v \in Users : Len(down'[v]) <= Buffer + 1
    <3> HIDE DEF TypeOK
    <3> QED
      BY <1>0, <1>12, <2>2, <2>3, QueueTypes DEF SendReply
  <2> QED
    BY <1>0, <1>r, <2>1, <2>4
<1>13. ASSUME NEW u \in Users, admit_user(u) PROVE TypeOK'
  <2>1. Talk \in Frames
    BY DEF Frames, Talk
  <2>2. /\ log' \in Seq(Frames)
        /\ kept \subseteq 1 .. Len(log')
        /\ backlog \in [Users -> SUBSET (1 .. Len(log'))]
        /\ cursor \in [Users -> 1 .. Len(log') + 1]
        /\ last \in [Users -> 0 .. Len(log')]
    <3> HIDE DEF TypeOK
    <3>1. log' = Append(log, Talk)
      BY <1>13 DEF admit_user
    <3> QED
      BY <1>0, <2>1, <3>1, Positions
  <2>3. /\ UNCHANGED <<kept, backlog, cursor, down, asked, last, panel, roster, answered>>
        /\ connected' \subseteq Users
        /\ stage' \in [Users -> {"out", "admitted", "replay", "live", "ended"}]
    BY <1>0, <1>13 DEF admit_user, page
  <2> QED
    BY <1>0, <1>r, <2>2, <2>3
<1>14. ASSUME NEW u \in Users, UpgradeFails(u) PROVE TypeOK'
  BY <1>0, <1>r, <1>14 DEF UpgradeFails, page
<1>15. CASE UNCHANGED vars
  BY <1>0, <1>r, <1>15 DEF vars
<1> QED
  BY <1>1, <1>2, <1>3, <1>4, <1>5, <1>6, <1>7, <1>8, <1>9, <1>10, <1>11, <1>12, <1>13, <1>14,
     <1>15 DEF Next

----------------------------------------------------------------------------
\* Each step: the places stay in order, and the mailboxes take a step of theirs
\* or none.
OrderedAll == \A u \in Users : Ordered(u)

LEMMA OthersServed ==
  ASSUME NEW u \in Users, \A v \in Users \ {u} : Untouched(v)
  PROVE  \A v : v # u => (v \in Serving' <=> v \in Serving)
<1>1. ASSUME NEW v, v # u, v \in Users PROVE v \in Serving' <=> v \in Serving
  BY <1>1, Places DEF Untouched
<1>2. Serving \subseteq Users /\ Serving' \subseteq Users
  BY DEF Serving
<1> QED
  BY <1>1, <1>2

LEMMA Stutters ==
  ASSUME Len(log') = Len(log), kept' = kept, Serving' = Serving, last' = last,
         \A v \in Users : Owed(v)' = Owed(v)
  PROVE  [Mail!Next]_Mail!vars
<1>1. [v \in Users |-> Owed(v)]' = [v \in Users |-> Owed(v)]
  OBVIOUS
<1> QED
  BY <1>1 DEF Mail!vars

\* The session of u has ended, and of what u is owed a beginning is on its way.
LEMMA Leaves ==
  ASSUME Inv, NEW u \in Users, \A v \in Users \ {u} : Untouched(v),
         log' = log, kept' = kept, last' = last,
         NEW end \in 0 .. Len(log) + 1,
         u \notin Serving', Owed(u)' = {p \in Owed(u) : p < end}
  PROVE  [Mail!Next]_Mail!vars
<1>1. \A v \in Users \ {u} : Owed(v)' = Owed(v)
  BY Same
<1>2. Serving' = Serving \ {u}
  BY OthersServed
<1>3. [v \in Users |-> Owed(v)]'
        = [[v \in Users |-> Owed(v)] EXCEPT ![u] = {p \in @ : p < end}]
  BY <1>1
<1>4. Mail!Leave(u)
  BY <1>2, <1>3 DEF Mail!Leave
<1> QED
  BY <1>4 DEF Mail!Next

LEMMA JoinStep ==
  ASSUME Inv, NEW u \in Users, join_room(u)
  PROVE  OrderedAll' /\ [Mail!Next]_Mail!vars
<1>1. PICK n \in Nat : n = Len(log)
  BY TypesOf
<1>2. PICK old : old = kept
  OBVIOUS
<1>3. Len(log') = n + 1 /\ log \in Seq(Frames)
  BY <1>1 DEF join_room, Inv, TypeOK
<1>4. /\ stage[u] = "admitted" /\ down' = down /\ kept' = kept
      /\ stage'[u] = "replay" /\ backlog'[u] = old /\ cursor'[u] = n + 1
      /\ last' = [last EXCEPT ![u] = 0]
      /\ \A v \in Users \ {u} : Untouched(v)
  BY <1>1, <1>2 DEF join_room, Inv, TypeOK, Untouched
<1>q. down[u] = <<>>
  BY <1>4, TypesOf DEF Ordered
<1>5. old \subseteq 1 .. n
  BY <1>1, <1>2 DEF Inv, TypeOK
<1>6. Flying(<<>>, n) = {} /\ Flying(<<>>, n + 1) = {} /\ InRange(<<>>, n + 1) /\ Rising(<<>>)
  BY NothingFlies
<1>7. Ordered(u)'
  <2>1. \A p \in old : p < n + 1
    BY <1>5
  <2>2. down'[u] = <<>> /\ Flying(down'[u], Len(log')) = {}
    BY <1>3, <1>4, <1>6, <1>q
  <2> QED
    BY <1>3, <1>4, <1>6, <2>1, <2>2 DEF Ordered
<1>8. \A v \in Users \ {u} : /\ Ordered(v)'
                             /\ Owed(v)' = IF v \in Serving THEN Owed(v) \cup {n + 1} ELSE Owed(v)
  BY <1>1, <1>3, <1>4, Grows
<1>9. u \notin Serving /\ u \in Serving' /\ Owed(u) = {}
  <2>1. Ordered(u)
    BY TypesOf
  <2>2. backlog[u] = {}
    BY <1>4, <2>1 DEF Ordered
  <2>3. u \notin Serving /\ u \in Serving'
    BY <1>4, Places
  <2> QED
    BY <1>1, <1>6, <1>q, <2>2, <2>3, Places DEF Channel
<1>10. Owed(u)' = old \cup {n + 1}
  BY <1>3, <1>4, <1>6, <1>9, <1>q, Places DEF Channel
<1>11. Serving' = Serving \cup {u}
  BY <1>4, <1>9, OthersServed
<1>12. [v \in Users |-> Owed(v)]' =
         [v \in Users |-> IF v = u THEN kept \cup {Len(log) + 1}
                          ELSE IF v \in Serving THEN [w \in Users |-> Owed(w)][v] \cup {Len(log) + 1}
                          ELSE [w \in Users |-> Owed(w)][v]]
  BY <1>1, <1>2, <1>8, <1>10
<1>13. Mail!Arrive(u)
  BY <1>1, <1>3, <1>4, <1>9, <1>11, <1>12 DEF Mail!Arrive
<1> QED
  BY <1>7, <1>8, <1>13 DEF OrderedAll, Mail!Next

LEMMA ReplayStep ==
  ASSUME Inv, NEW u \in Users, send_history(u)
  PROVE  OrderedAll' /\ [Mail!Next]_Mail!vars
<1>1. PICK n \in Nat : n = Len(log)
  BY TypesOf
<1>2. /\ stage[u] = "replay" /\ log' = log /\ cursor' = cursor /\ kept' = kept /\ last' = last
      /\ \A v \in Users \ {u} : Untouched(v)
  BY DEF send_history, page, Inv, TypeOK, Untouched
<1>3. PICK q \in Seq(Items) : q = down[u]
  BY TypesOf
<1>4. PICK b : b = backlog[u]
  OBVIOUS
<1>5. PICK c : c = cursor[u]
  OBVIOUS
<1>6. /\ InRange(q, n) /\ Rising(q) /\ b \subseteq 1 .. n /\ c \in 1 .. n + 1
      /\ \A x \in Flying(q, n) : x < c /\ \A p \in b : x < p
      /\ \A p \in b : p < c
  BY <1>1, <1>3, <1>4, <1>5, TypesOf DEF Ordered
<1>7. stage'[u] \in {"replay", "live"} /\ cursor'[u] = c
  BY <1>2, <1>5 DEF send_history, Inv, TypeOK
<1>8. u \in Serving /\ u \in Serving'
  BY <1>2, <1>7, Places
<1>9. Ordered(u)' /\ Owed(u)' = Owed(u)
  <2>1. CASE b = {}
    <3>1. backlog'[u] = b /\ down'[u] = q
      BY <1>3, <1>4, <2>1 DEF send_history
    <3>2. Owed(u)' = Owed(u)
      BY <1>2, <1>3, <1>4, <1>5, <1>7, <1>8, <3>1, Places
    <3>3. Ordered(u)'
      BY <1>1, <1>2, <1>6, <1>7, <2>1, <3>1 DEF Ordered
    <3> QED
      BY <3>2, <3>3
  <2>2. CASE b # {}
    <3>1. PICK p \in b : /\ \A x \in b : p <= x
                         /\ backlog' = [backlog EXCEPT ![u] = @ \ {p}]
                         /\ down' = [down EXCEPT ![u] = Append(@, Frame(p))]
                         /\ stage' = stage
      BY <1>4, <2>2 DEF send_history
    <3>2. backlog'[u] = b \ {p} /\ down'[u] = Append(q, Frame(p)) /\ stage'[u] = "replay"
      BY <1>2, <1>3, <1>4, <3>1 DEF Inv, TypeOK
    <3>3. p \in 1 .. n /\ \A x \in Flying(q, n) : x < p
      BY <1>6
    <3>4. PICK r : r = Append(q, Frame(p))
      OBVIOUS
    <3>5. r \in Seq(Items) /\ InRange(r, n) /\ Rising(r) /\ Flying(r, n) = Flying(q, n) \cup {p}
      BY <1>6, <3>3, <3>4, AppendFrame
    <3>6. Owed(u) = b \cup Flying(q, n) \cup Channel(TRUE, c, n)
      BY <1>1, <1>3, <1>4, <1>5, <1>8, Places
    <3>7. Owed(u)' = (b \ {p}) \cup Flying(r, n) \cup Channel(TRUE, c, n)
      BY <1>1, <1>2, <1>7, <1>8, <3>2, <3>4, Places
    <3>8. Owed(u)' = Owed(u)
      BY <3>5, <3>6, <3>7
    <3>9. \A x \in Flying(r, n) : x < c /\ \A y \in b \ {p} : x < y
      <4>1. \A y \in b \ {p} : p < y
        BY <1>6, <3>1
      <4> QED
        BY <1>6, <3>5, <4>1
    <3>10. Ordered(u)'
      BY <1>1, <1>2, <1>6, <1>7, <3>2, <3>4, <3>5, <3>9 DEF Ordered
    <3> QED
      BY <3>8, <3>10
  <2> QED
    BY <2>1, <2>2
<1>10. \A v \in Users \ {u} : Ordered(v)' /\ Owed(v)' = Owed(v)
  BY <1>2, Same
<1>11. Serving' = Serving
  <2>1. \A v : v \in Serving' <=> v \in Serving
    BY <1>2, <1>8, OthersServed
  <2> QED
    BY <2>1
<1>12. [Mail!Next]_Mail!vars
  BY <1>2, <1>9, <1>10, <1>11, Stutters
<1> QED
  BY <1>9, <1>10, <1>12 DEF OrderedAll

\* What a step does for the user it is about is all there is to show.
LEMMA StuttersAt ==
  ASSUME Inv, NEW u \in Users, \A v \in Users \ {u} : Untouched(v),
         log' = log, kept' = kept, last' = last,
         Ordered(u)', Owed(u)' = Owed(u), u \in Serving' <=> u \in Serving
  PROVE  OrderedAll' /\ [Mail!Next]_Mail!vars
<1>1. \A v \in Users \ {u} : Ordered(v)' /\ Owed(v)' = Owed(v)
  BY Same
<1>2. \A v : v \in Serving' <=> v \in Serving
  BY OthersServed
<1>3. Serving' = Serving
  BY <1>2
<1>4. [Mail!Next]_Mail!vars
  BY <1>1, <1>3, Stutters
<1> QED
  BY <1>1, <1>4 DEF OrderedAll

LEMMA EndsAt ==
  ASSUME Inv, NEW u \in Users, \A v \in Users \ {u} : Untouched(v),
         log' = log, kept' = kept, last' = last,
         stage[u] = "live", stage'[u] = "ended",
         backlog'[u] = backlog[u], cursor'[u] = cursor[u], down'[u] = down[u]
  PROVE  OrderedAll' /\ [Mail!Next]_Mail!vars
<1>1. PICK n \in Nat : n = Len(log)
  BY TypesOf
<1>2. PICK sent : sent = Flying(down[u], n)
  OBVIOUS
<1>3. PICK c \in 1 .. n + 1 : c = cursor[u]
  BY <1>1, TypesOf
<1>4. /\ Ordered(u) /\ backlog[u] = {} /\ \A x \in sent : x < c
  BY <1>1, <1>2, <1>3, TypesOf DEF Ordered
<1>5. u \in Serving /\ u \notin Serving'
  BY Places
<1>6. Owed(u) = sent \cup (c .. n) /\ Owed(u)' = sent
  BY <1>1, <1>2, <1>3, <1>4, <1>5, Places DEF Channel
<1>7. Owed(u)' = {p \in Owed(u) : p < c}
  BY <1>4, <1>6
<1>8. Ordered(u)'
  BY <1>4 DEF Ordered
<1>9. \A v \in Users \ {u} : Ordered(v)'
  BY Same
<1>10. c \in 0 .. Len(log) + 1
  BY <1>1
<1>11. [Mail!Next]_Mail!vars
  BY <1>5, <1>7, <1>10, Leaves
<1> QED
  BY <1>8, <1>9, <1>11 DEF OrderedAll

LEMMA ForwardStep ==
  ASSUME Inv, NEW u \in Users, forward_broadcasts(u)
  PROVE  OrderedAll' /\ [Mail!Next]_Mail!vars
<1>1. /\ stage[u] = "live" /\ log' = log /\ kept' = kept /\ last' = last
      /\ backlog' = backlog
      /\ \A v \in Users \ {u} : Untouched(v)
  BY DEF forward_broadcasts, page, Inv, TypeOK, Untouched
<1>2. CASE Lagged(u)
  <2>1. stage'[u] = "ended" /\ cursor' = cursor /\ down' = down
    BY <1>2 DEF forward_broadcasts, Inv, TypeOK
  <2> QED
    BY <1>1, <2>1, EndsAt
<1>3. CASE ~ Lagged(u)
  <2>1. PICK n \in Nat : n = Len(log)
    BY TypesOf
  <2>2. PICK q \in Seq(Items) : q = down[u]
    BY TypesOf
  <2>3. PICK c : c = cursor[u]
    OBVIOUS
  <2>4. PICK r : r = Append(q, Frame(c))
    OBVIOUS
  <2>5. c \in 1 .. n
    BY <2>1, <2>3, TypesOf DEF forward_broadcasts
  <2>6. cursor'[u] = c + 1 /\ down'[u] = r /\ stage'[u] = "live"
    BY <1>1, <1>3, <2>2, <2>3, <2>4 DEF forward_broadcasts, Inv, TypeOK
  <2>7. InRange(q, n) /\ Rising(q) /\ backlog[u] = {} /\ \A x \in Flying(q, n) : x < c
    BY <1>1, <2>1, <2>2, <2>3, TypesOf DEF Ordered
  <2>8. InRange(r, n) /\ Rising(r) /\ Flying(r, n) = Flying(q, n) \cup {c}
    BY <2>4, <2>5, <2>7, AppendFrame
  <2>9. u \in Serving /\ u \in Serving'
    BY <1>1, <2>6, Places
  <2>10. Owed(u) = Flying(q, n) \cup (c .. n) /\ Owed(u)' = Flying(r, n) \cup (c + 1 .. n)
    BY <1>1, <2>1, <2>2, <2>3, <2>6, <2>7, <2>9, Places DEF Channel
  <2>11. c .. n = {c} \cup (c + 1 .. n)
    BY <2>5
  <2>12. Owed(u)' = Owed(u)
    BY <2>8, <2>10, <2>11
  <2>13. Ordered(u)'
    <3>1. \A x \in Flying(r, n) : x < c + 1
      <4>1. \A x \in Flying(q, n) : x \in Nat
        BY DEF Flying
      <4> QED
        BY <2>5, <2>7, <2>8, <4>1
    <3> QED
      BY <1>1, <2>1, <2>6, <2>7, <2>8, <3>1 DEF Ordered
  <2> QED
    BY <1>1, <2>9, <2>12, <2>13, StuttersAt
<1> QED
  BY <1>2, <1>3

\* A frame is published to all who are served.
LEMMA Publishes ==
  ASSUME Inv, Len(log') = Len(log) + 1, \A v \in Users : Ordered(v)',
         \A v \in Users :
            Owed(v)' = IF v \in Serving THEN Owed(v) \cup {Len(log) + 1} ELSE Owed(v),
         Serving' = Serving, last' = last, kept' \subseteq kept \cup {Len(log) + 1}
  PROVE  OrderedAll' /\ [Mail!Next]_Mail!vars
<1>1. [v \in Users |-> Owed(v)]' =
        [v \in Users |-> IF v \in Serving
                         THEN [w \in Users |-> Owed(w)][v] \cup {Len(log) + 1}
                         ELSE [w \in Users |-> Owed(w)][v]]
  OBVIOUS
<1>2. Mail!Keep
  BY DEF Mail!Keep
<1>3. Mail!Publish
  BY <1>1, <1>2 DEF Mail!Publish
<1> QED
  BY <1>3 DEF Mail!Next, OrderedAll

LEMMA TalkStep ==
  ASSUME Inv, NEW u \in Users, apply_client_event(u)
  PROVE  OrderedAll' /\ [Mail!Next]_Mail!vars
<1>1. /\ \A v \in Users : Untouched(v)
      /\ Serving' = Serving /\ last' = last
  BY DEF apply_client_event, session, page, Untouched, Serving
<1>2. Len(log') = Len(log) + 1
  BY DEF apply_client_event, Inv, TypeOK
<1>3. kept' \subseteq kept \cup {Len(log) + 1}
  BY DEF apply_client_event
<1>4. \A v \in Users :
        /\ Ordered(v)'
        /\ Owed(v)' = IF v \in Serving THEN Owed(v) \cup {Len(log) + 1} ELSE Owed(v)
  BY <1>1, <1>2, Grows
<1> QED
  BY <1>1, <1>2, <1>3, <1>4, Publishes

\* A frame is published by a session that is served neither before nor after.
LEMMA PublishesAlone ==
  ASSUME Inv, NEW u \in Users, \A v \in Users \ {u} : Untouched(v),
         stage[u] \notin {"replay", "live"}, stage'[u] \notin {"replay", "live"},
         Len(log') = Len(log) + 1, UNCHANGED <<kept, backlog, cursor, down, last>>,
         stage'[u] = "admitted" => down[u] = <<>>
  PROVE  OrderedAll' /\ [Mail!Next]_Mail!vars
<1>1. PICK n \in Nat : n = Len(log)
  BY TypesOf
<1>2. Len(log') = n + 1
  BY <1>1
<1>3. u \notin Serving /\ u \notin Serving'
  BY Places
<1>4. \A v : v \in Serving' <=> v \in Serving
  BY <1>3, OthersServed
<1>5. Serving' = Serving
  BY <1>4
<1>6. \A v \in Users \ {u} :
        /\ Ordered(v)'
        /\ Owed(v)' = IF v \in Serving THEN Owed(v) \cup {Len(log) + 1} ELSE Owed(v)
  BY Grows
<1>7. Ordered(u)' /\ Owed(u)' = Owed(u)
  <2>1. PICK q \in Seq(Items) : q = down[u]
    BY TypesOf
  <2>2. Ordered(u) /\ InRange(q, n)
    BY <1>1, <2>1, TypesOf DEF Ordered
  <2>3. InRange(q, n + 1) /\ Flying(q, n + 1) = Flying(q, n)
    BY <2>2, LogGrows
  <2>4. Owed(u)' = Owed(u)
    BY <1>1, <1>2, <1>3, <2>1, <2>3, Places DEF Channel
  <2>5. Ordered(u)'
    BY <1>1, <1>2, <2>1, <2>2, <2>3 DEF Ordered
  <2> QED
    BY <2>4, <2>5
<1>8. last' = last /\ kept' \subseteq kept \cup {Len(log) + 1}
  OBVIOUS
<1>9. \A v \in Users :
        /\ Ordered(v)'
        /\ Owed(v)' = IF v \in Serving THEN Owed(v) \cup {Len(log) + 1} ELSE Owed(v)
  BY <1>3, <1>6, <1>7
<1> QED
  BY <1>5, <1>8, <1>9, Publishes

LEMMA DepartStep ==
  ASSUME Inv, NEW u \in Users, cleanup_user(u)
  PROVE  OrderedAll' /\ [Mail!Next]_Mail!vars
<1>1. /\ stage[u] = "ended" /\ stage'[u] = "out" /\ Len(log') = Len(log) + 1
      /\ UNCHANGED <<kept, backlog, cursor, down, last>>
      /\ \A v \in Users \ {u} : Untouched(v)
  BY DEF cleanup_user, page, Inv, TypeOK, Untouched
<1> QED
  BY <1>1, PublishesAlone

LEMMA AdmitStep ==
  ASSUME Inv, NEW u \in Users, admit_user(u)
  PROVE  OrderedAll' /\ [Mail!Next]_Mail!vars
<1>1. /\ stage[u] = "out" /\ stage'[u] = "admitted" /\ Len(log') = Len(log) + 1
      /\ UNCHANGED <<kept, backlog, cursor, down, last>> /\ down[u] = <<>>
      /\ \A v \in Users \ {u} : Untouched(v)
  BY DEF admit_user, page, Inv, TypeOK, Untouched
<1> QED
  BY <1>1, PublishesAlone

LEMMA UpgradeFailsStep ==
  ASSUME Inv, NEW u \in Users, UpgradeFails(u)
  PROVE  OrderedAll' /\ [Mail!Next]_Mail!vars
<1>1. /\ UNCHANGED <<log, kept, backlog, cursor, down, last>>
      /\ stage[u] = "admitted" /\ stage'[u] = "out"
      /\ \A v \in Users \ {u} : Untouched(v)
  BY DEF UpgradeFails, page, Inv, TypeOK, Untouched
<1>2. (u \in Serving) = FALSE /\ (u \in Serving') = FALSE
  BY <1>1, Places
<1>3. Owed(u)' = Owed(u)
  BY <1>1, <1>2, Places
<1>4. Ordered(u)'
  BY <1>1, TypesOf DEF Ordered
<1> QED
  BY <1>1, <1>2, <1>3, <1>4, StuttersAt

LEMMA ReplyStep ==
  ASSUME Inv, NEW u \in Users, SendReply(u)
  PROVE  OrderedAll' /\ [Mail!Next]_Mail!vars
<1>1. PICK n \in Nat : n = Len(log)
  BY TypesOf
<1>2. PICK q \in Seq(Items) : q = down[u]
  BY TypesOf
<1>3. PICK users \in SUBSET Users : users = reply[u][1].users
  BY RepliesAre DEF Inv, SendReply
<1>4. PICK r : r = Append(q, Roster(users))
  OBVIOUS
<1>5. /\ UNCHANGED <<log, kept, last, stage, backlog, cursor>> /\ stage[u] = "live"
      /\ \A v \in Users \ {u} : Untouched(v)
      /\ down'[u] = r
  BY <1>2, <1>3, <1>4 DEF SendReply, session, page, Inv, TypeOK, Untouched
<1>6. Ordered(u) /\ InRange(q, n) /\ Rising(q)
  BY <1>1, <1>2, TypesOf DEF Ordered
<1>7. /\ InRange(down'[u], n) /\ Rising(down'[u])
      /\ Flying(down'[u], n) = Flying(q, n)
  <2>1. InRange(r, n) /\ Rising(r) /\ Flying(r, n) = Flying(q, n)
    BY <1>4, <1>6, AppendRoster
  <2> QED
    BY <1>5, <1>6, <2>1
<1>8. u \in Serving' <=> u \in Serving
  BY <1>5, Places
<1>9. Owed(u)' = Owed(u)
  <2>1. (u \in Serving') = (u \in Serving)
    BY <1>8
  <2> QED
    BY <1>1, <1>2, <1>5, <1>7, <2>1, Places
<1>10. Ordered(u)'
  BY <1>1, <1>2, <1>5, <1>6, <1>7 DEF Ordered
<1> QED
  BY <1>5, <1>8, <1>9, <1>10, StuttersAt

LEMMA ForgetStep ==
  ASSUME Inv, cleanup_messages
  PROVE  OrderedAll' /\ [Mail!Next]_Mail!vars
<1>1. /\ \A v \in Users : Untouched(v)
      /\ log' = log /\ Serving' = Serving /\ last' = last /\ kept' \subseteq kept
  BY DEF cleanup_messages, session, page, Untouched, Serving
<1>2. \A v \in Users : Ordered(v)' /\ Owed(v)' = Owed(v)
  BY <1>1, Same
<1>3. [v \in Users |-> Owed(v)]' = [v \in Users |-> Owed(v)]
  BY <1>2
<1>4. Mail!Forget
  BY <1>1, <1>3 DEF Mail!Forget
<1> QED
  BY <1>2, <1>4 DEF OrderedAll, Mail!Next

LEMMA LoseStep ==
  ASSUME Inv, NEW u \in Users, LoseConnection(u)
  PROVE  OrderedAll' /\ [Mail!Next]_Mail!vars
<1>1. PICK n \in Nat : n = Len(log)
  BY TypesOf
<1>2. /\ UNCHANGED <<log, kept, last>>
      /\ \A v \in Users \ {u} : Untouched(v)
      /\ stage'[u] \in {"out", "admitted", "ended"} /\ backlog'[u] = {} /\ down'[u] = <<>>
  BY DEF LoseConnection, page, Inv, TypeOK, Untouched, Serving
<1>3. u \notin Serving'
  BY <1>2, Places
<1>4. Flying(<<>>, n) = {} /\ InRange(<<>>, n) /\ Rising(<<>>)
  BY NothingFlies
<1>5. Owed(u)' = {}
  BY <1>1, <1>2, <1>3, <1>4, Places DEF Channel
<1>6. \A p \in Owed(u) : p \in Nat /\ ~ (p < 0)
  <2>1. backlog[u] \subseteq 1 .. n /\ cursor[u] \in 1 .. n + 1
    BY <1>1, TypesOf
  <2> QED
    BY <1>1, <2>1, Places DEF Channel, Flying
<1>7. Owed(u)' = {p \in Owed(u) : p < 0}
  BY <1>5, <1>6
<1>8. Ordered(u)'
  BY <1>1, <1>2, <1>4 DEF Ordered
<1>9. \A v \in Users \ {u} : Ordered(v)'
  BY <1>2, Same
<1>10. 0 \in 0 .. Len(log) + 1
  BY <1>1
<1>11. [Mail!Next]_Mail!vars
  BY <1>2, <1>3, <1>7, <1>10, Leaves
<1> QED
  BY <1>8, <1>9, <1>11 DEF OrderedAll

LEMMA ArrivesStep ==
  ASSUME Inv, NEW u \in Users, handleServerEvent(u)
  PROVE  OrderedAll' /\ [Mail!Next]_Mail!vars
<1>1. PICK n \in Nat : n = Len(log)
  BY TypesOf
<1>2. PICK q \in Seq(Items) : q = down[u]
  BY TypesOf
<1>3. PICK rest : rest = Tail(q)
  OBVIOUS
<1>4. PICK item : item = Head(q)
  OBVIOUS
<1>5. /\ UNCHANGED <<log, kept, stage, backlog, cursor>> /\ q # <<>>
      /\ \A v \in Users \ {u} : Untouched(v)
      /\ down'[u] = rest
      /\ last' = IF item.kind = "roster" THEN last ELSE [last EXCEPT ![u] = item.pos]
  BY <1>2, <1>3, <1>4 DEF handleServerEvent, session, Inv, TypeOK, Untouched
<1>6. Ordered(u) /\ InRange(q, n) /\ Rising(q)
  BY <1>1, <1>2, TypesOf DEF Ordered
<1>7. /\ item \in Items /\ InRange(rest, n) /\ Rising(rest)
      /\ item.kind # "frame" => Flying(rest, n) = Flying(q, n)
      /\ item.kind = "frame" =>
           /\ item.pos \in 1 .. n /\ item.pos \in Flying(q, n)
           /\ \A x \in Flying(q, n) : item.pos <= x
           /\ Flying(rest, n) = Flying(q, n) \ {item.pos}
  BY <1>3, <1>4, <1>5, <1>6, TakeHead
<1>8. (u \in Serving') = (u \in Serving) /\ Serving' = Serving
  BY <1>5 DEF Serving
<1>9. Flying(rest, n) \subseteq Flying(q, n)
  BY <1>7
<1>10. Ordered(u)'
  <2>1. stage'[u] # "admitted"
    BY <1>2, <1>5, <1>6 DEF Ordered
  <2> QED
    BY <1>1, <1>2, <1>5, <1>6, <1>7, <1>9, <2>1 DEF Ordered
<1>11. /\ Owed(u) = backlog[u] \cup Flying(q, n) \cup Channel(u \in Serving, cursor[u], n)
       /\ Owed(u)' = backlog[u] \cup Flying(rest, n) \cup Channel(u \in Serving, cursor[u], n)
  BY <1>1, <1>2, <1>5, <1>8, Places
<1>12. CASE item.kind # "frame"
  <2>1. last' = last
    BY <1>5, <1>7, <1>12 DEF Items
  <2>2. Owed(u)' = Owed(u)
    BY <1>7, <1>11, <1>12
  <2> QED
    BY <1>5, <1>8, <1>10, <2>1, <2>2, StuttersAt
<1>13. CASE item.kind = "frame"
  <2>1. PICK p : p = item.pos
    OBVIOUS
  <2>2. p \in 1 .. n /\ p \in Flying(q, n) /\ \A x \in Flying(q, n) : p <= x
        /\ Flying(rest, n) = Flying(q, n) \ {p}
    BY <1>7, <1>13, <2>1
  <2>3. /\ \A x \in backlog[u] : p < x
        /\ p < cursor[u]
        /\ backlog[u] \subseteq 1 .. n /\ cursor[u] \in 1 .. n + 1
    BY <1>1, <1>2, <1>6, <2>2, TypesOf DEF Ordered
  <2>4. \A x \in Channel(u \in Serving, cursor[u], n) : p < x
    BY <2>2, <2>3 DEF Channel
  <2>5. p \notin backlog[u] /\ p \notin Channel(u \in Serving, cursor[u], n)
    BY <2>2, <2>3, <2>4
  <2>6. p \in Owed(u) /\ Owed(u)' = Owed(u) \ {p}
    BY <1>11, <2>2, <2>5
  <2>7. \A x \in Owed(u) : p <= x
    <3>1. \A x \in backlog[u] : x \in Nat
      BY <2>3
    <3>2. \A x \in Channel(u \in Serving, cursor[u], n) : x \in Nat
      BY <2>3 DEF Channel
    <3>3. p \in Nat /\ \A x \in Nat : p < x => p <= x
      BY <2>2
    <3>4. \A x \in backlog[u] : p <= x
      BY <2>3, <3>1, <3>3
    <3>5. \A x \in Channel(u \in Serving, cursor[u], n) : p <= x
      BY <2>4, <3>2, <3>3
    <3> QED
      BY <1>11, <2>2, <3>4, <3>5, Zenon
  <2>8. \A v \in Users \ {u} : Ordered(v)' /\ Owed(v)' = Owed(v)
    BY <1>5, Same
  <2>9. [v \in Users |-> Owed(v)]'
          = [[v \in Users |-> Owed(v)] EXCEPT ![u] = @ \ {p}]
    BY <2>6, <2>8
  <2>10. last' = [last EXCEPT ![u] = p]
    BY <1>5, <1>13, <2>1
  <2>11. Mail!Deliver(u)
    BY <1>5, <1>8, <2>6, <2>7, <2>9, <2>10 DEF Mail!Deliver
  <2> QED
    BY <1>10, <2>8, <2>11 DEF OrderedAll, Mail!Next
<1> QED
  BY <1>12, <1>13

LEMMA EachStep ==
  ASSUME Inv, [Next]_vars
  PROVE  OrderedAll' /\ [Mail!Next]_Mail!vars
<1>1. ASSUME NEW u \in Users, EndSession(u) PROVE OrderedAll' /\ [Mail!Next]_Mail!vars
  <2>1. /\ \A v \in Users \ {u} : Untouched(v)
        /\ UNCHANGED <<log, kept, last, backlog, cursor, down>>
        /\ stage[u] = "live" /\ stage'[u] = "ended"
    BY <1>1 DEF EndSession, page, Inv, TypeOK, Untouched
  <2> QED
    BY <2>1, EndsAt
<1>2. ASSUME UNCHANGED <<log, kept, last, stage, backlog, cursor, down>>
      PROVE  OrderedAll' /\ [Mail!Next]_Mail!vars
  <2>1. \A v \in Users : Untouched(v)
    BY <1>2 DEF Untouched
  <2>2. \A v \in Users : Ordered(v)' /\ Owed(v)' = Owed(v)
    BY <1>2, <2>1, Same
  <2>3. Serving' = Serving
    BY <1>2 DEF Serving
  <2> QED
    BY <1>2, <2>2, <2>3, Stutters DEF OrderedAll
<1>3. ASSUME NEW u \in Users, toggleParticipants(u) \/ RequestRoster(u)
      PROVE  OrderedAll' /\ [Mail!Next]_Mail!vars
  <2>1. UNCHANGED <<log, kept, last, stage, backlog, cursor, down>>
    BY <1>3 DEF toggleParticipants, RequestRoster, session, page
  <2> QED
    BY <1>2, <2>1
<1>4. CASE UNCHANGED vars
  <2>1. UNCHANGED <<log, kept, last, stage, backlog, cursor, down>>
    BY <1>4 DEF vars
  <2> QED
    BY <1>2, <2>1
<1> QED
  BY <1>1, <1>3, <1>4, JoinStep, ReplayStep, ForwardStep, TalkStep, ReplyStep,
     ForgetStep, LoseStep, DepartStep, ArrivesStep, AdmitStep, UpgradeFailsStep DEF Next

\* The types, and that a socket holds no more than its buffer and one.
THEOREM TypeCorrect == Spec => []TypeOK
<1>1. Inv /\ [Next]_vars => Inv'
  BY NextTypes, EachStep DEF Inv, OrderedAll
<1>2. Inv => TypeOK
  BY DEF Inv
<1> QED
  BY <1>1, <1>2, InitInv, PTL DEF Spec

LEMMA InitMail == Init => Mail!Init
<1> SUFFICES ASSUME Init PROVE Mail!Init
  OBVIOUS
<1>1. \A u \in Users : Owed(u) = {}
  <2> TAKE u \in Users
  <2>1. down[u] = <<>> /\ backlog[u] = {} /\ Len(log) = 0 /\ stage[u] = "out"
    BY DEF Init
  <2>2. Flying(<<>>, 0) = {}
    BY NothingFlies
  <2> QED
    BY <2>1, <2>2, Places DEF Channel
<1>2. Serving = {}
  BY DEF Init, Serving
<1> QED
  BY <1>1, <1>2 DEF Init, Mail!Init

\* Every behaviour of the rooms' channel, the history, the sessions' tasks and the
\* sockets is one of the mailboxes: nothing owed is skipped, repeated or reordered.
THEOREM StreamImplementsMail == Spec => StreamIsMail
<1>1. Inv /\ [Next]_vars => Inv'
  BY NextTypes, EachStep DEF Inv, OrderedAll
<1>2. Inv /\ [Next]_vars => [Mail!Next]_Mail!vars
  BY EachStep
<1> QED
  BY <1>1, <1>2, InitInv, InitMail, PTL DEF Spec, StreamIsMail, Mail!Spec

----------------------------------------------------------------------------
(* The panel. What tells of a user comes from the channel alone, in order and *)
(* whole, and a roster is read between two frames and sent between them: so   *)
(* once nothing about a user is to come, the page has the last word on it. An *)
(* admission says nothing of the user it lets in, and adds to those Connected. *)

\* The p-th frame of l tells of w.
Tells(l, w, p) == l[p].kind # "talk" /\ l[p].who = w

\* The last word on each user tells whether they are there; who is, is Connected.
LastWord ==
    /\ Announced \subseteq connected
    /\ \A p \in 1 .. Len(log) :
        /\ log[p].kind # "talk"
        /\ \A q \in p + 1 .. Len(log) : ~ Tells(log, log[p].who, q)
        => (log[p].who \in Announced <=> log[p].kind = "joined")

\* A set of names has w if w is there, and only if w is Connected.
Fits(w, names) ==
    /\ w \in Announced => w \in names
    /\ w \in names => w \in connected

\* Only talk is kept.
OnlyTalk ==
    /\ \A p \in kept : log[p].kind = "talk"
    /\ \A u \in Users : \A p \in backlog[u] : log[p].kind = "talk"

\* After a frame that tells of a user, all those the receiver took are on their way.
Whole(u) ==
    \A p \in Flying(down[u], Len(log)) : log[p].kind # "talk" =>
        \A q \in p + 1 .. cursor[u] - 1 : q \in Flying(down[u], Len(log))

\* After the first i items on their way to u, nothing that tells of w is to come.
Settled(u, i, w) ==
    /\ reply[u] = <<>>
    /\ \A j \in DOMAIN down[u] : i < j =>
         down[u][j].kind = "frame" /\ ~ Tells(log, w, down[u][j].pos)
    /\ \A p \in cursor[u] .. Len(log) : ~ Tells(log, w, p)
Right(u, i, names) == \A w \in Users : Settled(u, i, w) => Fits(w, names)

\* A roster that waits for the sink was right when it was read, and what came
\* after that is still in the channel.
Snapshot(u) ==
    /\ reply[u][1].upto <= Len(log) /\ cursor[u] <= reply[u][1].upto + 1
    /\ \A w \in Users : (\A p \in reply[u][1].upto + 1 .. Len(log) : ~ Tells(log, w, p)) =>
         Fits(w, reply[u][1].users)

\* What the page has, and each roster on its way, is right once nothing is to come.
PanelOK(u) ==
    /\ reply[u] # <<>> => stage[u] = "live" /\ Snapshot(u)
    /\ stage[u] = "replay" =>
         u \notin answered /\ \A i \in DOMAIN down[u] : down[u][i].kind = "frame"
    /\ stage[u] = "live" =>
         /\ u \in answered => Right(u, 0, roster[u])
         /\ \A i \in DOMAIN down[u] : down[u][i].kind = "roster" =>
              Right(u, i, down[u][i].users)

RosterInv == Inv /\ LastWord /\ OnlyTalk /\ \A u \in Users : Whole(u) /\ PanelOK(u)

\* The room says e, and whoever is there changes as e tells; who is Connected, of
\* those it does not tell of, stays so.
Says(e) ==
    /\ e \in Frames /\ log' = Append(log, e)
    /\ \A w \in Users : IF e.kind # "talk" /\ e.who = w
                        THEN /\ w \in Announced' <=> e.kind = "joined"
                             /\ e.kind = "joined" => w \in connected'
                        ELSE /\ w \in Announced' <=> w \in Announced
                             /\ w \in connected => w \in connected'

\* Nothing is said, and no one comes or goes.
Quiet == log' = log /\ connected' = connected /\ Announced' = Announced

\* Who is there, before and after a step.
LEMMA AnnouncedIs ==
  /\ \A w \in Users : w \in Announced <=> stage[w] \in {"replay", "live", "ended"}
  /\ \A w \in Users : w \in Announced' <=> stage'[w] \in {"replay", "live", "ended"}
  /\ Announced \subseteq Users /\ Announced' \subseteq Users
  BY DEF Announced

\* The log one longer.
LEMMA LogSays ==
  ASSUME Inv, NEW e, Says(e)
  PROVE  /\ Len(log) \in Nat /\ Len(log') = Len(log) + 1
         /\ \A p \in 1 .. Len(log) : log'[p] = log[p]
         /\ log'[Len(log) + 1] = e
         /\ \A w, p : p \in 1 .. Len(log) => (Tells(log', w, p) <=> Tells(log, w, p))
         /\ \A w : Tells(log', w, Len(log) + 1) <=> e.kind # "talk" /\ e.who = w
<1>1. log \in Seq(Frames) /\ e \in Frames /\ log' = Append(log, e)
  BY DEF Inv, TypeOK, Says
<1>2. /\ Len(log) \in Nat /\ Len(log') = Len(log) + 1
      /\ \A p \in 1 .. Len(log) : log'[p] = log[p]
      /\ log'[Len(log) + 1] = e
  BY <1>1
<1> QED
  BY <1>2 DEF Tells

\* Every step leaves the log and who is connected, or says one frame.
LEMMA LogMoves ==
  ASSUME Inv, [Next]_vars
  PROVE  Quiet \/ \E e : Says(e)
<1>0. stage \in [Users -> {"out", "admitted", "replay", "live", "ended"}]
  BY DEF Inv, TypeOK
<1>1. ASSUME NEW u \in Users, join_room(u) PROVE \E e : Says(e)
  <2>1. PICK e : e = [kind |-> "joined", who |-> u]
    OBVIOUS
  <2>2. e \in Frames /\ e.kind = "joined" /\ e.who = u
    BY <2>1 DEF Frames
  <2>3. /\ log' = Append(log, e) /\ connected' = connected \cup {u}
        /\ stage' = [stage EXCEPT ![u] = "replay"]
    BY <1>1, <2>1 DEF join_room
  <2>4. /\ u \in Announced' /\ u \in connected'
        /\ \A w \in Users \ {u} : (w \in Announced' <=> w \in Announced)
    BY <1>0, <2>3, AnnouncedIs
  <2> QED
    BY <2>2, <2>3, <2>4 DEF Says
<1>2. ASSUME NEW u \in Users, cleanup_user(u) PROVE \E e : Says(e)
  <2>1. PICK e : e = [kind |-> "left", who |-> u]
    OBVIOUS
  <2>2. e \in Frames /\ e.kind = "left" /\ e.who = u
    BY <2>1 DEF Frames
  <2>3. /\ log' = Append(log, e) /\ connected' = connected \ {u}
        /\ stage' = [stage EXCEPT ![u] = "out"]
    BY <1>2, <2>1 DEF cleanup_user
  <2>4. /\ u \notin Announced'
        /\ \A w \in Users \ {u} : (w \in Announced' <=> w \in Announced)
    BY <1>0, <2>3, AnnouncedIs
  <2> QED
    BY <2>2, <2>3, <2>4 DEF Says
<1>3. ASSUME NEW u \in Users, apply_client_event(u) \/ admit_user(u) PROVE \E e : Says(e)
  <2>1. PICK e : e = Talk
    OBVIOUS
  <2>2. e \in Frames /\ e.kind = "talk"
    BY <2>1 DEF Frames, Talk
  <2>3. log' = Append(log, e) /\ connected \subseteq connected'
    BY <1>3, <2>1 DEF apply_client_event, admit_user
  <2>4. \A w \in Users : w \in Announced' <=> w \in Announced
    BY <1>0, <1>3, AnnouncedIs DEF apply_client_event, admit_user, session
  <2> QED
    BY <2>2, <2>3, <2>4 DEF Says
<1>4. ASSUME log' = log, connected' = connected,
             \A w \in Users : stage'[w] \in {"replay", "live", "ended"}
                               <=> stage[w] \in {"replay", "live", "ended"}
      PROVE  Quiet
  BY <1>4, AnnouncedIs DEF Quiet
<1>5. ASSUME NEW u \in Users,
             \/ send_history(u) \/ forward_broadcasts(u) \/ EndSession(u)
             \/ LoseConnection(u) \/ UpgradeFails(u)
      PROVE  Quiet
  <2>1. log' = log /\ connected' = connected
    BY <1>5 DEF send_history, forward_broadcasts, EndSession, LoseConnection, UpgradeFails
  <2>2. /\ \A w \in Users \ {u} : stage'[w] = stage[w]
        /\ stage'[u] \in {"replay", "live", "ended"}
             <=> stage[u] \in {"replay", "live", "ended"}
    BY <1>0, <1>5
    DEF send_history, forward_broadcasts, EndSession, LoseConnection, UpgradeFails, Serving
  <2> QED
    BY <1>4, <2>1, <2>2
<1>6. ASSUME NEW u \in Users,
             \/ RequestRoster(u) \/ SendReply(u) \/ toggleParticipants(u)
             \/ handleServerEvent(u) \/ cleanup_messages \/ UNCHANGED vars
      PROVE  Quiet
  <2>1. log' = log /\ connected' = connected /\ stage' = stage
    BY <1>6 DEF RequestRoster, SendReply, toggleParticipants, handleServerEvent,
                cleanup_messages, session, vars
  <2> QED
    BY <1>4, <2>1
<1>7. cleanup_messages \/ UNCHANGED vars => Quiet
  <2>1. cleanup_messages \/ UNCHANGED vars =>
          log' = log /\ connected' = connected /\ stage' = stage
    BY DEF cleanup_messages, session, vars
  <2> QED
    BY <1>4, <2>1
<1> QED
  BY <1>1, <1>2, <1>3, <1>5, <1>6, <1>7 DEF Next

\* The last word stays the last until there is another.
LEMMA WordStep ==
  ASSUME Inv, LastWord, [Next]_vars
  PROVE  LastWord'
<1>1. CASE Quiet
  BY <1>1 DEF Quiet, LastWord, Tells
<1>2. ASSUME NEW e, Says(e) PROVE LastWord'
  <2>a. \A w \in Users : w \in Announced' => w \in connected'
    BY <1>2 DEF LastWord, Says
  <2>b. (Announced \subseteq connected)'
    BY <2>a, AnnouncedIs
  <2> SUFFICES ASSUME NEW p \in 1 .. Len(log'), log'[p].kind # "talk",
                      \A q \in p + 1 .. Len(log') : ~ Tells(log', log'[p].who, q)
               PROVE  log'[p].who \in Announced' <=> log'[p].kind = "joined"
    BY <2>b DEF LastWord, Tells
  <2>1. /\ Len(log) \in Nat /\ Len(log') = Len(log) + 1
        /\ \A k \in 1 .. Len(log) : log'[k] = log[k]
        /\ log'[Len(log) + 1] = e
        /\ \A w, k : k \in 1 .. Len(log) => (Tells(log', w, k) <=> Tells(log, w, k))
        /\ \A w : Tells(log', w, Len(log) + 1) <=> e.kind # "talk" /\ e.who = w
    BY <1>2, LogSays
  <2>2. log' \in Seq(Frames)
    BY <1>2, NextTypes DEF TypeOK
  <2>3. log'[p] \in Frames
    BY <2>2
  <2>4. log'[p].who \in Users
    BY <2>3 DEF Frames
  <2>5. CASE p = Len(log) + 1
    BY <1>2, <2>1, <2>4, <2>5 DEF Says
  <2>6. CASE p \in 1 .. Len(log)
    <3>1. log[p] = log'[p] /\ \A q \in p + 1 .. Len(log) : ~ Tells(log, log[p].who, q)
      BY <2>1, <2>6
    <3>2. log[p].who \in Announced <=> log[p].kind = "joined"
      BY <2>6, <3>1 DEF LastWord
    <3>3. Len(log) + 1 \in p + 1 .. Len(log')
      BY <2>1, <2>6
    <3>4. ~ (e.kind # "talk" /\ e.who = log'[p].who)
      BY <2>1, <3>3
    <3> QED
      BY <1>2, <2>4, <3>1, <3>2, <3>4 DEF Says
  <2> QED
    BY <2>1, <2>5, <2>6
<1> QED
  BY <1>1, <1>2, LogMoves

\* What is kept and what is replayed of it is talk.
LEMMA TalkKept ==
  ASSUME Inv, OnlyTalk, [Next]_vars
  PROVE  OnlyTalk'
<1>1. /\ kept \subseteq 1 .. Len(log) /\ \A u \in Users : backlog[u] \subseteq 1 .. Len(log)
      /\ backlog \in [Users -> SUBSET (1 .. Len(log))] /\ Len(log) \in Nat
  BY DEF Inv, TypeOK
<1>2. \A p \in 1 .. Len(log) : log[p].kind = "talk" => log'[p].kind = "talk"
  <2>1. CASE Quiet
    BY <2>1 DEF Quiet
  <2>2. ASSUME NEW e, Says(e) PROVE \A p \in 1 .. Len(log) : log'[p] = log[p]
    BY <2>2, LogSays
  <2> QED
    BY <2>1, <2>2, LogMoves
<1>3. ASSUME kept' \subseteq kept, \A u \in Users : backlog'[u] \subseteq backlog[u] \cup kept
      PROVE  OnlyTalk'
  BY <1>1, <1>2, <1>3 DEF OnlyTalk
<1>4. ASSUME NEW u \in Users, apply_client_event(u) PROVE OnlyTalk'
  <2>1. log \in Seq(Frames) /\ log' = Append(log, Talk)
    BY <1>4 DEF apply_client_event, Inv, TypeOK
  <2>2. log'[Len(log) + 1].kind = "talk"
    BY <2>1 DEF Talk
  <2>3. kept' \subseteq kept \cup {Len(log) + 1} /\ backlog' = backlog
    BY <1>4 DEF apply_client_event, session
  <2> QED
    BY <1>1, <1>2, <2>2, <2>3 DEF OnlyTalk
<1>5. ASSUME NEW u \in Users, join_room(u) PROVE OnlyTalk'
  <2>1. kept' = kept /\ \A v \in Users : backlog'[v] \subseteq backlog[v] \cup kept
    BY <1>1, <1>5 DEF join_room
  <2> QED
    BY <1>3, <2>1
<1>6. ASSUME NEW u \in Users, send_history(u) \/ LoseConnection(u) PROVE OnlyTalk'
  <2>1. kept' = kept /\ \A v \in Users : backlog'[v] \subseteq backlog[v] \cup kept
    BY <1>1, <1>6 DEF send_history, LoseConnection
  <2> QED
    BY <1>3, <2>1
<1>7. ASSUME kept' \subseteq kept, backlog' = backlog PROVE OnlyTalk'
  BY <1>3, <1>7
<1>8. ASSUME NEW u \in Users,
             \/ admit_user(u) \/ UpgradeFails(u)
             \/ forward_broadcasts(u) \/ RequestRoster(u) \/ SendReply(u) \/ EndSession(u)
             \/ cleanup_user(u) \/ toggleParticipants(u) \/ handleServerEvent(u)
      PROVE  OnlyTalk'
  <2>1. kept' = kept /\ backlog' = backlog
    BY <1>8 DEF admit_user, UpgradeFails, forward_broadcasts, RequestRoster, SendReply, EndSession,
                cleanup_user, toggleParticipants, handleServerEvent, session
  <2> QED
    BY <1>7, <2>1
<1>9. CASE cleanup_messages
  BY <1>7, <1>9 DEF cleanup_messages, session
<1>10. CASE UNCHANGED vars
  BY <1>7, <1>10 DEF vars
<1> QED
  BY <1>4, <1>5, <1>6, <1>8, <1>9, <1>10 DEF Next

----------------------------------------------------------------------------
\* The queue and the receiver of u stay, or the queue is emptied.
LEMMA WholeStays ==
  ASSUME Inv, NEW u \in Users, Whole(u),
         \/ log' = log
         \/ \E e : Says(e),
         \/ down'[u] = down[u] /\ cursor'[u] = cursor[u]
         \/ down'[u] = <<>>
  PROVE  Whole(u)'
<1>1. PICK n \in Nat : n = Len(log)
  BY TypesOf
<1>2. /\ Len(log') \in {n, n + 1}
      /\ \A p \in 1 .. n : log'[p] = log[p]
  BY <1>1, LogSays
<1>3. down[u] \in Seq(Items) /\ InRange(down[u], n)
  BY <1>1, TypesOf DEF Ordered
<1>4. Flying(down[u], n + 1) = Flying(down[u], n)
  BY <1>3, LogGrows
<1>5. CASE down'[u] = <<>>
  <2>1. Flying(<<>>, Len(log')) = {}
    BY <1>2, NothingFlies
  <2> QED
    BY <1>5, <2>1 DEF Whole
<1>6. CASE down'[u] = down[u] /\ cursor'[u] = cursor[u]
  <2>1. Flying(down[u], Len(log')) = Flying(down[u], n)
    BY <1>2, <1>4
  <2>2. Flying(down[u], n) \subseteq 1 .. n
    BY DEF Flying
  <2> QED
    BY <1>1, <1>2, <1>6, <2>1, <2>2 DEF Whole
<1> QED
  BY <1>5, <1>6

\* The receiver takes its next frame, p, or the frame p is talk.
LEMMA Between ==
  ASSUME NEW n \in Nat, NEW x \in 1 .. n, NEW p \in 1 .. n, NEW c \in 1 .. n + 1,
         NEW d \in {c, c + 1}, NEW y \in x + 1 .. d - 1, NEW talk \in BOOLEAN,
         (d = c /\ talk) \/ (p = c /\ d = c + 1)
  PROVE  (y \in x + 1 .. c - 1 \/ y = p) /\ (x = p => talk)
  OBVIOUS

\* What a step puts on the way to u: talk of the history, or the frame the receiver
\* takes.
LEMMA WholeAppends ==
  ASSUME Inv, NEW u \in Users, Whole(u), log' = log,
         NEW p \in 1 .. Len(log), \A x \in Flying(down[u], Len(log)) : x < p,
         down'[u] = Append(down[u], Frame(p)),
         \/ log[p].kind = "talk" /\ cursor'[u] = cursor[u]
         \/ p = cursor[u] /\ cursor'[u] = cursor[u] + 1
  PROVE  Whole(u)'
<1>1. PICK n \in Nat : n = Len(log)
  BY TypesOf
<1>2. /\ down[u] \in Seq(Items) /\ InRange(down[u], n) /\ Rising(down[u])
      /\ cursor[u] \in 1 .. n + 1
  BY <1>1, TypesOf DEF Ordered
<1>3. Flying(down'[u], n) = Flying(down[u], n) \cup {p}
  BY <1>1, <1>2, AppendFrame
<1> SUFFICES ASSUME NEW x \in Flying(down'[u], n), log[x].kind # "talk",
                    NEW y \in x + 1 .. cursor'[u] - 1
             PROVE  y \in Flying(down'[u], n)
  BY <1>1 DEF Whole
<1>4. x \in 1 .. n
  BY DEF Flying
<1>c. PICK c \in 1 .. n + 1 : c = cursor[u]
  BY <1>2
<1>d. PICK d \in {c, c + 1} : d = cursor'[u]
  BY <1>c
<1>e. \/ d = c /\ log[p].kind = "talk"
      \/ p = c /\ d = c + 1
  BY <1>c, <1>d
<1>f. y \in x + 1 .. d - 1 /\ p \in 1 .. n
  BY <1>1, <1>d
<1>g. (y \in x + 1 .. c - 1 \/ y = p) /\ (x = p => log[p].kind = "talk")
  BY <1>4, <1>e, <1>f, Between
<1>5. CASE x = p
  BY <1>5, <1>g
<1>6. CASE x \in Flying(down[u], n)
  <2>1. y \in x + 1 .. cursor[u] - 1 \/ y = p
    BY <1>c, <1>g
  <2> QED
    BY <1>1, <1>3, <1>6, <2>1 DEF Whole
<1> QED
  BY <1>3, <1>5, <1>6

\* Every step keeps what is on its way whole.
LEMMA WholeStep ==
  ASSUME Inv, OnlyTalk, \A v \in Users : Whole(v), [Next]_vars, NEW u \in Users
  PROVE  Whole(u)'
<1>0. log' = log \/ \E e : Says(e)
  BY LogMoves DEF Quiet
<1>1. /\ down \in [Users -> Seq(Items)] /\ cursor \in [Users -> 1 .. Len(log) + 1]
      /\ stage \in [Users -> {"out", "admitted", "replay", "live", "ended"}]
  BY DEF Inv, TypeOK
<1>2. ASSUME down'[u] = down[u] /\ cursor'[u] = cursor[u] PROVE Whole(u)'
  BY <1>0, <1>2, WholeStays
<1>3. ASSUME down'[u] = <<>> PROVE Whole(u)'
  BY <1>0, <1>3, WholeStays
<1>4. ASSUME NEW v \in Users, join_room(v) PROVE Whole(u)'
  <2>1. down' = down /\ (v # u => cursor'[u] = cursor[u]) /\ (v = u => down[u] = <<>>)
    BY <1>1, <1>4, TypesOf DEF join_room, Ordered
  <2> QED
    BY <1>2, <1>3, <2>1
<1>5. ASSUME NEW v \in Users, send_history(v) PROVE Whole(u)'
  <2>1. log' = log /\ cursor' = cursor
    BY <1>5 DEF send_history
  <2>2. CASE down'[u] = down[u]
    BY <1>2, <2>1, <2>2
  <2>3. CASE down'[u] # down[u]
    <3>1. v = u /\ backlog[u] # {}
      BY <1>1, <1>5, <2>3 DEF send_history
    <3>2. PICK p \in backlog[u] : down'[u] = Append(down[u], Frame(p))
      BY <1>1, <1>5, <3>1 DEF send_history
    <3>3. /\ p \in 1 .. Len(log) /\ \A x \in Flying(down[u], Len(log)) : x < p
          /\ log[p].kind = "talk"
      BY TypesOf DEF Ordered, OnlyTalk
    <3> QED
      BY <2>1, <3>2, <3>3, WholeAppends
  <2> QED
    BY <2>2, <2>3
<1>6. ASSUME NEW v \in Users, forward_broadcasts(v) PROVE Whole(u)'
  <2>1. CASE down'[u] = down[u] /\ cursor'[u] = cursor[u]
    BY <1>2, <2>1
  <2>2. CASE ~ (down'[u] = down[u] /\ cursor'[u] = cursor[u])
    <3>1. /\ v = u /\ cursor[u] <= Len(log) /\ log' = log
          /\ cursor'[u] = cursor[u] + 1 /\ down'[u] = Append(down[u], Frame(cursor[u]))
      BY <1>1, <1>6, <2>2 DEF forward_broadcasts
    <3>2. cursor[u] \in 1 .. Len(log) /\ \A x \in Flying(down[u], Len(log)) : x < cursor[u]
      BY <3>1, TypesOf DEF Ordered
    <3> QED
      BY <3>1, <3>2, WholeAppends
  <2> QED
    BY <2>1, <2>2
<1>7. ASSUME NEW v \in Users, SendReply(v) PROVE Whole(u)'
  <2>1. log' = log /\ cursor' = cursor /\ reply[v] # <<>> /\ (v # u => down'[u] = down[u])
    BY <1>7 DEF SendReply, session
  <2>2. CASE v = u
    <3>1. PICK users : users = reply[u][1].users
      OBVIOUS
    <3>2. users \in SUBSET Users /\ down'[u] = Append(down[u], Roster(users))
      BY <1>1, <1>7, <2>1, <2>2, <3>1, RepliesAre DEF SendReply, Inv
    <3>3. /\ down[u] \in Seq(Items) /\ Len(log) \in Nat
          /\ InRange(down[u], Len(log)) /\ Rising(down[u])
      BY TypesOf DEF Ordered
    <3>4. Flying(down'[u], Len(log)) = Flying(down[u], Len(log))
      BY <3>2, <3>3, AppendRoster
    <3> QED
      BY <2>1, <3>4 DEF Whole
  <2> QED
    BY <1>2, <2>1, <2>2
<1>8. ASSUME NEW v \in Users, handleServerEvent(v) PROVE Whole(u)'
  <2>1. log' = log /\ cursor' = cursor /\ down[v] # <<>> /\ (v # u => down'[u] = down[u])
    BY <1>8 DEF handleServerEvent, session
  <2>2. CASE v = u
    <3>1. down'[u] = Tail(down[u])
      BY <1>1, <1>8, <2>2 DEF handleServerEvent
    <3>2. PICK n \in Nat : n = Len(log)
      BY TypesOf
    <3>3. /\ down[u] \in Seq(Items) /\ InRange(down[u], n) /\ Rising(down[u])
      BY <3>2, TypesOf DEF Ordered
    <3>4. \/ Flying(down'[u], n) = Flying(down[u], n)
          \/ \E h \in Nat : /\ Flying(down'[u], n) = Flying(down[u], n) \ {h}
                            /\ \A x \in Flying(down[u], n) : h <= x
      BY <2>1, <2>2, <3>1, <3>3, TakeHead
    <3>5. \A x \in Flying(down[u], n) : x \in Nat
      BY DEF Flying
    <3> SUFFICES ASSUME NEW x \in Flying(down'[u], n), log[x].kind # "talk",
                        NEW y \in x + 1 .. cursor[u] - 1
                 PROVE  y \in Flying(down'[u], n)
      BY <2>1, <3>2 DEF Whole
    <3>6. x \in Flying(down[u], n) /\ y \in Flying(down[u], n) /\ y > x
      BY <3>2, <3>4, <3>5 DEF Whole
    <3>7. CASE Flying(down'[u], n) = Flying(down[u], n)
      BY <3>6, <3>7
    <3>8. ASSUME NEW h \in Nat, Flying(down'[u], n) = Flying(down[u], n) \ {h},
                 \A z \in Flying(down[u], n) : h <= z
          PROVE  y \in Flying(down'[u], n)
      <4>1. h <= x /\ x \in Nat /\ y \in Nat /\ y > x
        BY <3>5, <3>6, <3>8
      <4>2. y # h
        BY <4>1
      <4> QED
        BY <3>6, <3>8, <4>2
    <3> QED
      BY <3>4, <3>7, <3>8
  <2> QED
    BY <1>2, <2>1, <2>2
<1>9. ASSUME NEW v \in Users, LoseConnection(v) PROVE Whole(u)'
  <2>1. cursor' = cursor /\ (v # u => down'[u] = down[u]) /\ (v = u => down'[u] = <<>>)
    BY <1>1, <1>9 DEF LoseConnection
  <2> QED
    BY <1>2, <1>3, <2>1
<1>10. ASSUME NEW v \in Users,
              \/ admit_user(v) \/ UpgradeFails(v)
              \/ apply_client_event(v) \/ RequestRoster(v) \/ EndSession(v) \/ cleanup_user(v)
              \/ toggleParticipants(v)
       PROVE  Whole(u)'
  <2>1. down' = down /\ cursor' = cursor
    BY <1>10 DEF admit_user, UpgradeFails, apply_client_event, RequestRoster, EndSession, cleanup_user,
                 toggleParticipants, session
  <2> QED
    BY <1>2, <2>1
<1>11. CASE cleanup_messages \/ UNCHANGED vars
  <2>1. down' = down /\ cursor' = cursor
    BY <1>11 DEF cleanup_messages, vars, session
  <2> QED
    BY <1>2, <2>1
<1> QED
  BY <1>4, <1>5, <1>6, <1>7, <1>8, <1>9, <1>10, <1>11 DEF Next

----------------------------------------------------------------------------
\* A session that a step leaves alone, its page keeping its answer or not.
Kept(u) ==
    /\ stage'[u] = stage[u] /\ cursor'[u] = cursor[u] /\ down'[u] = down[u]
    /\ reply'[u] = reply[u] /\ roster'[u] = roster[u]
    /\ u \in answered' => u \in answered

\* Up to where a roster that waits was read.
LEMMA ReplyUpTo ==
  ASSUME TypeOK, NEW u \in Users, reply[u] # <<>>
  PROVE  reply[u][1].upto \in Nat
<1>1. PICK s \in Seq(Replies) : s = reply[u]
  BY DEF TypeOK
<1>2. s[1] \in Replies
  BY <1>1
<1> QED
  BY <1>1, <1>2 DEF Replies

\* Nothing is said.
LEMMA PanelStays ==
  ASSUME NEW u \in Users, PanelOK(u), Kept(u), Quiet
  PROVE  PanelOK(u)'
<1>1. \A i, w : Settled(u, i, w)' <=> Settled(u, i, w)
  BY DEF Kept, Settled, Quiet
<1>2. reply[u] # <<>> => stage'[u] = "live" /\ Snapshot(u)'
  BY DEF PanelOK, Kept, Snapshot, Fits, Quiet
<1>3. u \in answered' /\ stage[u] = "live" => Right(u, 0, roster[u])'
  BY <1>1 DEF PanelOK, Right, Kept, Fits, Quiet
<1>4. ASSUME NEW i \in DOMAIN down[u], down[u][i].kind = "roster", stage[u] = "live"
      PROVE  Right(u, i, down[u][i].users)'
  BY <1>1, <1>4 DEF PanelOK, Right, Kept, Fits, Quiet
<1> QED
  BY <1>2, <1>3, <1>4 DEF PanelOK, Kept

\* After a step.
StillFits(w, names) ==
    /\ w \in Announced' => w \in names
    /\ w \in names => w \in connected'

\* A frame is said: it is to come, so nothing about whom it tells of is settled.
LEMMA PanelHears ==
  ASSUME Inv, NEW u \in Users, PanelOK(u), Kept(u), NEW e, Says(e)
  PROVE  PanelOK(u)'
<1>1. PICK n \in Nat : n = Len(log)
  BY TypesOf
<1>2. /\ Len(log') = n + 1
      /\ \A w, p : p \in 1 .. n => (Tells(log', w, p) <=> Tells(log, w, p))
      /\ \A w : Tells(log', w, n + 1) <=> e.kind # "talk" /\ e.who = w
  BY <1>1, LogSays
<1>3. cursor[u] \in 1 .. n + 1 /\ InRange(down[u], n)
  BY <1>1, TypesOf DEF Ordered
<1>4. ASSUME NEW m \in Nat, m <= n, NEW w \in Users,
             \A p \in m + 1 .. n + 1 : ~ Tells(log', w, p)
      PROVE  /\ \A p \in m + 1 .. n : ~ Tells(log, w, p)
             /\ \A names : Fits(w, names) => StillFits(w, names)
  <2>1. n + 1 \in m + 1 .. n + 1 /\ \A p \in m + 1 .. n : p \in 1 .. n /\ p \in m + 1 .. n + 1
    BY <1>4
  <2>2. ~ (e.kind # "talk" /\ e.who = w)
    BY <1>2, <1>4, <2>1
  <2>3. (w \in Announced' <=> w \in Announced) /\ (w \in connected => w \in connected')
    BY <2>2 DEF Says
  <2> QED
    BY <1>2, <1>4, <2>1, <2>3 DEF Fits, StillFits
<1>5. ASSUME NEW i, NEW w \in Users, Settled(u, i, w)'
      PROVE  Settled(u, i, w) /\ \A names : Fits(w, names) => StillFits(w, names)
  <2>1. PICK m \in 0 .. n : cursor[u] = m + 1
    BY <1>3
  <2>2. /\ \A p \in m + 1 .. n : ~ Tells(log, w, p)
        /\ \A names : Fits(w, names) => StillFits(w, names)
    BY <1>2, <1>4, <1>5, <2>1 DEF Settled, Kept
  <2>3. \A j \in DOMAIN down[u] : i < j =>
          down[u][j].kind = "frame" /\ ~ Tells(log, w, down[u][j].pos)
    BY <1>2, <1>3, <1>5 DEF Settled, Kept, InRange
  <2> QED
    BY <1>1, <1>5, <2>1, <2>2, <2>3 DEF Settled, Kept
<1>6. ASSUME NEW i, NEW names, Right(u, i, names)
      PROVE  \A w \in Users : Settled(u, i, w)' => StillFits(w, names)
  BY <1>5, <1>6 DEF Right
<1>7. ASSUME reply[u] # <<>> PROVE stage'[u] = "live" /\ Snapshot(u)'
  <2>1. PICK r : r = reply[u][1]
    OBVIOUS
  <2>2. r.upto \in Nat
    BY <1>7, <2>1, ReplyUpTo DEF Inv
  <2>3. /\ stage[u] = "live" /\ r.upto <= n /\ cursor[u] <= r.upto + 1
        /\ \A w \in Users : (\A p \in r.upto + 1 .. n : ~ Tells(log, w, p)) =>
             Fits(w, r.users)
    BY <1>1, <1>7, <2>1 DEF PanelOK, Snapshot
  <2>4. r.upto <= n + 1
    BY <2>2, <2>3
  <2>5. \A w \in Users : (\A p \in r.upto + 1 .. n + 1 : ~ Tells(log', w, p)) =>
             StillFits(w, r.users)
    BY <1>4, <2>2, <2>3
  <2> QED
    BY <1>2, <2>1, <2>3, <2>4, <2>5 DEF Snapshot, Kept, Fits, StillFits
<1>8. u \in answered' /\ stage[u] = "live" => Right(u, 0, roster[u])'
  BY <1>6 DEF PanelOK, Right, Kept, Fits, StillFits
<1>9. ASSUME NEW i \in DOMAIN down[u], down[u][i].kind = "roster", stage[u] = "live"
      PROVE  Right(u, i, down[u][i].users)'
  BY <1>6, <1>9 DEF PanelOK, Right, Kept, Fits, StillFits
<1> QED
  BY <1>7, <1>8, <1>9 DEF PanelOK, Kept

\* A session that is not served has no panel to be right.
LEMMA PanelGone ==
  ASSUME NEW u \in Users, stage'[u] \notin {"replay", "live"}, reply'[u] = <<>>
  PROVE  PanelOK(u)'
  BY DEF PanelOK

\* The history is sent, and the tasks start.
LEMMA PanelReplays ==
  ASSUME Inv, NEW u \in Users, PanelOK(u), send_history(u)
  PROVE  PanelOK(u)'
<1>1. /\ stage[u] = "replay" /\ reply' = reply /\ answered' = answered /\ reply[u] = <<>>
      /\ u \notin answered /\ \A i \in DOMAIN down[u] : down[u][i].kind = "frame"
  BY DEF send_history, page, PanelOK
<1>2. CASE backlog[u] = {}
  <2>1. down' = down
    BY <1>2 DEF send_history
  <2> QED
    BY <1>1, <2>1 DEF PanelOK
<1>3. CASE backlog[u] # {}
  <2>1. PICK p \in backlog[u] : down' = [down EXCEPT ![u] = Append(@, Frame(p))]
    BY <1>3 DEF send_history
  <2>2. stage' = stage
    BY <1>3 DEF send_history
  <2>3. p \in Nat
    BY TypesOf
  <2> PICK e : e = Frame(p)
    OBVIOUS
  <2>4. e \in Items /\ e.kind = "frame"
    BY <2>3 DEF Frame, Items
  <2>5. down[u] \in Seq(Items) /\ down'[u] = Append(down[u], e)
    BY <2>1, <2>4 DEF Inv, TypeOK
  <2>6. \A i \in DOMAIN down'[u] : down'[u][i].kind = "frame"
    BY <1>1, <2>4, <2>5, AppendAt
  <2> QED
    BY <1>1, <2>2, <2>6 DEF PanelOK
<1> QED
  BY <1>2, <1>3

\* The receiver's next frame is put at the end of what is on its way: what was to
\* come is to come.
LEMMA PanelForwards ==
  ASSUME Inv, NEW u \in Users, PanelOK(u), forward_broadcasts(u)
  PROVE  PanelOK(u)'
<1>1. CASE Lagged(u)
  <2>1. stage'[u] = "ended" /\ reply'[u] = <<>>
    BY <1>1 DEF forward_broadcasts, Inv, TypeOK
  <2> QED
    BY <2>1, PanelGone
<1>2. CASE ~ Lagged(u)
  <2>1. PICK n \in Nat : n = Len(log)
    BY TypesOf
  <2>2. PICK c \in 1 .. n : c = cursor[u]
    BY <2>1, TypesOf DEF forward_broadcasts
  <2>3. PICK q \in Seq(Items) : q = down[u]
    BY TypesOf
  <2> PICK e : e = Frame(c)
    OBVIOUS
  <2>4. e \in Items /\ e.kind = "frame" /\ e.pos = c
    BY DEF Frame, Items
  <2>0. stage' = stage /\ Announced' = Announced
    BY <1>2 DEF forward_broadcasts, Announced
  <2>5. /\ log' = log /\ connected' = connected /\ stage'[u] = "live" /\ stage[u] = "live"
        /\ reply' = reply /\ roster' = roster /\ answered' = answered
        /\ cursor'[u] = c + 1 /\ down'[u] = Append(q, e)
    BY <1>2, <2>2, <2>3, <2>4 DEF forward_broadcasts, page, Inv, TypeOK
  <2>6. PICK m : m = Len(q) + 1
    OBVIOUS
  <2>7. /\ DOMAIN down'[u] = DOMAIN q \cup {m} /\ m \notin DOMAIN q
        /\ \A i \in DOMAIN q : i \in Nat /\ i < m /\ down'[u][i] = q[i]
        /\ down'[u][m] = e /\ m \in Nat \ {0}
    BY <2>4, <2>5, <2>6, AppendAt
  <2>8. ASSUME NEW i \in {0} \cup DOMAIN q, NEW w \in Users, Settled(u, i, w)'
        PROVE  Settled(u, i, w)
    <3>1. i < m
      BY <2>7
    <3>2. /\ reply[u] = <<>>
          /\ \A j \in DOMAIN q \cup {m} : i < j =>
               down'[u][j].kind = "frame" /\ ~ Tells(log, w, down'[u][j].pos)
          /\ \A p \in c + 1 .. n : ~ Tells(log, w, p)
      BY <2>1, <2>5, <2>7, <2>8 DEF Settled
    <3>3. ~ Tells(log, w, c)
      BY <2>4, <2>7, <3>1, <3>2
    <3>4. \A p \in c .. n : p = c \/ p \in c + 1 .. n
      OBVIOUS
    <3>5. \A p \in c .. n : ~ Tells(log, w, p)
      BY <3>2, <3>3, <3>4
    <3>6. \A j \in DOMAIN q : i < j => q[j].kind = "frame" /\ ~ Tells(log, w, q[j].pos)
      BY <2>7, <3>2
    <3> QED
      BY <2>1, <2>2, <2>3, <3>2, <3>5, <3>6 DEF Settled
  <2>9. u \in answered' => Right(u, 0, roster[u])'
    BY <2>0, <2>5, <2>8 DEF PanelOK, Right, Fits
  <2>10. ASSUME NEW i \in DOMAIN down'[u], down'[u][i].kind = "roster"
         PROVE  Right(u, i, down[u][i].users)'
    <3>1. i \in DOMAIN q /\ down'[u][i] = q[i]
      BY <2>4, <2>7, <2>10
    <3>2. Right(u, i, q[i].users)
      BY <2>3, <2>5, <2>10, <3>1 DEF PanelOK
    <3> QED
      BY <2>0, <2>5, <2>8, <3>1, <3>2 DEF Right, Fits
  <2>11. ASSUME reply[u] # <<>> PROVE Snapshot(u)'
    <3>1. PICK r : r = reply[u][1]
      OBVIOUS
    <3>2. r.upto \in Nat /\ ~ (c > r.upto)
      BY <2>2, <2>11, <3>1, ReplyUpTo DEF Inv, forward_broadcasts, Behind
    <3>3. c + 1 <= r.upto + 1
      BY <3>2
    <3> QED
      BY <2>0, <2>5, <2>11, <3>1, <3>3 DEF PanelOK, Snapshot, Fits
  <2> QED
    BY <2>5, <2>9, <2>10, <2>11 DEF PanelOK
<1> QED
  BY <1>1, <1>2

\* The roster is read: it is right, and what comes after is still in the channel.
LEMMA PanelRequests ==
  ASSUME Inv, LastWord, NEW u \in Users, PanelOK(u), RequestRoster(u)
  PROVE  PanelOK(u)'
<1>1. /\ log' = log /\ connected' = connected /\ stage' = stage /\ cursor' = cursor
      /\ down' = down /\ roster' = roster /\ answered' = answered /\ stage[u] = "live"
  BY DEF RequestRoster, session, page, Hears
<1>4. Announced' = Announced
  BY <1>1 DEF Announced
<1>2. CASE reply' = reply
  BY <1>1, <1>2, <1>4, PanelStays DEF Kept, Quiet
<1>3. CASE reply' # reply
  <2>1. PICK r : r = [users |-> connected, upto |-> Len(log)]
    OBVIOUS
  <2>2. reply'[u] = <<r>>
    BY <1>3, <2>1 DEF RequestRoster, Inv, TypeOK
  <2>3. reply'[u] # <<>> /\ reply'[u][1] = r /\ r.users = connected /\ r.upto = Len(log)
    BY <2>1, <2>2
  <2>4. Len(log) \in Nat /\ cursor[u] <= Len(log) + 1
    BY TypesOf
  <2>s. \A w : Fits(w, connected)'
    BY <1>1, <1>4 DEF LastWord, Fits
  <2>5. Snapshot(u)'
    BY <1>1, <2>3, <2>4, <2>s DEF Snapshot
  <2>6. \A i, names : Right(u, i, names)'
    BY <2>3 DEF Right, Settled
  <2> QED
    BY <1>1, <2>5, <2>6 DEF PanelOK
<1> QED
  BY <1>2, <1>3

\* The roster is sent, behind the frames from before it was read and ahead of
\* those that followed.
LEMMA PanelReplies ==
  ASSUME Inv, NEW u \in Users, PanelOK(u), SendReply(u)
  PROVE  PanelOK(u)'
<1>1. PICK q \in Seq(Items) : q = down[u]
  BY TypesOf
<1>2. PICK r : r = reply[u][1]
  OBVIOUS
<1> PICK e : e = Roster(r.users)
  OBVIOUS
<1>3. e \in Items /\ e.kind = "roster" /\ e.users = r.users
  BY <1>2, RepliesAre DEF Roster, Items, SendReply, Inv
<1>4. /\ log' = log /\ connected' = connected /\ stage' = stage /\ stage[u] = "live"
      /\ cursor' = cursor /\ roster' = roster /\ answered' = answered
      /\ reply[u] # <<>> /\ reply'[u] = <<>> /\ down'[u] = Append(q, e)
  BY <1>1, <1>2 DEF SendReply, session, page, Inv, TypeOK
<1>5. PICK m : m = Len(q) + 1
  OBVIOUS
<1>6. /\ DOMAIN down'[u] = DOMAIN q \cup {m}
      /\ \A i \in DOMAIN q : i \in Nat /\ i < m /\ down'[u][i] = q[i]
      /\ down'[u][m] = e /\ m \in Nat \ {0}
  BY <1>3, <1>4, <1>5, AppendAt
<1>7. \A i \in {0} \cup DOMAIN q : \A w : ~ Settled(u, i, w)'
  <2> SUFFICES ASSUME NEW i \in {0} \cup DOMAIN q, NEW w, Settled(u, i, w)' PROVE FALSE
    OBVIOUS
  <2>1. i < m /\ m \in DOMAIN down'[u]
    BY <1>6
  <2>2. down'[u][m].kind = "frame"
    BY <2>1 DEF Settled
  <2> QED
    BY <1>3, <1>6, <2>2
<1>8. Right(u, 0, roster[u])'
  BY <1>7 DEF Right
<1>9. ASSUME NEW i \in DOMAIN down'[u] PROVE Right(u, i, down[u][i].users)'
  <2>1. CASE i \in DOMAIN q
    BY <1>7, <2>1 DEF Right
  <2>2. CASE i = m
    <3> SUFFICES ASSUME NEW w \in Users, Settled(u, i, w)'
                 PROVE  Fits(w, r.users)
      <4>1. Announced' = Announced
        BY <1>4 DEF Announced
      <4> QED
        BY <1>3, <1>4, <1>6, <2>2, <4>1 DEF Right, Fits
    <3>1. \A p \in cursor[u] .. Len(log) : ~ Tells(log, w, p)
      BY <1>4 DEF Settled
    <3>2. /\ r.upto \in Nat /\ cursor[u] <= r.upto + 1 /\ Snapshot(u)
          /\ cursor[u] \in Nat /\ Len(log) \in Nat
      <4>1. cursor[u] \in 1 .. Len(log) + 1 /\ Len(log) \in Nat
        BY TypesOf
      <4> QED
        BY <1>2, <1>4, <4>1, ReplyUpTo DEF PanelOK, Snapshot, Inv
    <3>3. \A p \in r.upto + 1 .. Len(log) : p \in cursor[u] .. Len(log)
      BY <3>2
    <3> QED
      BY <1>2, <3>1, <3>2, <3>3 DEF Snapshot
  <2> QED
    BY <1>6, <2>1, <2>2
<1> QED
  BY <1>4, <1>8, <1>9 DEF PanelOK

\* The page takes what comes first: a roster is what it has from then on, and a
\* frame that tells of a user is the last word on them if nothing else is to come.
LEMMA PanelTakes ==
  ASSUME Inv, LastWord, NEW u \in Users, Whole(u), PanelOK(u), handleServerEvent(u)
  PROVE  PanelOK(u)'
<1>1. PICK n \in Nat : n = Len(log)
  BY TypesOf
<1>2. PICK q \in Seq(Items) : q = down[u]
  BY TypesOf
<1>3. PICK e : e = Head(q)
  OBVIOUS
<1>4. PICK t : t = Tail(q)
  OBVIOUS
<1>5. q # <<>>
  BY <1>2 DEF handleServerEvent
<1>6. /\ t \in Seq(Items) /\ e \in Items /\ e = q[1] /\ 1 \in DOMAIN q
      /\ \A i \in DOMAIN t : i \in Nat \ {0} /\ i + 1 \in DOMAIN q /\ t[i] = q[i + 1]
      /\ \A i \in DOMAIN q : i \in Nat /\ (i # 1 => i - 1 \in DOMAIN t /\ t[i - 1] = q[i])
  BY <1>3, <1>4, <1>5, TailAt
<1>7. PICK c \in 1 .. n + 1 : c = cursor[u]
  BY <1>1, TypesOf
<1>8. /\ log' = log /\ connected' = connected /\ stage' = stage /\ cursor' = cursor
      /\ reply' = reply /\ panel' = panel /\ down'[u] = t
      /\ e.kind = "roster" => roster'[u] = e.users
      /\ e.kind # "roster" => /\ answered' = answered
                              /\ roster'[u] = updateRosterFrom(u, log[e.pos])
  BY <1>2, <1>3, <1>4 DEF handleServerEvent, session, Inv, TypeOK
<1>a. Announced' = Announced
  BY <1>8 DEF Announced
<1>9. ASSUME NEW i \in Nat, NEW w \in Users, Settled(u, i, w)'
      PROVE  Settled(u, i + 1, w)
  <2>1. /\ reply[u] = <<>> /\ \A p \in c .. n : ~ Tells(log, w, p)
        /\ \A j \in DOMAIN t : i < j => t[j].kind = "frame" /\ ~ Tells(log, w, t[j].pos)
    BY <1>1, <1>7, <1>8, <1>9 DEF Settled
  <2>2. ASSUME NEW j \in DOMAIN q, i + 1 < j
        PROVE  q[j].kind = "frame" /\ ~ Tells(log, w, q[j].pos)
    <3>1. j \in Nat /\ j # 1 /\ i < j - 1
      BY <1>6, <2>2
    <3> QED
      BY <1>6, <2>1, <3>1
  <2> QED
    BY <1>1, <1>2, <1>7, <2>1, <2>2 DEF Settled
<1>10. ASSUME stage[u] = "live", NEW i \in DOMAIN t, t[i].kind = "roster"
       PROVE  Right(u, i, down[u][i].users)'
  <2>1. i \in Nat /\ i + 1 \in DOMAIN q /\ t[i] = q[i + 1]
    BY <1>6
  <2>2. Right(u, i + 1, q[i + 1].users)
    BY <1>2, <1>10, <2>1 DEF PanelOK
  <2> QED
    BY <1>8, <1>9, <1>a, <2>1, <2>2 DEF Right, Fits
<1>11. ASSUME stage[u] = "live", u \in answered', e.kind = "roster"
       PROVE  Right(u, 0, roster[u])'
  <2>1. Right(u, 1, e.users)
    BY <1>2, <1>6, <1>11 DEF PanelOK
  <2> QED
    BY <1>8, <1>9, <1>11, <1>a, <2>1 DEF Right, Fits
<1>12. ASSUME stage[u] = "live", u \in answered', e.kind # "roster"
       PROVE  Right(u, 0, roster[u])'
  <2>1. u \in answered /\ u \in panel
    BY <1>8, <1>12 DEF Inv, TypeOK
  <2>2. e.kind = "frame"
    BY <1>6, <1>12 DEF Items
  <2>3. PICK p \in 1 .. n : p = e.pos
    BY <1>1, <1>2, <1>6, <2>2, TypesOf DEF Ordered, InRange
  <2>4. log[p] \in Frames
    BY <1>1 DEF Inv, TypeOK
  <2>5. Right(u, 0, roster[u])
    BY <1>12, <2>1 DEF PanelOK
  <2> SUFFICES ASSUME NEW w \in Users, Settled(u, 0, w)'
               PROVE  Fits(w, roster'[u])
    BY <1>8, <1>a DEF Right, Fits
  <2>6. Settled(u, 1, w)
    BY <1>9
  <2>7. roster'[u] = IF log[p].kind = "joined" THEN roster[u] \cup {log[p].who}
                     ELSE IF log[p].kind = "left" THEN roster[u] \ {log[p].who}
                     ELSE roster[u]
    BY <1>8, <1>12, <2>1, <2>3 DEF updateRosterFrom
  <2>8. CASE ~ Tells(log, w, p)
    <3>1. Settled(u, 0, w)
      <4>1. ASSUME NEW j \in DOMAIN q, 0 < j
            PROVE  q[j].kind = "frame" /\ ~ Tells(log, w, q[j].pos)
        <5>1. CASE j = 1
          BY <1>6, <2>2, <2>3, <2>8, <5>1
        <5>2. CASE j # 1
          <6>1. 1 < j
            BY <1>6, <4>1, <5>2
          <6> QED
            BY <1>2, <2>6, <6>1 DEF Settled
        <5> QED
          BY <5>1, <5>2
      <4> QED
        BY <1>2, <2>6, <4>1 DEF Settled
    <3>2. Fits(w, roster[u])
      BY <2>5, <3>1 DEF Right
    <3>3. log[p].kind \in {"joined", "left"} => log[p].who # w
      BY <2>8 DEF Tells
    <3> QED
      BY <2>7, <3>2, <3>3 DEF Fits
  <2>9. CASE Tells(log, w, p)
    <3>1. log[p].kind # "talk" /\ log[p].who = w /\ log[p].kind \in {"joined", "left"}
      BY <2>4, <2>9 DEF Tells, Frames
    <3>2. ASSUME NEW y \in p + 1 .. n PROVE ~ Tells(log, w, y)
      <4>1. CASE y \in c .. n
        BY <1>1, <1>7, <2>6, <4>1 DEF Settled
      <4>2. CASE y \notin c .. n
        <5>1. y \in p + 1 .. c - 1 /\ y # p
          BY <3>2, <4>2
        <5>2. p \in Flying(q, n)
          BY <1>1, <1>2, <1>6, <2>2, <2>3, FlyingIs, TypesOf DEF Ordered
        <5>3. y \in Flying(q, n)
          BY <1>1, <1>2, <1>7, <3>1, <5>1, <5>2 DEF Whole
        <5>4. PICK j \in DOMAIN q : q[j].kind = "frame" /\ q[j].pos = y
          BY <1>1, <1>2, <5>3, FlyingIs, TypesOf DEF Ordered
        <5>5. j \in Nat /\ j # 1 /\ j # 0
          BY <1>6, <2>3, <5>1, <5>4
        <5>6. 1 < j
          BY <5>5
        <5> QED
          BY <1>2, <2>6, <5>4, <5>6 DEF Settled
      <4> QED
        BY <4>1, <4>2
    <3>3. (w \in Announced <=> log[p].kind = "joined") /\ Announced \subseteq connected
      BY <1>1, <3>1, <3>2 DEF LastWord
    <3> QED
      BY <2>7, <3>1, <3>3 DEF Fits
  <2> QED
    BY <2>8, <2>9
<1>13. reply[u] # <<>> => stage[u] = "live" /\ Snapshot(u)'
  BY <1>8, <1>a DEF PanelOK, Snapshot, Fits
<1>14. ASSUME stage[u] = "replay"
       PROVE  u \notin answered' /\ \A i \in DOMAIN t : t[i].kind = "frame"
  <2>1. u \notin answered /\ \A i \in DOMAIN q : q[i].kind = "frame"
    BY <1>2, <1>14 DEF PanelOK
  <2> QED
    BY <1>6, <1>8, <2>1
<1> QED
  BY <1>8, <1>10, <1>11, <1>12, <1>13, <1>14 DEF PanelOK

\* A session joins: no roster waits, and its page has yet to be answered.
LEMMA PanelJoins ==
  ASSUME Inv, NEW u \in Users, PanelOK(u), join_room(u)
  PROVE  PanelOK(u)'
<1>1. /\ stage[u] = "admitted" /\ stage'[u] = "replay" /\ reply' = reply
      /\ down' = down /\ down[u] = <<>> /\ u \notin answered'
  BY TypesOf DEF join_room, page, Inv, TypeOK, Ordered
<1>2. reply'[u] = <<>>
  BY <1>1 DEF PanelOK
<1>3. \A i \in DOMAIN down'[u] : FALSE
  BY <1>1
<1> QED
  BY <1>1, <1>2, <1>3 DEF PanelOK

\* A session whose own queue a step leaves alone, whatever the room says.
LEMMA PanelKept ==
  ASSUME Inv, [Next]_vars, NEW u \in Users, PanelOK(u), Kept(u)
  PROVE  PanelOK(u)'
<1>1. ASSUME NEW e, Says(e) PROVE PanelOK(u)'
  BY <1>1, PanelHears
<1>2. CASE Quiet
  BY <1>2, PanelStays
<1> QED
  BY <1>1, <1>2, LogMoves

\* A step of one session leaves the others' queues alone.
LEMMA OthersKept ==
  ASSUME Inv, NEW u \in Users, NEW v \in Users \ {u},
         \/ admit_user(v) \/ UpgradeFails(v)
         \/ join_room(v) \/ send_history(v) \/ forward_broadcasts(v)
         \/ apply_client_event(v) \/ RequestRoster(v) \/ SendReply(v)
         \/ EndSession(v) \/ LoseConnection(v) \/ cleanup_user(v)
         \/ toggleParticipants(v) \/ handleServerEvent(v)
  PROVE  Kept(u)
<1> USE DEF Inv, TypeOK, Kept, session, page
<1>0. CASE admit_user(v) \/ UpgradeFails(v)
  BY <1>0 DEF admit_user, UpgradeFails
<1>1. CASE join_room(v) \/ send_history(v) \/ forward_broadcasts(v)
  BY <1>1 DEF join_room, send_history, forward_broadcasts
<1>2. CASE apply_client_event(v) \/ RequestRoster(v) \/ SendReply(v)
  BY <1>2 DEF apply_client_event, RequestRoster, SendReply
<1>3. CASE EndSession(v) \/ LoseConnection(v) \/ cleanup_user(v)
  BY <1>3 DEF EndSession, LoseConnection, cleanup_user
<1>4. CASE toggleParticipants(v) \/ handleServerEvent(v)
  BY <1>4 DEF toggleParticipants, handleServerEvent
<1> QED
  BY <1>0, <1>1, <1>2, <1>3, <1>4

\* Every step keeps each panel right.
LEMMA PanelStep ==
  ASSUME Inv, LastWord, [Next]_vars, NEW u \in Users, Whole(u), PanelOK(u)
  PROVE  PanelOK(u)'
<1>1. CASE Kept(u)
  BY <1>1, PanelKept
<1>2. CASE join_room(u) \/ send_history(u) \/ forward_broadcasts(u)
  BY <1>2, PanelJoins, PanelReplays, PanelForwards
<1>3. CASE RequestRoster(u) \/ SendReply(u) \/ handleServerEvent(u)
  BY <1>3, PanelRequests, PanelReplies, PanelTakes
<1>4. CASE EndSession(u) \/ LoseConnection(u)
  <2>1. stage'[u] \notin {"replay", "live"} /\ reply'[u] = <<>>
    BY <1>4 DEF EndSession, LoseConnection, Serving, Inv, TypeOK
  <2> QED
    BY <2>1, PanelGone
<1>5. CASE cleanup_user(u) \/ admit_user(u) \/ UpgradeFails(u)
  <2>1. /\ stage[u] \in {"ended", "out", "admitted"} /\ stage'[u] \in {"out", "admitted"}
        /\ reply' = reply
    BY <1>5 DEF cleanup_user, admit_user, UpgradeFails, Inv, TypeOK
  <2>2. reply[u] = <<>>
    BY <2>1 DEF PanelOK
  <2> QED
    BY <2>1, <2>2, PanelGone
<1>6. CASE apply_client_event(u) \/ toggleParticipants(u)
  <2>1. Kept(u)
    BY <1>6 DEF apply_client_event, toggleParticipants, session, page, Kept
  <2> QED
    BY <1>1, <2>1
<1>7. CASE cleanup_messages \/ UNCHANGED vars
  <2>1. Kept(u)
    BY <1>7 DEF cleanup_messages, vars, session, page, Kept
  <2> QED
    BY <1>1, <2>1
<1>8. ASSUME NEW v \in Users \ {u},
             \/ admit_user(v) \/ UpgradeFails(v)
             \/ join_room(v) \/ send_history(v) \/ forward_broadcasts(v)
             \/ apply_client_event(v) \/ RequestRoster(v) \/ SendReply(v)
             \/ EndSession(v) \/ LoseConnection(v) \/ cleanup_user(v)
             \/ toggleParticipants(v) \/ handleServerEvent(v)
      PROVE  PanelOK(u)'
  BY <1>1, <1>8, OthersKept
<1>9. CASE Next
  <2>1. PICK v \in Users :
             \/ admit_user(v) \/ UpgradeFails(v)
             \/ join_room(v) \/ send_history(v) \/ forward_broadcasts(v)
             \/ apply_client_event(v) \/ RequestRoster(v) \/ SendReply(v)
             \/ EndSession(v) \/ LoseConnection(v) \/ cleanup_user(v)
             \/ toggleParticipants(v) \/ handleServerEvent(v)
             \/ cleanup_messages
    BY <1>9 DEF Next
  <2>2. CASE v = u
    BY <1>2, <1>3, <1>4, <1>5, <1>6, <1>7, <2>1, <2>2
  <2>3. CASE v # u
    BY <1>7, <1>8, <2>1, <2>3
  <2> QED
    BY <2>2, <2>3
<1> QED
  BY <1>7, <1>9

\* At the start nothing is said and no one is there.
LEMMA InitRoster ==
  ASSUME Init PROVE RosterInv
<1>1. Len(log) = 0 /\ kept = {} /\ log = <<>> /\ answered = {}
  BY DEF Init
<1>2. \A u \in Users : /\ down[u] = <<>> /\ backlog[u] = {} /\ stage[u] = "out"
                       /\ reply[u] = <<>>
  BY DEF Init
<1>3. LastWord /\ OnlyTalk
  BY <1>1, <1>2 DEF LastWord, OnlyTalk, Announced
<1>4. ASSUME NEW u \in Users PROVE Whole(u) /\ PanelOK(u)
  <2>1. Flying(<<>>, Len(log)) = {}
    BY <1>1, NothingFlies
  <2> QED
    BY <1>2, <2>1 DEF Whole, PanelOK
<1> QED
  BY <1>3, <1>4, InitInv DEF RosterInv

\* Every step keeps all of it.
LEMMA NextRoster ==
  ASSUME RosterInv, [Next]_vars PROVE RosterInv'
<1>1. Inv /\ LastWord /\ OnlyTalk /\ \A u \in Users : Whole(u) /\ PanelOK(u)
  BY DEF RosterInv
<1>2. Inv'
  BY <1>1, NextTypes, EachStep DEF Inv, OrderedAll
<1>3. LastWord' /\ OnlyTalk'
  BY <1>1, WordStep, TalkKept
<1>4. \A u \in Users : Whole(u)'
  BY <1>1, WholeStep
<1>5. \A u \in Users : PanelOK(u)'
  BY <1>1, PanelStep
<1> QED
  BY <1>2, <1>3, <1>4, <1>5 DEF RosterInv

\* An open panel that has been answered, on a page that has got all that was sent,
\* shows everyone whose arrival was announced and nobody who is not Connected.
THEOREM RosterIsCurrent == Spec => []RosterCurrent
<1>1. RosterInv => RosterCurrent
  <2> SUFFICES ASSUME RosterInv, NEW u \in answered, CaughtUp(u)
               PROVE  Announced \subseteq roster[u] /\ roster[u] \subseteq connected
    BY DEF RosterCurrent
  <2>1. Inv /\ u \in Users /\ PanelOK(u)
    BY DEF RosterInv, Inv, TypeOK
  <2>2. roster[u] \subseteq Users /\ Announced \subseteq Users
    BY <2>1 DEF Inv, TypeOK, Announced
  <2>3. Right(u, 0, roster[u])
    BY <2>1 DEF PanelOK, CaughtUp
  <2>4. reply[u] = <<>> /\ down[u] = <<>> /\ \A p \in cursor[u] .. Len(log) : FALSE
    BY <2>1, TypesOf DEF CaughtUp
  <2>5. \A w \in Users : Settled(u, 0, w)
    BY <2>4 DEF Settled
  <2>6. \A w \in Users : Fits(w, roster[u])
    BY <2>3, <2>5 DEF Right
  <2> QED
    BY <2>2, <2>6 DEF Fits
<1>2. Init => RosterInv
  BY InitRoster
<1>3. RosterInv /\ [Next]_vars => RosterInv'
  BY NextRoster
<1> QED
  BY <1>1, <1>2, <1>3, PTL DEF Spec
=============================================================================
