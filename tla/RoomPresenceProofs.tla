-------------------------- MODULE RoomPresenceProofs --------------------------
(***************************************************************************)
(* What RoomPresence claims of the roster of a room, for any visitors,     *)
(* tabs, animals and limit.                                                *)
(*                                                                         *)
(* An order of the roster names every animal once, and drawing from it     *)
(* turns it; since the room counts fewer people than there are animals,    *)
(* there is always one to draw (NameIsFree). That, and that Connected      *)
(* stays finite, is what the types rest on.                                *)
(*                                                                         *)
(* NoGhosts is inductive with the types alone where no client vanishes     *)
(* before its upgrade. What is claimed of names, of the limit and of       *)
(* sessions holds where each user has one connection (Lone): then the      *)
(* entry, the name and the channel of a session are its own until its own  *)
(* teardown takes them, whatever sweeps and deletions come between         *)
(* (LoneHolds). A second connection of the same user may take them, and    *)
(* two users have one name: PresenceLateJoin shows it.                     *)
(***************************************************************************)
EXTENDS RoomPresence, FiniteSetTheorems, SequenceTheorems, TLAPS

\* The assumption on the constants.
LEMMA Constants ==
  /\ IsFiniteSet(Names) /\ Cardinality(Names) \in Nat
  /\ Who \in [Conns -> Users]
  /\ Limit \in Nat \ {0} /\ Cardinality(Names) > Limit
  /\ Gone \notin Conns /\ Unknown \notin Conns /\ Gone # Unknown
  /\ NoName \notin Names
  BY PresenceAssumption, FS_CardinalityType

\* A set of naturals has a least element.
LEMMA LeastNumber ==
  ASSUME NEW S \in SUBSET Nat, S # {}
  PROVE  \E x \in S : \A y \in S : x <= y
<1>1. PICK x \in S : \A y \in S : ~(<<y, x>> \in OpToRel(<, Nat))
  BY WFMin, NatLessThanWellFounded
<1>2. \A y \in S : ~(y < x)
  BY <1>1 DEF OpToRel
<1> QED
  BY <1>2

\* An order of the roster names every animal once.
LEMMA OrdersAre ==
  ASSUME NEW p \in Orders
  PROVE  /\ p \in Seq(Names) /\ Len(p) = Cardinality(Names)
         /\ DOMAIN p = 1 .. Cardinality(Names)
         /\ \A i, j \in DOMAIN p : i # j => p[i] # p[j]
         /\ \A n \in Names : \E i \in DOMAIN p : p[i] = n
<1> DEFINE D == 1 .. Cardinality(Names)
<1>1. p \in [D -> Names] /\ \A i, j \in D : i # j => p[i] # p[j]
  BY DEF Orders, SetToSeqs
<1>2. p \in Seq(Names) /\ Len(p) = Cardinality(Names) /\ DOMAIN p = D
  BY <1>1, Constants
<1>3. p \in Injection(D, Names)
  BY <1>1 DEF Injection, IsInjective
<1>4. IsFiniteSet(D) /\ Cardinality(D) = Cardinality(Names)
  BY Constants, FS_Interval
<1>5. p \in Surjection(D, Names)
  BY <1>3, <1>4, Constants, FS_Injection
<1> QED
  BY <1>1, <1>2, <1>5 DEF Surjection

\* The people in a room that is not full leave a name free, and assign_animal
\* finds it.
LEMMA NameIsFree ==
  ASSUME NEW p \in Orders, IsFiniteSet(Connected),
         Cardinality(Connected) < Cardinality(Names)
  PROVE  /\ FirstFree(p) \in DOMAIN p
         /\ assign_animal(p) \in Names \ names_in_use
<1> DEFINE f == [u \in Connected |-> name[u]]
<1>1. f \in Surjection(Connected, names_in_use)
  BY DEF Surjection, names_in_use
<1>2. IsFiniteSet(names_in_use) /\ Cardinality(names_in_use) <= Cardinality(Connected)
  BY <1>1, FS_Surjection
<1>3. Cardinality(Connected) \in Nat /\ Cardinality(names_in_use) \in Nat
  BY <1>2, FS_CardinalityType
<1>4. \E n \in Names : n \notin names_in_use
  <2> SUFFICES ASSUME Names \subseteq names_in_use
               PROVE  FALSE
    OBVIOUS
  <2>1. Cardinality(Names) <= Cardinality(names_in_use)
    BY <1>2, FS_Subset
  <2> QED
    BY <1>2, <1>3, <2>1, Constants
<1>5. Free(p) # {} /\ Free(p) \in SUBSET Nat /\ Free(p) \subseteq DOMAIN p
  BY <1>4, OrdersAre, Constants DEF Free
<1>6. \E i \in Free(p) : \A j \in Free(p) : i <= j
  BY <1>5, LeastNumber
<1>7. FirstFree(p) \in Free(p)
  BY <1>6 DEF FirstFree
<1>8. FirstFree(p) \in DOMAIN p /\ p[FirstFree(p)] \notin names_in_use
  BY <1>5, <1>7 DEF Free
<1>9. p[FirstFree(p)] \in Names
  BY <1>8, OrdersAre
<1> QED
  BY <1>8, <1>9 DEF assign_animal

\* A sequence cut in two and put together the other way round.
Turned(p, m) == SubSeq(p, m + 1, Len(p)) \o SubSeq(p, 1, m)

\* What is turned holds the same, each once.
LEMMA Rotation ==
  ASSUME NEW S, NEW p \in Seq(S), NEW m \in 1 .. Len(p),
         \A i, j \in 1 .. Len(p) : i # j => p[i] # p[j]
  PROVE  /\ Turned(p, m) \in [1 .. Len(p) -> S]
         /\ \A i, j \in 1 .. Len(p) : i # j => Turned(p, m)[i] # Turned(p, m)[j]
<1> PICK r : r = Turned(p, m)
  OBVIOUS
<1>1. PICK n \in Nat : n = Len(p) /\ DOMAIN p = 1 .. n
  OBVIOUS
<1>2. PICK a, b : a = SubSeq(p, m + 1, n) /\ b = SubSeq(p, 1, m)
  OBVIOUS
<1>3. /\ a \in Seq(S) /\ Len(a) = n - m
      /\ \A i \in 1 .. n - m : a[i] = p[m + i]
  <2>1. \A i \in m + 1 .. n : p[i] \in S
    BY <1>1
  <2>2. /\ a \in Seq(S) /\ Len(a) = IF m + 1 <= n THEN n - (m + 1) + 1 ELSE 0
        /\ \A i \in 1 .. n - (m + 1) + 1 : a[i] = p[(m + 1) + i - 1]
    BY <1>1, <1>2, <2>1, SubSeqProperties
  <2> QED
    BY <1>1, <2>2
<1>4. /\ b \in Seq(S) /\ Len(b) = m
      /\ \A i \in 1 .. m : b[i] = p[i]
  <2>1. \A i \in 1 .. m : p[i] \in S
    BY <1>1
  <2>2. /\ b \in Seq(S) /\ Len(b) = IF 1 <= m THEN m - 1 + 1 ELSE 0
        /\ \A i \in 1 .. m - 1 + 1 : b[i] = p[1 + i - 1]
    BY <1>1, <1>2, <2>1, SubSeqProperties
  <2> QED
    BY <1>1, <2>2
<1>5. /\ r \in Seq(S) /\ Len(r) = n
      /\ \A i \in 1 .. n : r[i] = IF i <= n - m THEN a[i] ELSE b[i - (n - m)]
  <2>1. r = a \o b /\ Len(a) + Len(b) = n
    BY <1>1, <1>2, <1>3, <1>4 DEF Turned
  <2>2. /\ a \o b \in Seq(S) /\ Len(a \o b) = Len(a) + Len(b)
        /\ \A i \in 1 .. Len(a) + Len(b) :
              (a \o b)[i] = IF i <= Len(a) THEN a[i] ELSE b[i - Len(a)]
    <3>1. a \in Seq(S) /\ b \in Seq(S)
      BY <1>3, <1>4
    <3> QED
      BY <3>1, ConcatProperties, Zenon
  <2> QED
    BY <1>3, <2>1, <2>2
<1>6. \A i \in 1 .. n : i <= n - m => r[i] = p[m + i]
  BY <1>1, <1>3, <1>5
<1>7. \A i \in 1 .. n : ~(i <= n - m) => r[i] = p[i - (n - m)]
  <2> TAKE i \in 1 .. n
  <2> HAVE ~(i <= n - m)
  <2>1. i - (n - m) \in 1 .. m
    BY <1>1
  <2> QED
    BY <1>4, <1>5, <2>1
<1>8. ASSUME NEW i \in 1 .. n, NEW j \in 1 .. n, i # j
      PROVE  r[i] # r[j]
  <2>1. CASE i <= n - m /\ j <= n - m
    BY <1>1, <1>6, <1>8, <2>1
  <2>2. CASE i <= n - m /\ ~(j <= n - m)
    <3>1. m + i \in 1 .. n /\ j - (n - m) \in 1 .. n /\ m + i # j - (n - m)
      BY <1>1, <2>2
    <3> QED
      BY <1>1, <1>6, <1>7, <2>2, <3>1
  <2>3. CASE ~(i <= n - m) /\ j <= n - m
    <3>1. m + j \in 1 .. n /\ i - (n - m) \in 1 .. n /\ m + j # i - (n - m)
      BY <1>1, <2>3
    <3> QED
      BY <1>1, <1>6, <1>7, <2>3, <3>1
  <2>4. CASE ~(i <= n - m) /\ ~(j <= n - m)
    BY <1>1, <1>7, <1>8, <2>4
  <2> QED
    BY <2>1, <2>2, <2>3, <2>4
<1>9. r \in [1 .. n -> S]
  BY <1>5, LenProperties
<1> QED
  BY <1>1, <1>8, <1>9

\* Drawing a name turns the rotation; it stays an order of the whole roster.
LEMMA RotationKeepsTheRoster ==
  ASSUME NEW p \in Orders, FirstFree(p) \in DOMAIN p
  PROVE  Rotated(p) \in Orders
<1>1. /\ p \in Seq(Names) /\ Len(p) = Cardinality(Names)
      /\ DOMAIN p = 1 .. Cardinality(Names)
      /\ \A i, j \in 1 .. Len(p) : i # j => p[i] # p[j]
  BY OrdersAre
<1>2. PICK m \in 1 .. Len(p) : m = FirstFree(p)
  BY <1>1
<1>3. Rotated(p) = Turned(p, m)
  BY <1>2 DEF Rotated, Turned
<1>4. /\ Turned(p, m) \in [1 .. Len(p) -> Names]
      /\ \A i, j \in 1 .. Len(p) : i # j => Turned(p, m)[i] # Turned(p, m)[j]
  BY <1>1, Rotation
<1> QED
  BY <1>1, <1>3, <1>4 DEF Orders, SetToSeqs

\* What a visitor who is let in is called.
LEMMA ClaimedName ==
  ASSUME NEW p \in Orders, NEW preferred, IsFiniteSet(Connected),
         is_user_allowed
  PROVE  /\ claim_animal(preferred, p) \in Names \ names_in_use
         /\ PoolAfter(preferred, p) \in Orders
<1>1. Cardinality(Connected) < Cardinality(Names)
  BY Constants, FS_CardinalityType DEF is_user_allowed
<1>2. /\ FirstFree(p) \in DOMAIN p
      /\ assign_animal(p) \in Names \ names_in_use
  BY <1>1, NameIsFree
<1>3. Rotated(p) \in Orders
  BY <1>2, RotationKeepsTheRoster
<1> QED
  BY <1>2, <1>3 DEF claim_animal, PoolAfter, Usable

----------------------------------------------------------------------------
(* Types *)

\* With the types: the count is a number, and a connection that was admitted has
\* a name, which is what the entry is recreated under if it went missing.
TypeInv ==
    /\ TypeOK
    /\ IsFiniteSet(Connected)
    /\ \A c \in Conns : pc[c] # "idle" => voice[c] \in Names

\* One more person at most is counted after a step.
LEMMA CountStaysFinite ==
  ASSUME IsFiniteSet(Connected), NEW u, Connected' \subseteq Connected \cup {u}
  PROVE  IsFiniteSet(Connected')
  BY FS_AddElement, FS_Subset

\* A visitor who is seated.
LEMMA SeatTypes ==
  ASSUME TypeInv, NEW c \in Conns, NEW n \in Names, NEW p \in Orders,
         Seat(c, Who[c], n, p)
  PROVE  TypeInv'
<1> PICK u \in Users : u = Who[c]
  BY Constants
<1> USE Constants DEF TypeInv, TypeOK, Seat, Goto, Present, Sessions
<1>1. (pc \in [Conns -> {"idle", "admitted", "ending"} \cup Sessions])'
  OBVIOUS
<1>2. (voice \in [Conns -> Names \cup {NoName}])' /\ (heard \subseteq Conns)'
  OBVIOUS
<1>3. (holder \in [Users -> Conns \cup {Gone, Unknown}])'
  OBVIOUS
<1>4. (name \in [Users -> Names \cup {NoName}])'
  OBVIOUS
<1>5. (\A v \in Users : name[v] = NoName <=> v \notin Present)'
  OBVIOUS
<1>6. (quiet \subseteq Present)'
  OBVIOUS
<1>7. (stale \subseteq {v \in Users : holder[v] = Gone})'
  OBVIOUS
<1>8. (exists \in BOOLEAN)' /\ (idle \in BOOLEAN)'
      /\ (IF exists THEN pool \in Orders ELSE pool = <<>> /\ Present = {})'
  OBVIOUS
<1>9. IsFiniteSet(Connected')
  <2>1. Connected' \subseteq Connected \cup {u}
    BY DEF Connected
  <2> QED
    BY <2>1, CountStaysFinite
<1>10. (\A d \in Conns : pc[d] # "idle" => voice[d] \in Names)'
  OBVIOUS
<1> QED
  BY <1>1, <1>2, <1>3, <1>4, <1>5, <1>6, <1>7, <1>8, <1>9, <1>10

\* Whom a connection is let in as, and under what name.
LEMMA AdmitSeats ==
  ASSUME TypeInv, NEW c \in Conns, Admit(c)
  PROVE  \E n \in Names, p \in Orders :
            /\ Seat(c, Who[c], n, p)
            /\ is_user_allowed
            /\ pc[c] = "idle"
            /\ \A v \in Connected \ {Who[c]} : name[v] # n
<1> PICK u \in Users : u = Who[c]
  BY Constants
<1>1. \A n \in Names \ names_in_use : \A v \in Connected : name[v] # n
  BY DEF names_in_use
<1>2. CASE Reclaim(c)
  <2>1. exists /\ pool \in Orders /\ name[u] \in Names
    BY <1>2 DEF Reclaim, TypeInv, TypeOK
  <2>2. CASE name_taken_by_another_connected_user(u, name[u])
    <3>1. /\ claim_animal(NoName, pool) \in Names \ names_in_use
          /\ PoolAfter(NoName, pool) \in Orders
      BY <1>2, <2>1, ClaimedName DEF Reclaim, TypeInv
    <3> QED
      BY <1>1, <1>2, <2>2, <3>1 DEF Reclaim
  <2>3. CASE ~name_taken_by_another_connected_user(u, name[u])
    <3>1. \A v \in Connected \ {Who[c]} : name[v] # name[u]
      BY <2>3 DEF name_taken_by_another_connected_user
    <3> QED
      BY <1>2, <2>1, <2>3, <3>1 DEF Reclaim
  <2> QED
    BY <2>2, <2>3
<1>3. ASSUME NEW preferred \in Names \cup {NoName}, Recognise(c, preferred)
      PROVE  \E n \in Names, p \in Orders :
                /\ Seat(c, Who[c], n, p)
                /\ is_user_allowed
                /\ pc[c] = "idle"
                /\ \A v \in Connected \ {Who[c]} : name[v] # n
  <2>1. PICK p \in Orders :
              Seat(c, u, claim_animal(preferred, p), PoolAfter(preferred, p))
    BY <1>3 DEF Recognise
  <2>2. /\ claim_animal(preferred, p) \in Names \ names_in_use
        /\ PoolAfter(preferred, p) \in Orders
    BY <1>3, ClaimedName DEF Recognise, TypeInv
  <2> QED
    BY <1>1, <1>3, <2>1, <2>2 DEF Recognise
<1> QED
  BY <1>2, <1>3 DEF Admit

\* An empty room.
LEMMA TypeInit ==
  ASSUME Init
  PROVE  TypeInv
<1>1. Connected = {} /\ Present = {}
  BY Constants DEF Init, Connected, Present
<1> QED
  BY <1>1, FS_EmptySet DEF Init, TypeInv, TypeOK

\* Every step keeps the types.
LEMMA TypeStep ==
  ASSUME TypeInv, [Next]_vars
  PROVE  TypeInv'
<1> USE Constants DEF TypeInv, TypeOK, Goto, Present, Sessions, users, room
<1>1. ASSUME NEW c \in Conns, Admit(c)
      PROVE  TypeInv'
  BY <1>1, AdmitSeats, SeatTypes
<1>2. ASSUME NEW c \in Conns, Join(c)
      PROVE  TypeInv'
  <2> PICK u \in Users : u = Who[c]
    OBVIOUS
  <2>1. Connected' \subseteq Connected \cup {u}
    BY <1>2 DEF Join, Connected
  <2>2. IsFiniteSet(Connected')
    BY <2>1, CountStaysFinite
  <2>3. voice[c] \in Names
    BY <1>2 DEF Join
  <2>4. (name \in [Users -> Names \cup {NoName}])'
        /\ (\A v \in Users : name[v] = NoName <=> v \notin Present)'
    BY <1>2, <2>3 DEF Join
  <2>5. (quiet \subseteq Present)' /\ (stale \subseteq {v \in Users : holder[v] = Gone})'
    BY <1>2 DEF Join
  <2> QED
    BY <1>2, <2>2, <2>4, <2>5 DEF Join
<1>3. ASSUME NEW c \in Conns, CleanupUser(c)
      PROVE  TypeInv'
  <2> PICK u \in Users : u = Who[c]
    OBVIOUS
  <2>1. Connected' \subseteq Connected \cup {u}
    BY <1>3 DEF CleanupUser, Connected
  <2>2. IsFiniteSet(Connected')
    BY <2>1, CountStaysFinite
  <2>3. Present' = Present
    BY <1>3 DEF CleanupUser, Counted
  <2> QED
    BY <1>3, <2>2, <2>3 DEF CleanupUser, Counted
<1>4. ASSUME NEW c \in Conns,
             \/ JoinNowhere(c) \/ UpgradeFails(c) \/ EndSession(c)
             \/ Beat(c) \/ touch_and_check_idle(c) \/ RoomClosed(c)
      PROVE  TypeInv'
  <2>1. /\ pc' \in [Conns -> {"idle", "admitted", "ending"} \cup Sessions]
        /\ voice' \in [Conns -> Names \cup {NoName}]
        /\ \A d \in Conns : pc'[d] # "idle" => voice'[d] \in Names
        /\ UNCHANGED <<heard, users, room>>
    BY <1>4 DEF JoinNowhere, UpgradeFails, EndSession, Beat, touch_and_check_idle, RoomClosed
  <2> QED
    BY <2>1 DEF Connected
<1>5. ASSUME NEW c \in Conns, Speak(c) \/ React(c)
      PROVE  TypeInv'
  BY <1>5 DEF Speak, React, Connected
<1>6. ASSUME Time
      PROVE  TypeInv'
  BY <1>6 DEF Time, RoomIdles, GoQuiet, RetentionPasses, Connected
<1>7. ASSUME cleanup_rooms
      PROVE  TypeInv'
  <2>1. PICK kept : kept = IF is_abandoned THEN {} ELSE Present \ stale
    OBVIOUS
  <2>2. /\ kept \subseteq Present /\ (is_abandoned => kept = {})
        /\ holder' = [u \in Users |-> IF u \in kept THEN holder[u] ELSE Unknown]
        /\ name' = [u \in Users |-> IF u \in kept THEN name[u] ELSE NoName]
        /\ quiet' = quiet \cap kept
        /\ stale' = {}
    BY <1>7, <2>1 DEF cleanup_rooms
  <2>3. Present' = kept /\ Connected' \subseteq Connected
    BY <2>2 DEF Connected
  <2>4. IsFiniteSet(Connected')
    BY <2>3, FS_Subset
  <2>5. (IF exists THEN pool \in Orders ELSE pool = <<>> /\ Present = {})'
    BY <1>7, <2>2, <2>3 DEF cleanup_rooms
  <2>6. (exists \in BOOLEAN)' /\ (idle \in BOOLEAN)' /\ (heard \subseteq Conns)'
        /\ UNCHANGED <<pc, voice>>
    BY <1>7 DEF cleanup_rooms, is_abandoned
  <2>7. (holder \in [Users -> Conns \cup {Gone, Unknown}])'
        /\ (name \in [Users -> Names \cup {NoName}])'
        /\ (\A u \in Users : name[u] = NoName <=> u \notin Present)'
    BY <2>2, <2>3
  <2> QED
    BY <2>2, <2>3, <2>4, <2>5, <2>6, <2>7
<1>8. CASE UNCHANGED vars
  BY <1>8 DEF vars, Connected
<1> QED
  BY <1>1, <1>2, <1>3, <1>4, <1>5, <1>6, <1>7, <1>8 DEF Next, Session

\* The types, for any visitors, tabs, roster and limit (admission.rs, names.rs).
THEOREM TypeCorrect == Spec => []TypeOK
<1>1. Spec => []TypeInv
  BY TypeInit, TypeStep, PTL DEF Spec
<1>2. TypeInv => TypeOK
  BY DEF TypeInv
<1> QED
  BY <1>1, <1>2, PTL

----------------------------------------------------------------------------
(* Departures and ghosts *)

\* Nobody but the connection that the room counts marks its user as gone, and
\* only in its teardown (session/teardown.rs, the guard on connection_id).
THEOREM OnlyTheCountedDepart == Spec => OnlyOwnTeardownDeparts
<1> DEFINE A == \A u \in Users : holder[u] \in Conns /\ holder'[u] = Gone =>
                    pc[holder[u]] = "ending" /\ pc'[holder[u]] = "idle"
<1>1. TypeOK /\ [Next]_vars => [A]_vars
  <2> SUFFICES ASSUME TypeOK, Next, NEW u \in Users,
                      holder[u] \in Conns, holder'[u] = Gone
               PROVE  pc[holder[u]] = "ending" /\ pc'[holder[u]] = "idle"
    OBVIOUS
  <2> USE Constants DEF TypeOK, Goto, users, room
  <2>1. ASSUME NEW c \in Conns, Admit(c)
        PROVE  FALSE
    <3>1. PICK n, p : Seat(c, Who[c], n, p)
      BY <2>1 DEF Admit, Reclaim, Recognise
    <3>2. Who[c] = u \/ holder'[u] = holder[u]
      BY <3>1 DEF Seat
    <3> QED
      BY <3>1, <3>2 DEF Seat
  <2>2. ASSUME NEW c \in Conns, Join(c)
        PROVE  FALSE
    BY <2>2 DEF Join
  <2>3. ASSUME NEW c \in Conns, CleanupUser(c)
        PROVE  pc[holder[u]] = "ending" /\ pc'[holder[u]] = "idle"
    <3>1. Counted(c) /\ Who[c] = u
      BY <2>3 DEF CleanupUser
    <3> QED
      BY <2>3, <3>1 DEF CleanupUser, Counted
  <2>4. ASSUME NEW c \in Conns,
               \/ JoinNowhere(c) \/ UpgradeFails(c) \/ Speak(c) \/ React(c)
               \/ EndSession(c) \/ Beat(c) \/ touch_and_check_idle(c) \/ RoomClosed(c)
        PROVE  FALSE
    BY <2>4 DEF JoinNowhere, UpgradeFails, Speak, React, EndSession, Beat,
                touch_and_check_idle, RoomClosed
  <2>5. ASSUME Time
        PROVE  FALSE
    BY <2>5 DEF Time, RoomIdles, GoQuiet, RetentionPasses
  <2>6. ASSUME cleanup_rooms
        PROVE  FALSE
    BY <2>6 DEF cleanup_rooms
  <2> QED
    BY <2>1, <2>2, <2>3, <2>4, <2>5, <2>6 DEF Next, Session
<1> QED
  BY <1>1, TypeCorrect, PTL DEF Spec, OnlyOwnTeardownDeparts

\* Unless clients vanish before their upgrade, everyone the room counts is there,
\* however many tabs they have (session/lifecycle.rs, teardown.rs).
THEOREM NobodyIsAGhost ==
  ASSUME Hangups = FALSE
  PROVE  Spec => []NoGhosts
<1>1. Init => NoGhosts
  BY Constants DEF Init, NoGhosts, Connected
<1>2. TypeInv /\ NoGhosts /\ [Next]_vars => NoGhosts'
  <2> SUFFICES ASSUME TypeInv, NoGhosts, [Next]_vars
               PROVE  NoGhosts'
    OBVIOUS
  <2> USE Constants DEF TypeInv, TypeOK, NoGhosts, Connected, Goto, Sessions, users, room
  <2>1. ASSUME NEW c \in Conns, Admit(c)
        PROVE  NoGhosts'
    <3>1. PICK n, p : Seat(c, Who[c], n, p) /\ pc[c] = "idle"
      BY <2>1 DEF Admit, Reclaim, Recognise
    <3> QED
      BY <3>1 DEF Seat
  <2>2. ASSUME NEW c \in Conns, Join(c)
        PROVE  NoGhosts'
    BY <2>2 DEF Join
  <2>3. ASSUME NEW c \in Conns, CleanupUser(c)
        PROVE  NoGhosts'
    BY <2>3 DEF CleanupUser, Counted
  <2>4. ASSUME NEW c \in Conns,
               \/ JoinNowhere(c) \/ UpgradeFails(c) \/ Speak(c) \/ React(c)
               \/ EndSession(c) \/ Beat(c) \/ touch_and_check_idle(c) \/ RoomClosed(c)
        PROVE  NoGhosts'
    <3>1. holder' = holder /\ \A d \in Conns : pc[d] # "idle" => pc'[d] # "idle"
      BY <2>4 DEF JoinNowhere, UpgradeFails, Speak, React, EndSession, Beat,
                  touch_and_check_idle, RoomClosed
    <3> QED
      BY <3>1
  <2>5. ASSUME Time
        PROVE  NoGhosts'
    BY <2>5 DEF Time, RoomIdles, GoQuiet, RetentionPasses
  <2>6. ASSUME cleanup_rooms
        PROVE  NoGhosts'
    BY <2>6 DEF cleanup_rooms, Present
  <2>7. CASE UNCHANGED vars
    BY <2>7 DEF vars
  <2> QED
    BY <2>1, <2>2, <2>3, <2>4, <2>5, <2>6, <2>7 DEF Next, Session
<1>3. Spec => []TypeInv
  BY TypeInit, TypeStep, PTL DEF Spec
<1> QED
  BY <1>1, <1>2, <1>3, PTL DEF Spec

----------------------------------------------------------------------------
(* One connection each *)

\* c is the only connection of its user.
Lone(c) == \A d \in Conns : Who[d] = Who[c] => d = c

\* From admission to the end of the session such a connection is the one the room
\* counts, and its name is its user's.
LoneHolds ==
    \A c \in Conns : Lone(c) =>
        /\ pc[c] \in {"admitted"} \cup Sessions =>
              exists /\ Counted(c) /\ voice[c] = name[Who[c]]
        /\ pc[c] \in Sessions => c \in heard

\* A lone connection's entry is its own: nobody else's step touches it.
LEMMA LoneStep ==
  ASSUME TypeInv, LoneHolds, [Next]_vars
  PROVE  LoneHolds'
<1> SUFFICES ASSUME NEW c \in Conns, Lone(c), pc'[c] \in {"admitted"} \cup Sessions
             PROVE  /\ exists' /\ Counted(c)' /\ voice'[c] = name'[Who[c]]
                    /\ pc'[c] \in Sessions => c \in heard'
  BY DEF LoneHolds, Lone
<1> PICK u \in Users : u = Who[c]
  BY Constants
<1> USE Constants DEF TypeInv, TypeOK, Goto, users, room, Counted, Sessions
<1>1. pc[c] \in {"admitted"} \cup Sessions =>
        /\ exists /\ holder[u] = c /\ voice[c] = name[u]
        /\ pc[c] \in Sessions => c \in heard
  BY DEF LoneHolds
<1>2. \A d \in Conns : Who[d] = u => d = c
  BY DEF Lone
<1>3. ASSUME NEW d \in Conns, Admit(d)
      PROVE  /\ exists' /\ Counted(c)' /\ voice'[c] = name'[Who[c]]
             /\ pc'[c] \in Sessions => c \in heard'
  <2>1. PICK n \in Names, p \in Orders : Seat(d, Who[d], n, p)
    BY <1>3, AdmitSeats
  <2>2. CASE d = c
    BY <2>1, <2>2 DEF Seat
  <2>3. CASE d # c
    BY <1>1, <1>2, <2>1, <2>3 DEF Seat
  <2> QED
    BY <2>2, <2>3
<1>4. ASSUME NEW d \in Conns, Join(d)
      PROVE  /\ exists' /\ Counted(c)' /\ voice'[c] = name'[Who[c]]
             /\ pc'[c] \in Sessions => c \in heard'
  <2>1. CASE d = c
    BY <1>1, <1>4, <2>1 DEF Join
  <2>2. CASE d # c
    <3>1. holder'[u] = holder[u] /\ name'[u] = name[u]
      BY <1>2, <1>4, <2>2 DEF Join
    <3> QED
      BY <1>1, <1>4, <2>2, <3>1 DEF Join
  <2> QED
    BY <2>1, <2>2
<1>5. ASSUME NEW d \in Conns, CleanupUser(d)
      PROVE  /\ exists' /\ Counted(c)' /\ voice'[c] = name'[Who[c]]
             /\ pc'[c] \in Sessions => c \in heard'
  <2>1. d # c
    BY <1>5 DEF CleanupUser
  <2> QED
    BY <1>1, <1>2, <1>5, <2>1 DEF CleanupUser
<1>6. ASSUME NEW d \in Conns,
             \/ JoinNowhere(d) \/ UpgradeFails(d) \/ Speak(d) \/ React(d)
             \/ EndSession(d) \/ Beat(d) \/ touch_and_check_idle(d) \/ RoomClosed(d)
      PROVE  /\ exists' /\ Counted(c)' /\ voice'[c] = name'[Who[c]]
             /\ pc'[c] \in Sessions => c \in heard'
  <2>1. /\ UNCHANGED <<exists, holder, name, heard>>
        /\ pc'[c] = pc[c] \/ pc[c] \in Sessions
        /\ voice'[c] = voice[c]
    BY <1>6 DEF JoinNowhere, UpgradeFails, Speak, React, EndSession, Beat,
                touch_and_check_idle, RoomClosed
  <2> QED
    BY <1>1, <2>1
<1>7. ASSUME Time
      PROVE  /\ exists' /\ Counted(c)' /\ voice'[c] = name'[Who[c]]
             /\ pc'[c] \in Sessions => c \in heard'
  BY <1>1, <1>7 DEF Time, RoomIdles, GoQuiet, RetentionPasses
<1>8. ASSUME cleanup_rooms
      PROVE  /\ exists' /\ Counted(c)' /\ voice'[c] = name'[Who[c]]
             /\ pc'[c] \in Sessions => c \in heard'
  <2>1. pc' = pc /\ voice' = voice /\ holder[u] = c
    BY <1>1, <1>8 DEF cleanup_rooms
  <2>2. u \in Connected /\ u \in Present \ stale
    BY <2>1 DEF Connected, Present
  <2>3. ~is_abandoned
    BY <2>2 DEF is_abandoned
  <2> QED
    BY <1>1, <1>8, <2>1, <2>2, <2>3 DEF cleanup_rooms
<1>9. CASE UNCHANGED vars
  BY <1>1, <1>9 DEF vars
<1> QED
  BY <1>3, <1>4, <1>5, <1>6, <1>7, <1>8, <1>9 DEF Next, Session

\* The entry of a lone connection, of every reachable state.
LEMMA LoneInvariant == Spec => [](TypeInv /\ LoneHolds)
<1>1. Init => LoneHolds
  BY DEF Init, LoneHolds, Sessions
<1> QED
  BY <1>1, TypeInit, TypeStep, LoneStep, PTL DEF Spec

\* Each user has one connection.
OneConnectionEach == \A c \in Conns : Lone(c)

\* A visitor gets a free name, and only if there is room.
LEMMA RosterStep ==
  ASSUME OneConnectionEach, TypeInv, LoneHolds, ConnectedNamesDistinct, WithinRoomLimit,
         [Next]_vars
  PROVE  ConnectedNamesDistinct' /\ WithinRoomLimit'
<1> USE Constants DEF TypeInv, TypeOK, Goto, users, room, ConnectedNamesDistinct
<1>1. ASSUME NEW c \in Conns, Admit(c)
      PROVE  ConnectedNamesDistinct' /\ WithinRoomLimit'
  <2> PICK u \in Users : u = Who[c]
    OBVIOUS
  <2>1. PICK n \in Names, p \in Orders :
            /\ Seat(c, u, n, p)
            /\ is_user_allowed
            /\ \A v \in Connected \ {u} : name[v] # n
    BY <1>1, AdmitSeats
  <2>2. Connected' = Connected \cup {u}
    BY <2>1 DEF Seat, Connected
  <2>3. ConnectedNamesDistinct'
    BY <2>1, <2>2 DEF Seat, Connected
  <2>4. Cardinality(Connected) \in Nat
    BY FS_CardinalityType
  <2>5. Cardinality(Connected \cup {u}) =
          IF u \in Connected THEN Cardinality(Connected) ELSE Cardinality(Connected) + 1
    BY FS_AddElement
  <2>6. Cardinality(Connected') \in {Cardinality(Connected), Cardinality(Connected) + 1}
    BY <2>2, <2>5, Zenon
  <2> QED
    BY <2>1, <2>3, <2>4, <2>6 DEF is_user_allowed, WithinRoomLimit
<1>2. ASSUME NEW c \in Conns, Join(c)
      PROVE  ConnectedNamesDistinct' /\ WithinRoomLimit'
  <2>1. holder[Who[c]] = c
    BY <1>2 DEF Join, LoneHolds, OneConnectionEach, Counted
  <2>2. Who[c] \in Present
    BY <2>1 DEF Present
  <2>3. holder' = holder /\ name' = name
    BY <1>2, <2>1, <2>2 DEF Join
  <2> QED
    BY <2>3 DEF Connected, WithinRoomLimit
<1>3. ASSUME Connected' \subseteq Connected, \A v \in Connected' : name'[v] = name[v]
      PROVE  ConnectedNamesDistinct' /\ WithinRoomLimit'
  <2>1. /\ Cardinality(Connected) \in Nat /\ Cardinality(Connected') \in Nat
        /\ Cardinality(Connected') <= Cardinality(Connected)
    BY <1>3, FS_Subset, FS_CardinalityType
  <2> QED
    BY <1>3, <2>1 DEF WithinRoomLimit
<1>4. ASSUME NEW c \in Conns,
             \/ JoinNowhere(c) \/ UpgradeFails(c) \/ Speak(c) \/ React(c)
             \/ EndSession(c) \/ Beat(c) \/ touch_and_check_idle(c) \/ RoomClosed(c)
             \/ CleanupUser(c)
      PROVE  ConnectedNamesDistinct' /\ WithinRoomLimit'
  <2>1. name' = name /\ Connected' \subseteq Connected
    BY <1>4 DEF JoinNowhere, UpgradeFails, Speak, React, EndSession, Beat,
                touch_and_check_idle, RoomClosed, CleanupUser, Connected
  <2> QED
    BY <1>3, <2>1
<1>5. ASSUME Time
      PROVE  ConnectedNamesDistinct' /\ WithinRoomLimit'
  <2>1. name' = name /\ holder' = holder
    BY <1>5 DEF Time, RoomIdles, GoQuiet, RetentionPasses
  <2> QED
    BY <1>3, <2>1 DEF Connected
<1>6. ASSUME cleanup_rooms
      PROVE  ConnectedNamesDistinct' /\ WithinRoomLimit'
  <2>1. Connected' \subseteq Connected /\ \A v \in Connected' : name'[v] = name[v]
    BY <1>6 DEF cleanup_rooms, Connected, Present
  <2> QED
    BY <1>3, <2>1
<1>7. CASE UNCHANGED vars
  BY <1>3, <1>7 DEF vars, Connected
<1> QED
  BY <1>1, <1>2, <1>4, <1>5, <1>6, <1>7 DEF Next, Session

\* Names and number, of every reachable state.
LEMMA RosterInvariant ==
  ASSUME OneConnectionEach
  PROVE  Spec => [](ConnectedNamesDistinct /\ WithinRoomLimit)
<1>1. Init => ConnectedNamesDistinct /\ WithinRoomLimit
  <2>1. Init => Connected = {}
    BY Constants DEF Init, Connected
  <2> QED
    BY <2>1, Constants, FS_EmptySet DEF ConnectedNamesDistinct, WithinRoomLimit
<1>2. ASSUME ConnectedNamesDistinct /\ WithinRoomLimit, TypeInv /\ LoneHolds, [Next]_vars
      PROVE  (ConnectedNamesDistinct /\ WithinRoomLimit)'
  BY <1>2, RosterStep
<1> QED
  BY <1>1, <1>2, LoneInvariant, PTL DEF Spec

\* With one connection each, no two connected users share a name, whoever comes
\* back to find theirs taken, and whoever vanished before the upgrade.
THEOREM NamesAreDistinct ==
  ASSUME OneConnectionEach
  PROVE  Spec => []ConnectedNamesDistinct
  BY RosterInvariant, PTL

\* With one connection each, the room never counts more users than its limit:
\* nobody enters between the count and the seat.
THEOREM RoomNeverOverfull ==
  ASSUME OneConnectionEach
  PROVE  Spec => []WithinRoomLimit
  BY RosterInvariant, PTL

\* With one connection each, no sweep, no deletion of the room and no teardown takes
\* an entry, its name or its channel from a running session.
THEOREM SessionsOwnTheirEntries ==
  ASSUME OneConnectionEach
  PROVE  Spec => []SessionOwnsItsEntry
<1>1. LoneHolds => SessionOwnsItsEntry
  BY DEF LoneHolds, OneConnectionEach, SessionOwnsItsEntry
<1> QED
  BY <1>1, LoneInvariant, PTL
=============================================================================
