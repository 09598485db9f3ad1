--------------------------- MODULE AdmissionProofs ---------------------------
(***************************************************************************)
(* Proofs about Admission for any finite set of attempts, any addresses    *)
(* and any limits: the type invariant, the ceilings, and the pairing of    *)
(* reservations and releases.                                              *)
(*                                                                         *)
(* The attempts that hold a reservation are compared with the counters one *)
(* step at a time: HoldersAfter says how a step moves the two sets, and    *)
(* one lemma per kind of step (Reserve, a release, a sweep, and a step     *)
(* that leaves the pool alone) shows that the counters move with them.     *)
(***************************************************************************)
EXTENDS Admission, FiniteSetTheorems, TLAPS

(* The accounting, strengthened until every step preserves it: total and   *)
(* active move together although only active's increment is checked.       *)
Accounting ==
    /\ SlotsCovered
    /\ WithinLimits
    /\ LiveAddressesTracked
    /\ OthersPaired
    /\ Hangups = {} => ReservationsPaired

----------------------------------------------------------------------------
\* The type invariant: in particular no counter ever leaves Nat.
THEOREM TypeCorrect == Spec => []TypeOK
<1>1. Init => TypeOK
  BY DEF Init, TypeOK
<1>2. TypeOK /\ [Next]_vars => TypeOK'
  <2> SUFFICES ASSUME TypeOK, [Next]_vars PROVE TypeOK'
    OBVIOUS
  <2> USE AdmissionAssumption DEF TypeOK, pool, reputation, Goto, Checking, Holding, Pending
  <2>1. ASSUME NEW c \in Conns, Request(c) PROVE TypeOK'
    <3>1. CASE CheckIp(c)
      BY <3>1 DEF CheckIp
    <3>2. CASE CanAccept(c)
      BY <3>2 DEF CanAccept
    <3>3. CASE RecordSuspicion(c)
      <4>1. AddrOf[c] \in Addrs
        OBVIOUS
      <4> QED
        BY <3>3, <4>1 DEF RecordSuspicion
    <3>4. CASE Reserve(c)
      <4>1. AddrOf[c] \in Addrs
        OBVIOUS
      <4> QED
        BY <3>4, <4>1 DEF Reserve
    <3>5. CASE Admit(c) \/ RefuseRoomFull(c)
      BY <3>5 DEF Admit, RefuseRoomFull
    <3>6. CASE ReleaseSlot(c)
      BY <3>6 DEF ReleaseSlot, GiveBack, SaturatingDec
    <3> QED
      BY <2>1, <3>1, <3>2, <3>3, <3>4, <3>5, <3>6 DEF Request
  <2>2. ASSUME NEW c \in Conns, Session(c) PROVE TypeOK'
    BY <2>2 DEF Session, Upgrade, EndSession, CleanupUser, GiveBack, SaturatingDec
  <2>3. ASSUME NEW c \in Conns, Vanish(c) PROVE TypeOK'
    BY <2>3 DEF Vanish, DropRequest, UpgradeFails
  <2>4. ASSUME NEW a \in Addrs, Time(a) PROVE TypeOK'
    BY <2>4 DEF Time, WindowLapses, BanExpires, CounterAges
  <2>5. CASE Sweep
    BY <2>5 DEF Sweep, SweepCounters, SweepBans, SweepStrikes
  <2>6. CASE UNCHANGED vars
    BY <2>6 DEF vars
  <2> QED
    BY <2>1, <2>2, <2>3, <2>4, <2>5, <2>6 DEF Next
<1> QED
  BY <1>1, <1>2, PTL DEF Spec

----------------------------------------------------------------------------
\* How a step of one attempt moves the sets of reservation holders.
LEMMA HoldersAfter ==
  ASSUME TypeOK, NEW c \in Conns, NEW p, Goto(c, p)
  PROVE  /\ Holders' = IF p \in Holding THEN Holders \cup {c} ELSE Holders \ {c}
         /\ \A a \in Addrs : HoldersOf(a)' =
                IF AddrOf[c] # a THEN HoldersOf(a)
                ELSE IF p \in Holding THEN HoldersOf(a) \cup {c}
                ELSE HoldersOf(a) \ {c}
<1> USE DEF Holders, HoldersOf
<1>1. \A d \in Conns : pc'[d] = IF d = c THEN p ELSE pc[d]
  BY DEF Goto, TypeOK
<1>2. Holders' = IF p \in Holding THEN Holders \cup {c} ELSE Holders \ {c}
  BY <1>1
<1>3. ASSUME NEW a \in Addrs
      PROVE HoldersOf(a)' = IF AddrOf[c] # a THEN HoldersOf(a)
                            ELSE IF p \in Holding THEN HoldersOf(a) \cup {c}
                            ELSE HoldersOf(a) \ {c}
  BY <1>1
<1> QED
  BY <1>2, <1>3

\* The holders are finitely many, so their number is a natural.
LEMMA HoldersFinite ==
  /\ IsFiniteSet(Holders) /\ Cardinality(Holders) \in Nat
  /\ \A a \in Addrs : IsFiniteSet(HoldersOf(a)) /\ Cardinality(HoldersOf(a)) \in Nat
<1>1. Holders \subseteq Conns /\ \A a \in Addrs : HoldersOf(a) \subseteq Conns
  BY DEF Holders, HoldersOf
<1> QED
  BY <1>1, FS_Subset, FS_CardinalityType, AdmissionAssumption

\* Taking a reservation counts exactly one more holder.
LEMMA ReserveAccounts ==
  ASSUME TypeOK, Accounting, NEW c \in Conns, Reserve(c)
  PROVE  Accounting'
<1> USE AdmissionAssumption
<1> DEFINE b == AddrOf[c]
<1>1. b \in Addrs /\ c \notin Holders /\ c \notin HoldersOf(b)
  BY DEF Reserve, Holders, HoldersOf, Holding, Pending
<1>2. CASE counter[b] < MaxPerIp /\ active < MaxConcurrent
  <2>1. /\ Goto(c, "reserved")
        /\ counter' = [counter EXCEPT ![b] = @ + 1]
        /\ active' = active + 1 /\ total' = total + 1
        /\ tracked' = tracked \cup {b}
    BY <1>2 DEF Reserve
  <2>2. /\ Holders' = Holders \cup {c}
        /\ \A a \in Addrs : HoldersOf(a)' =
              IF b # a THEN HoldersOf(a) ELSE HoldersOf(a) \cup {c}
    BY <2>1, HoldersAfter DEF Holding, Pending
  <2>3. /\ Cardinality(Holders') = Cardinality(Holders) + 1
        /\ \A a \in Addrs : Cardinality(HoldersOf(a)') =
              Cardinality(HoldersOf(a)) + (IF a = b THEN 1 ELSE 0)
    <3>1. Cardinality(Holders') = Cardinality(Holders) + 1
      BY <1>1, <2>2, HoldersFinite, FS_AddElement
    <3>2. Cardinality(HoldersOf(b) \cup {c}) = Cardinality(HoldersOf(b)) + 1
      BY <1>1, HoldersFinite, FS_AddElement
    <3>3. ASSUME NEW a \in Addrs
          PROVE Cardinality(HoldersOf(a)') = Cardinality(HoldersOf(a)) + (IF a = b THEN 1 ELSE 0)
      <4>1. CASE a = b
        BY <2>2, <3>2, <4>1
      <4>2. CASE a # b
        BY <2>2, <4>2, HoldersFinite
      <4> QED
        BY <4>1, <4>2
    <3> QED
      BY <3>1, <3>3
  <2>4. \A a \in Addrs : counter'[a] = counter[a] + (IF a = b THEN 1 ELSE 0)
    BY <2>1 DEF TypeOK
  <2>5. SlotsCovered'
    BY <2>1, <2>3, <2>4, HoldersFinite DEF SlotsCovered, Accounting, TypeOK
  <2>6. WithinLimits'
    BY <1>2, <2>1, <2>4 DEF WithinLimits, OthersPaired, Accounting, TypeOK
  <2>7. LiveAddressesTracked'
    BY <2>1, <2>2 DEF LiveAddressesTracked, Accounting
  <2>8. OthersPaired' /\ (Hangups = {} => ReservationsPaired')
    BY <2>1, <2>3, <2>4, HoldersFinite DEF OthersPaired, ReservationsPaired, Accounting, TypeOK
  <2> QED
    BY <2>1, <2>5, <2>6, <2>7, <2>8 DEF Accounting
<1>3. CASE ~(counter[b] < MaxPerIp /\ active < MaxConcurrent)
  <2>1. /\ Goto(c, "idle") /\ UNCHANGED <<counter, active, total>>
        /\ tracked' = tracked \cup {b}
    BY <1>3 DEF Reserve
  <2>2. Holders' = Holders /\ \A a \in Addrs : HoldersOf(a)' = HoldersOf(a)
    <3>1. /\ Holders' = Holders \ {c}
          /\ \A a \in Addrs : HoldersOf(a)' =
                IF b # a THEN HoldersOf(a) ELSE HoldersOf(a) \ {c}
      BY <2>1, HoldersAfter DEF Holding, Pending
    <3> QED
      BY <1>1, <3>1, Zenon
  <2> QED
    BY <2>1, <2>2 DEF Accounting, SlotsCovered, WithinLimits, LiveAddressesTracked,
        OthersPaired, ReservationsPaired
<1> QED
  BY <1>2, <1>3

\* A release uncounts exactly the holder it is the release of.
LEMMA GiveBackAccounts ==
  ASSUME TypeOK, Accounting, NEW c \in Conns, c \in Holders,
         Goto(c, "idle"), GiveBack(c)
  PROVE  Accounting'
<1> USE AdmissionAssumption
<1> DEFINE b == AddrOf[c]
<1>1. b \in Addrs /\ c \in HoldersOf(b)
  BY DEF HoldersOf
<1>2. /\ Holders' = Holders \ {c}
      /\ \A a \in Addrs : HoldersOf(a)' =
            IF b # a THEN HoldersOf(a) ELSE HoldersOf(a) \ {c}
  BY HoldersAfter DEF Holding, Pending
<1>3. Cardinality(Holders') = Cardinality(Holders) - 1
  BY <1>2, HoldersFinite, FS_RemoveElement
<1>4. ASSUME NEW a \in Addrs
      PROVE Cardinality(HoldersOf(a)') = Cardinality(HoldersOf(a)) - (IF a = b THEN 1 ELSE 0)
  <2>1. CASE a = b
    <3>1. Cardinality(HoldersOf(b) \ {c}) = Cardinality(HoldersOf(b)) - 1
      BY <1>1, HoldersFinite, FS_RemoveElement
    <3> QED
      BY <1>2, <2>1, <3>1
  <2>2. CASE a # b
    BY <1>2, <2>2, HoldersFinite
  <2> QED
    BY <2>1, <2>2
<1>5. /\ Cardinality(Holders) \in Nat /\ Cardinality(Holders') \in Nat
      /\ \A a \in Addrs : Cardinality(HoldersOf(a)) \in Nat /\ Cardinality(HoldersOf(a)') \in Nat
  <2>1. Cardinality(Holders') \in Nat
    BY <1>2, HoldersFinite, FS_RemoveElement, FS_CardinalityType
  <2>2. ASSUME NEW a \in Addrs PROVE Cardinality(HoldersOf(a)') \in Nat
    <3>1. HoldersOf(a)' = HoldersOf(a) \/ HoldersOf(a)' = HoldersOf(a) \ {c}
      BY <1>2
    <3> QED
      BY <3>1, HoldersFinite, FS_RemoveElement, FS_CardinalityType
  <2> QED
    BY <2>1, <2>2, HoldersFinite
<1>6. /\ active > 0 /\ counter[b] > 0 /\ total > 0
  BY <1>1, <1>3, <1>4, <1>5 DEF Accounting, SlotsCovered, OthersPaired, TypeOK
<1>7. /\ active' = active - 1 /\ total' = total - 1 /\ tracked' = tracked
      /\ \A a \in Addrs : counter'[a] = counter[a] - (IF a = b THEN 1 ELSE 0)
  BY <1>1, <1>6 DEF GiveBack, SaturatingDec, TypeOK
<1>8. SlotsCovered'
  BY <1>3, <1>4, <1>5, <1>7 DEF SlotsCovered, Accounting, TypeOK
<1>9. WithinLimits'
  BY <1>7 DEF WithinLimits, OthersPaired, Accounting, TypeOK
<1>10. LiveAddressesTracked'
  BY <1>2, <1>7 DEF LiveAddressesTracked, Accounting
<1>11. OthersPaired' /\ (Hangups = {} => ReservationsPaired')
  BY <1>3, <1>4, <1>5, <1>7 DEF OthersPaired, ReservationsPaired, Accounting, TypeOK
<1> QED
  BY <1>7, <1>8, <1>9, <1>10, <1>11 DEF Accounting

\* A sweep drops only entries that count nothing, so it changes no count.
LEMMA SweepAccounts ==
  ASSUME TypeOK, Accounting, SweepCounters
  PROVE  Accounting'
<1>1. /\ counter' = counter /\ UNCHANGED <<active, total>>
      /\ Holders' = Holders /\ \A a \in Addrs : HoldersOf(a)' = HoldersOf(a)
  BY DEF SweepCounters, TypeOK, Holders, HoldersOf
<1>2. ASSUME NEW a \in Addrs, HoldersOf(a) # {}
      PROVE  counter[a] # 0
  <2>1. Cardinality(HoldersOf(a)) # 0
    BY <1>2, HoldersFinite, FS_EmptySet
  <2> QED
    BY <2>1, HoldersFinite DEF Accounting, SlotsCovered, TypeOK
<1>3. LiveAddressesTracked'
  BY <1>1, <1>2 DEF LiveAddressesTracked, Accounting, SweepCounters
<1> QED
  BY <1>1, <1>3 DEF Accounting, SlotsCovered, WithinLimits, OthersPaired, ReservationsPaired

\* A step that leaves the pool alone may lose a holder only to a hang-up.
LEMMA IdlePoolAccounts ==
  ASSUME TypeOK, Accounting, UNCHANGED pool,
         Holders' \subseteq Holders,
         \A a \in Addrs : HoldersOf(a)' \subseteq HoldersOf(a),
         \A a \in Addrs \ Hangups : HoldersOf(a)' = HoldersOf(a),
         Hangups = {} => Holders' = Holders
  PROVE  Accounting'
<1> USE DEF pool
<1>1. /\ Cardinality(Holders') <= Cardinality(Holders)
      /\ Cardinality(Holders') \in Nat
  BY HoldersFinite, FS_Subset, FS_CardinalityType
<1>2. ASSUME NEW a \in Addrs
      PROVE  /\ Cardinality(HoldersOf(a)') <= Cardinality(HoldersOf(a))
             /\ Cardinality(HoldersOf(a)') \in Nat
  BY HoldersFinite, FS_Subset, FS_CardinalityType
<1>3. SlotsCovered'
  BY <1>1, <1>2, HoldersFinite DEF SlotsCovered, Accounting, TypeOK
<1>4. WithinLimits' /\ LiveAddressesTracked'
  BY DEF WithinLimits, LiveAddressesTracked, Accounting
<1>5. OthersPaired' /\ (Hangups = {} => ReservationsPaired')
  BY DEF OthersPaired, ReservationsPaired, Accounting
<1> QED
  BY <1>3, <1>4, <1>5 DEF Accounting

----------------------------------------------------------------------------
\* Every step keeps the accounting.
LEMMA AccountingStep == TypeOK /\ Accounting /\ [Next]_vars => Accounting'
<1> SUFFICES ASSUME TypeOK, Accounting, [Next]_vars PROVE Accounting'
  OBVIOUS
<1> USE AdmissionAssumption
<1>1. ASSUME NEW c \in Conns, UNCHANGED pool, NEW p, Goto(c, p),
             pc[c] \in Holding <=> p \in Holding
      PROVE  Accounting'
  <2>1. Holders' = Holders /\ \A a \in Addrs : HoldersOf(a)' = HoldersOf(a)
    BY <1>1 DEF Holders, HoldersOf, Goto, TypeOK
  <2> QED
    BY <1>1, <2>1, IdlePoolAccounts, Zenon
<1>2. ASSUME NEW c \in Conns, Request(c) PROVE Accounting'
  <2>1. CASE CheckIp(c)
    BY <2>1, <1>1 DEF CheckIp, Holding, Pending
  <2>2. CASE CanAccept(c)
    <3>1. UNCHANGED pool /\ pc[c] \notin Holding
          /\ \E p \in {"suspect", "admissible", "idle"} : Goto(c, p)
      BY <2>2 DEF CanAccept, Holding, Pending
    <3> QED
      BY <3>1, <1>1 DEF Holding, Pending
  <2>3. CASE RecordSuspicion(c)
    BY <2>3, <1>1 DEF RecordSuspicion, Holding, Pending
  <2>4. CASE Reserve(c)
    BY <2>4, ReserveAccounts
  <2>5. CASE Admit(c)
    BY <2>5, <1>1 DEF Admit, Holding, Pending
  <2>6. CASE RefuseRoomFull(c)
    BY <2>6, <1>1 DEF RefuseRoomFull, Holding, Pending
  <2>7. CASE ReleaseSlot(c)
    BY <2>7, GiveBackAccounts DEF ReleaseSlot, Holders, Holding, Pending
  <2> QED
    BY <1>2, <2>1, <2>2, <2>3, <2>4, <2>5, <2>6, <2>7 DEF Request
<1>3. ASSUME NEW c \in Conns, Session(c) PROVE Accounting'
  <2>1. CASE Upgrade(c)
    BY <2>1, <1>1 DEF Upgrade, Holding, Pending
  <2>2. CASE EndSession(c)
    BY <2>2, <1>1 DEF EndSession, Holding, Pending
  <2>3. CASE CleanupUser(c)
    BY <2>3, GiveBackAccounts DEF CleanupUser, Holders, Holding, Pending
  <2> QED
    BY <1>3, <2>1, <2>2, <2>3 DEF Session
<1>4. ASSUME NEW c \in Conns, Vanish(c) PROVE Accounting'
  <2>1. AddrOf[c] \in Hangups /\ UNCHANGED pool /\ Goto(c, "idle")
    BY <1>4 DEF Vanish, DropRequest, UpgradeFails
  <2>2. /\ Holders' \subseteq Holders /\ \A a \in Addrs : HoldersOf(a)' \subseteq HoldersOf(a)
        /\ \A a \in Addrs \ Hangups : HoldersOf(a)' = HoldersOf(a)
    <3>1. "idle" \notin Holding
      BY DEF Holding, Pending
    <3>2. /\ Holders' = Holders \ {c}
          /\ \A a \in Addrs : HoldersOf(a)' =
                IF AddrOf[c] # a THEN HoldersOf(a) ELSE HoldersOf(a) \ {c}
      BY <2>1, <3>1, HoldersAfter
    <3> QED
      BY <2>1, <3>2
  <2> QED
    BY <2>1, <2>2, IdlePoolAccounts
<1>5. ASSUME UNCHANGED <<pc, counter, active, total>>, tracked \subseteq tracked'
      PROVE  Accounting'
  BY <1>5 DEF Accounting, SlotsCovered, WithinLimits, LiveAddressesTracked,
              OthersPaired, ReservationsPaired, Holders, HoldersOf
<1>6. ASSUME NEW a \in Addrs, Time(a) PROVE Accounting'
  BY <1>5, <1>6 DEF Time, WindowLapses, BanExpires, CounterAges, pool
<1>7. CASE Sweep
  <2>1. CASE SweepCounters
    BY <2>1, SweepAccounts
  <2>2. CASE SweepBans \/ SweepStrikes
    BY <1>5, <2>2 DEF SweepBans, SweepStrikes, pool
  <2> QED
    BY <1>7, <2>1, <2>2 DEF Sweep
<1>8. CASE UNCHANGED vars
  BY <1>5, <1>8 DEF vars
<1> QED
  BY <1>2, <1>3, <1>4, <1>6, <1>7, <1>8 DEF Next

LEMMA AccountingInvariant == Spec => []Accounting
<1>1. Init => Accounting
  <2> SUFFICES ASSUME Init PROVE Accounting
    OBVIOUS
  <2>1. Holders = {} /\ \A a \in Addrs : HoldersOf(a) = {}
    BY DEF Init, Holders, HoldersOf, Holding, Pending
  <2>2. Cardinality({}) = 0
    BY FS_EmptySet
  <2>3. Cardinality(Holders) = 0 /\ \A a \in Addrs : Cardinality(HoldersOf(a)) = 0
    BY <2>1, <2>2
  <2>4. SlotsCovered /\ OthersPaired /\ ReservationsPaired
    BY <2>3 DEF Init, SlotsCovered, OthersPaired, ReservationsPaired
  <2>5. WithinLimits
    BY AdmissionAssumption DEF Init, WithinLimits
  <2>6. LiveAddressesTracked
    BY <2>1 DEF LiveAddressesTracked
  <2> QED
    BY <2>4, <2>5, <2>6 DEF Init, Accounting
<1> QED
  BY <1>1, AccountingStep, TypeCorrect, PTL DEF Spec

\* No slot is handed out while somebody still holds it: whatever clients do,
\* the counters cover every reservation in flight.
THEOREM SlotsAreCovered == Spec => []SlotsCovered
<1>1. Accounting => SlotsCovered
  BY DEF Accounting
<1> QED
  BY <1>1, AccountingInvariant, PTL

\* The per-address and global ceilings are never passed, although the checks
\* and the reservation are separated by awaits.
THEOREM CeilingsHold == Spec => []WithinLimits
<1>1. Accounting => WithinLimits
  BY DEF Accounting
<1> QED
  BY <1>1, AccountingInvariant, PTL

\* The sweep of ip_counters never evicts an address with a live reservation.
THEOREM SweepSparesTheLiving == Spec => []LiveAddressesTracked
<1>1. Accounting => LiveAddressesTracked
  BY DEF Accounting
<1> QED
  BY <1>1, AccountingInvariant, PTL

\* A vanishing client takes a place from its own address only: whoever shares the
\* server with it is counted exactly.
THEOREM OthersArePaired == Spec => []OthersPaired
<1>1. Accounting => OthersPaired
  BY DEF Accounting
<1> QED
  BY <1>1, AccountingInvariant, PTL

\* When no client vanishes before its session starts, every reservation is
\* released exactly once on every exit path.
THEOREM ReleasedExactlyOnce ==
  ASSUME Hangups = {}
  PROVE  Spec => []ReservationsPaired
<1>1. Accounting => ReservationsPaired
  BY DEF Accounting
<1> QED
  BY <1>1, AccountingInvariant, PTL

=============================================================================
