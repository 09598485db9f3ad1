------------------------------ MODULE Admission ------------------------------
(***************************************************************************)
(* The life of a connection's reservations: the checks of a WebSocket      *)
(* upgrade, the two counters it reserves, and every path that gives them   *)
(* back (session/admission.rs, limits/connections.rs, limits/security.rs,  *)
(* limits/mod.rs, and the first half of session/teardown.rs).              *)
(*                                                                         *)
(* The runtime is single-threaded, so what one request does between two    *)
(* `.await`s is one step, and requests interleave at the awaits: each step *)
(* below starts by taking the lock it awaited.                             *)
(*                                                                         *)
(* Ages are abstracted to "old enough": which entries have outlived their  *)
(* retention is a set that time (WindowLapses, BanExpires, CounterAges)    *)
(* grows and that the code's stamps reset.                                 *)
(***************************************************************************)
EXTENDS Integers, FiniteSets

CONSTANTS
    Conns,          \* connection attempts, each reused once it is idle again
    Addrs,          \* client addresses, as hashed by hash_client_address
    AddrOf,         \* the address each attempt comes from
    MaxPerIp,       \* MAX_CONCURRENT_CONNECTIONS_PER_IP
    MaxConcurrent,  \* MAX_CONCURRENT_USERS
    MaxSuspicious,  \* MAX_SUSPICIOUS_EVENTS
    Hangups         \* addresses whose clients may vanish before their session starts

ASSUME AdmissionAssumption ==
    /\ IsFiniteSet(Conns)
    /\ AddrOf \in [Conns -> Addrs]
    /\ MaxPerIp \in Nat \ {0}
    /\ MaxConcurrent \in Nat \ {0}
    /\ MaxSuspicious \in Nat
    /\ Hangups \subseteq Addrs

VARIABLES
    pc,        \* where each attempt is
    counter,   \* ConnectionPool::ip_counters, the count (0 when untracked)
    tracked,   \* the addresses ip_counters has an entry for
    aged,      \* ... whose last_seen is IP_COUNTER_RETENTION old
    active,    \* ConnectionPool::active
    total,     \* ResourceMonitor::total_connections
    strikes,   \* SecurityManager::suspicious_activity, 0 when there is no entry
    lapsed,    \* addresses whose suspicion window is over
    bans,      \* SecurityManager::banned_ips
    sweep      \* the map the housekeeping pass visits next

pool == <<counter, tracked, aged, active, total>>
reputation == <<strikes, lapsed, bans>>
vars == <<pc, counter, tracked, aged, active, total, strikes, lapsed, bans, sweep>>

\* Past check_ip; refused by can_accept; past check_admission.
Checking == {"vetted", "suspect", "admissible"}
\* Holding a reservation, before and after the session starts.
Pending == {"reserved", "releasing", "upgrading"}
Holding == Pending \cup {"open", "closing"}

Holders == {c \in Conns : pc[c] \in Holding}
HoldersOf(a) == {c \in Holders : AddrOf[c] = a}

Init ==
    /\ pc = [c \in Conns |-> "idle"]
    /\ counter = [a \in Addrs |-> 0]
    /\ tracked = {}
    /\ aged = {}
    /\ active = 0
    /\ total = 0
    /\ strikes = [a \in Addrs |-> 0]
    /\ lapsed = {}
    /\ bans = [a \in Addrs |-> "none"]
    /\ sweep = "counters"

Goto(c, place) == pc' = [pc EXCEPT ![c] = place]

----------------------------------------------------------------------------
(* check_admission: nothing here reserves anything *)

\* check_ip lets the request through unless a ban still stands.
CheckIp(c) ==
    /\ pc[c] = "idle"
    /\ bans[AddrOf[c]] # "active"
    /\ Goto(c, "vetted")
    /\ UNCHANGED <<pool, reputation, sweep>>

\* can_accept, then the capacity and room-name checks, which do not await.
CanAccept(c) ==
    /\ pc[c] = "vetted"
    /\ \/ /\ counter[AddrOf[c]] >= MaxPerIp
          /\ Goto(c, "suspect")
       \/ /\ counter[AddrOf[c]] < MaxPerIp
          /\ total < MaxConcurrent
          /\ Goto(c, "admissible")
       \/ /\ counter[AddrOf[c]] < MaxPerIp   \* at capacity, or a bad room name
          /\ Goto(c, "idle")
    /\ UNCHANGED <<pool, reputation, sweep>>

\* record_suspicious_activity: the window rolls, then the count may ban.
RecordSuspicion(c) ==
    LET a == AddrOf[c]
        count == (IF a \in lapsed THEN 0 ELSE strikes[a]) + 1
    IN  /\ pc[c] = "suspect"
        /\ strikes' = [strikes EXCEPT ![a] = count]
        /\ lapsed' = lapsed \ {a}
        /\ bans' = IF count > MaxSuspicious THEN [bans EXCEPT ![a] = "active"] ELSE bans
        /\ Goto(c, "idle")
        /\ UNCHANGED <<pool, sweep>>

----------------------------------------------------------------------------
(* Reservations *)

\* Mutant: the refusal's undo is kept although nothing was added to undo.
ReserveUndoTwice(c) ==
    LET a == AddrOf[c]
        fits == counter[a] < MaxPerIp /\ active < MaxConcurrent
        step == IF fits THEN 1 ELSE -1
    IN  /\ pc[c] = "admissible"
        /\ tracked' = tracked \cup {a}
        /\ aged' = aged \ {a}
        /\ counter' = [counter EXCEPT ![a] = @ + step]
        /\ active' = active + step
        /\ total' = IF fits THEN total + 1 ELSE total
        /\ Goto(c, IF fits THEN "reserved" ELSE "idle")
        /\ UNCHANGED <<reputation, sweep>>

\* Mutant: the reservation trusts the check made before the last await.
ReserveUnchecked(c) ==
    LET a == AddrOf[c]
    IN  /\ pc[c] = "admissible"
        /\ tracked' = tracked \cup {a}
        /\ aged' = aged \ {a}
        /\ counter' = [counter EXCEPT ![a] = @ + 1]
        /\ active' = active + 1
        /\ total' = total + 1
        /\ Goto(c, "reserved")
        /\ UNCHANGED <<reputation, sweep>>

\* add_connection and the global counter: reserves both or neither, but
\* stamps (and if need be creates) the address's entry either way.
Reserve(c) ==
    LET a == AddrOf[c]
        fits == counter[a] < MaxPerIp /\ active < MaxConcurrent
    IN  /\ pc[c] = "admissible"
        /\ tracked' = tracked \cup {a}
        /\ aged' = aged \ {a}
        /\ IF fits
           THEN /\ counter' = [counter EXCEPT ![a] = @ + 1]
                /\ active' = active + 1
                /\ total' = total + 1
                /\ Goto(c, "reserved")
           ELSE /\ Goto(c, "idle")
                /\ UNCHANGED <<counter, active, total>>
        /\ UNCHANGED <<reputation, sweep>>

SaturatingDec(n) == IF n = 0 THEN 0 ELSE n - 1

\* remove_connection then release_connection, with no await between them.
GiveBack(c) ==
    /\ counter' = [counter EXCEPT ![AddrOf[c]] = SaturatingDec(@)]
    /\ active' = SaturatingDec(active)
    /\ total' = SaturatingDec(total)
    /\ UNCHANGED <<tracked, aged>>

\* admit_user's verdict, once it has the room lock.
Admit(c) ==
    /\ pc[c] = "reserved"
    /\ Goto(c, "upgrading")
    /\ UNCHANGED <<pool, reputation, sweep>>

\* Mutant: `?` on the refusal, returning past the release.
RefuseEarlyReturn(c) ==
    /\ pc[c] = "reserved"
    /\ Goto(c, "idle")
    /\ UNCHANGED <<pool, reputation, sweep>>

RefuseRoomFull(c) ==
    /\ pc[c] = "reserved"
    /\ Goto(c, "releasing")
    /\ UNCHANGED <<pool, reputation, sweep>>

\* release_connection_slot, the one explicit release before the upgrade.
ReleaseSlot(c) ==
    /\ pc[c] = "releasing"
    /\ GiveBack(c)
    /\ Goto(c, "idle")
    /\ UNCHANGED <<reputation, sweep>>

\* The upgrade callback: handle_websocket starts.
Upgrade(c) ==
    /\ pc[c] = "upgrading"
    /\ Goto(c, "open")
    /\ UNCHANGED <<pool, reputation, sweep>>

\* run_session returns, by whichever of its exits.
EndSession(c) ==
    /\ pc[c] = "open"
    /\ Goto(c, "closing")
    /\ UNCHANGED <<pool, reputation, sweep>>

\* cleanup_user, up to the room lock.
CleanupUser(c) ==
    /\ pc[c] = "closing"
    /\ GiveBack(c)
    /\ Goto(c, "idle")
    /\ UNCHANGED <<reputation, sweep>>

----------------------------------------------------------------------------
(* Clients that vanish before their session starts *)

\* The HTTP server drops the handler's future at the await it was parked on,
\* so nothing after that await runs.
DropRequest(c) ==
    /\ AddrOf[c] \in Hangups
    /\ pc[c] \in Checking \cup {"reserved", "releasing"}
    /\ Goto(c, "idle")
    /\ UNCHANGED <<pool, reputation, sweep>>

\* The protocol switch never completes, so the on_upgrade callback never runs.
UpgradeFails(c) ==
    /\ AddrOf[c] \in Hangups
    /\ pc[c] = "upgrading"
    /\ Goto(c, "idle")
    /\ UNCHANGED <<pool, reputation, sweep>>

----------------------------------------------------------------------------
(* Time and housekeeping *)

WindowLapses(a) ==
    /\ strikes[a] > 0 /\ a \notin lapsed
    /\ lapsed' = lapsed \cup {a}
    /\ UNCHANGED <<pc, pool, strikes, bans, sweep>>

\* A ban outlasts sixty suspicion windows, so the window is over first.
BanExpires(a) ==
    /\ bans[a] = "active"
    /\ strikes[a] > 0 => a \in lapsed
    /\ bans' = [bans EXCEPT ![a] = "expired"]
    /\ UNCHANGED <<pc, pool, strikes, lapsed, sweep>>

CounterAges(a) ==
    /\ a \in tracked \ aged
    /\ aged' = aged \cup {a}
    /\ UNCHANGED <<pc, counter, tracked, active, total, reputation, sweep>>

\* Mutant: the sweep drops an old entry although it is still counting.
SweepCountersByAge ==
    /\ sweep = "counters"
    /\ tracked' = tracked \ aged
    /\ aged' = {}
    /\ counter' = [a \in Addrs |-> IF a \in aged THEN 0 ELSE counter[a]]
    /\ sweep' = "bans"
    /\ UNCHANGED <<pc, active, total, reputation>>

\* ConnectionPool::cleanup_stale: old entries go, unless still counting.
SweepCounters ==
    LET stale == {a \in tracked : counter[a] = 0 /\ a \in aged}
    IN  /\ sweep = "counters"
        /\ tracked' = tracked \ stale
        /\ aged' = aged \ stale
        /\ counter' = [a \in Addrs |-> IF a \in stale THEN 0 ELSE counter[a]]
        /\ sweep' = "bans"
        /\ UNCHANGED <<pc, active, total, reputation>>

\* SecurityManager::cleanup_stale, which takes its two locks in turn.
SweepBans ==
    /\ sweep = "bans"
    /\ bans' = [a \in Addrs |-> IF bans[a] = "expired" THEN "none" ELSE bans[a]]
    /\ sweep' = "strikes"
    /\ UNCHANGED <<pc, pool, strikes, lapsed>>

\* Mutant: suspicion records are never removed, only bans are.
SweepBansOnly ==
    /\ sweep = "strikes"
    /\ sweep' = "counters"
    /\ UNCHANGED <<pc, pool, reputation>>

SweepStrikes ==
    /\ sweep = "strikes"
    /\ strikes' = [a \in Addrs |-> IF a \in lapsed THEN 0 ELSE strikes[a]]
    /\ lapsed' = {}
    /\ sweep' = "counters"
    /\ UNCHANGED <<pc, pool, bans>>

----------------------------------------------------------------------------
Request(c) ==
    \/ CheckIp(c) \/ CanAccept(c) \/ RecordSuspicion(c) \/ Reserve(c)
    \/ Admit(c) \/ RefuseRoomFull(c) \/ ReleaseSlot(c)

Session(c) == Upgrade(c) \/ EndSession(c) \/ CleanupUser(c)

Vanish(c) == DropRequest(c) \/ UpgradeFails(c)

Time(a) == WindowLapses(a) \/ BanExpires(a) \/ CounterAges(a)

Sweep == SweepCounters \/ SweepBans \/ SweepStrikes

Next ==
    \/ \E c \in Conns : Request(c) \/ Session(c) \/ Vanish(c)
    \/ \E a \in Addrs : Time(a)
    \/ Sweep

Spec == Init /\ [][Next]_vars

\* A started handler or teardown is polled until it is done, the housekeeping
\* interval keeps ticking and time passes. Nothing makes a client connect, and
\* nothing ends a session (Upgrade and EndSession are up to the peer).
Fairness ==
    /\ \A c \in Conns :
        /\ WF_vars(pc[c] # "idle" /\ Request(c))
        /\ WF_vars(CleanupUser(c))
    /\ \A a \in Addrs :
        /\ WF_vars(WindowLapses(a))
        /\ WF_vars(BanExpires(a))
        /\ WF_vars(CounterAges(a))
    /\ WF_vars(Sweep)

FairSpec == Spec /\ Fairness

----------------------------------------------------------------------------
(* Properties *)

TypeOK ==
    /\ pc \in [Conns -> {"idle"} \cup Checking \cup Holding]
    /\ counter \in [Addrs -> Nat]
    /\ tracked \subseteq Addrs
    /\ aged \subseteq tracked
    /\ active \in Nat
    /\ total \in Nat
    /\ strikes \in [Addrs -> Nat]
    /\ lapsed \subseteq Addrs
    /\ bans \in [Addrs -> {"none", "active", "expired"}]
    /\ sweep \in {"counters", "bans", "strikes"}

\* Every reservation in flight is counted, whatever clients do: no release
\* or sweep may hand out a slot somebody still holds (a sweep of ip_counters
\* once did, silently lifting a long-lived address's limit).
SlotsCovered ==
    /\ \A a \in Addrs : Cardinality(HoldersOf(a)) <= counter[a]
    /\ Cardinality(Holders) <= active

\* Every successful add_connection is paired with a remove_connection on
\* every exit path, so the counters are exactly the reservations in flight.
ReservationsPaired ==
    /\ \A a \in Addrs : counter[a] = Cardinality(HoldersOf(a))
    /\ active = Cardinality(Holders)
    /\ total = Cardinality(Holders)

\* A client that vanishes before its session starts costs its own address a
\* place and nobody else's: every other address is counted exactly, on every
\* exit path, and the pool's count and the monitor's stay together.
OthersPaired ==
    /\ \A a \in Addrs \ Hangups : counter[a] = Cardinality(HoldersOf(a))
    /\ total = active

\* The ceilings hold although the checks and the reservation are separated
\* by awaits and total_connections is incremented without a check of its own.
WithinLimits ==
    /\ \A a \in Addrs : counter[a] <= MaxPerIp
    /\ active <= MaxConcurrent
    /\ total <= MaxConcurrent

\* An address with a live reservation keeps its entry in ip_counters: the
\* sweep never evicts something live, and a later release finds its counter.
LiveAddressesTracked ==
    \A a \in Addrs : HoldersOf(a) # {} => a \in tracked

Quiet(a) == \A c \in Conns : AddrOf[c] = a => pc[c] = "idle"

Forgotten(a) == a \notin tracked /\ strikes[a] = 0 /\ bans[a] = "none"

\* Every map keyed by a client address is swept: an address that falls quiet
\* is eventually absent from all three of them, unless clients vanished there.
QuietAddressForgotten ==
    \A a \in Addrs \ Hangups : <>[]Quiet(a) => <>[]Forgotten(a)

=============================================================================
