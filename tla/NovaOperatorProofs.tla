-------------------------- MODULE NovaOperatorProofs ---------------------------
(***************************************************************************)
(* What NovaOperator claims of a ceremony of operators and of their        *)
(* signing, for any number of operators and demonstrations, any dealers    *)
(* that deal wrongly, and any connections that break and operators that    *)
(* end.                                                                    *)
(*                                                                         *)
(* Types first. The coordinator's answers to the messages of the ceremony  *)
(* all have one shape (Outcome), and so have the steps of an operator's    *)
(* process (GoesOn, with its connection, and GoesWithout, when it has lost *)
(* it): what is proved of the shapes is proved of every handler. Links     *)
(* says which connection is whose, Quiet what a process that does not run  *)
(* has, Nonces that whoever signed spent what it signed with.              *)
(*                                                                         *)
(* The ceremony next (CeremonyInv). The messages from one operator and to  *)
(* it are in the order of the ceremony (UpInOrder, DownSorted), so that    *)
(* what the coordinator has heard from an operator and what the operator   *)
(* has said never differ by more than what is on its way (InStep). What    *)
(* the coordinator asks for has its ground in the registry, and what an    *)
(* operator says has its ground in what it was sent (UpGrounds, MaySay):   *)
(* nobody deals before all have committed, and all exclude the same        *)
(* dealers, since each got every complaint before the coordinator told it  *)
(* that the window was closed. A disconnection before the end fails the    *)
(* ceremony, after which nothing is claimed but what a complete one left.  *)
(***************************************************************************)
EXTENDS NovaOperator, FiniteSetTheorems, WellFoundedInduction, NaturalsInduction, TLAPS

----------------------------------------------------------------------------
(* Types *)

Ceremonies == {"waiting", "started", "complete", "failed"}
Stages == DOMAIN Heeds \cup {"exited"}
Holders == [Ids -> Operators \cup {None}]

UpMsgs ==
    [kind : {"CommitmentHash", "Complaint", "NoMoreComplaints", "CeremonyAck",
             "PartialDecryptResponse", "Round1Response", "Round2Response"},
     of : SUBSET Ids]
    \cup [kind : {"Reveal"}, from : {0}, matches : BOOLEAN, bad : SUBSET Ids]

DownMsgs ==
    [kind : {"AllCommitmentsReceived", "ComplaintBroadcast", "ComplaintWindowClosed",
             "CeremonyComplete", "CeremonyFailed", "Reconnected",
             "PartialDecryptRequest", "Round1Request", "Round2Request"},
     of : SUBSET Ids]
    \cup [kind : {"Welcome"}, id : Ids, of : SUBSET Ids]
    \cup [kind : {"RevealBroadcast"}, from : Ids, matches : BOOLEAN, bad : SUBSET Ids]

Registry == [conns : Holders, next_id : Nat \ {0}, pending : [Ids -> Clients \cup {None}],
             ceremony : Ceremonies, hashes : SUBSET Ids, dealers : SUBSET Ids,
             excluded : SUBSET Ids, done : SUBSET Ids,
             acks : [Ids -> (SUBSET Ids) \cup {None}], roster : Holders, key : SUBSET Ids]

Net == [up : [Ids -> Seq(UpMsgs)], down : [Ids -> Seq(DownMsgs)],
        broken : SUBSET Ids, fresh : SUBSET Ids, back : SUBSET Ids]

Process == [stage : Stages, link : Ids \cup {0}, id : Ids \cup {0}, mates : SUBSET Ids,
            received : SUBSET Ids, excluded : SUBSET Ids, key : SUBSET Ids,
            nonces : BOOLEAN, signed : Nat]

Demo == {Idle} \cup
        {d \in [phase : {"decrypt", "round1", "round2"}, quorum : SUBSET Ids,
                left : (SUBSET Ids) \ {{}}, asked : Ids \cup {0}] : d.left \subseteq d.quorum}

Types ==
    /\ reg \in Registry
    /\ net \in Net
    /\ op \in [Operators -> Process]
    /\ demo \in [Clients -> [runs : Nat, d : Demo]]
    /\ faults \in 0 .. MaxFaults

----------------------------------------------------------------------------
(* Connections *)

\* The process whose connection p is, or was.
Holds(o, p) == op[o].link = p

Links ==
    /\ net.fresh \cup net.back \subseteq Live
    /\ \A p \in Ids : reg.conns[p] # None \/ reg.roster[p] # None => p < reg.next_id
    /\ \A o \in Operators :
        /\ op[o].stage = "exited" => op[o].link = 0
        /\ op[o].stage \notin {"exited", "reconnecting"} => op[o].link # 0
    /\ \A o \in Operators, p \in Ids : Holds(o, p) =>
        /\ p < reg.next_id
        /\ reg.conns[p] \in {o, None} /\ reg.roster[p] \in {o, None}
        /\ reg.conns[p] = None => p \in net.broken
    /\ \A p \in Ids : reg.roster[p] # None => reg.conns[p] \in {reg.roster[p], None}

\* The ids that were spent on connections since lost.
Lost == {p \in Ids : p < reg.next_id /\ (p \notin Live \/ p \in net.broken)}

\* Before the ceremony every id spent in vain was spent on a fault; nobody says
\* anything.
Quiet ==
    reg.ceremony = "waiting" =>
        /\ reg.next_id <= Count + MaxFaults + 1
        /\ Cardinality(Lost) <= faults
        /\ \A p \in Ids : net.up[p] = <<>> /\ net.down[p] = <<>>
        /\ \A o \in Operators : op[o].stage \in {"exited", "joining"}

\* Demonstrations run, and operators return, when the ceremony is complete.
Demos == reg.ceremony # "complete" =>
    net.back = {} /\ \A c \in Clients : demo[c].d = Idle

\* Nonces that are drawn have signed nothing.
Nonces == \A o \in Operators :
    op[o].signed \in {0, 1} /\ (op[o].nonces => op[o].signed = 0)

TypeInv == Types /\ Links /\ Quiet /\ Demos /\ Nonces

----------------------------------------------------------------------------
(* The ceremony *)

\* The order in which a participant says things, and is told them.
UpRank == [CommitmentHash |-> 1, Reveal |-> 2, Complaint |-> 3, NoMoreComplaints |-> 4,
           CeremonyAck |-> 5, PartialDecryptResponse |-> 6, Round1Response |-> 6,
           Round2Response |-> 6]
DownRank == [Welcome |-> 1, AllCommitmentsReceived |-> 2, RevealBroadcast |-> 3,
             ComplaintBroadcast |-> 3, ComplaintWindowClosed |-> 4, CeremonyComplete |-> 5,
             CeremonyFailed |-> 5, Reconnected |-> 5, PartialDecryptRequest |-> 5,
             Round1Request |-> 5, Round2Request |-> 5]

\* What the server has heard of p, and what a process at a stage has said.
Heard(p) == IF reg.acks[p] # None THEN 5 ELSE IF p \in reg.done THEN 4
            ELSE IF p \in reg.dealers THEN 2 ELSE IF p \in reg.hashes THEN 1 ELSE 0
Said == [joining |-> 0, committing |-> 1, collecting |-> 3, closing |-> 4, acking |-> 5,
         steady |-> 6, reconnecting |-> 6, exited |-> 0]

\* The messages of a queue, of those from p, and of those to p.
Messages(s) == {s[i] : i \in DOMAIN s}
Up(p) == Messages(net.up[p])
Down(p) == Messages(net.down[p])
Comes(p, k) == \E m \in Up(p) : m.kind = k
Told(p, k) == \E m \in Down(p) : m.kind = k

\* a may be queued before b.
Precedes(a, b) == \/ UpRank[a.kind] < UpRank[b.kind]
                  \/ a.kind = "Complaint" /\ b.kind = "Complaint"
Leads(a, b) == /\ DownRank[a.kind] <= DownRank[b.kind]
               /\ a.kind = "RevealBroadcast" /\ b.kind = "RevealBroadcast" => a.from # b.from
UpSorted(s) == \A i, j \in DOMAIN s : i < j => Precedes(s[i], s[j])
DownSorted(s) == \A i, j \in DOMAIN s : i < j => Leads(s[i], s[j])

\* Whose contributions the key will sum, as far as the server knows.
Kept == reg.dealers \ reg.excluded

\* What p has said and the server not yet heard is in order, news, and said on a
\* ground that holds for good.
UpInOrder(p) ==
    /\ UpSorted(net.up[p])
    /\ \A m \in Up(p) : Heard(p) < UpRank[m.kind] /\ UpRank[m.kind] <= 5

UpGrounds(p) ==
    /\ Comes(p, "Reveal") \/ p \in reg.dealers => reg.hashes = Live
    /\ Comes(p, "NoMoreComplaints") \/ p \in reg.done => reg.dealers = Live
    /\ Comes(p, "CeremonyAck") \/ reg.acks[p] # None => reg.done = Live
    /\ \A m \in Up(p) :
        /\ m.kind = "Complaint" => m.of \subseteq reg.dealers /\ reg.hashes = Live
        /\ m.kind = "CeremonyAck" => m.of = Kept
    /\ reg.acks[p] # None => reg.acks[p] = Kept

\* What is on its way to p is in order, and still true.
DownInOrder(p) ==
    /\ DownSorted(net.down[p])
    /\ \A m \in Down(p) :
        /\ m.kind \in {"Welcome", "AllCommitmentsReceived", "RevealBroadcast",
                       "ComplaintBroadcast", "ComplaintWindowClosed"}
        /\ m.kind = "Welcome" => m.id = p /\ m.of = Live
        /\ m.kind # "Welcome" => reg.hashes = Live
        /\ m.kind = "RevealBroadcast" =>
             m.from \in reg.dealers /\ (m.matches \/ m.from \in reg.excluded)
        /\ m.kind = "ComplaintBroadcast" => m.of \subseteq reg.excluded
        /\ m.kind = "ComplaintWindowClosed" => reg.done = Live

\* A participant's process, in step with the server.
InStep(o, p) ==
    LET n == op[o]
    IN  /\ n.stage \in {"joining", "committing", "collecting", "closing", "acking"}
        /\ n.stage # "joining" => n.id = p /\ n.mates = Live
        /\ Heard(p) <= Said[n.stage]
        /\ \A m \in Up(p) : UpRank[m.kind] <= Said[n.stage]
        /\ n.stage = "joining" => Told(p, "Welcome")
        /\ n.stage = "committing" /\ reg.hashes = Live => Told(p, "AllCommitmentsReceived")
        /\ n.stage \in {"collecting", "closing", "acking"} => reg.hashes = Live
        /\ n.stage \in {"closing", "acking"} => n.received = Live
        /\ n.stage = "acking" => reg.done = Live /\ n.key = Kept

\* What it has received, or will, is what the server has.
Received(o, p) ==
    /\ op[o].received \subseteq reg.dealers
    /\ \A q \in reg.dealers : q \in op[o].received \/
         \E m \in Down(p) : m.kind = "RevealBroadcast" /\ m.from = q
    /\ \A m \in Down(p) : m.kind = "RevealBroadcast" => m.from \notin op[o].received

\* Likewise for whom it has excluded, save that a broken connection loses its
\* complaints; then it loses the end of them too.
Silenced(p) == p \in net.broken /\ p \notin reg.done /\ ~Comes(p, "NoMoreComplaints")
Excluded(o, p) ==
    /\ \A q \in op[o].excluded :
        \/ q \in reg.excluded \/ Silenced(p)
        \/ \E m \in Up(p) : m.kind = "Complaint" /\ q \in m.of
    /\ op[o].stage # "acking" => \A q \in reg.excluded :
        \/ q \in op[o].excluded
        \/ \E m \in Down(p) :
            \/ m.kind = "RevealBroadcast" /\ m.from = q /\ ~m.matches
            \/ m.kind = "ComplaintBroadcast" /\ q \in m.of

Part(o, p) == DownInOrder(p) /\ InStep(o, p) /\ Received(o, p) /\ Excluded(o, p)

Started ==
    /\ reg.hashes \subseteq Live /\ reg.dealers \subseteq Live /\ reg.done \subseteq Live
    /\ \A p \in Ids : reg.acks[p] # None => p \in Live
    /\ \A p \in Live : UpInOrder(p) /\ UpGrounds(p)
    /\ \A o \in Operators, p \in Live : Holds(o, p) => Part(o, p)
    /\ \A o \in Operators : op[o].link \notin Live => op[o].stage \in {"exited", "joining"}
    /\ \A o \in Operators, p \in Ids : Holds(o, p) /\ p \notin Live => net.down[p] = <<>>

Complete == \A o \in Operators :
    /\ op[o].stage \in {"exited", "joining", "acking", "steady", "reconnecting"}
    /\ op[o].stage = "joining" => ~Told(op[o].link, "Welcome")
    /\ op[o].stage \in {"acking", "steady", "reconnecting"} => op[o].key = Kept

\* A process that has not been welcomed knows nothing.
Unwelcomed == \A o \in Operators : op[o].stage \in {"exited", "joining"} =>
    op[o].received = {} /\ op[o].excluded = {}

CeremonyInv ==
    /\ Unwelcomed
    /\ reg.ceremony = "started" => Started
    /\ reg.ceremony = "complete" => Complete

----------------------------------------------------------------------------
(* The shapes of the records *)

\* The assumption on the constants.
LEMMA Constants ==
  /\ Count \in Nat \ {0} /\ Threshold \in 1 .. Count /\ MaxFaults \in Nat /\ MaxDemos \in Nat
  /\ None \notin Operators /\ None \notin Clients /\ \A S \in SUBSET Ids : None # S
  /\ IsFiniteSet(Ids) /\ Ids \subseteq Nat \ {0}
<1>1. IsFiniteSet(Ids) /\ Ids \subseteq Nat \ {0}
  BY OperatorAssumption, FS_Interval DEF Ids
<1> QED
  BY <1>1, OperatorAssumption DEF Ids

\* The coordinator's registry.
LEMMA RegistryShape ==
  ASSUME NEW r \in Registry
  PROVE  /\ r.conns \in Holders /\ r.next_id \in Nat \ {0}
         /\ r.pending \in [Ids -> Clients \cup {None}] /\ r.ceremony \in Ceremonies
         /\ r.hashes \in SUBSET Ids /\ r.dealers \in SUBSET Ids
         /\ r.excluded \in SUBSET Ids /\ r.done \in SUBSET Ids
         /\ r.acks \in [Ids -> (SUBSET Ids) \cup {None}]
         /\ r.roster \in Holders /\ r.key \in SUBSET Ids
  BY DEF Registry

NoAcks == [p \in Ids |-> None]

\* A stage of the ceremony begins with nothing heard.
LEMMA EnterIs ==
  ASSUME NEW r \in Registry, NEW c \in Ceremonies
  PROVE  /\ Enter(r, c) \in Registry
         /\ Enter(r, c).ceremony = c /\ Enter(r, c).conns = r.conns
         /\ Enter(r, c).next_id = r.next_id /\ Enter(r, c).pending = r.pending
         /\ Enter(r, c).hashes = {} /\ Enter(r, c).dealers = {}
         /\ Enter(r, c).excluded = {} /\ Enter(r, c).done = {}
         /\ Enter(r, c).acks = NoAcks /\ Enter(r, c).roster = NoAcks
         /\ Enter(r, c).key = {}
<1> DEFINE e == Enter(r, c)
<1>1. /\ e.ceremony = c /\ e.conns = r.conns
      /\ e.next_id = r.next_id /\ e.pending = r.pending
      /\ e.hashes = {} /\ e.dealers = {} /\ e.excluded = {} /\ e.done = {}
      /\ e.acks = NoAcks /\ e.roster = NoAcks /\ e.key = {}
  BY DEF Enter, Waiting, NoAcks
<1>2. e \in Registry
  <2>1. NoAcks \in Holders /\ NoAcks \in [Ids -> (SUBSET Ids) \cup {None}]
    BY DEF NoAcks, Holders
  <2>2. e = [e EXCEPT !.ceremony = e.ceremony] /\ DOMAIN e = DOMAIN Waiting
    BY DEF Enter, Waiting
  <2> HIDE DEF e
  <2> QED
    BY <1>1, <2>1, <2>2, RegistryShape DEF Registry, Waiting
<1> QED
  BY <1>1, <1>2

\* The connections.
LEMMA NetShape ==
  ASSUME NEW n \in Net
  PROVE  /\ n.up \in [Ids -> Seq(UpMsgs)] /\ n.down \in [Ids -> Seq(DownMsgs)]
         /\ n.broken \in SUBSET Ids /\ n.fresh \in SUBSET Ids /\ n.back \in SUBSET Ids
  BY DEF Net

\* An operator's process.
LEMMA ProcessShape ==
  ASSUME NEW n \in Process
  PROVE  /\ n.stage \in Stages /\ n.link \in Ids \cup {0} /\ n.id \in Ids \cup {0}
         /\ n.mates \in SUBSET Ids /\ n.received \in SUBSET Ids
         /\ n.excluded \in SUBSET Ids /\ n.key \in SUBSET Ids
         /\ n.nonces \in BOOLEAN /\ n.signed \in Nat
  BY DEF Process

\* Its stages.
LEMMA StagesAre ==
  Stages = {"joining", "committing", "collecting", "closing", "acking", "steady",
            "reconnecting", "exited"}
  BY DEF Stages, Heeds

\* A process before it is started.
LEMMA NotStartedIs == NotStarted \in Process
  BY StagesAre DEF NotStarted, Process

----------------------------------------------------------------------------
(* The effects of the steps, field by field *)

\* What a handler does that leaves the registry r and tells everyone ms.
LEMMA HandledIs ==
  ASSUME Types, NEW p \in Ids, net.up[p] # <<>>, NEW r \in Registry,
         NEW ms \in Seq(DownMsgs), Handled(p, r, ms)
  PROVE  /\ reg' = r /\ net' \in Net /\ UNCHANGED <<op, demo, faults>>
         /\ net'.broken = net.broken /\ net'.fresh = net.fresh /\ net'.back = net.back
         /\ net'.up = [net.up EXCEPT ![p] = Tail(net.up[p])]
         /\ net'.down = [q \in Ids |-> IF q \in Live THEN net.down[q] \o ms ELSE net.down[q]]
<1>1. /\ net.up \in [Ids -> Seq(UpMsgs)] /\ net.down \in [Ids -> Seq(DownMsgs)]
      /\ net \in Net
  BY NetShape DEF Types
<1>2. /\ net'.broken = net.broken /\ net'.fresh = net.fresh /\ net'.back = net.back
      /\ net'.up = [net.up EXCEPT ![p] = Tail(net.up[p])]
      /\ net'.down = [q \in Ids |-> IF q \in Live THEN net.down[q] \o ms ELSE net.down[q]]
      /\ net' = [net EXCEPT !.up = net'.up, !.down = net'.down]
  BY <1>1 DEF Handled, Consumed, Net
<1>3. net'.up \in [Ids -> Seq(UpMsgs)] /\ net'.down \in [Ids -> Seq(DownMsgs)]
  <2>1. Tail(net.up[p]) \in Seq(UpMsgs)
    BY <1>1
  <2>2. \A q \in Ids : net.down[q] \o ms \in Seq(DownMsgs) /\ net.down[q] \in Seq(DownMsgs)
    BY <1>1
  <2> QED
    BY <1>1, <1>2, <2>1, <2>2
<1>4. net' \in Net
  BY <1>1, <1>2, <1>3 DEF Net
<1> QED
  BY <1>2, <1>4 DEF Handled

\* What operator o does that becomes n and sends ms.
LEMMA GoesIs ==
  ASSUME Types, NEW o \in Operators, op[o].link # 0, net.down[op[o].link] # <<>>,
         NEW n \in Process, NEW ms \in Seq(UpMsgs), Goes(o, n, ms)
  PROVE  /\ op[o].link \in Ids
         /\ op' = [op EXCEPT ![o] = n] /\ op' \in [Operators -> Process]
         /\ net' \in Net /\ UNCHANGED <<reg, demo, faults>>
         /\ net'.broken = net.broken /\ net'.fresh = net.fresh /\ net'.back = net.back
         /\ op'[o] = n /\ \A x \in Operators \ {o} : op'[x] = op[x]
         /\ \A q \in Ids \ {op[o].link} :
              net'.up[q] = net.up[q] /\ net'.down[q] = net.down[q]
         /\ net'.down[op[o].link] = Tail(net.down[op[o].link])
         /\ net'.up[op[o].link] = IF op[o].link \in net.broken THEN net.up[op[o].link]
                                  ELSE net.up[op[o].link] \o ms
<1> DEFINE p == op[o].link
<1>1. /\ net.up \in [Ids -> Seq(UpMsgs)] /\ net.down \in [Ids -> Seq(DownMsgs)]
      /\ net \in Net /\ p \in Ids
  BY NetShape, ProcessShape DEF Types
<1> HIDE DEF p
<1>2. /\ net'.broken = net.broken /\ net'.fresh = net.fresh /\ net'.back = net.back
      /\ net'.down = [net.down EXCEPT ![p] = Tail(net.down[p])]
      /\ net'.up = [net.up EXCEPT ![p] =
                         IF p \in net.broken THEN net.up[p] ELSE net.up[p] \o ms]
      /\ net' = [net EXCEPT !.down = net'.down, !.up = net'.up]
  BY <1>1 DEF Goes, Net, p
<1>3. net'.up \in [Ids -> Seq(UpMsgs)] /\ net'.down \in [Ids -> Seq(DownMsgs)]
  <2>1. Tail(net.down[p]) \in Seq(DownMsgs)
    BY <1>1 DEF p
  <2>2. net.up[p] \o ms \in Seq(UpMsgs)
    BY <1>1
  <2> QED
    BY <1>1, <1>2, <2>1, <2>2
<1>4. net' \in Net
  BY <1>1, <1>2, <1>3 DEF Net
<1>5. op' = [op EXCEPT ![o] = n] /\ UNCHANGED <<reg, demo, faults>>
      /\ op \in [Operators -> Process]
  BY DEF Goes, Types
<1>6. op'[o] = n /\ op' \in [Operators -> Process]
      /\ \A x \in Operators \ {o} : op'[x] = op[x]
  BY <1>5
<1>7. /\ \A q \in Ids \ {p} : net'.up[q] = net.up[q] /\ net'.down[q] = net.down[q]
      /\ net'.down[p] = Tail(net.down[p])
      /\ net'.up[p] = IF p \in net.broken THEN net.up[p] ELSE net.up[p] \o ms
  BY <1>1, <1>2
<1> QED
  BY <1>1, <1>2, <1>4, <1>5, <1>6, <1>7 DEF p

\* What operator o does that becomes n without its connection.
LEMMA LeavesIs ==
  ASSUME Types, NEW o \in Operators, NEW n \in Process, Leaves(o, n)
  PROVE  /\ op' = [op EXCEPT ![o] = n] /\ op' \in [Operators -> Process]
         /\ net' \in Net /\ UNCHANGED <<reg, demo>>
         /\ net'.fresh = net.fresh /\ net'.back = net.back /\ net'.up = net.up
         /\ op[o].link = 0 => net' = net
         /\ op[o].link # 0 => /\ op[o].link \in Ids
                              /\ net'.broken = net.broken \cup {op[o].link}
                              /\ net'.down = [net.down EXCEPT ![op[o].link] = <<>>]
<1> DEFINE p == op[o].link
<1>1. /\ net.up \in [Ids -> Seq(UpMsgs)] /\ net.down \in [Ids -> Seq(DownMsgs)]
      /\ net \in Net /\ p \in Ids \cup {0} /\ net.broken \in SUBSET Ids
  BY NetShape, ProcessShape DEF Types
<1> HIDE DEF p
<1>2. CASE p = 0
  BY <1>1, <1>2 DEF Leaves, Types, p
<1>3. CASE p # 0
  <2>1. /\ net'.broken = net.broken \cup {p} /\ net'.fresh = net.fresh /\ net'.back = net.back
        /\ net'.down = [net.down EXCEPT ![p] = <<>>]
        /\ net'.up = net.up
        /\ net' = [net EXCEPT !.down = net'.down, !.broken = net'.broken]
    BY <1>1, <1>3 DEF Leaves, Net, p
  <2>2. net'.down \in [Ids -> Seq(DownMsgs)] /\ net'.broken \in SUBSET Ids
    BY <1>1, <1>3, <2>1
  <2>3. net' \in Net
    BY <1>1, <2>1, <2>2 DEF Net
  <2> QED
    BY <1>1, <1>3, <2>1, <2>3 DEF Leaves, Types, p
<1> QED
  BY <1>2, <1>3

\* What the attachment of operator o does.
LEMMA AttachIs ==
  ASSUME Types, NEW o \in Operators, NEW p \in Ids, NEW as \in {"fresh", "back"},
         Attach(o, p, as)
  PROVE  /\ op' \in [Operators -> Process] /\ net' \in Net /\ UNCHANGED <<demo, faults>>
         /\ \A x \in Operators \ {o} : op'[x] = op[x]
         /\ op'[o].link = p /\ op'[o].key = op[o].key
         /\ op'[o].nonces = op[o].nonces /\ op'[o].signed = op[o].signed
         /\ op'[o].received = op[o].received /\ op'[o].excluded = op[o].excluded
         /\ op[o].stage = "exited" => op'[o].stage = "joining"
         /\ op[o].stage # "exited" => op'[o].stage = op[o].stage
         /\ net'.up = [net.up EXCEPT ![p] = <<>>] /\ net'.down = [net.down EXCEPT ![p] = <<>>]
         /\ net'.broken = net.broken \ {p}
         /\ as = "fresh" => net'.fresh = net.fresh \cup {p} /\ net'.back = net.back
         /\ as = "back" => net'.fresh = net.fresh /\ net'.back = net.back \cup {p}
<1>1. /\ net.up \in [Ids -> Seq(UpMsgs)] /\ net.down \in [Ids -> Seq(DownMsgs)]
      /\ net \in Net /\ net.broken \in SUBSET Ids
      /\ net.fresh \in SUBSET Ids /\ net.back \in SUBSET Ids
  BY NetShape DEF Types
<1>2. op \in [Operators -> Process] /\ op[o] \in Process
  BY DEF Types
<1>3. /\ \A x \in Operators \ {o} : op'[x] = op[x]
      /\ op'[o] = [op[o] EXCEPT !.link = p,
                         !.stage = IF op[o].stage = "exited" THEN "joining" ELSE op[o].stage]
      /\ op' = [op EXCEPT ![o] = op'[o]]
  BY <1>2 DEF Attach, Process
<1>4. op'[o] \in Process
  BY <1>2, <1>3, StagesAre DEF Process
<1>5. op' \in [Operators -> Process]
  BY <1>2, <1>3, <1>4
<1>6. /\ op'[o].link = p /\ op'[o].key = op[o].key
      /\ op'[o].nonces = op[o].nonces /\ op'[o].signed = op[o].signed
      /\ op'[o].received = op[o].received /\ op'[o].excluded = op[o].excluded
      /\ op[o].stage = "exited" => op'[o].stage = "joining"
      /\ op[o].stage # "exited" => op'[o].stage = op[o].stage
  BY <1>2, <1>3 DEF Process
<1>7. CASE as = "fresh"
  <2>1. /\ net'.broken = net.broken \ {p} /\ net'.fresh = net.fresh \cup {p} /\ net'.back = net.back
        /\ net'.down = [net.down EXCEPT ![p] = <<>>] /\ net'.up = [net.up EXCEPT ![p] = <<>>]
        /\ net' = [net EXCEPT !.down = net'.down, !.up = net'.up, !.broken = net'.broken,
                              !.fresh = net'.fresh]
    BY <1>1, <1>7 DEF Attach, Net
  <2>2. net'.down \in [Ids -> Seq(DownMsgs)] /\ net'.up \in [Ids -> Seq(UpMsgs)]
        /\ net'.broken \in SUBSET Ids /\ net'.fresh \in SUBSET Ids
    BY <1>1, <2>1
  <2>3. net' \in Net
    BY <1>1, <2>1, <2>2 DEF Net
  <2> QED
    BY <1>3, <1>5, <1>7, <1>6, <2>1, <2>3 DEF Attach
<1>8. CASE as = "back"
  <2>1. /\ net'.broken = net.broken \ {p} /\ net'.back = net.back \cup {p} /\ net'.fresh = net.fresh
        /\ net'.down = [net.down EXCEPT ![p] = <<>>] /\ net'.up = [net.up EXCEPT ![p] = <<>>]
        /\ net' = [net EXCEPT !.down = net'.down, !.up = net'.up, !.broken = net'.broken,
                              !.back = net'.back]
    BY <1>1, <1>8 DEF Attach, Net
  <2>2. net'.down \in [Ids -> Seq(DownMsgs)] /\ net'.up \in [Ids -> Seq(UpMsgs)]
        /\ net'.broken \in SUBSET Ids /\ net'.back \in SUBSET Ids
    BY <1>1, <2>1
  <2>3. net' \in Net
    BY <1>1, <2>1, <2>2 DEF Net
  <2> QED
    BY <1>3, <1>5, <1>8, <1>6, <2>1, <2>3 DEF Attach
<1> QED
  BY <1>7, <1>8

----------------------------------------------------------------------------
(* What the handlers of the server leave of the registry *)

\* What operators send.
LEMMA UpMsgIs ==
  ASSUME NEW m \in UpMsgs, NEW p \in Ids
  PROVE  /\ m.kind = "Reveal" =>
              /\ m.matches \in BOOLEAN
              /\ [m EXCEPT !.kind = "RevealBroadcast", !.from = p] \in DownMsgs
         /\ m.kind # "Reveal" => m.of \in SUBSET Ids
<1>1. ASSUME m.kind = "Reveal"
      PROVE  /\ m.matches \in BOOLEAN
             /\ [m EXCEPT !.kind = "RevealBroadcast", !.from = p] \in DownMsgs
  <2>1. m \in [kind : {"Reveal"}, from : {0}, matches : BOOLEAN, bad : SUBSET Ids]
    BY <1>1 DEF UpMsgs
  <2> QED
    BY <2>1 DEF DownMsgs
<1>2. ASSUME m.kind # "Reveal" PROVE m.of \in SUBSET Ids
  BY <1>2 DEF UpMsgs
<1> QED
  BY <1>1, <1>2

\* The messages there are.
LEMMA MessageTypes ==
  /\ \A k \in {"CommitmentHash", "NoMoreComplaints", "PartialDecryptResponse",
               "Round1Response", "Round2Response"} : Msg(k) \in UpMsgs
  /\ \A S \in SUBSET Ids : /\ MsgOf("Complaint", S) \in UpMsgs
                           /\ MsgOf("CeremonyAck", S) \in UpMsgs
  /\ \A b \in BOOLEAN, S \in SUBSET Ids :
        [kind |-> "Reveal", from |-> 0, matches |-> b, bad |-> S] \in UpMsgs
  /\ \A k \in {"AllCommitmentsReceived", "ComplaintWindowClosed", "CeremonyFailed",
               "PartialDecryptRequest", "Round1Request", "Round2Request"} : Msg(k) \in DownMsgs
  /\ \A S \in SUBSET Ids : /\ MsgOf("ComplaintBroadcast", S) \in DownMsgs
                           /\ MsgOf("CeremonyComplete", S) \in DownMsgs
                           /\ MsgOf("Reconnected", S) \in DownMsgs
  /\ \A p \in Ids, S \in SUBSET Ids : [kind |-> "Welcome", id |-> p, of |-> S] \in DownMsgs
  BY DEF Msg, MsgOf, UpMsgs, DownMsgs

\* A handler's outcome: the registry r, and what everyone is told.
Outcome(p, r, ms) ==
    /\ Handled(p, r, ms)
    /\ r \in Registry /\ ms \in Seq(DownMsgs)
    /\ r.conns = reg.conns /\ r.next_id = reg.next_id /\ r.pending = reg.pending
    /\ \/ r = reg /\ ms = <<>>
       \/ /\ reg.ceremony = "started"
          /\ \/ r.ceremony = "started" /\ r.roster = reg.roster
             \/ r.ceremony = "complete" /\ r.roster = reg.conns
             \/ r.ceremony = "failed" /\ r.roster = NoAcks

CeremonyMessage(p) ==
    \/ on_commitment_hash(p) \/ on_reveal(p) \/ on_complaint(p)
    \/ on_no_more_complaints(p) \/ on_ceremony_ack(p)

\* The message a handler reads.
LEMMA HeadOf ==
  ASSUME Types, NEW p \in Ids, NEW k, Reads(p, k)
  PROVE  /\ p \in Live /\ net.up[p] # <<>> /\ Head(net.up[p]) \in UpMsgs
         /\ Head(net.up[p]).kind = k
<1>1. net.up[p] \in Seq(UpMsgs)
  BY NetShape DEF Types
<1> QED
  BY <1>1 DEF Reads

\* Live connections are connections.
LEMMA LiveIds == Live \subseteq Ids
  BY DEF Live

\* A commitment (on_commitment_hash).
LEMMA CommitmentHashOutcome ==
  ASSUME Types, NEW p \in Ids, on_commitment_hash(p)
  PROVE  \E r \in Registry, ms \in Seq(DownMsgs) : Outcome(p, r, ms)
<1> DEFINE H == reg.hashes \cup {p}
           r == [reg EXCEPT !.hashes = H]
           ms == IF Cardinality(H) >= Cardinality(Live)
                 THEN <<Msg("AllCommitmentsReceived")>> ELSE <<>>
<1>1. CASE reg.ceremony # "started"
  <2>1. Handled(p, reg, <<>>) /\ <<>> \in Seq(DownMsgs)
    BY <1>1 DEF on_commitment_hash
  <2> QED
    BY <2>1 DEF Outcome, Types
<1>2. CASE reg.ceremony = "started"
  <2>1. Handled(p, r, ms)
    BY <1>2 DEF on_commitment_hash
  <2>2. ms \in Seq(DownMsgs)
    BY MessageTypes
  <2>3. /\ r \in Registry /\ r.conns = reg.conns /\ r.next_id = reg.next_id
        /\ r.pending = reg.pending /\ r.ceremony = "started" /\ r.roster = reg.roster
    BY <1>2, RegistryShape DEF Types, Registry
  <2> HIDE DEF ms, r
  <2> QED
    BY <1>2, <2>1, <2>2, <2>3 DEF Outcome
<1> QED
  BY <1>1, <1>2

\* A reveal, passed on to all.
LEMMA RevealOutcome ==
  ASSUME Types, NEW p \in Ids, on_reveal(p)
  PROVE  \E r \in Registry, ms \in Seq(DownMsgs) : Outcome(p, r, ms)
<1> DEFINE m == Head(net.up[p])
           r == [reg EXCEPT !.dealers = @ \cup {p},
                            !.excluded = IF m.matches THEN @ ELSE @ \cup {p}]
           ms == <<[m EXCEPT !.kind = "RevealBroadcast", !.from = p]>>
<1>1. CASE reg.ceremony # "started"
  <2>1. Handled(p, reg, <<>>) /\ <<>> \in Seq(DownMsgs)
    BY <1>1 DEF on_reveal
  <2> QED
    BY <2>1 DEF Outcome, Types
<1>2. CASE reg.ceremony = "started"
  <2>1. Handled(p, r, ms)
    BY <1>2 DEF on_reveal
  <2>2. ms \in Seq(DownMsgs)
    <3>1. m \in UpMsgs /\ m.kind = "Reveal"
      BY HeadOf DEF on_reveal
    <3>2. PICK y : y = m
      OBVIOUS
    <3>3. PICK x : x = [y EXCEPT !.kind = "RevealBroadcast", !.from = p]
      OBVIOUS
    <3>4. x \in DownMsgs
      BY <3>1, <3>2, <3>3, UpMsgIs
    <3>5. <<x>> \in Seq(DownMsgs)
      BY <3>4
    <3>6. ms = <<x>>
      BY <3>2, <3>3
    <3> QED
      BY <3>5, <3>6
  <2>3. /\ r \in Registry /\ r.conns = reg.conns /\ r.next_id = reg.next_id
        /\ r.pending = reg.pending /\ r.ceremony = "started" /\ r.roster = reg.roster
    BY <1>2, RegistryShape DEF Types, Registry
  <2> HIDE DEF ms, r
  <2> QED
    BY <1>2, <2>1, <2>2, <2>3 DEF Outcome
<1> QED
  BY <1>1, <1>2

\* A complaint, which excludes its dealer.
LEMMA ComplaintOutcome ==
  ASSUME Types, NEW p \in Ids, on_complaint(p)
  PROVE  \E r \in Registry, ms \in Seq(DownMsgs) : Outcome(p, r, ms)
<1> DEFINE A == Head(net.up[p]).of
           r == [reg EXCEPT !.excluded = @ \cup A]
           ms == <<MsgOf("ComplaintBroadcast", A)>>
<1>1. CASE reg.ceremony # "started" \/ ~(A \subseteq reg.dealers)
  <2>1. Handled(p, reg, <<>>) /\ <<>> \in Seq(DownMsgs)
    BY <1>1 DEF on_complaint
  <2> QED
    BY <2>1 DEF Outcome, Types
<1>2. CASE ~(reg.ceremony # "started" \/ ~(A \subseteq reg.dealers))
  <2>1. Handled(p, r, ms)
    BY <1>2 DEF on_complaint
  <2>2. ms \in Seq(DownMsgs) /\ A \in SUBSET Ids
    <3>1. Head(net.up[p]) \in UpMsgs /\ Head(net.up[p]).kind = "Complaint"
      BY HeadOf DEF on_complaint
    <3>2. A \in SUBSET Ids
      BY <3>1, UpMsgIs
    <3>3. PICK x : x = MsgOf("ComplaintBroadcast", A)
      OBVIOUS
    <3>4. x \in DownMsgs
      BY <3>2, <3>3, MessageTypes
    <3>5. <<x>> \in Seq(DownMsgs)
      BY <3>4
    <3>6. ms = <<x>>
      BY <3>3
    <3> HIDE DEF ms
    <3> QED
      BY <3>2, <3>5, <3>6
  <2> HIDE DEF A
  <2>3. /\ r \in Registry /\ r.conns = reg.conns /\ r.next_id = reg.next_id
        /\ r.pending = reg.pending /\ r.ceremony = "started" /\ r.roster = reg.roster
    BY <1>2, <2>2, RegistryShape DEF Types, Registry
  <2> HIDE DEF ms, r
  <2> QED
    BY <1>2, <2>1, <2>2, <2>3 DEF Outcome
<1> QED
  BY <1>1, <1>2

\* The end of an operator's complaints.
LEMMA NoMoreComplaintsOutcome ==
  ASSUME Types, NEW p \in Ids, on_no_more_complaints(p)
  PROVE  \E r \in Registry, ms \in Seq(DownMsgs) : Outcome(p, r, ms)
<1> DEFINE D == reg.done \cup {p}
           r == [reg EXCEPT !.done = D]
           ms == IF Cardinality(D) >= Cardinality(Live)
                 THEN <<Msg("ComplaintWindowClosed")>> ELSE <<>>
<1>1. CASE reg.ceremony # "started"
  <2>1. Handled(p, reg, <<>>) /\ <<>> \in Seq(DownMsgs)
    BY <1>1 DEF on_no_more_complaints
  <2> QED
    BY <2>1 DEF Outcome, Types
<1>2. CASE reg.ceremony = "started"
  <2>1. Handled(p, r, ms)
    BY <1>2 DEF on_no_more_complaints
  <2>2. ms \in Seq(DownMsgs)
    BY MessageTypes
  <2>3. /\ r \in Registry /\ r.conns = reg.conns /\ r.next_id = reg.next_id
        /\ r.pending = reg.pending /\ r.ceremony = "started" /\ r.roster = reg.roster
    BY <1>2, RegistryShape DEF Types, Registry
  <2> HIDE DEF ms, r
  <2> QED
    BY <1>2, <2>1, <2>2, <2>3 DEF Outcome
<1> QED
  BY <1>1, <1>2

\* The registry of a ceremony that ended well with the key k.
Completed(k) == [Enter(reg, "complete") EXCEPT
                   !.dealers = reg.dealers, !.excluded = reg.excluded \cap reg.dealers,
                   !.key = k, !.roster = reg.conns]

\* The registry of a complete ceremony.
LEMMA CompletedIs ==
  ASSUME Types, NEW k \in SUBSET Ids
  PROVE  /\ Completed(k) \in Registry
         /\ Completed(k).conns = reg.conns /\ Completed(k).next_id = reg.next_id
         /\ Completed(k).pending = reg.pending
         /\ Completed(k).ceremony = "complete" /\ Completed(k).roster = reg.conns
         /\ Completed(k).dealers = reg.dealers
         /\ Completed(k).excluded = reg.excluded \cap reg.dealers
<1> DEFINE e == Enter(reg, "complete")
<1>1. /\ e \in Registry /\ e.conns = reg.conns /\ e.next_id = reg.next_id
      /\ e.pending = reg.pending /\ e.ceremony = "complete"
  BY EnterIs DEF Types, Ceremonies
<1> HIDE DEF e
<1>2. Completed(k) = [e EXCEPT !.dealers = reg.dealers,
                               !.excluded = reg.excluded \cap reg.dealers,
                               !.key = k, !.roster = reg.conns]
  BY DEF Completed, e
<1>3. reg.dealers \in SUBSET Ids /\ reg.excluded \in SUBSET Ids /\ reg.conns \in Holders
  BY RegistryShape DEF Types
<1> QED
  BY <1>1, <1>2, <1>3 DEF Registry

\* An acknowledgement; the last completes or fails the ceremony.
LEMMA CeremonyAckOutcome ==
  ASSUME Types, NEW p \in Ids, on_ceremony_ack(p)
  PROVE  \E r \in Registry, ms \in Seq(DownMsgs) : Outcome(p, r, ms)
<1> DEFINE key == Head(net.up[p]).of
           acks == [reg.acks EXCEPT ![p] = key]
           given == {q \in Ids : acks[q] # None}
<1>1. key \in SUBSET Ids
  <2>1. Head(net.up[p]) \in UpMsgs /\ Head(net.up[p]).kind = "CeremonyAck"
    BY HeadOf DEF on_ceremony_ack
  <2> QED
    BY <2>1, UpMsgIs
<1>2. \/ Handled(p, reg, <<>>)
      \/ /\ reg.ceremony = "started"
         /\ \/ Handled(p, [reg EXCEPT !.acks = acks], <<>>)
            \/ Handled(p, Completed(key), <<MsgOf("CeremonyComplete", key)>>)
            \/ Handled(p, fail_ceremony(reg), <<Msg("CeremonyFailed")>>)
  BY DEF on_ceremony_ack, Completed
<1> HIDE DEF key
<1>3. CASE Handled(p, reg, <<>>)
  <2>1. <<>> \in Seq(DownMsgs)
    OBVIOUS
  <2> QED
    BY <1>3, <2>1 DEF Outcome, Types
<1>4. CASE reg.ceremony = "started" /\ Handled(p, [reg EXCEPT !.acks = acks], <<>>)
  <2> DEFINE r == [reg EXCEPT !.acks = acks]
  <2>1. acks \in [Ids -> (SUBSET Ids) \cup {None}] /\ <<>> \in Seq(DownMsgs)
    BY <1>1, RegistryShape DEF Types
  <2> HIDE DEF acks
  <2>2. /\ r \in Registry /\ r.conns = reg.conns /\ r.next_id = reg.next_id
        /\ r.pending = reg.pending /\ r.ceremony = "started" /\ r.roster = reg.roster
    BY <1>4, <2>1, RegistryShape DEF Types, Registry
  <2> HIDE DEF r
  <2> QED
    BY <1>4, <2>1, <2>2 DEF Outcome, r
<1>5. CASE /\ reg.ceremony = "started"
           /\ Handled(p, Completed(key), <<MsgOf("CeremonyComplete", key)>>)
  <2>1. <<MsgOf("CeremonyComplete", key)>> \in Seq(DownMsgs)
    BY <1>1, MessageTypes
  <2> QED
    BY <1>1, <1>5, <2>1, CompletedIs DEF Outcome
<1>6. CASE reg.ceremony = "started" /\ Handled(p, fail_ceremony(reg), <<Msg("CeremonyFailed")>>)
  <2>1. <<Msg("CeremonyFailed")>> \in Seq(DownMsgs)
    BY MessageTypes
  <2>2. "failed" \in Ceremonies /\ reg \in Registry
    BY DEF Ceremonies, Types
  <2>3. PICK r : r = fail_ceremony(reg)
    OBVIOUS
  <2>4. /\ r \in Registry /\ r.conns = reg.conns /\ r.next_id = reg.next_id
        /\ r.pending = reg.pending /\ r.ceremony = "failed" /\ r.roster = NoAcks
    BY <2>2, <2>3, EnterIs DEF fail_ceremony
  <2>5. Handled(p, r, <<Msg("CeremonyFailed")>>)
    BY <1>6, <2>3
  <2> QED
    BY <1>6, <2>1, <2>4, <2>5 DEF Outcome
<1> QED
  BY <1>2, <1>3, <1>4, <1>5, <1>6

\* Every message of the ceremony has an outcome.
LEMMA CeremonyOutcome ==
  ASSUME Types, NEW p \in Ids, CeremonyMessage(p)
  PROVE  /\ p \in Live /\ net.up[p] # <<>>
         /\ \E r \in Registry, ms \in Seq(DownMsgs) : Outcome(p, r, ms)
<1>1. p \in Live /\ net.up[p] # <<>>
  BY DEF CeremonyMessage, on_commitment_hash, on_reveal, on_complaint,
         on_no_more_complaints, on_ceremony_ack, Reads
<1> QED
  BY <1>1, CommitmentHashOutcome, RevealOutcome, ComplaintOutcome, NoMoreComplaintsOutcome,
     CeremonyAckOutcome DEF CeremonyMessage

----------------------------------------------------------------------------
(* What the steps of an operator process are *)

\* Operator o goes on with its connection, as n.
GoesOn(o, n, ms) ==
    /\ Goes(o, n, ms) /\ n \in Process /\ ms \in Seq(UpMsgs)
    /\ op[o].link # 0 /\ net.down[op[o].link] # <<>>
    /\ n.link = op[o].link /\ n.stage # "exited"
    /\ op[o].signed \in {0, 1} /\ (op[o].nonces => op[o].signed = 0)
         => n.signed \in {0, 1} /\ (n.nonces => n.signed = 0)

\* It goes on without, as n; before the ceremony, only for a fault.
GoesWithout(o, n) ==
    /\ Leaves(o, n) /\ n \in Process
    /\ op[o].stage # "exited"
    /\ n.link = 0 /\ n.stage \in {"exited", "reconnecting"}
    /\ n.stage = "reconnecting" => op[o].stage \in Serving
    /\ (n.nonces = op[o].nonces /\ n.signed = op[o].signed) \/ n = NotStarted
    /\ \/ faults' = faults /\ (reg.ceremony = "waiting" => op[o].link \in net.broken)
       \/ n = NotStarted /\ faults' = faults + 1 /\ faults < MaxFaults

\* What an operator process does of its own accord, or suffers.
Runs(o) == main(o) \/ SendFails(o) \/ Kill(o)

\* What the coordinator sends.
LEMMA DownMsgIs ==
  ASSUME NEW m \in DownMsgs
  PROVE  /\ m.kind = "Welcome" => m.id \in Ids /\ m.of \in SUBSET Ids
         /\ m.kind = "RevealBroadcast" => /\ m.from \in Ids /\ m.matches \in BOOLEAN
                                          /\ m.bad \in SUBSET Ids
         /\ m.kind \notin {"Welcome", "RevealBroadcast"} => m.of \in SUBSET Ids
  BY DEF DownMsgs

\* The message an operator reads.
LEMMA IncomingIs ==
  ASSUME Types, NEW o \in Operators, op[o].link # 0, net.down[op[o].link] # <<>>
  PROVE  Incoming(o) \in DownMsgs /\ op[o] \in Process
<1>1. op[o].link \in Ids /\ op[o] \in Process
  BY ProcessShape DEF Types
<1>2. net.down[op[o].link] \in Seq(DownMsgs)
  BY <1>1, NetShape DEF Types
<1> QED
  BY <1>1, <1>2 DEF Incoming

\* Before the ceremony a process has nothing to read.
LEMMA NothingYet ==
  ASSUME Types, Quiet, NEW o \in Operators, op[o].link # 0, net.down[op[o].link] # <<>>
  PROVE  reg.ceremony # "waiting"
<1>1. op[o].link \in Ids
  BY ProcessShape DEF Types
<1> QED
  BY <1>1 DEF Quiet

\* A process that ends.
LEMMA ExitsIs ==
  ASSUME Types, Quiet, Nonces, NEW o \in Operators, Exits(o), faults' = faults,
         op[o].stage # "exited",
         op[o].link \in net.broken \/ reg.ceremony # "waiting"
  PROVE  GoesWithout(o, NotStarted)
  BY NotStartedIs DEF Exits, GoesWithout, NotStarted

\* Welcome: the operator commits.
LEMMA OnWelcomeIs ==
  ASSUME Types, NEW o \in Operators, OnWelcome(o)
  PROVE  \E n, ms : GoesOn(o, n, ms)
<1> DEFINE m == Incoming(o)
           n == [op[o] EXCEPT !.stage = "committing", !.id = m.id, !.mates = m.of]
<1>1. /\ op[o].link # 0 /\ net.down[op[o].link] # <<>> /\ m.kind = "Welcome"
      /\ Goes(o, n, <<Msg("CommitmentHash")>>)
  BY DEF OnWelcome, Takes
<1>2. m \in DownMsgs /\ op[o] \in Process
  BY <1>1, IncomingIs
<1>3. m.id \in Ids /\ m.of \in SUBSET Ids
  BY <1>1, <1>2, DownMsgIs
<1> HIDE DEF m
<1>4. /\ n \in Process /\ n.link = op[o].link /\ n.stage = "committing"
      /\ n.signed = op[o].signed /\ n.nonces = op[o].nonces
  BY <1>2, <1>3, StagesAre DEF Process
<1>5. <<Msg("CommitmentHash")>> \in Seq(UpMsgs)
  BY MessageTypes
<1> HIDE DEF n
<1> QED
  BY <1>1, <1>4, <1>5 DEF GoesOn

\* What a deal says.
LEMMA DealIs ==
  ASSUME NEW o, NEW S \in SUBSET Ids, NEW d \in Deals(o, S)
  PROVE  d.matches \in BOOLEAN /\ d.bad \in SUBSET Ids
<1>1. \/ d = [matches |-> TRUE, bad |-> {}] \/ d = [matches |-> FALSE, bad |-> {}]
      \/ d \in [matches : {TRUE}, bad : (SUBSET S) \ {{}}]
  <2>1. CASE o \in Faulty
    BY <2>1 DEF Deals
  <2>2. CASE o \notin Faulty
    BY <2>2 DEF Deals
  <2> QED
    BY <2>1, <2>2
<1>2. CASE d \in [matches : {TRUE}, bad : (SUBSET S) \ {{}}]
  <2>1. d.matches = TRUE /\ d.bad \in SUBSET S
    BY <1>2
  <2> QED
    BY <2>1
<1>3. ASSUME NEW y \in BOOLEAN, d = [matches |-> y, bad |-> {}]
      PROVE  d.matches \in BOOLEAN /\ d.bad \in SUBSET Ids
  BY <1>3
<1> QED
  BY <1>1, <1>2, <1>3

\* AllCommitmentsReceived: it deals.
LEMMA OnAllCommitmentsReceivedIs ==
  ASSUME Types, Quiet, Nonces, NEW o \in Operators, OnAllCommitmentsReceived(o)
  PROVE  (\E n, ms : GoesOn(o, n, ms)) \/ GoesWithout(o, NotStarted)
<1>1. /\ op[o].link # 0 /\ net.down[op[o].link] # <<>> /\ op[o].stage = "committing"
      /\ op[o] \in Process
  BY IncomingIs DEF OnAllCommitmentsReceived, Takes
<1>2. ASSUME NEW d \in Deals(o, op[o].mates \ {op[o].id}),
             Goes(o, [op[o] EXCEPT !.stage = "collecting"],
                  <<[kind |-> "Reveal", from |-> 0, matches |-> d.matches, bad |-> d.bad]>>)
      PROVE  \E n, ms : GoesOn(o, n, ms)
  <2> DEFINE n == [op[o] EXCEPT !.stage = "collecting"]
             x == [kind |-> "Reveal", from |-> 0, matches |-> d.matches, bad |-> d.bad]
  <2>1. d.matches \in BOOLEAN /\ d.bad \in SUBSET Ids
    <3>1. PICK S : S = op[o].mates \ {op[o].id}
      OBVIOUS
    <3>2. S \in SUBSET Ids /\ d \in Deals(o, S)
      BY <1>1, <1>2, <3>1, ProcessShape
    <3> QED
      BY <3>2, DealIs
  <2>2. x \in UpMsgs
    BY <2>1, MessageTypes
  <2>3. /\ n \in Process /\ n.link = op[o].link /\ n.stage = "collecting"
        /\ n.signed = op[o].signed /\ n.nonces = op[o].nonces
    BY <1>1, StagesAre DEF Process
  <2> HIDE DEF n, x
  <2>4. <<x>> \in Seq(UpMsgs)
    BY <2>2
  <2>5. Goes(o, n, <<x>>)
    BY <1>2 DEF n, x
  <2> QED
    BY <1>1, <2>3, <2>4, <2>5 DEF GoesOn
<1>3. CASE Exits(o) /\ UNCHANGED faults
  BY <1>1, <1>3, ExitsIs, NothingYet
<1> QED
  BY <1>2, <1>3 DEF OnAllCommitmentsReceived

\* The process after a reveal, as the two outcomes that matter here.
LEMMA OnRevealBroadcastIs ==
  ASSUME Types, NEW o \in Operators, OnRevealBroadcast(o)
  PROVE  \E n, ms : GoesOn(o, n, ms)
<1> DEFINE m == Incoming(o)
           b == op[o]
           fails == m.matches /\ b.id \in m.bad
           last == Cardinality(b.received \cup {m.from}) = Cardinality(b.mates)
           n == [b EXCEPT !.received = @ \cup {m.from},
                          !.excluded = IF fails \/ ~m.matches THEN @ \cup {m.from} ELSE @,
                          !.stage = IF last THEN "closing" ELSE @]
           ms == (IF fails THEN <<MsgOf("Complaint", {m.from})>> ELSE <<>>)
                 \o (IF last THEN <<Msg("NoMoreComplaints")>> ELSE <<>>)
<1>1. /\ op[o].link # 0 /\ net.down[op[o].link] # <<>> /\ m.kind = "RevealBroadcast"
      /\ op[o].stage = "collecting"
      /\ \/ Goes(o, b, <<>>)
         \/ Goes(o, n, ms)
  BY DEF OnRevealBroadcast, Takes
<1>2. m \in DownMsgs /\ b \in Process
  BY <1>1, IncomingIs
<1>3. m.from \in Ids
  BY <1>1, <1>2, DownMsgIs
<1>4. ms \in Seq(UpMsgs)
  <2>1. PICK x, y : x = MsgOf("Complaint", {m.from}) /\ y = Msg("NoMoreComplaints")
    OBVIOUS
  <2>2. x \in UpMsgs /\ y \in UpMsgs
    BY <1>3, <2>1, MessageTypes
  <2>3. <<x>> \in Seq(UpMsgs) /\ <<y>> \in Seq(UpMsgs) /\ <<>> \in Seq(UpMsgs)
    BY <2>2
  <2>4. \A s, t \in Seq(UpMsgs) : s \o t \in Seq(UpMsgs)
    OBVIOUS
  <2>5. PICK s, t : /\ s = IF fails THEN <<MsgOf("Complaint", {m.from})>> ELSE <<>>
                    /\ t = IF last THEN <<Msg("NoMoreComplaints")>> ELSE <<>>
    OBVIOUS
  <2>6. s \in Seq(UpMsgs) /\ t \in Seq(UpMsgs)
    BY <2>1, <2>3, <2>5
  <2> QED
    BY <2>4, <2>5, <2>6
<1> HIDE DEF ms, fails, last, m
<1>5. /\ n \in Process /\ n.link = op[o].link /\ n.stage # "exited"
      /\ n.signed = op[o].signed /\ n.nonces = op[o].nonces
  BY <1>1, <1>2, <1>3, StagesAre DEF Process
<1> HIDE DEF n
<1>6. CASE Goes(o, n, ms)
  BY <1>1, <1>4, <1>5, <1>6 DEF GoesOn
<1>7. CASE Goes(o, b, <<>>)
  <2>1. <<>> \in Seq(UpMsgs)
    OBVIOUS
  <2> QED
    BY <1>1, <1>2, <1>7, <2>1 DEF GoesOn
<1> QED
  BY <1>1, <1>6, <1>7

\* ComplaintBroadcast: it excludes a dealer.
LEMMA OnComplaintBroadcastIs ==
  ASSUME Types, NEW o \in Operators, OnComplaintBroadcast(o)
  PROVE  \E n, ms : GoesOn(o, n, ms)
<1> DEFINE m == Incoming(o)
           n == [op[o] EXCEPT !.excluded = @ \cup m.of]
<1>1. /\ op[o].link # 0 /\ net.down[op[o].link] # <<>> /\ m.kind = "ComplaintBroadcast"
      /\ op[o].stage \in {"collecting", "closing"} /\ Goes(o, n, <<>>)
  BY DEF OnComplaintBroadcast, Takes
<1>2. m \in DownMsgs /\ op[o] \in Process
  BY <1>1, IncomingIs
<1>3. m.of \in SUBSET Ids
  BY <1>1, <1>2, DownMsgIs
<1> HIDE DEF m
<1>4. /\ n \in Process /\ n.link = op[o].link /\ n.stage = op[o].stage
      /\ n.signed = op[o].signed /\ n.nonces = op[o].nonces /\ <<>> \in Seq(UpMsgs)
  BY <1>2, <1>3 DEF Process
<1> HIDE DEF n
<1> QED
  BY <1>1, <1>4 DEF GoesOn

\* ComplaintWindowClosed: it adds up its share.
LEMMA OnComplaintWindowClosedIs ==
  ASSUME Types, NEW o \in Operators, OnComplaintWindowClosed(o)
  PROVE  \E n, ms : GoesOn(o, n, ms)
<1> DEFINE key == op[o].received \ op[o].excluded
           n == [op[o] EXCEPT !.stage = "acking", !.key = key]
<1>1. /\ op[o].link # 0 /\ net.down[op[o].link] # <<>>
      /\ Goes(o, n, <<MsgOf("CeremonyAck", key)>>)
  BY DEF OnComplaintWindowClosed, Takes
<1>2. op[o] \in Process
  BY <1>1, IncomingIs
<1>3. key \in SUBSET Ids
  BY <1>2, ProcessShape
<1> HIDE DEF key
<1>4. /\ n \in Process /\ n.link = op[o].link /\ n.stage = "acking"
      /\ n.signed = op[o].signed /\ n.nonces = op[o].nonces
  BY <1>2, <1>3, StagesAre DEF Process
<1>5. <<MsgOf("CeremonyAck", key)>> \in Seq(UpMsgs)
  BY <1>3, MessageTypes
<1> HIDE DEF n
<1> QED
  BY <1>1, <1>4, <1>5 DEF GoesOn

\* CeremonyComplete: it keeps its share.
LEMMA OnCeremonyCompleteIs ==
  ASSUME Types, Quiet, Nonces, NEW o \in Operators, OnCeremonyComplete(o)
  PROVE  (\E n, ms : GoesOn(o, n, ms)) \/ GoesWithout(o, NotStarted)
<1> DEFINE n == [op[o] EXCEPT !.stage = "steady"]
<1>1. /\ op[o].link # 0 /\ net.down[op[o].link] # <<>> /\ op[o].stage = "acking"
      /\ Goes(o, n, <<>>) \/ (Exits(o) /\ UNCHANGED faults)
  BY DEF OnCeremonyComplete, Takes
<1>2. op[o] \in Process
  BY <1>1, IncomingIs
<1>3. /\ n \in Process /\ n.link = op[o].link /\ n.stage = "steady"
      /\ n.signed = op[o].signed /\ n.nonces = op[o].nonces /\ <<>> \in Seq(UpMsgs)
  BY <1>2, StagesAre DEF Process
<1> HIDE DEF n
<1>4. CASE Goes(o, n, <<>>)
  BY <1>1, <1>3, <1>4 DEF GoesOn
<1>5. CASE Exits(o) /\ UNCHANGED faults
  BY <1>1, <1>5, ExitsIs, NothingYet
<1> QED
  BY <1>1, <1>4, <1>5

\* A request to decrypt or to sign.
LEMMA OnRequestIs ==
  ASSUME Types, NEW o \in Operators, OnRequest(o)
  PROVE  \E n, ms : GoesOn(o, n, ms)
<1>1. op[o].link # 0 /\ net.down[op[o].link] # <<>> /\ op[o].stage = "steady"
  BY DEF OnRequest, Takes
<1>2. op[o] \in Process /\ op[o].signed \in Nat
  BY <1>1, IncomingIs, ProcessShape
<1>3. <<>> \in Seq(UpMsgs) /\ <<Msg("PartialDecryptResponse")>> \in Seq(UpMsgs)
      /\ <<Msg("Round1Response")>> \in Seq(UpMsgs) /\ <<Msg("Round2Response")>> \in Seq(UpMsgs)
  BY MessageTypes
<1>4. CASE \E ms \in {<<>>, <<Msg("PartialDecryptResponse")>>} : Goes(o, op[o], ms)
  BY <1>1, <1>2, <1>3, <1>4 DEF GoesOn
<1>5. CASE Goes(o, [op[o] EXCEPT !.nonces = TRUE, !.signed = 0], <<Msg("Round1Response")>>)
  <2> DEFINE n == [op[o] EXCEPT !.nonces = TRUE, !.signed = 0]
  <2>1. n \in Process /\ n.link = op[o].link /\ n.stage = op[o].stage /\ n.signed = 0
    BY <1>2 DEF Process
  <2> HIDE DEF n
  <2> QED
    BY <1>1, <1>3, <1>5, <2>1 DEF GoesOn, n
<1>6. CASE op[o].nonces
           /\ Goes(o, [op[o] EXCEPT !.nonces = FALSE, !.signed = @ + 1], <<Msg("Round2Response")>>)
  <2> DEFINE n == [op[o] EXCEPT !.nonces = FALSE, !.signed = @ + 1]
  <2>1. PICK z \in Nat : z = op[o].signed + 1
    BY <1>2
  <2>2. n = [op[o] EXCEPT !.nonces = FALSE, !.signed = z]
    BY <1>2, <2>1 DEF Process
  <2>3. /\ n \in Process /\ n.link = op[o].link /\ n.stage = op[o].stage
        /\ n.signed = z /\ n.nonces = FALSE
    BY <1>2, <2>2 DEF Process
  <2> HIDE DEF n
  <2>4. Goes(o, n, <<Msg("Round2Response")>>)
    BY <1>6 DEF n
  <2>5. GoesOn(o, n, <<Msg("Round2Response")>>)
    BY <1>1, <1>2, <1>3, <1>6, <2>1, <2>3, <2>4 DEF GoesOn
  <2> QED
    BY <2>5
<1> QED
  BY <1>4, <1>5, <1>6 DEF OnRequest

\* Reconnected: it goes on with the share it has.
LEMMA OnReconnectedIs ==
  ASSUME Types, Quiet, Nonces, NEW o \in Operators, OnReconnected(o)
  PROVE  \E n : (\E ms : GoesOn(o, n, ms)) \/ GoesWithout(o, n)
<1>1. op[o].link # 0 /\ net.down[op[o].link] # <<>> /\ op[o].stage = "reconnecting"
  BY DEF OnReconnected, Takes
<1>2. op[o] \in Process /\ reg.ceremony # "waiting"
  BY <1>1, IncomingIs, NothingYet
<1>3. CASE Goes(o, [op[o] EXCEPT !.stage = "steady", !.nonces = FALSE, !.signed = 0], <<>>)
  <2> DEFINE n == [op[o] EXCEPT !.stage = "steady", !.nonces = FALSE, !.signed = 0]
  <2>1. /\ n \in Process /\ n.link = op[o].link /\ n.stage = "steady" /\ n.signed = 0
        /\ <<>> \in Seq(UpMsgs)
    <3>1. "steady" \in Stages /\ <<>> \in Seq(UpMsgs)
      BY StagesAre
    <3> QED
      BY <1>2, <3>1 DEF Process
  <2> HIDE DEF n
  <2>2. GoesOn(o, n, <<>>)
    BY <1>1, <1>3, <2>1 DEF GoesOn, n
  <2> QED
    BY <2>2
<1>4. CASE Leaves(o, [op[o] EXCEPT !.link = 0]) /\ UNCHANGED faults
  <2> DEFINE n == [op[o] EXCEPT !.link = 0]
  <2>1. /\ n \in Process /\ n.link = 0 /\ n.stage = "reconnecting"
        /\ n.signed = op[o].signed /\ n.nonces = op[o].nonces
    BY <1>1, <1>2 DEF Process
  <2> HIDE DEF n
  <2>2. GoesWithout(o, n)
    BY <1>1, <1>2, <1>4, <2>1 DEF GoesWithout, n, Serving
  <2> QED
    BY <2>2
<1> QED
  BY <1>3, <1>4 DEF OnReconnected

\* Its connection breaks.
LEMMA LosesConnectionIs ==
  ASSUME Types, Links, Quiet, Nonces, NEW o \in Operators, LosesConnection(o)
  PROVE  \E n : GoesWithout(o, n)
<1>1. op[o].link \in net.broken /\ op[o] \in Process /\ op[o].link # 0 /\ faults' = faults
  BY NetShape, Constants DEF LosesConnection, Types
<1>2. op[o].stage # "exited"
  BY <1>1 DEF Links
<1>3. CASE Exits(o)
  BY <1>1, <1>2, <1>3, ExitsIs
<1>4. CASE op[o].stage \in Serving
           /\ Leaves(o, [op[o] EXCEPT !.stage = "reconnecting", !.link = 0])
  <2> DEFINE n == [op[o] EXCEPT !.stage = "reconnecting", !.link = 0]
  <2>1. /\ n \in Process /\ n.link = 0 /\ n.stage = "reconnecting"
        /\ n.signed = op[o].signed /\ n.nonces = op[o].nonces
    BY <1>1, StagesAre DEF Process
  <2> HIDE DEF n
  <2>2. GoesWithout(o, n)
    BY <1>1, <1>2, <1>4, <2>1 DEF GoesWithout, n
  <2> QED
    BY <2>2
<1> QED
  BY <1>3, <1>4 DEF LosesConnection

\* Every step of a process goes on with the connection or without.
LEMMA RunsIs ==
  ASSUME Types, Links, Quiet, Nonces, NEW o \in Operators, Runs(o)
  PROVE  \E n : (\E ms : GoesOn(o, n, ms)) \/ GoesWithout(o, n)
<1>1. CASE OnEnd(o)
  <2>1. op[o].link # 0 /\ net.down[op[o].link] # <<>> /\ op[o].stage # "exited"
    BY <1>1 DEF OnEnd, Takes
  <2> QED
    BY <1>1, <2>1, ExitsIs, NothingYet DEF OnEnd
<1>2. CASE Skip(o)
  <2>1. op[o].link # 0 /\ net.down[op[o].link] # <<>> /\ Goes(o, op[o], <<>>)
    BY <1>2 DEF Skip
  <2>2. op[o] \in Process /\ op[o].stage # "exited" /\ <<>> \in Seq(UpMsgs)
    BY <2>1, IncomingIs DEF Links
  <2>3. GoesOn(o, op[o], <<>>)
    BY <2>1, <2>2 DEF GoesOn
  <2> QED
    BY <2>3
<1>3. CASE SendFails(o)
  <2>1. Exits(o) /\ faults' = faults /\ op[o].stage \in {"steady", "reconnecting"}
    BY <1>3 DEF SendFails, Takes
  <2>2. reg.ceremony # "waiting"
    BY <2>1 DEF Quiet
  <2> QED
    BY <2>1, <2>2, ExitsIs
<1>4. CASE Kill(o)
  <2>1. GoesWithout(o, NotStarted)
    BY <1>4, NotStartedIs DEF Kill, Exits, GoesWithout, NotStarted
  <2> QED
    BY <2>1
<1>5. CASE OnWelcome(o) \/ OnAllCommitmentsReceived(o) \/ OnRevealBroadcast(o)
           \/ OnComplaintBroadcast(o) \/ OnComplaintWindowClosed(o) \/ OnCeremonyComplete(o)
  BY <1>5, OnWelcomeIs, OnAllCommitmentsReceivedIs, OnRevealBroadcastIs,
     OnComplaintBroadcastIs, OnComplaintWindowClosedIs, OnCeremonyCompleteIs
<1>6. CASE OnRequest(o) \/ OnReconnected(o) \/ LosesConnection(o)
  BY <1>6, OnRequestIs, OnReconnectedIs, LosesConnectionIs
<1> QED
  BY <1>1, <1>2, <1>3, <1>4, <1>5, <1>6 DEF Runs, main

----------------------------------------------------------------------------
(* Types, connections and nonces *)

\* An outcome keeps the types.
LEMMA OutcomeTypes ==
  ASSUME TypeInv, NEW p \in Ids, p \in Live, net.up[p] # <<>>,
         NEW r, NEW ms, Outcome(p, r, ms)
  PROVE  TypeInv'
<1>1. /\ reg' = r /\ net' \in Net /\ UNCHANGED <<op, demo, faults>>
      /\ net'.broken = net.broken /\ net'.fresh = net.fresh /\ net'.back = net.back
      /\ r \in Registry
  BY HandledIs DEF Outcome, TypeInv
<1>2. /\ reg'.conns = reg.conns /\ reg'.next_id = reg.next_id /\ reg'.pending = reg.pending
      /\ Live' = Live
  BY <1>1 DEF Outcome, Live
<1>3. Types'
  BY <1>1 DEF TypeInv, Types
<1>4. Links'
  <2>1. \A q \in Ids : reg'.roster[q] \in {reg.roster[q], reg.conns[q], None}
    BY <1>1 DEF Outcome, NoAcks
  <2>2. \A q \in Ids : reg'.roster[q] # None => reg.conns[q] \in {reg'.roster[q], None}
    BY <1>1 DEF Outcome, NoAcks, TypeInv, Links
  <2>3. net'.fresh \cup net'.back \subseteq Live'
    BY <1>1, <1>2 DEF TypeInv, Links
  <2>4. \A q \in Ids : reg'.conns[q] # None \/ reg'.roster[q] # None => q < reg'.next_id
    BY <1>2, <2>1 DEF TypeInv, Links
  <2>5. \A o \in Operators :
           /\ op'[o].stage = "exited" => op'[o].link = 0
           /\ op'[o].stage \notin {"exited", "reconnecting"} => op'[o].link # 0
    BY <1>1 DEF TypeInv, Links
  <2>6. \A o \in Operators, q \in Ids : Holds(o, q)' =>
           /\ q < reg'.next_id
           /\ reg'.conns[q] \in {o, None} /\ reg'.roster[q] \in {o, None}
           /\ reg'.conns[q] = None => q \in net'.broken
    BY <1>1, <1>2, <2>1 DEF TypeInv, Links, Holds
  <2> QED
    BY <1>2, <2>2, <2>3, <2>4, <2>5, <2>6 DEF Links
<1>5. Quiet' /\ Demos' /\ Nonces'
  <2>1. reg.ceremony # "waiting"
    BY DEF TypeInv, Quiet
  <2>2. reg'.ceremony # "waiting" /\ (reg'.ceremony # "complete" => reg.ceremony # "complete")
    BY <1>1, <2>1 DEF Outcome
  <2> QED
    BY <1>1, <2>2 DEF TypeInv, Quiet, Demos, Nonces
<1> QED
  BY <1>3, <1>4, <1>5 DEF TypeInv

\* So does a step of a process.
LEMMA GoesOnTypes ==
  ASSUME TypeInv, NEW o \in Operators, NEW n, NEW ms, GoesOn(o, n, ms)
  PROVE  TypeInv'
<1>1. /\ op[o].link \in Ids
      /\ op' = [op EXCEPT ![o] = n] /\ op' \in [Operators -> Process]
      /\ net' \in Net /\ UNCHANGED <<reg, demo, faults>>
      /\ net'.broken = net.broken /\ net'.fresh = net.fresh /\ net'.back = net.back
  BY GoesIs DEF GoesOn, TypeInv
<1>2. /\ \A x \in Operators \ {o} : op'[x] = op[x]
      /\ op'[o] = n /\ n.link = op[o].link /\ n.link # 0 /\ n.stage # "exited"
  BY <1>1 DEF GoesOn, TypeInv, Types
<1>3. Types'
  BY <1>1 DEF TypeInv, Types
<1>4. Links'
  <2>1. /\ \A x \in Operators : op'[x].link = op[x].link
        /\ \A x \in Operators, q \in Ids : Holds(x, q)' <=> Holds(x, q)
    BY <1>2 DEF Holds
  <2>2. Live' = Live
    BY <1>1 DEF Live
  <2>3. \A x \in Operators :
           /\ op'[x].stage = "exited" => op'[x].link = 0
           /\ op'[x].stage \notin {"exited", "reconnecting"} => op'[x].link # 0
    BY <1>2 DEF TypeInv, Links
  <2> QED
    BY <1>1, <2>1, <2>2, <2>3 DEF TypeInv, Links, Holds
<1>5. reg.ceremony # "waiting"
  BY NothingYet DEF GoesOn, TypeInv
<1>6. Quiet' /\ Demos' /\ Nonces'
  BY <1>1, <1>2, <1>5 DEF TypeInv, Quiet, Demos, Nonces, GoesOn
<1> QED
  BY <1>3, <1>4, <1>6 DEF TypeInv

\* The connections lost.
LEMMA LostIs ==
  ASSUME Types
  PROVE  IsFiniteSet(Lost) /\ Lost \subseteq Ids /\ Cardinality(Lost) \in Nat
<1>1. Lost \subseteq Ids
  BY DEF Lost
<1> QED
  BY <1>1, Constants, FS_Subset, FS_CardinalityType

\* So does the loss of a connection.
LEMMA GoesWithoutTypes ==
  ASSUME TypeInv, NEW o \in Operators, NEW n, GoesWithout(o, n)
  PROVE  TypeInv'
<1>1. /\ op' = [op EXCEPT ![o] = n] /\ op' \in [Operators -> Process]
      /\ net' \in Net /\ UNCHANGED <<reg, demo>>
      /\ net'.fresh = net.fresh /\ net'.back = net.back /\ net'.up = net.up
      /\ op[o].link = 0 => net' = net
      /\ op[o].link # 0 => /\ op[o].link \in Ids
                           /\ net'.broken = net.broken \cup {op[o].link}
                           /\ net'.down = [net.down EXCEPT ![op[o].link] = <<>>]
  BY LeavesIs DEF GoesWithout, TypeInv
<1>2. /\ \A x \in Operators \ {o} : op'[x] = op[x]
      /\ op'[o] = n /\ n.link = 0 /\ n.stage \in {"exited", "reconnecting"}
  BY <1>1 DEF GoesWithout, TypeInv, Types
<1>3. /\ faults' \in 0 .. MaxFaults /\ faults \in Nat
      /\ faults' = faults \/ faults' = faults + 1
  BY Constants DEF GoesWithout, TypeInv, Types
<1>4. Types'
  BY <1>1, <1>3 DEF TypeInv, Types
<1>5. Links'
  <2>1. \A x \in Operators, q \in Ids : Holds(x, q)' => Holds(x, q)
    BY <1>2, Constants DEF Holds
  <2>2. Live' = Live /\ net.broken \subseteq net'.broken
    BY <1>1 DEF Live
  <2>3. \A x \in Operators :
           /\ op'[x].stage = "exited" => op'[x].link = 0
           /\ op'[x].stage \notin {"exited", "reconnecting"} => op'[x].link # 0
    BY <1>2 DEF TypeInv, Links
  <2> QED
    BY <1>1, <2>1, <2>2, <2>3 DEF TypeInv, Links
<1>6. Quiet'
  <2> SUFFICES ASSUME reg.ceremony = "waiting"
               PROVE  /\ Cardinality(Lost)' <= faults'
                      /\ \A p \in Ids : net'.up[p] = <<>> /\ net'.down[p] = <<>>
                      /\ \A x \in Operators : op'[x].stage \in {"exited", "joining"}
    BY <1>1 DEF Quiet, TypeInv
  <2>1. op[o].stage = "joining" /\ n.stage = "exited" /\ op[o].link # 0
    BY <1>2 DEF TypeInv, Quiet, GoesWithout, Serving, Links
  <2>2. \A p \in Ids : net'.up[p] = <<>> /\ net'.down[p] = <<>>
    BY <1>1, <2>1, NetShape DEF TypeInv, Quiet, Types
  <2>3. \A x \in Operators : op'[x].stage \in {"exited", "joining"}
    BY <1>2, <2>1 DEF TypeInv, Quiet
  <2>4. Lost' \subseteq Lost \cup {op[o].link}
    BY <1>1, <2>1 DEF Lost, Live
  <2>5. op[o].link < reg.next_id
    BY <1>1, <2>1 DEF TypeInv, Links, Holds
  <2>6. CASE op[o].link \in net.broken /\ faults' = faults
    <3>1. Lost' = Lost
      BY <1>1, <2>1, <2>6 DEF Lost, Live
    <3> QED
      BY <2>2, <2>3, <2>6, <3>1 DEF TypeInv, Quiet
  <2>7. CASE faults' = faults + 1
    <3>1. /\ IsFiniteSet(Lost) /\ Cardinality(Lost) \in Nat
      BY LostIs DEF TypeInv
    <3>2. /\ IsFiniteSet(Lost \cup {op[o].link})
          /\ Cardinality(Lost \cup {op[o].link}) <= Cardinality(Lost) + 1
      BY <3>1, FS_AddElement
    <3>3. Cardinality(Lost') <= Cardinality(Lost \cup {op[o].link})
          /\ Cardinality(Lost') \in Nat /\ Cardinality(Lost \cup {op[o].link}) \in Nat
      BY <2>4, <3>2, FS_Subset, FS_CardinalityType
    <3> QED
      BY <1>3, <2>2, <2>3, <2>7, <3>1, <3>2, <3>3 DEF TypeInv, Quiet
  <2> QED
    BY <2>6, <2>7 DEF GoesWithout
<1>7. Demos' /\ Nonces'
  BY <1>1, <1>2 DEF TypeInv, Demos, Nonces, GoesWithout, NotStarted
<1> QED
  BY <1>4, <1>5, <1>6, <1>7 DEF TypeInv

\* A set has at most one member more.
LEMMA OneMore ==
  ASSUME NEW S, IsFiniteSet(S), NEW x
  PROVE  /\ IsFiniteSet(S \cup {x})
         /\ Cardinality(S \cup {x}) <= Cardinality(S) + 1
<1>1. Cardinality(S) \in Nat
  BY FS_CardinalityType
<1> QED
  BY <1>1, FS_AddElement

\* A new connection of operator o under the id p.
HelloNew(o) ==
    /\ op[o].stage \in {"exited", "reconnecting"} /\ op[o].link = 0
    /\ reg.ceremony = "waiting" /\ Cardinality(Live) < Count
    /\ reg' = [reg EXCEPT !.conns[reg.next_id] = o, !.next_id = @ + 1]
    /\ Attach(o, reg.next_id, "fresh")

HelloBack(o, p) ==
    /\ op[o].stage \in {"exited", "reconnecting"} /\ op[o].link = 0
    /\ reg.ceremony = "complete" /\ p \in Ids /\ reg.roster[p] = o /\ p \notin Live
    /\ reg' = [reg EXCEPT !.conns[p] = o]
    /\ Attach(o, p, "back")

\* Whoever says hello is new or comes back.
LEMMA HelloIs ==
  ASSUME NEW o \in Operators, Hello(o)
  PROVE  HelloNew(o) \/ \E p : HelloBack(o, p)
  BY DEF Hello, HelloNew, HelloBack, returning_id

\* An id is left for a connection while the roster is not full.
LEMMA IdLeft ==
  ASSUME TypeInv, reg.ceremony = "waiting", Cardinality(Live) < Count
  PROVE  reg.next_id \in Ids
<1>1. reg.next_id \in Nat \ {0} /\ faults \in 0 .. MaxFaults
  BY RegistryShape DEF TypeInv, Types
<1>2. 1 .. reg.next_id - 1 \subseteq Live \cup Lost
  <2>1. ASSUME NEW p \in 1 .. reg.next_id - 1 PROVE p \in Live \cup Lost
    <3>1. p \in Ids
      BY <1>1, <2>1, Constants DEF TypeInv, Quiet, Ids
    <3> QED
      BY <1>1, <2>1, <3>1 DEF Lost
  <2> QED
    BY <2>1
<1>3. /\ IsFiniteSet(Live) /\ Cardinality(Live) \in Nat
      /\ IsFiniteSet(Lost) /\ Cardinality(Lost) \in Nat
  BY LostIs, LiveIds, Constants, FS_Subset, FS_CardinalityType DEF TypeInv
<1>4. IsFiniteSet(Live \cup Lost)
      /\ Cardinality(Live \cup Lost) <= Cardinality(Live) + Cardinality(Lost)
      /\ Cardinality(Live \cup Lost) \in Nat
  <2>1. /\ IsFiniteSet(Live \cup Lost) /\ IsFiniteSet(Live \cap Lost)
        /\ Cardinality(Live \cup Lost) = Cardinality(Live) + Cardinality(Lost)
                                         - Cardinality(Live \cap Lost)
    BY <1>3, FS_Union, FS_Intersection
  <2>2. Cardinality(Live \cap Lost) \in Nat /\ Cardinality(Live \cup Lost) \in Nat
    BY <2>1, FS_CardinalityType
  <2> QED
    BY <1>3, <2>1, <2>2
<1>5. /\ Cardinality(1 .. reg.next_id - 1) = reg.next_id - 1
      /\ Cardinality(1 .. reg.next_id - 1) <= Cardinality(Live \cup Lost)
  <2>1. reg.next_id - 1 \in Nat
    BY <1>1
  <2>2. Cardinality(1 .. reg.next_id - 1) = reg.next_id - 1
    <3>1. PICK k : k = reg.next_id - 1
      OBVIOUS
    <3>2. \A a, b \in Int : Cardinality(a .. b) = IF a > b THEN 0 ELSE b - a + 1
      BY FS_Interval
    <3>3. k \in Int /\ 1 \in Int
      BY <2>1, <3>1
    <3>4. Cardinality(1 .. k) = IF 1 > k THEN 0 ELSE k - 1 + 1
      BY <3>2, <3>3, Zenon
    <3> QED
      BY <2>1, <3>1, <3>4
  <2> QED
    BY <1>2, <1>4, <2>2, FS_Subset
<1>6. Cardinality(Lost) <= MaxFaults
  BY <1>1, <1>3, Constants DEF TypeInv, Quiet
<1> QED
  BY <1>1, <1>3, <1>4, <1>5, <1>6, Constants DEF Ids

\* A new operator gets the next id.
LEMMA HelloNewTypes ==
  ASSUME TypeInv, NEW o \in Operators, HelloNew(o)
  PROVE  TypeInv'
<1> DEFINE p == reg.next_id
<1>1. p \in Ids /\ p \in Nat /\ reg \in Registry /\ o # None
  BY IdLeft, Constants DEF HelloNew, TypeInv, Types
<1>2. /\ op' \in [Operators -> Process] /\ net' \in Net /\ UNCHANGED <<demo, faults>>
      /\ \A x \in Operators \ {o} : op'[x] = op[x]
      /\ op'[o].link = p
      /\ op'[o].nonces = op[o].nonces /\ op'[o].signed = op[o].signed
      /\ op[o].stage = "exited" => op'[o].stage = "joining"
      /\ op[o].stage # "exited" => op'[o].stage = op[o].stage
      /\ net'.up = [net.up EXCEPT ![p] = <<>>] /\ net'.down = [net.down EXCEPT ![p] = <<>>]
      /\ net'.broken = net.broken \ {p}
      /\ net'.fresh = net.fresh \cup {p} /\ net'.back = net.back
  BY <1>1, AttachIs DEF HelloNew, TypeInv
<1>3. /\ reg'.conns = [reg.conns EXCEPT ![p] = o] /\ reg'.next_id = p + 1
      /\ reg'.ceremony = reg.ceremony /\ reg'.roster = reg.roster
      /\ reg' \in Registry
  <2>1. reg' = [reg EXCEPT !.conns = [reg.conns EXCEPT ![p] = o], !.next_id = p + 1]
    BY <1>1 DEF HelloNew, Registry
  <2>2. [reg.conns EXCEPT ![p] = o] \in Holders /\ p + 1 \in Nat \ {0}
    BY <1>1, RegistryShape DEF Holders
  <2> QED
    BY <1>1, <2>1, <2>2 DEF Registry
<1>4. reg.conns \in Holders /\ reg.conns[p] = None /\ reg.roster[p] = None
  BY <1>1, RegistryShape DEF TypeInv, Links
<1>5. Live' = Live \cup {p} /\ p \notin Live
  BY <1>1, <1>3, <1>4 DEF Live, Holders
<1>6. op[o].stage = "exited" /\ reg.ceremony = "waiting"
  BY DEF HelloNew, TypeInv, Quiet
<1>7. op'[o].stage = "joining" /\ op'[o].link = p /\ p # 0
      /\ op'[o].signed = op[o].signed /\ op'[o].nonces = op[o].nonces
  BY <1>1, <1>2, <1>6, Constants DEF TypeInv, Types, Process
<1> HIDE DEF p
<1>8. Types'
  BY <1>2, <1>3 DEF TypeInv, Types
<1>9. Links'
  <2>1. \A x \in Operators, q \in Ids : Holds(x, q)' <=> (IF x = o THEN q = p ELSE Holds(x, q))
    BY <1>2, <1>7 DEF Holds
  <2>2. \A q \in Ids : reg'.conns[q] = IF q = p THEN o ELSE reg.conns[q]
    BY <1>1, <1>3, <1>4 DEF Holders
  <2>3. \A x \in Operators : ~Holds(x, p)
    BY <1>1 DEF TypeInv, Links, p
  <2>4. ASSUME NEW x \in Operators, NEW q \in Ids, Holds(x, q)'
        PROVE  /\ q < reg'.next_id
               /\ reg'.conns[q] \in {x, None} /\ reg'.roster[q] \in {x, None}
               /\ reg'.conns[q] = None => q \in net'.broken
    <3>1. CASE x = o
      BY <1>1, <1>3, <1>4, <2>1, <2>2, <2>4, <3>1
    <3>2. CASE x # o
      <4>1. Holds(x, q) /\ q # p
        BY <2>1, <2>3, <2>4, <3>2
      <4>2. /\ q < p /\ reg.conns[q] \in {x, None} /\ reg.roster[q] \in {x, None}
            /\ reg.conns[q] = None => q \in net.broken
        BY <4>1 DEF TypeInv, Links, p
      <4> QED
        BY <1>1, <1>2, <1>3, <2>2, <4>1, <4>2, Constants
    <3> QED
      BY <3>1, <3>2
  <2>5. ASSUME NEW q \in Ids
        PROVE  /\ reg'.conns[q] # None \/ reg'.roster[q] # None => q < reg'.next_id
               /\ reg'.roster[q] # None => reg'.conns[q] \in {reg'.roster[q], None}
    <3>1. /\ reg.conns[q] # None \/ reg.roster[q] # None => q < p
          /\ reg.roster[q] # None => reg.conns[q] \in {reg.roster[q], None}
      BY DEF TypeInv, Links, p
    <3> QED
      BY <1>1, <1>3, <1>4, <2>2, <3>1, Constants
  <2>6. \A x \in Operators :
           /\ op'[x].stage = "exited" => op'[x].link = 0
           /\ op'[x].stage \notin {"exited", "reconnecting"} => op'[x].link # 0
    BY <1>2, <1>7 DEF TypeInv, Links
  <2>7. net'.fresh \cup net'.back \subseteq Live'
    BY <1>2, <1>5 DEF TypeInv, Links
  <2> QED
    BY <2>4, <2>5, <2>6, <2>7 DEF Links
<1>10. Quiet'
  <2>1. Lost' = Lost
    <3>1. ASSUME NEW q \in Ids PROVE q \in Lost' <=> q \in Lost
      <4>1. q \in Nat
        BY Constants
      <4>2. CASE q = p
        BY <1>1, <1>2, <1>3, <1>5, <4>1, <4>2 DEF Lost, p
      <4>3. CASE q # p
        BY <1>1, <1>2, <1>3, <1>5, <4>1, <4>3 DEF Lost, p
      <4> QED
        BY <4>2, <4>3
    <3> QED
      BY <3>1 DEF Lost
  <2>2. reg'.next_id <= Count + MaxFaults + 1
    BY <1>1, <1>3, Constants DEF Ids
  <2>3. \A q \in Ids : net'.up[q] = <<>> /\ net'.down[q] = <<>>
    BY <1>2, <1>6, NetShape DEF TypeInv, Quiet, Types
  <2>4. \A x \in Operators : op'[x].stage \in {"exited", "joining"}
    BY <1>2, <1>6, <1>7 DEF TypeInv, Quiet
  <2> QED
    BY <1>2, <1>6, <2>1, <2>2, <2>3, <2>4 DEF TypeInv, Quiet
<1>11. Demos'
  BY <1>2, <1>3 DEF TypeInv, Demos
<1>12. Nonces'
  <2> SUFFICES ASSUME NEW x \in Operators
               PROVE  op'[x].signed \in {0, 1} /\ (op'[x].nonces => op'[x].signed = 0)
    BY DEF Nonces
  <2>1. op'[x].signed = op[x].signed /\ op'[x].nonces = op[x].nonces
    BY <1>2, <1>7
  <2>2. op[x].signed \in {0, 1} /\ (op[x].nonces => op[x].signed = 0)
    BY DEF TypeInv, Nonces
  <2> QED
    BY <2>1, <2>2
<1> QED
  BY <1>8, <1>9, <1>10, <1>11, <1>12 DEF TypeInv

\* One that comes back gets its id again.
LEMMA HelloBackTypes ==
  ASSUME TypeInv, NEW o \in Operators, NEW p, HelloBack(o, p)
  PROVE  TypeInv'
<1>1. p \in Ids /\ reg \in Registry /\ o # None /\ reg.roster[p] = o
      /\ reg.ceremony = "complete" /\ op[o].link = 0
  BY Constants DEF HelloBack, TypeInv, Types
<1>2. /\ op' \in [Operators -> Process] /\ net' \in Net /\ UNCHANGED <<demo, faults>>
      /\ \A x \in Operators \ {o} : op'[x] = op[x]
      /\ op'[o].link = p
      /\ op'[o].nonces = op[o].nonces /\ op'[o].signed = op[o].signed
      /\ op[o].stage = "exited" => op'[o].stage = "joining"
      /\ op[o].stage # "exited" => op'[o].stage = op[o].stage
      /\ net'.up = [net.up EXCEPT ![p] = <<>>] /\ net'.down = [net.down EXCEPT ![p] = <<>>]
      /\ net'.broken = net.broken \ {p}
      /\ net'.fresh = net.fresh /\ net'.back = net.back \cup {p}
  BY <1>1, AttachIs DEF HelloBack, TypeInv
<1>3. /\ reg'.conns = [reg.conns EXCEPT ![p] = o] /\ reg'.next_id = reg.next_id
      /\ reg'.ceremony = reg.ceremony /\ reg'.roster = reg.roster
      /\ reg' \in Registry
  <2>1. reg' = [reg EXCEPT !.conns = [reg.conns EXCEPT ![p] = o]]
    BY <1>1 DEF HelloBack, Registry
  <2>2. [reg.conns EXCEPT ![p] = o] \in Holders
    BY <1>1, RegistryShape DEF Holders
  <2> QED
    BY <1>1, <2>1, <2>2 DEF Registry
<1>4. Live' = Live \cup {p} /\ reg.conns \in Holders
  BY <1>1, <1>3, RegistryShape DEF Live, Holders
<1>5. op'[o].stage \in {"joining", "reconnecting"} /\ op'[o].link = p /\ p # 0
      /\ op'[o].signed = op[o].signed /\ op'[o].nonces = op[o].nonces
  BY <1>1, <1>2, Constants DEF TypeInv, Types, Process, HelloBack
<1>6. Types'
  BY <1>2, <1>3 DEF TypeInv, Types
<1>7. Links'
  <2>1. \A x \in Operators, q \in Ids : Holds(x, q)' <=> (IF x = o THEN q = p ELSE Holds(x, q))
    BY <1>2, <1>5 DEF Holds
  <2>2. \A q \in Ids : reg'.conns[q] = IF q = p THEN o ELSE reg.conns[q]
    BY <1>1, <1>3, <1>4 DEF Holders
  <2>3. \A x \in Operators \ {o} : ~Holds(x, p)
    BY <1>1 DEF TypeInv, Links
  <2>4. ASSUME NEW x \in Operators, NEW q \in Ids, Holds(x, q)'
        PROVE  /\ q < reg'.next_id
               /\ reg'.conns[q] \in {x, None} /\ reg'.roster[q] \in {x, None}
               /\ reg'.conns[q] = None => q \in net'.broken
    <3>1. CASE x = o
      BY <1>1, <1>3, <1>4, <2>1, <2>2, <2>4, <3>1 DEF TypeInv, Links
    <3>2. CASE x # o
      <4>1. Holds(x, q) /\ q # p
        BY <2>1, <2>3, <2>4, <3>2
      <4>2. /\ q < reg.next_id /\ reg.conns[q] \in {x, None} /\ reg.roster[q] \in {x, None}
            /\ reg.conns[q] = None => q \in net.broken
        BY <4>1 DEF TypeInv, Links
      <4> QED
        BY <1>1, <1>2, <1>3, <2>2, <4>1, <4>2
    <3> QED
      BY <3>1, <3>2
  <2>5. ASSUME NEW q \in Ids
        PROVE  /\ reg'.conns[q] # None \/ reg'.roster[q] # None => q < reg'.next_id
               /\ reg'.roster[q] # None => reg'.conns[q] \in {reg'.roster[q], None}
    <3>1. /\ reg.conns[q] # None \/ reg.roster[q] # None => q < reg.next_id
          /\ reg.roster[q] # None => reg.conns[q] \in {reg.roster[q], None}
      BY DEF TypeInv, Links
    <3> QED
      BY <1>1, <1>3, <1>4, <2>2, <3>1, Constants
  <2>6. \A x \in Operators :
           /\ op'[x].stage = "exited" => op'[x].link = 0
           /\ op'[x].stage \notin {"exited", "reconnecting"} => op'[x].link # 0
    BY <1>2, <1>5 DEF TypeInv, Links
  <2>7. net'.fresh \cup net'.back \subseteq Live'
    BY <1>2, <1>4 DEF TypeInv, Links
  <2> QED
    BY <2>4, <2>5, <2>6, <2>7 DEF Links
<1>8. Quiet' /\ Demos'
  BY <1>1, <1>3 DEF Quiet, Demos
<1>9. Nonces'
  <2> SUFFICES ASSUME NEW x \in Operators
               PROVE  op'[x].signed \in {0, 1} /\ (op'[x].nonces => op'[x].signed = 0)
    BY DEF Nonces
  <2>1. op'[x].signed = op[x].signed /\ op'[x].nonces = op[x].nonces
    BY <1>2, <1>5
  <2>2. op[x].signed \in {0, 1} /\ (op[x].nonces => op[x].signed = 0)
    BY DEF TypeInv, Nonces
  <2> QED
    BY <2>1, <2>2
<1> QED
  BY <1>6, <1>7, <1>8, <1>9 DEF TypeInv

\* What the greeting of a fresh connection does.
LEMMA StartIs ==
  ASSUME Types, NEW p \in Ids, maybe_start_ceremony(p)
  PROVE  /\ net' \in Net /\ reg' \in Registry /\ UNCHANGED <<op, demo, faults>>
         /\ net'.broken = net.broken /\ net'.up = net.up /\ net'.back = net.back
         /\ net'.fresh = net.fresh \ {p}
         /\ \/ reg' = reg /\ net'.down = net.down
            \/ /\ reg.ceremony = "waiting" /\ reg' = Enter(reg, "started")
               /\ net'.down = [q \in Ids |-> IF q \notin Live THEN net.down[q]
                                 ELSE Append(net.down[q], [kind |-> "Welcome", id |-> q,
                                                           of |-> Live])]
<1> DEFINE W == [q \in Ids |-> IF q \notin Live THEN net.down[q]
                     ELSE Append(net.down[q], [kind |-> "Welcome", id |-> q, of |-> Live])]
<1>1. /\ net.up \in [Ids -> Seq(UpMsgs)] /\ net.down \in [Ids -> Seq(DownMsgs)]
      /\ net \in Net /\ net.fresh \in SUBSET Ids /\ reg \in Registry
  BY NetShape DEF Types
<1>2. W \in [Ids -> Seq(DownMsgs)]
  <2> SUFFICES ASSUME NEW q \in Ids PROVE W[q] \in Seq(DownMsgs)
    OBVIOUS
  <2>1. PICK x : x = [kind |-> "Welcome", id |-> q, of |-> Live]
    OBVIOUS
  <2>2. x \in DownMsgs /\ net.down[q] \in Seq(DownMsgs)
    BY <1>1, <2>1, LiveIds, MessageTypes
  <2>3. Append(net.down[q], x) \in Seq(DownMsgs)
    BY <2>2
  <2> QED
    BY <2>1, <2>2, <2>3
<1> HIDE DEF W
<1>3. \/ reg' = reg /\ net' = [net EXCEPT !.fresh = @ \ {p}, !.down = @]
      \/ /\ reg.ceremony = "waiting" /\ reg' = Enter(reg, "started")
         /\ net' = [net EXCEPT !.fresh = @ \ {p}, !.down = W]
  BY DEF maybe_start_ceremony, W
<1>4. UNCHANGED <<op, demo, faults>>
  BY DEF maybe_start_ceremony
<1>5. CASE reg' = reg /\ net' = [net EXCEPT !.fresh = @ \ {p}, !.down = @]
  BY <1>1, <1>4, <1>5 DEF Net
<1>6. CASE /\ reg.ceremony = "waiting" /\ reg' = Enter(reg, "started")
           /\ net' = [net EXCEPT !.fresh = @ \ {p}, !.down = W]
  <2>1. reg' \in Registry
    BY <1>1, <1>6, EnterIs DEF Ceremonies
  <2>2. /\ net'.broken = net.broken /\ net'.up = net.up /\ net'.back = net.back
        /\ net'.fresh = net.fresh \ {p} /\ net'.down = W /\ net' \in Net
    BY <1>1, <1>2, <1>6 DEF Net
  <2> QED
    BY <1>4, <1>6, <2>1, <2>2 DEF W
<1> QED
  BY <1>3, <1>5, <1>6

\* The last to arrive starts the ceremony.
LEMMA StartTypes ==
  ASSUME TypeInv, NEW p \in Ids, maybe_start_ceremony(p)
  PROVE  TypeInv'
<1>1. /\ net' \in Net /\ reg' \in Registry /\ UNCHANGED <<op, demo, faults>>
      /\ net'.broken = net.broken /\ net'.up = net.up /\ net'.back = net.back
      /\ net'.fresh = net.fresh \ {p}
      /\ \/ reg' = reg /\ net'.down = net.down
         \/ reg.ceremony = "waiting" /\ reg' = Enter(reg, "started")
  BY StartIs DEF TypeInv
<1>2. Types'
  BY <1>1 DEF TypeInv, Types
<1>3. CASE reg' = reg /\ net'.down = net.down
  <2>1. Live' = Live /\ Lost' = Lost
    BY <1>1, <1>3 DEF Live, Lost
  <2>2. Links'
    BY <1>1, <1>3, <2>1 DEF TypeInv, Links, Holds
  <2>3. Quiet' /\ Demos' /\ Nonces'
    BY <1>1, <1>3, <2>1 DEF TypeInv, Quiet, Demos, Nonces
  <2> QED
    BY <1>2, <2>2, <2>3 DEF TypeInv
<1>4. CASE reg.ceremony = "waiting" /\ reg' = Enter(reg, "started")
  <2>1. /\ reg'.conns = reg.conns /\ reg'.next_id = reg.next_id
        /\ reg'.roster = NoAcks /\ reg'.ceremony = "started"
    BY <1>4, EnterIs DEF TypeInv, Types, Ceremonies
  <2>2. Live' = Live
    BY <2>1 DEF Live
  <2>3. \A q \in Ids : reg'.roster[q] = None
    BY <2>1 DEF NoAcks
  <2>4. Links'
    BY <1>1, <2>1, <2>2, <2>3 DEF TypeInv, Links, Holds
  <2>5. Quiet'
    BY <2>1 DEF Quiet
  <2>6. Demos' /\ Nonces'
    BY <1>1, <1>4 DEF TypeInv, Demos, Nonces
  <2> QED
    BY <1>2, <2>4, <2>5, <2>6 DEF TypeInv
<1> QED
  BY <1>1, <1>3, <1>4

\* The confirmation of a return.
LEMMA ConfirmIs ==
  ASSUME Types, NEW p \in Ids, ConfirmReturn(p)
  PROVE  /\ net' \in Net /\ UNCHANGED <<reg, op, demo, faults>>
         /\ net'.broken = net.broken /\ net'.up = net.up /\ net'.fresh = net.fresh
         /\ net'.back = net.back \ {p} /\ p \in net.back
         /\ net'.down = [net.down EXCEPT ![p] = Append(net.down[p], MsgOf("Reconnected", {p}))]
<1>1. /\ net.down \in [Ids -> Seq(DownMsgs)]
      /\ net \in Net /\ net.back \in SUBSET Ids
  BY NetShape DEF Types
<1>2. PICK m : m = MsgOf("Reconnected", {p})
  OBVIOUS
<1>3. m \in DownMsgs
  BY <1>2, MessageTypes
<1>4. Append(net.down[p], m) \in Seq(DownMsgs)
  BY <1>1, <1>3
<1>5. /\ net'.broken = net.broken /\ net'.up = net.up /\ net'.fresh = net.fresh
      /\ net'.back = net.back \ {p} /\ net'.down = [net.down EXCEPT ![p] = Append(net.down[p], m)]
      /\ net' = [net EXCEPT !.back = net'.back, !.down = net'.down]
  BY <1>1, <1>2 DEF ConfirmReturn, Net
<1>6. net' \in Net
  BY <1>1, <1>4, <1>5 DEF Net
<1> QED
  BY <1>2, <1>5, <1>6 DEF ConfirmReturn

\* It keeps the types.
LEMMA ConfirmTypes ==
  ASSUME TypeInv, NEW p \in Ids, ConfirmReturn(p)
  PROVE  TypeInv'
<1>1. /\ net' \in Net /\ UNCHANGED <<reg, op, demo, faults>>
      /\ net'.broken = net.broken /\ net'.up = net.up /\ net'.fresh = net.fresh
      /\ net'.back = net.back \ {p} /\ p \in net.back
      /\ net'.down = [net.down EXCEPT ![p] = Append(net.down[p], MsgOf("Reconnected", {p}))]
  BY ConfirmIs DEF TypeInv
<1>2. reg.ceremony = "complete"
  BY <1>1 DEF TypeInv, Demos
<1>3. Live' = Live
  BY <1>1 DEF Live
<1>4. Types' /\ Links'
  BY <1>1, <1>3 DEF TypeInv, Types, Links, Holds
<1>5. Quiet' /\ Demos' /\ Nonces'
  BY <1>1, <1>2 DEF Quiet, Demos, Nonces, TypeInv
<1> QED
  BY <1>4, <1>5 DEF TypeInv

\* What the end of p's connection, seen by the server, does.
LEMMA DisconnectIs ==
  ASSUME Types, NEW p \in Ids, Disconnect(p)
  PROVE  /\ net' \in Net /\ reg' \in Registry /\ UNCHANGED <<op, demo, faults>>
         /\ net'.broken = net.broken /\ net'.back = net.back /\ net'.fresh = net.fresh
         /\ p \in net.broken /\ p \in Live /\ p \notin net.fresh /\ p \notin net.back
         /\ net'.up = [net.up EXCEPT ![p] = <<>>]
         /\ reg'.conns = [reg.conns EXCEPT ![p] = None] /\ reg'.next_id = reg.next_id
         /\ \/ /\ reg.ceremony = "started" /\ reg'.ceremony = "failed" /\ reg'.roster = NoAcks
            \/ /\ reg.ceremony # "started" /\ reg'.ceremony = reg.ceremony
               /\ reg'.roster = reg.roster /\ reg'.dealers = reg.dealers
               /\ reg'.excluded = reg.excluded /\ net'.down = net.down
<1>1. /\ net.up \in [Ids -> Seq(UpMsgs)] /\ net.down \in [Ids -> Seq(DownMsgs)]
      /\ net \in Net /\ reg \in Registry
  BY NetShape DEF Types
<1> DEFINE left == [reg EXCEPT !.conns[p] = None]
           D == [q \in Ids |-> IF q \in Live \ {p}
                        THEN Append(net.down[q], Msg("CeremonyFailed")) ELSE net.down[q]]
<1>2. /\ left.conns = [reg.conns EXCEPT ![p] = None] /\ left.next_id = reg.next_id
      /\ left.ceremony = reg.ceremony /\ left.roster = reg.roster
      /\ left.dealers = reg.dealers /\ left.excluded = reg.excluded
      /\ left \in Registry
  <2>1. PICK h : h = [reg.conns EXCEPT ![p] = None]
    OBVIOUS
  <2>2. h \in Holders
    BY <1>1, <2>1, RegistryShape DEF Holders
  <2>3. left = [reg EXCEPT !.conns = h]
    BY <1>1, <2>1 DEF Registry
  <2> HIDE DEF left
  <2> QED
    BY <1>1, <2>1, <2>2, <2>3 DEF Registry
<1>3. D \in [Ids -> Seq(DownMsgs)]
  <2>1. PICK m : m = Msg("CeremonyFailed")
    OBVIOUS
  <2>2. m \in DownMsgs
    BY <2>1, MessageTypes
  <2>3. \A q \in Ids : net.down[q] \in Seq(DownMsgs) /\ Append(net.down[q], m) \in Seq(DownMsgs)
    BY <1>1, <2>2
  <2> QED
    BY <2>1, <2>3
<1> HIDE DEF left, D
<1>4. /\ p \in net.broken /\ p \in Live /\ p \notin net.fresh /\ p \notin net.back
      /\ UNCHANGED <<op, demo, faults>>
  BY DEF Disconnect
<1>5. \/ /\ reg.ceremony = "started" /\ reg' = Enter(left, "failed")
         /\ net' = [net EXCEPT !.up[p] = <<>>, !.down = D]
      \/ /\ reg.ceremony # "started" /\ reg' = left
         /\ net' = [net EXCEPT !.up[p] = <<>>, !.down = @]
  BY DEF Disconnect, left, D, fail_ceremony
<1>6. CASE /\ reg.ceremony = "started" /\ reg' = Enter(left, "failed")
           /\ net' = [net EXCEPT !.up[p] = <<>>, !.down = D]
  <2>1. /\ reg' \in Registry /\ reg'.conns = left.conns /\ reg'.next_id = left.next_id
        /\ reg'.ceremony = "failed" /\ reg'.roster = NoAcks
    BY <1>2, <1>6, EnterIs DEF Ceremonies
  <2>2. /\ net'.broken = net.broken /\ net'.back = net.back /\ net'.fresh = net.fresh
        /\ net'.up = [net.up EXCEPT ![p] = <<>>] /\ net'.down = D
        /\ net' = [net EXCEPT !.up = net'.up, !.down = net'.down]
    BY <1>1, <1>6 DEF Net
  <2>3. net'.up \in [Ids -> Seq(UpMsgs)]
    BY <1>1, <2>2
  <2>4. net' \in Net
    BY <1>1, <1>3, <2>2, <2>3 DEF Net
  <2> QED
    BY <1>2, <1>4, <1>6, <2>1, <2>2, <2>4
<1>7. CASE /\ reg.ceremony # "started" /\ reg' = left
           /\ net' = [net EXCEPT !.up[p] = <<>>, !.down = @]
  <2>2. /\ net'.broken = net.broken /\ net'.back = net.back /\ net'.fresh = net.fresh
        /\ net'.up = [net.up EXCEPT ![p] = <<>>] /\ net'.down = net.down
        /\ net' = [net EXCEPT !.up = net'.up]
    BY <1>1, <1>7 DEF Net
  <2>3. net'.up \in [Ids -> Seq(UpMsgs)]
    BY <1>1, <2>2
  <2>4. net' \in Net
    BY <1>1, <2>2, <2>3 DEF Net
  <2> QED
    BY <1>2, <1>4, <1>7, <2>2, <2>4
<1> QED
  BY <1>5, <1>6, <1>7

\* The coordinator sees a connection end.
LEMMA DisconnectTypes ==
  ASSUME TypeInv, NEW p \in Ids, Disconnect(p)
  PROVE  TypeInv'
<1>1. /\ net' \in Net /\ reg' \in Registry /\ UNCHANGED <<op, demo, faults>>
      /\ net'.broken = net.broken /\ net'.back = net.back /\ net'.fresh = net.fresh
      /\ p \in net.broken /\ p \in Live /\ p \notin net.fresh /\ p \notin net.back
      /\ net'.up = [net.up EXCEPT ![p] = <<>>]
      /\ reg'.conns = [reg.conns EXCEPT ![p] = None] /\ reg'.next_id = reg.next_id
      /\ \/ /\ reg.ceremony = "started" /\ reg'.ceremony = "failed" /\ reg'.roster = NoAcks
         \/ /\ reg.ceremony # "started" /\ reg'.ceremony = reg.ceremony
            /\ reg'.roster = reg.roster /\ net'.down = net.down
  BY DisconnectIs DEF TypeInv
<1>2. \A q \in Ids : reg'.conns[q] = IF q = p THEN None ELSE reg.conns[q]
  BY <1>1, RegistryShape DEF TypeInv, Types, Holders
<1>3. Live' = Live \ {p}
  BY <1>1, <1>2 DEF Live
<1>4. \A q \in Ids : reg'.roster[q] \in {reg.roster[q], None}
  BY <1>1 DEF NoAcks
<1>5. Types'
  BY <1>1 DEF TypeInv, Types
<1>6. Links'
  <2>1. net'.fresh \cup net'.back \subseteq Live'
    BY <1>1, <1>3 DEF TypeInv, Links
  <2>2. \A q \in Ids :
           /\ reg'.conns[q] # None \/ reg'.roster[q] # None => q < reg'.next_id
           /\ reg'.roster[q] # None => reg'.conns[q] \in {reg'.roster[q], None}
    BY <1>1, <1>2, <1>4 DEF TypeInv, Links
  <2>3. \A x \in Operators, q \in Ids : Holds(x, q)' =>
           /\ q < reg'.next_id
           /\ reg'.conns[q] \in {x, None} /\ reg'.roster[q] \in {x, None}
           /\ reg'.conns[q] = None => q \in net'.broken
    BY <1>1, <1>2, <1>4 DEF TypeInv, Links, Holds
  <2>4. \A x \in Operators :
           /\ op'[x].stage = "exited" => op'[x].link = 0
           /\ op'[x].stage \notin {"exited", "reconnecting"} => op'[x].link # 0
    BY <1>1 DEF TypeInv, Links
  <2> QED
    BY <2>1, <2>2, <2>3, <2>4 DEF Links
<1>7. Quiet'
  <2> SUFFICES ASSUME reg'.ceremony = "waiting" PROVE Quiet'
    BY DEF Quiet
  <2>1. reg.ceremony = "waiting" /\ net'.down = net.down
    BY <1>1
  <2>2. Lost' = Lost
    BY <1>1, <1>3 DEF Lost
  <2>3. \A q \in Ids : net'.up[q] = <<>> /\ net'.down[q] = <<>>
    BY <1>1, <2>1, NetShape DEF TypeInv, Types, Quiet
  <2> QED
    BY <1>1, <2>1, <2>2, <2>3 DEF TypeInv, Quiet
<1>8. Demos' /\ Nonces'
  BY <1>1 DEF TypeInv, Demos, Nonces
<1> QED
  BY <1>5, <1>6, <1>7, <1>8 DEF TypeInv

\* A connection breaks.
LEMMA BreakTypes ==
  ASSUME TypeInv, NEW p \in Ids, Break(p)
  PROVE  TypeInv'
<1>1. net \in Net /\ p \in Live /\ p \notin net.broken /\ faults \in Nat /\ faults < MaxFaults
  BY Constants DEF Break, TypeInv, Types
<1>2. /\ net'.up = net.up /\ net'.down = net.down /\ net'.fresh = net.fresh
      /\ net'.back = net.back /\ net'.broken = net.broken \cup {p} /\ net' \in Net
      /\ UNCHANGED <<reg, op, demo>> /\ faults' = faults + 1 /\ faults' \in 0 .. MaxFaults
  <2>1. PICK B : B = net.broken \cup {p}
    OBVIOUS
  <2>2. B \in SUBSET Ids
    BY <1>1, <2>1, NetShape
  <2>3. net' = [net EXCEPT !.broken = B] /\ UNCHANGED <<reg, op, demo>> /\ faults' = faults + 1
    BY <2>1 DEF Break
  <2>4. faults' \in 0 .. MaxFaults
    BY <1>1, <2>3, Constants
  <2> QED
    BY <1>1, <2>1, <2>2, <2>3, <2>4 DEF Net
<1>3. Live' = Live
  BY <1>2 DEF Live
<1>4. Types'
  BY <1>2 DEF TypeInv, Types
<1>5. Links'
  BY <1>2, <1>3 DEF TypeInv, Links, Holds
<1>6. Quiet'
  <2> SUFFICES ASSUME reg.ceremony = "waiting" PROVE Cardinality(Lost') <= faults'
    BY <1>2 DEF TypeInv, Quiet
  <2>1. Lost' \subseteq Lost \cup {p}
    BY <1>2, <1>3 DEF Lost
  <2>2. IsFiniteSet(Lost) /\ Cardinality(Lost) \in Nat
    BY LostIs DEF TypeInv
  <2>3. /\ IsFiniteSet(Lost \cup {p})
        /\ Cardinality(Lost \cup {p}) <= Cardinality(Lost) + 1
    BY <2>2, OneMore, Zenon
  <2>4. Cardinality(Lost') <= Cardinality(Lost \cup {p})
        /\ Cardinality(Lost') \in Nat /\ Cardinality(Lost \cup {p}) \in Nat
    BY <2>1, <2>3, FS_Subset, FS_CardinalityType
  <2> QED
    BY <1>1, <1>2, <2>2, <2>3, <2>4 DEF TypeInv, Quiet
<1>7. Demos' /\ Nonces'
  BY <1>2 DEF TypeInv, Demos, Nonces
<1> QED
  BY <1>4, <1>5, <1>6, <1>7 DEF TypeInv

----------------------------------------------------------------------------
(* Demonstrations *)

\* A demonstration that runs.
LEMMA DemoShape ==
  ASSUME NEW d \in Demo, d.phase # "idle"
  PROVE  /\ d \in [phase : {"decrypt", "round1", "round2"}, quorum : SUBSET Ids,
                   left : (SUBSET Ids) \ {{}}, asked : Ids \cup {0}]
         /\ d.phase \in {"decrypt", "round1", "round2"} /\ d.quorum \in SUBSET Ids
         /\ d.left \in SUBSET Ids /\ d.left # {} /\ d.left \subseteq d.quorum
         /\ d # Idle
  BY DEF Demo, Idle

\* One that does not.
LEMMA IdleIs == Idle \in Demo /\ Idle.phase = "idle" /\ Idle.asked = 0
                /\ Idle.left = {} /\ Idle.quorum = {}
  BY DEF Demo, Idle

\* The least element of a set of ids that is not empty.
LEMMA LeastExists ==
  ASSUME NEW S \in SUBSET Ids, S # {}
  PROVE  \E p \in S : \A q \in S : p <= q
<1>1. S \in SUBSET Nat
  BY Constants
<1>2. PICK p \in S : \A q \in S : p <= q
  <2>1. IsWellFoundedOn(OpToRel(<, Nat), Nat)
    BY NatLessThanWellFounded
  <2>2. PICK x \in S : \A y \in S : ~(<<y, x>> \in OpToRel(<, Nat))
    BY <1>1, <2>1, WFMin
  <2>3. \A y \in S : ~(y < x)
    BY <1>1, <2>2 DEF OpToRel
  <2>4. \A y \in S : x <= y
    BY <1>1, <2>3
  <2> QED
    BY <2>4
<1> QED
  BY <1>2

\* The lowest id is one of them.
LEMMA LeastId ==
  ASSUME NEW S \in SUBSET Ids, S # {}
  PROVE  Lowest(S) \in S
<1>1. \E p \in S : \A q \in S : p <= q
  BY LeastExists
<1> QED
  BY <1>1 DEF Lowest

\* And none is lower.
LEMMA LeastIsLeast ==
  ASSUME NEW S \in SUBSET Ids, S # {}
  PROVE  \A q \in S : Lowest(S) <= q
<1>1. \E p \in S : \A q \in S : p <= q
  BY LeastExists
<1> QED
  BY <1>1 DEF Lowest

\* A demonstration that moves on is still one.
LEMMA AnsweredIs ==
  ASSUME NEW d \in Demo, d.phase # "idle", NEW p \in Ids
  PROVE  Answered(d, p) \in Demo
<1>1. /\ d \in [phase : {"decrypt", "round1", "round2"}, quorum : SUBSET Ids,
                left : (SUBSET Ids) \ {{}}, asked : Ids \cup {0}]
      /\ d.phase \in {"decrypt", "round1", "round2"} /\ d.quorum \in SUBSET Ids
      /\ d.left \in SUBSET Ids /\ d.left # {} /\ d.left \subseteq d.quorum
  BY DemoShape
<1>2. CASE d.left # {p}
  <2>1. PICK L : L = d.left \ {p}
    OBVIOUS
  <2>2. L \in (SUBSET Ids) \ {{}} /\ L \subseteq d.quorum
    BY <1>1, <1>2, <2>1
  <2>3. PICK e : e = [d EXCEPT !.left = L, !.asked = 0]
    OBVIOUS
  <2>4. /\ e \in [phase : {"decrypt", "round1", "round2"}, quorum : SUBSET Ids,
                  left : (SUBSET Ids) \ {{}}, asked : Ids \cup {0}]
        /\ e.left \subseteq e.quorum
    BY <1>1, <2>2, <2>3
  <2>5. Answered(d, p) = e
    BY <1>1, <1>2, <2>1, <2>3 DEF Answered
  <2> QED
    BY <2>4, <2>5 DEF Demo
<1>3. CASE d.left = {p} /\ After[d.phase] = "idle"
  BY <1>3, IdleIs DEF Answered
<1>4. CASE d.left = {p} /\ After[d.phase] # "idle"
  <2>1. PICK f : f = After[d.phase]
    OBVIOUS
  <2>2. f \in {"round1", "round2"}
    BY <1>1, <1>4, <2>1 DEF After
  <2>3. PICK e : e = [d EXCEPT !.phase = f, !.left = d.quorum, !.asked = 0]
    OBVIOUS
  <2>4. d.quorum \in (SUBSET Ids) \ {{}}
    BY <1>1
  <2>5. /\ e \in [phase : {"decrypt", "round1", "round2"}, quorum : SUBSET Ids,
                  left : (SUBSET Ids) \ {{}}, asked : Ids \cup {0}]
        /\ e.left \subseteq e.quorum
    BY <1>1, <2>2, <2>3, <2>4
  <2>6. Answered(d, p) = e
    BY <1>1, <1>4, <2>1, <2>2, <2>3 DEF Answered
  <2> QED
    BY <2>5, <2>6 DEF Demo
<1> QED
  BY <1>2, <1>3, <1>4

\* A step that changes demonstrations only, and what is pending.
LEMMA DemoTypes ==
  ASSUME TypeInv, reg.ceremony # "waiting", reg.ceremony = "complete" \/ demo' = demo,
         NEW c \in Clients, NEW d \in Demo, NEW runs \in Nat,
         demo' \in {demo, [demo EXCEPT ![c] = [runs |-> runs, d |-> d]]},
         reg' \in Registry, reg'.conns = reg.conns, reg'.next_id = reg.next_id,
         reg'.ceremony = reg.ceremony, reg'.roster = reg.roster,
         net' \in Net, net'.broken = net.broken, net'.fresh = net.fresh, net'.back = net.back,
         UNCHANGED <<op, faults>>
  PROVE  TypeInv'
<1>1. [runs |-> runs, d |-> d] \in [runs : Nat, d : Demo]
  OBVIOUS
<1>2. demo' \in [Clients -> [runs : Nat, d : Demo]]
  BY <1>1 DEF TypeInv, Types
<1>3. Types'
  BY <1>2 DEF TypeInv, Types
<1>4. Live' = Live
  BY DEF Live
<1>5. Links'
  BY <1>4 DEF TypeInv, Links, Holds
<1>6. Quiet' /\ Demos' /\ Nonces'
  BY DEF TypeInv, Quiet, Demos, Nonces
<1> QED
  BY <1>3, <1>5, <1>6 DEF TypeInv

\* The registry with another reply awaited.
LEMMA PendingIs ==
  ASSUME NEW r \in Registry, NEW p \in Ids, NEW c \in Clients \cup {None},
         NEW x, x = [r EXCEPT !.pending[p] = c]
  PROVE  /\ x \in Registry /\ x.conns = r.conns /\ x.next_id = r.next_id
         /\ x.ceremony = r.ceremony /\ x.roster = r.roster
         /\ x.hashes = r.hashes /\ x.dealers = r.dealers /\ x.excluded = r.excluded
         /\ x.done = r.done /\ x.acks = r.acks
<1>1. PICK h : h = [r.pending EXCEPT ![p] = c]
  OBVIOUS
<1>2. h \in [Ids -> Clients \cup {None}]
  BY <1>1, RegistryShape
<1>3. x = [r EXCEPT !.pending = h]
  BY <1>1 DEF Registry
<1> QED
  BY <1>2, <1>3 DEF Registry

\* What a reply, the next request, and the two ends of a demonstration do.
LEMMA OnReplyIs ==
  ASSUME Types, NEW p \in Ids, OnReply(p)
  PROVE  /\ p \in Live /\ net.up[p] # <<>>
         /\ \/ Head(net.up[p]).kind \in DOMAIN ReplyOf
            \/ \E k \in DOMAIN ReplyOf : Head(net.up[p]).kind = ReplyOf[k]
         /\ net' \in Net /\ UNCHANGED <<op, faults>>
         /\ net'.broken = net.broken /\ net'.fresh = net.fresh /\ net'.back = net.back
         /\ net'.down = net.down /\ net'.up = [net.up EXCEPT ![p] = Tail(net.up[p])]
         /\ reg' = [reg EXCEPT !.pending[p] = None]
         /\ \/ demo' = demo
            \/ \E c \in Clients :
                 /\ demo[c].d.asked = p
                 /\ \E d \in Demo : demo' = [demo EXCEPT ![c] = [runs |-> demo[c].runs, d |-> d]]
<1>1. /\ net.up \in [Ids -> Seq(UpMsgs)] /\ net \in Net /\ net.up[p] # <<>> /\ p \in Live
      /\ \E k \in DOMAIN ReplyOf : Head(net.up[p]).kind = ReplyOf[k]
      /\ UNCHANGED <<op, faults>> /\ reg' = [reg EXCEPT !.pending[p] = None]
  BY NetShape DEF Types, OnReply, Reads
<1>2. PICK u : u = Tail(net.up[p])
  OBVIOUS
<1>3. u \in Seq(UpMsgs)
  BY <1>1, <1>2
<1>4. /\ net'.broken = net.broken /\ net'.fresh = net.fresh /\ net'.back = net.back
      /\ net'.down = net.down /\ net'.up = [net.up EXCEPT ![p] = u] /\ net' \in Net
  <2>1. PICK v : v = [net.up EXCEPT ![p] = u]
    OBVIOUS
  <2>2. v \in [Ids -> Seq(UpMsgs)]
    BY <1>1, <1>3, <2>1
  <2>3. net' = [net EXCEPT !.up = v]
    BY <1>2, <2>1 DEF OnReply, Consumed
  <2> QED
    BY <1>1, <2>1, <2>2, <2>3 DEF Net
<1>5. PICK c : c = reg.pending[p]
  OBVIOUS
<1>6. c \in Clients \cup {None}
  BY <1>5, RegistryShape DEF Types
<1>7. PICK b : b <=> Head(net.up[p]).kind = ReplyOf[demo[c].d.phase]
  OBVIOUS
<1>8. demo' = IF c = None \/ demo[c].d.asked # p THEN demo
              ELSE [demo EXCEPT ![c].d = IF Head(net.up[p]).kind = ReplyOf[@.phase]
                                         THEN Answered(@, p) ELSE Idle]
  BY <1>5 DEF OnReply
<1>9. ASSUME c \in Clients, demo[c].d.asked = p
      PROVE  \E d \in Demo : demo' = [demo EXCEPT ![c] = [runs |-> demo[c].runs, d |-> d]]
  <2>1. demo[c] \in [runs : Nat, d : Demo] /\ demo[c].d \in Demo /\ c # None
    BY <1>9, Constants DEF Types
  <2>2. demo[c].d.phase # "idle"
    BY <1>9, <2>1, Constants DEF Demo, Idle
  <2>3. Answered(demo[c].d, p) \in Demo /\ Idle \in Demo
    BY <2>1, <2>2, AnsweredIs, IdleIs
  <2>4. PICK d : d = IF Head(net.up[p]).kind = ReplyOf[demo[c].d.phase]
                     THEN Answered(demo[c].d, p) ELSE Idle
    OBVIOUS
  <2>5. d \in Demo
    BY <2>3, <2>4
  <2>6. demo' = [demo EXCEPT ![c].d = d]
    BY <1>8, <1>9, <2>1, <2>4
  <2>7. [demo[c] EXCEPT !.d = d] = [runs |-> demo[c].runs, d |-> d]
    BY <2>1
  <2>8. demo' = [demo EXCEPT ![c] = [runs |-> demo[c].runs, d |-> d]]
    BY <2>6, <2>7
  <2> QED
    BY <2>5, <2>8
<1>10. demo' = demo \/ (c \in Clients /\ demo[c].d.asked = p)
  BY <1>6, <1>8
<1> QED
  BY <1>1, <1>2, <1>4, <1>5, <1>9, <1>10

\* A reply to a request.
LEMMA OnReplyTypes ==
  ASSUME TypeInv, NEW p \in Ids, OnReply(p)
  PROVE  TypeInv'
<1>1. /\ net' \in Net /\ UNCHANGED <<op, faults>> /\ net.up[p] # <<>>
      /\ net'.broken = net.broken /\ net'.fresh = net.fresh /\ net'.back = net.back
      /\ reg' = [reg EXCEPT !.pending[p] = None]
  BY OnReplyIs DEF TypeInv
<1>2. reg.ceremony # "waiting"
  BY <1>1 DEF TypeInv, Quiet
<1>3. /\ reg' \in Registry /\ reg'.conns = reg.conns /\ reg'.next_id = reg.next_id
      /\ reg'.ceremony = reg.ceremony /\ reg'.roster = reg.roster
  BY <1>1, PendingIs DEF TypeInv, Types
<1>4. CASE demo' = demo
  <2>1. Live' = Live
    BY <1>3 DEF Live
  <2>2. Types' /\ Links'
    BY <1>1, <1>3, <1>4, <2>1 DEF TypeInv, Types, Links, Holds
  <2>3. Quiet' /\ Demos' /\ Nonces'
    BY <1>1, <1>2, <1>3, <1>4 DEF TypeInv, Quiet, Demos, Nonces
  <2> QED
    BY <2>2, <2>3 DEF TypeInv
<1>5. ASSUME NEW c \in Clients, demo[c].d.asked = p, NEW d \in Demo,
             demo' = [demo EXCEPT ![c] = [runs |-> demo[c].runs, d |-> d]]
      PROVE  TypeInv'
  <2>1. demo[c].runs \in Nat
    BY DEF TypeInv, Types
  <2>2. reg.ceremony = "complete"
    BY <1>5, IdleIs, Constants DEF TypeInv, Demos
  <2> QED
    BY <1>1, <1>2, <1>3, <1>5, <2>1, <2>2, DemoTypes
<1>6. \/ demo' = demo
      \/ \E c \in Clients : /\ demo[c].d.asked = p
                            /\ \E d \in Demo :
                                 demo' = [demo EXCEPT ![c] = [runs |-> demo[c].runs, d |-> d]]
  BY OnReplyIs DEF TypeInv
<1> QED
  BY <1>4, <1>5, <1>6

\* A demonstration begins.
LEMMA RequestTypes ==
  ASSUME TypeInv, NEW c \in Clients, handle_demo_request(c)
  PROVE  TypeInv'
<1> DEFINE quorum == {p \in Live : Cardinality({q \in Live : q < p}) < Threshold}
<1>1. /\ reg.ceremony = "complete" /\ UNCHANGED <<reg, net, op, faults>>
      /\ demo' = [demo EXCEPT ![c] = [runs |-> @.runs + 1,
                        d |-> [phase |-> "decrypt", quorum |-> quorum,
                               left |-> quorum, asked |-> 0]]]
  BY DEF handle_demo_request
<1>2. quorum \in SUBSET Ids /\ quorum # {}
  <2>1. quorum \subseteq Live /\ Live \in SUBSET Ids /\ IsFiniteSet(Live)
    BY LiveIds, Constants, FS_Subset
  <2>2. Live # {}
    <3>1. Cardinality(Live) >= Threshold /\ Threshold \in Nat /\ Threshold # 0
      BY Constants DEF handle_demo_request
    <3> QED
      BY <3>1, FS_EmptySet
  <2>3. Lowest(Live) \in Live
    BY <2>1, <2>2, LeastId
  <2>4. {q \in Live : q < Lowest(Live)} = {}
    <3>1. PICK x : x = Lowest(Live)
      OBVIOUS
    <3>2. x \in Live /\ \A q \in Live : x <= q
      BY <2>1, <2>2, <2>3, <3>1, LeastIsLeast
    <3>3. \A q \in Live : q \in Nat
      BY <2>1, Constants
    <3>4. \A q \in Live : ~(q < x)
      BY <3>2, <3>3
    <3> QED
      BY <3>1, <3>4
  <2>5. Cardinality({}) = 0 /\ 0 < Threshold
    BY FS_EmptySet, Constants
  <2>6. Lowest(Live) \in quorum
    BY <2>3, <2>4, <2>5
  <2> QED
    BY <2>1, <2>6
<1> HIDE DEF quorum
<1>3. PICK d : d = [phase |-> "decrypt", quorum |-> quorum, left |-> quorum, asked |-> 0]
  OBVIOUS
<1>4. d \in Demo
  <2>1. quorum \in (SUBSET Ids) \ {{}}
    BY <1>2
  <2>2. /\ d \in [phase : {"decrypt", "round1", "round2"}, quorum : SUBSET Ids,
                  left : (SUBSET Ids) \ {{}}, asked : Ids \cup {0}]
        /\ d.left \subseteq d.quorum
    BY <1>2, <1>3, <2>1
  <2> QED
    BY <2>2 DEF Demo
<1>5. PICK k : k = demo[c].runs + 1
  OBVIOUS
<1>6. demo[c].runs \in Nat /\ k \in Nat
  BY <1>5 DEF TypeInv, Types
<1>7. demo' = [demo EXCEPT ![c] = [runs |-> k, d |-> d]]
  BY <1>1, <1>3, <1>5 DEF TypeInv, Types
<1>8. reg \in Registry /\ net \in Net
  BY DEF TypeInv, Types
<1> QED
  BY <1>1, <1>4, <1>6, <1>7, <1>8, DemoTypes

\* It asks the next of its quorum, or is done.
LEMMA NextRequestIs ==
  ASSUME Types, NEW c \in Clients, request_reply(c)
  PROVE  /\ UNCHANGED <<op, faults>> /\ net' \in Net
         /\ net'.broken = net.broken /\ net'.fresh = net.fresh /\ net'.back = net.back
         /\ net'.up = net.up /\ demo[c].d # Idle
         /\ \E p \in Ids, x \in Clients \cup {None} :
               reg' = reg \/ reg' = [reg EXCEPT !.pending[p] = x]
         /\ \E d \in Demo : demo' = [demo EXCEPT ![c] = [runs |-> demo[c].runs, d |-> d]]
         /\ \/ net' = net
            \/ \E p \in Live, k \in {"PartialDecryptRequest", "Round1Request", "Round2Request"} :
                  net'.down = [net.down EXCEPT ![p] = Append(net.down[p], Msg(k))]
<1> DEFINE e == demo[c].d
<1>1. /\ demo[c] \in [runs : Nat, d : Demo] /\ e \in Demo /\ e.phase # "idle"
      /\ reg \in Registry /\ net \in Net /\ net.down \in [Ids -> Seq(DownMsgs)]
  BY NetShape DEF Types, request_reply
<1>2. /\ e \in [phase : {"decrypt", "round1", "round2"}, quorum : SUBSET Ids,
                left : (SUBSET Ids) \ {{}}, asked : Ids \cup {0}]
      /\ e.phase \in {"decrypt", "round1", "round2"} /\ e.quorum \in SUBSET Ids
      /\ e.left \in SUBSET Ids /\ e.left # {} /\ e.left \subseteq e.quorum /\ e # Idle
  BY <1>1, DemoShape
<1>3. PICK p : p = Lowest(e.left)
  OBVIOUS
<1>4. p \in Ids
  BY <1>2, <1>3, LeastId
<1>5. PICK k : k = RequestOf[e.phase]
  OBVIOUS
<1>6. k \in {"PartialDecryptRequest", "Round1Request", "Round2Request"}
  BY <1>2, <1>5 DEF RequestOf
<1>7. PICK m : m = Msg(k)
  OBVIOUS
<1>8. m \in DownMsgs
  BY <1>6, <1>7, MessageTypes
<1>9. CASE /\ p \in Live
           /\ reg' = [reg EXCEPT !.pending[p] = c]
           /\ net' = [net EXCEPT !.down[p] = IF p \in net.broken THEN @ ELSE Append(@, m)]
           /\ demo' = [demo EXCEPT ![c].d.asked = p]
  <2>1. PICK s : s = IF p \in net.broken THEN net.down[p] ELSE Append(net.down[p], m)
    OBVIOUS
  <2>2. s \in Seq(DownMsgs)
    BY <1>1, <1>4, <1>8, <2>1
  <2>3. PICK v : v = [net.down EXCEPT ![p] = s]
    OBVIOUS
  <2>4. v \in [Ids -> Seq(DownMsgs)]
    BY <1>1, <2>2, <2>3
  <2>5. net' = [net EXCEPT !.down = v]
    BY <1>1, <1>9, <2>1, <2>3 DEF Net
  <2>6. /\ net' \in Net /\ net'.broken = net.broken /\ net'.fresh = net.fresh
        /\ net'.back = net.back /\ net'.up = net.up /\ net'.down = v
    BY <1>1, <2>4, <2>5 DEF Net
  <2>7. net' = net \/ net'.down = [net.down EXCEPT ![p] = Append(net.down[p], Msg(k))]
    <3>1. CASE p \in net.broken
      <4>1. v = net.down
        BY <1>1, <2>1, <2>3, <3>1
      <4> QED
        BY <1>1, <2>5, <4>1 DEF Net
    <3>2. CASE p \notin net.broken
      BY <1>7, <2>1, <2>3, <2>6, <3>2
    <3> QED
      BY <3>1, <3>2
  <2>8. PICK d : d = [e EXCEPT !.asked = p]
    OBVIOUS
  <2>9. /\ d \in [phase : {"decrypt", "round1", "round2"}, quorum : SUBSET Ids,
                left : (SUBSET Ids) \ {{}}, asked : Ids \cup {0}]
        /\ d.left \subseteq d.quorum
    BY <1>2, <1>4, <2>8
  <2>10. d \in Demo
    BY <2>9 DEF Demo
  <2>11. demo' = [demo EXCEPT ![c] = [runs |-> demo[c].runs, d |-> d]]
    <3>1. demo \in [Clients -> [runs : Nat, d : Demo]]
      BY DEF Types
    <3>2. demo' = [demo EXCEPT ![c].d = d]
      BY <1>1, <1>9, <2>8, <3>1
    <3>3. [demo[c] EXCEPT !.d = d] = [runs |-> demo[c].runs, d |-> d]
      BY <1>1
    <3> QED
      BY <3>2, <3>3
  <2>12. UNCHANGED <<op, faults>>
    BY DEF request_reply
  <2> QED
    BY <1>2, <1>4, <1>6, <1>9, <2>6, <2>7, <2>10, <2>11, <2>12
<1>10. CASE /\ reg' = IF p \in Live THEN [reg EXCEPT !.pending[p] = None] ELSE reg
            /\ demo' = [demo EXCEPT ![c].d = Idle]
            /\ UNCHANGED net
  <2>1. Idle \in Demo
    BY IdleIs
  <2>2. demo' = [demo EXCEPT ![c] = [runs |-> demo[c].runs, d |-> Idle]]
    <3>1. demo \in [Clients -> [runs : Nat, d : Demo]]
      BY DEF Types
    <3>2. [demo[c] EXCEPT !.d = Idle] = [runs |-> demo[c].runs, d |-> Idle]
      BY <1>1
    <3> QED
      BY <1>10, <3>2
  <2>3. UNCHANGED <<op, faults>>
    BY DEF request_reply
  <2>4. \E x \in Clients \cup {None} : reg' = reg \/ reg' = [reg EXCEPT !.pending[p] = x]
    BY <1>10
  <2> QED
    BY <1>1, <1>2, <1>4, <1>10, <2>1, <2>2, <2>3, <2>4
<1> QED
  BY <1>3, <1>5, <1>7, <1>9, <1>10 DEF request_reply

\* It keeps the types.
LEMMA NextRequestTypes ==
  ASSUME TypeInv, NEW c \in Clients, request_reply(c)
  PROVE  TypeInv'
<1>1. /\ UNCHANGED <<op, faults>> /\ net' \in Net
      /\ net'.broken = net.broken /\ net'.fresh = net.fresh /\ net'.back = net.back
      /\ demo[c].d # Idle
  BY NextRequestIs DEF TypeInv
<1>2. /\ reg' \in Registry /\ reg'.conns = reg.conns /\ reg'.next_id = reg.next_id
      /\ reg'.ceremony = reg.ceremony /\ reg'.roster = reg.roster
  <2>1. PICK p \in Ids, x \in Clients \cup {None} :
               reg' = reg \/ reg' = [reg EXCEPT !.pending[p] = x]
    BY NextRequestIs DEF TypeInv
  <2> QED
    BY <2>1, PendingIs DEF TypeInv, Types
<1>3. PICK d \in Demo : demo' = [demo EXCEPT ![c] = [runs |-> demo[c].runs, d |-> d]]
  BY NextRequestIs DEF TypeInv
<1>4. reg.ceremony = "complete" /\ demo[c].runs \in Nat
  BY <1>1 DEF TypeInv, Demos, Types
<1> QED
  BY <1>1, <1>2, <1>3, <1>4, DemoTypes

\* It gives up.
LEMMA GiveUpTypes ==
  ASSUME TypeInv, NEW c \in Clients, GiveUp(c)
  PROVE  TypeInv'
<1>1. demo[c] \in [runs : Nat, d : Demo] /\ demo[c].runs \in Nat /\ demo[c].d # Idle
  BY IdleIs DEF TypeInv, Types, GiveUp
<1>2. demo' = [demo EXCEPT ![c] = [runs |-> demo[c].runs, d |-> Idle]]
      /\ UNCHANGED <<reg, net, op, faults>>
  <2>1. demo \in [Clients -> [runs : Nat, d : Demo]]
    BY DEF TypeInv, Types
  <2>2. [demo[c] EXCEPT !.d = Idle] = [runs |-> demo[c].runs, d |-> Idle]
    BY <1>1
  <2>3. demo' = [demo EXCEPT ![c].d = Idle] /\ UNCHANGED <<reg, net, op, faults>>
    BY DEF GiveUp
  <2> QED
    BY <2>2, <2>3
<1>3. reg.ceremony = "complete" /\ reg \in Registry /\ net \in Net
  BY <1>1 DEF TypeInv, Demos, Types
<1> QED
  BY <1>1, <1>2, <1>3, IdleIs, DemoTypes

\* Nobody has connected.
LEMMA InitTypes == Init => TypeInv
<1> SUFFICES ASSUME Init PROVE TypeInv
  OBVIOUS
<1>1. reg \in Registry
  <2>1. NoAcks \in Holders /\ NoAcks \in [Ids -> Clients \cup {None}]
        /\ NoAcks \in [Ids -> (SUBSET Ids) \cup {None}]
    BY DEF NoAcks, Holders
  <2>2. reg = [conns |-> NoAcks, next_id |-> 1, pending |-> NoAcks,
               ceremony |-> "waiting", hashes |-> {}, dealers |-> {},
               excluded |-> {}, done |-> {}, acks |-> NoAcks, roster |-> NoAcks, key |-> {}]
    BY DEF Init, Waiting, NoAcks
  <2> QED
    BY <2>1, <2>2 DEF Registry, Ceremonies
<1>2. net \in Net
  <2>1. <<>> \in Seq(UpMsgs) /\ <<>> \in Seq(DownMsgs)
    OBVIOUS
  <2> QED
    BY <2>1 DEF Init, Net
<1>3. op \in [Operators -> Process] /\ demo \in [Clients -> [runs : Nat, d : Demo]]
  BY NotStartedIs, IdleIs DEF Init
<1>4. Types
  BY <1>1, <1>2, <1>3, Constants DEF Types, Init
<1>5. /\ reg.ceremony = "waiting" /\ reg.next_id = 1
      /\ \A p \in Ids : reg.conns[p] = None /\ reg.roster[p] = None
      /\ net.fresh = {} /\ net.back = {} /\ net.broken = {}
      /\ \A p \in Ids : net.up[p] = <<>> /\ net.down[p] = <<>>
  BY DEF Init, Waiting
<1>6. \A o \in Operators : op[o].stage = "exited" /\ op[o].link = 0 /\ op[o].signed = 0
  BY DEF Init, NotStarted
<1>7. Links
  BY <1>5, <1>6, Constants DEF Links, Holds
<1>8. Quiet
  <2>1. Lost = {}
    <3>1. \A p \in Ids : p \in Nat /\ ~(p < 1)
      BY Constants
    <3> QED
      BY <1>5, <3>1 DEF Lost
  <2> QED
    BY <1>5, <1>6, <2>1, FS_EmptySet, Constants DEF Quiet, Init
<1>9. Demos /\ Nonces
  BY <1>5, <1>6 DEF Demos, Nonces, Init
<1> QED
  BY <1>4, <1>7, <1>8, <1>9 DEF TypeInv

\* Every step keeps the types.
LEMMA TypeStep == TypeInv /\ [Next]_vars => TypeInv'
<1> SUFFICES ASSUME TypeInv, [Next]_vars PROVE TypeInv'
  OBVIOUS
<1>1. CASE UNCHANGED vars
  BY <1>1 DEF vars, TypeInv, Types, Links, Quiet, Demos, Nonces, Holds, Live, Lost
<1>2. ASSUME NEW p \in Ids, Greet(p) PROVE TypeInv'
  BY <1>2, StartTypes, ConfirmTypes DEF Greet
<1>3. ASSUME NEW p \in Ids, handle_operator_message(p) PROVE TypeInv'
  <2>1. CASE OnReply(p)
    BY <2>1, OnReplyTypes
  <2>2. CASE CeremonyMessage(p)
    <3>1. p \in Live /\ net.up[p] # <<>>
      BY <2>2, CeremonyOutcome DEF TypeInv
    <3>2. PICK r \in Registry, ms \in Seq(DownMsgs) : Outcome(p, r, ms)
      BY <2>2, CeremonyOutcome DEF TypeInv
    <3> QED
      BY <3>1, <3>2, OutcomeTypes
  <2> QED
    BY <1>3, <2>1, <2>2 DEF handle_operator_message, CeremonyMessage
<1>4. ASSUME NEW p \in Ids, Disconnect(p) \/ Break(p) PROVE TypeInv'
  BY <1>4, DisconnectTypes, BreakTypes
<1>5. ASSUME NEW o \in Operators, Hello(o) PROVE TypeInv'
  BY <1>5, HelloIs, HelloNewTypes, HelloBackTypes
<1>6. ASSUME NEW o \in Operators, Runs(o) PROVE TypeInv'
  <2>1. PICK n : (\E ms : GoesOn(o, n, ms)) \/ GoesWithout(o, n)
    BY <1>6, RunsIs DEF TypeInv
  <2> QED
    BY <2>1, GoesOnTypes, GoesWithoutTypes
<1>7. ASSUME NEW c \in Clients, handle_demo_request(c) \/ request_reply(c) \/ GiveUp(c)
      PROVE  TypeInv'
  BY <1>7, RequestTypes, NextRequestTypes, GiveUpTypes
<1> QED
  BY <1>1, <1>2, <1>3, <1>4, <1>5, <1>6, <1>7 DEF Next, Runs

\* Types, links, quiet and nonces, of every reachable state.
LEMMA TypesHold == Spec => []TypeInv
  BY InitTypes, TypeStep, PTL DEF Spec

\* Types; a process that runs is linked to a connection that was its own, and
\* only connections of running handlers await a greeting (session/nova_operator.rs).
THEOREM TypeCorrect == Spec => []TypeOK
<1>1. TypeInv => TypeOK
  <2> SUFFICES ASSUME TypeInv PROVE TypeOK
    OBVIOUS
  <2>1. /\ reg.conns \in Holders /\ reg.next_id \in Nat /\ reg.ceremony \in Ceremonies
        /\ reg.pending \in [Ids -> Clients \cup {None}]
    BY RegistryShape DEF TypeInv, Types
  <2>2. Live \subseteq 1 .. reg.next_id - 1
    <3>1. \A p \in Live : p \in Nat \ {0} /\ p < reg.next_id
      BY Constants DEF Live, TypeInv, Links
    <3> QED
      BY <2>1, <3>1
  <2>3. net.broken \cup net.fresh \cup net.back \subseteq Ids
    BY NetShape DEF TypeInv, Types
  <2>4. ASSUME NEW o \in Operators
        PROVE  /\ op[o].stage \in Stages
               /\ op[o].link # 0 /\ op[o].link \notin net.broken => reg.conns[op[o].link] = o
    <3>1. op[o].stage \in Stages /\ op[o].link \in Ids \cup {0}
      BY ProcessShape DEF TypeInv, Types
    <3> QED
      BY <3>1 DEF TypeInv, Links, Holds
  <2>5. \A c \in Clients : demo[c].d.left \subseteq demo[c].d.quorum
    <3> SUFFICES ASSUME NEW c \in Clients PROVE demo[c].d.left \subseteq demo[c].d.quorum
      OBVIOUS
    <3>1. demo[c].d \in Demo
      BY DEF TypeInv, Types
    <3> QED
      BY <3>1, IdleIs DEF Demo
  <2>6. faults \in 0 .. MaxFaults /\ net.fresh \cup net.back \subseteq Live
    BY DEF TypeInv, Types, Links
  <2> QED
    BY <2>1, <2>2, <2>3, <2>4, <2>5, <2>6 DEF TypeOK, Holders, Ceremonies, Stages
<1> QED
  BY <1>1, TypesHold, PTL

\* Nonces sign once, however demonstrations overlap, displace each other's
\* requests, and are cut off (nova-operator main.rs, Round1Request, Round2Request).
THEOREM NoncesAreSpentOnce == Spec => []NoncesSignOnce
<1>1. TypeInv => NoncesSignOnce
  BY DEF TypeInv, Nonces, NoncesSignOnce
<1> QED
  BY <1>1, TypesHold, PTL

----------------------------------------------------------------------------
(* Queues *)

\* The order of the messages of a ceremony.
LEMMA Ranks ==
  /\ UpRank["CommitmentHash"] = 1 /\ UpRank["Reveal"] = 2 /\ UpRank["Complaint"] = 3
  /\ UpRank["NoMoreComplaints"] = 4 /\ UpRank["CeremonyAck"] = 5
  /\ UpRank["PartialDecryptResponse"] = 6 /\ UpRank["Round1Response"] = 6
  /\ UpRank["Round2Response"] = 6
  /\ DownRank["Welcome"] = 1 /\ DownRank["AllCommitmentsReceived"] = 2
  /\ DownRank["RevealBroadcast"] = 3 /\ DownRank["ComplaintBroadcast"] = 3
  /\ DownRank["ComplaintWindowClosed"] = 4
  /\ Said["joining"] = 0 /\ Said["committing"] = 1 /\ Said["collecting"] = 3
  /\ Said["closing"] = 4 /\ Said["acking"] = 5
  BY DEF UpRank, DownRank, Said

\* The messages operators send have a place in it.
LEMMA Kinds ==
  /\ \A m \in UpMsgs : m.kind \in
       {"CommitmentHash", "Reveal", "Complaint", "NoMoreComplaints", "CeremonyAck",
        "PartialDecryptResponse", "Round1Response", "Round2Response"}
  /\ \A m \in UpMsgs : UpRank[m.kind] \in 1 .. 6
<1>1. \A m \in UpMsgs : m.kind \in
       {"CommitmentHash", "Reveal", "Complaint", "NoMoreComplaints", "CeremonyAck",
        "PartialDecryptResponse", "Round1Response", "Round2Response"}
  BY DEF UpMsgs
<1> QED
  BY <1>1, Ranks

\* The first message of a queue, and the rest.
LEMMA TailIs ==
  ASSUME NEW S, NEW s \in Seq(S), s # <<>>
  PROVE  /\ Head(s) \in S /\ Tail(s) \in Seq(S)
         /\ Messages(s) = {Head(s)} \cup Messages(Tail(s))
         /\ UpSorted(s) => /\ UpSorted(Tail(s))
                           /\ \A m \in Messages(Tail(s)) : Precedes(Head(s), m)
         /\ DownSorted(s) => /\ DownSorted(Tail(s))
                             /\ \A m \in Messages(Tail(s)) : Leads(Head(s), m)
<1>1. PICK t : t = Tail(s)
  OBVIOUS
<1>2. PICK h : h = Head(s)
  OBVIOUS
<1>3. /\ Len(s) \in Nat /\ Len(s) >= 1 /\ DOMAIN s = 1 .. Len(s) /\ DOMAIN t = 1 .. Len(s) - 1
      /\ h = s[1] /\ \A k \in 1 .. Len(s) - 1 : t[k] = s[k + 1]
      /\ h \in S /\ t \in Seq(S)
  BY <1>1, <1>2
<1>4. /\ \A k \in DOMAIN t : k + 1 \in DOMAIN s /\ t[k] = s[k + 1] /\ 1 < k + 1
      /\ \A k \in DOMAIN s : k = 1 \/ (k - 1 \in DOMAIN t /\ t[k - 1] = s[k])
      /\ 1 \in DOMAIN s /\ DOMAIN t \subseteq Nat
      /\ \A i, j \in DOMAIN t : i < j => i + 1 < j + 1
  BY <1>3
<1>5. Messages(s) = {h} \cup Messages(t)
  <2>1. \A m \in Messages(s) : m \in {h} \cup Messages(t)
    BY <1>3, <1>4 DEF Messages
  <2>2. \A m \in {h} \cup Messages(t) : m \in Messages(s)
    BY <1>3, <1>4 DEF Messages
  <2> QED
    BY <2>1, <2>2
<1>6. UpSorted(s) => UpSorted(t) /\ \A m \in Messages(t) : Precedes(h, m)
  BY <1>3, <1>4 DEF UpSorted, Messages
<1>7. DownSorted(s) => DownSorted(t) /\ \A m \in Messages(t) : Leads(h, m)
  BY <1>3, <1>4 DEF DownSorted, Messages
<1> QED
  BY <1>1, <1>2, <1>3, <1>5, <1>6, <1>7

\* A queue that is added to.
LEMMA ConcatIs ==
  ASSUME NEW S, NEW s \in Seq(S), NEW t \in Seq(S)
  PROVE  /\ s \o t \in Seq(S) /\ Messages(s \o t) = Messages(s) \cup Messages(t)
         /\ /\ UpSorted(s) /\ UpSorted(t)
            /\ \A a \in Messages(s), b \in Messages(t) : Precedes(a, b)
            => UpSorted(s \o t)
         /\ /\ DownSorted(s) /\ DownSorted(t)
            /\ \A a \in Messages(s), b \in Messages(t) : Leads(a, b)
            => DownSorted(s \o t)
<1>1. PICK u : u = s \o t
  OBVIOUS
<1>2. /\ Len(s) \in Nat /\ DOMAIN s = 1 .. Len(s) /\ Len(t) \in Nat /\ DOMAIN t = 1 .. Len(t)
      /\ DOMAIN u = 1 .. Len(s) + Len(t) /\ u \in Seq(S)
      /\ \A k \in 1 .. Len(s) + Len(t) : u[k] = IF k <= Len(s) THEN s[k] ELSE t[k - Len(s)]
  BY <1>1
<1>3. \A k \in DOMAIN u : \/ k \in DOMAIN s /\ u[k] = s[k]
                          \/ k > Len(s) /\ k - Len(s) \in DOMAIN t /\ u[k] = t[k - Len(s)]
  BY <1>2
<1>4. \A k \in DOMAIN s : k \in DOMAIN u /\ u[k] = s[k]
  BY <1>2
<1>5. \A k \in DOMAIN t : k + Len(s) \in DOMAIN u /\ u[k + Len(s)] = t[k]
  BY <1>2
<1>6. Messages(u) = Messages(s) \cup Messages(t)
  <2>1. \A m \in Messages(u) : m \in Messages(s) \cup Messages(t)
    BY <1>3 DEF Messages
  <2>2. \A m \in Messages(s) \cup Messages(t) : m \in Messages(u)
    BY <1>4, <1>5 DEF Messages
  <2> QED
    BY <2>1, <2>2
<1>7. ASSUME NEW i \in DOMAIN u, NEW j \in DOMAIN u, i < j
      PROVE  \/ i \in DOMAIN s /\ j \in DOMAIN s /\ u[i] = s[i] /\ u[j] = s[j]
             \/ u[i] \in Messages(s) /\ u[j] \in Messages(t)
             \/ /\ i - Len(s) \in DOMAIN t /\ j - Len(s) \in DOMAIN t
                /\ u[i] = t[i - Len(s)] /\ u[j] = t[j - Len(s)] /\ i - Len(s) < j - Len(s)
  <2>1. i \in Nat /\ j \in Nat
    BY <1>2
  <2>2. CASE j \in DOMAIN s
    BY <1>2, <1>3, <1>7, <2>1, <2>2
  <2>3. CASE i \in DOMAIN s /\ j \notin DOMAIN s
    BY <1>3, <2>3 DEF Messages
  <2>4. CASE i \notin DOMAIN s
    BY <1>2, <1>3, <1>7, <2>1, <2>4
  <2> QED
    BY <2>2, <2>3, <2>4
<1>8. ASSUME UpSorted(s), UpSorted(t), \A a \in Messages(s), b \in Messages(t) : Precedes(a, b)
      PROVE  UpSorted(u)
  BY <1>7, <1>8 DEF UpSorted
<1>9. ASSUME DownSorted(s), DownSorted(t), \A a \in Messages(s), b \in Messages(t) : Leads(a, b)
      PROVE  DownSorted(u)
  BY <1>7, <1>9 DEF DownSorted
<1> QED
  BY <1>1, <1>2, <1>6, <1>8, <1>9

\* Queues of one message are in order.
LEMMA ShortQueues ==
  /\ Messages(<<>>) = {} /\ UpSorted(<<>>) /\ DownSorted(<<>>)
  /\ \A m : Messages(<<m>>) = {m} /\ UpSorted(<<m>>) /\ DownSorted(<<m>>)
<1>1. Messages(<<>>) = {} /\ UpSorted(<<>>) /\ DownSorted(<<>>)
  BY DEF Messages, UpSorted, DownSorted
<1>2. ASSUME NEW m PROVE Messages(<<m>>) = {m} /\ UpSorted(<<m>>) /\ DownSorted(<<m>>)
  <2>1. PICK s : s = <<m>>
    OBVIOUS
  <2>2. DOMAIN s = {1} /\ s[1] = m
    BY <2>1
  <2>3. Messages(s) = {m} /\ UpSorted(s) /\ DownSorted(s)
    BY <2>2 DEF Messages, UpSorted, DownSorted
  <2> QED
    BY <2>1, <2>3
<1> QED
  BY <1>1, <1>2

----------------------------------------------------------------------------
(* A ceremony that has started *)

\* What the server has heard goes in stages: one begins when everyone has
\* ended the one before.
LEMMA Progress ==
  ASSUME Types, Started
  PROVE  /\ reg.dealers # {} => reg.hashes = Live
         /\ reg.done # {} => reg.hashes = Live /\ reg.dealers = Live
         /\ \A p \in Ids : reg.acks[p] # None =>
              /\ reg.hashes = Live /\ reg.dealers = Live /\ reg.done = Live
              /\ reg.acks[p] = Kept
<1>1. reg.dealers # {} => reg.hashes = Live
  BY DEF Started, UpGrounds
<1>2. reg.done # {} => reg.dealers = Live
  BY DEF Started, UpGrounds
<1>3. ASSUME NEW p \in Ids, reg.acks[p] # None
      PROVE  reg.done = Live /\ p \in Live /\ reg.acks[p] = Kept
  BY <1>3 DEF Started, UpGrounds
<1>4. reg.done \subseteq Live
  BY DEF Started
<1> QED
  BY <1>1, <1>2, <1>3, <1>4

\* How far the coordinator has heard an operator.
LEMMA HeardIs ==
  ASSUME NEW p
  PROVE  /\ Heard(p) \in 0 .. 5
         /\ reg.acks[p] # None <=> Heard(p) = 5
         /\ p \in reg.done => 4 <= Heard(p)
         /\ p \in reg.dealers => 2 <= Heard(p)
         /\ p \in reg.hashes => 1 <= Heard(p)
  BY DEF Heard

\* Counting to the number of live connections is having them all.
LEMMA FullRoster ==
  ASSUME NEW S, S \subseteq Live
  PROVE  /\ Cardinality(S) >= Cardinality(Live) <=> S = Live
         /\ Cardinality(S) = Cardinality(Live) <=> S = Live
<1>1. IsFiniteSet(Live) /\ Cardinality(Live) \in Nat
  BY LiveIds, Constants, FS_Subset, FS_CardinalityType
<1>2. /\ Cardinality(S) \in Nat /\ Cardinality(S) <= Cardinality(Live)
      /\ Cardinality(S) = Cardinality(Live) => S = Live
  BY <1>1, FS_Subset, FS_CardinalityType
<1> QED
  BY <1>1, <1>2

\* The message a handler reads, and those that follow it.
LEMMA ReadIs ==
  ASSUME Types, Started, NEW p \in Live, net.up[p] # <<>>
  PROVE  LET h == Head(net.up[p])
         IN  /\ h \in UpMsgs /\ h \in Up(p)
             /\ Heard(p) < UpRank[h.kind] /\ UpRank[h.kind] <= 5
             /\ Up(p) = {h} \cup Messages(Tail(net.up[p]))
             /\ UpSorted(Tail(net.up[p]))
             /\ \A m \in Messages(Tail(net.up[p])) :
                  /\ Precedes(h, m) /\ m \in UpMsgs
                  /\ Heard(p) < UpRank[m.kind] /\ UpRank[m.kind] <= 5
<1>1. net.up[p] \in Seq(UpMsgs) /\ p \in Ids
  BY NetShape, LiveIds DEF Types
<1>2. UpInOrder(p)
  BY DEF Started
<1>3. PICK s : s = net.up[p]
  OBVIOUS
<1>4. /\ s \in Seq(UpMsgs) /\ s # <<>> /\ UpSorted(s) /\ Up(p) = Messages(s)
      /\ \A m \in Messages(s) : Heard(p) < UpRank[m.kind] /\ UpRank[m.kind] <= 5
  BY <1>1, <1>2, <1>3 DEF UpInOrder, Up
<1>5. /\ Head(s) \in UpMsgs /\ Messages(s) = {Head(s)} \cup Messages(Tail(s))
      /\ UpSorted(Tail(s)) /\ \A m \in Messages(Tail(s)) : Precedes(Head(s), m)
  BY <1>4, TailIs
<1>6. Messages(s) \subseteq UpMsgs
  BY <1>4 DEF Messages
<1> QED
  BY <1>3, <1>4, <1>5, <1>6

\* The queues after a handler that tells everyone ms.
LEMMA HandledQueues ==
  ASSUME Types, Started, NEW p \in Live, net.up[p] # <<>>, NEW r \in Registry,
         NEW ms \in Seq(DownMsgs), Handled(p, r, ms), r.conns = reg.conns
  PROVE  /\ reg' = r /\ UNCHANGED <<op, demo, faults>> /\ Live' = Live
         /\ net'.broken = net.broken
         /\ Up(p) = {Head(net.up[p])} \cup Up(p)' /\ UpSorted(net'.up[p])
         /\ \A m \in Up(p)' : Precedes(Head(net.up[p]), m) /\ m \in UpMsgs
         /\ \A q \in Live : q # p => net'.up[q] = net.up[q] /\ Up(q)' = Up(q)
         /\ \A q \in Live : /\ net.down[q] \in Seq(DownMsgs)
                            /\ net'.down[q] = net.down[q] \o ms
                            /\ Down(q)' = Down(q) \cup Messages(ms)
         /\ \A q \in Ids : q \notin Live => net'.down[q] = net.down[q]
<1>1. /\ reg' = r /\ UNCHANGED <<op, demo, faults>> /\ net'.broken = net.broken
      /\ net'.up = [net.up EXCEPT ![p] = Tail(net.up[p])]
      /\ net'.down = [q \in Ids |-> IF q \in Live THEN net.down[q] \o ms ELSE net.down[q]]
  <2>1. p \in Ids
    BY LiveIds
  <2> QED
    BY <2>1, HandledIs
<1>2. net.up \in [Ids -> Seq(UpMsgs)] /\ net.down \in [Ids -> Seq(DownMsgs)] /\ Live \subseteq Ids
  BY NetShape, LiveIds DEF Types
<1>3. Live' = Live
  BY <1>1 DEF Live
<1>4. net'.up[p] = Tail(net.up[p]) /\ \A q \in Live : q # p => net'.up[q] = net.up[q]
  BY <1>1, <1>2
<1>5. \A q \in Ids : net'.down[q] = IF q \in Live THEN net.down[q] \o ms ELSE net.down[q]
  BY <1>1
<1>6. /\ Up(p) = {Head(net.up[p])} \cup Up(p)' /\ UpSorted(net'.up[p])
      /\ \A m \in Up(p)' : Precedes(Head(net.up[p]), m) /\ m \in UpMsgs
  BY <1>4, ReadIs DEF Up
<1>7. \A q \in Live : q # p => Up(q)' = Up(q)
  BY <1>4 DEF Up
<1>8. \A q \in Live : net.down[q] \in Seq(DownMsgs) /\ Down(q)' = Down(q) \cup Messages(ms)
  BY <1>2, <1>5, ConcatIs DEF Down
<1> QED
  BY <1>1, <1>2, <1>3, <1>4, <1>5, <1>6, <1>7, <1>8

\* A queue to which a handler adds one message, or none.
LEMMA TellsInOrder ==
  ASSUME NEW s \in Seq(DownMsgs), DownSorted(s), NEW x \in DownMsgs,
         \A a \in Messages(s) : Leads(a, x)
  PROVE  DownSorted(s \o <<x>>) /\ s \o <<>> = s
<1>1. <<x>> \in Seq(DownMsgs) /\ s \o <<>> = s
  OBVIOUS
<1>2. Messages(<<x>>) = {x} /\ DownSorted(<<x>>)
  BY ShortQueues
<1>3. \A a \in Messages(s), b \in Messages(<<x>>) : Leads(a, b)
  BY <1>2
<1> QED
  BY <1>1, <1>2, <1>3, ConcatIs

\* A handler's effect on a ceremony that goes on: the queue it reads from stays
\* in order if the server has not heard what is left.
LEMMA UpStaysInOrder ==
  ASSUME Started, NEW p \in Live, Live' = Live, UpSorted(net'.up[p]),
         \A m \in Up(p)' : UpRank[m.kind] <= 5 /\ Heard(p)' < UpRank[m.kind],
         \A q \in Live : q # p => /\ net'.up[q] = net.up[q] /\ Up(q)' = Up(q)
                                  /\ Heard(q)' = Heard(q)
  PROVE  \A q \in Live' : UpInOrder(q)'
<1>1. UpInOrder(p)'
  BY DEF UpInOrder
<1>2. ASSUME NEW q \in Live, q # p PROVE UpInOrder(q)'
  BY <1>2 DEF Started, UpInOrder
<1> QED
  BY <1>1, <1>2

\* A commitment, while the ceremony runs.
LEMMA CommitmentHashStep ==
  ASSUME TypeInv, CeremonyInv, reg.ceremony = "started",
         NEW p \in Ids, on_commitment_hash(p)
  PROVE  reg'.ceremony = "started" /\ Started' /\ op' = op
<1> DEFINE H == reg.hashes \cup {p}
           r == [reg EXCEPT !.hashes = H]
           x == Msg("AllCommitmentsReceived")
           ms == IF Cardinality(H) >= Cardinality(Live) THEN <<x>> ELSE <<>>
           h == Head(net.up[p])
<1>1. Types /\ Started /\ Handled(p, r, ms) /\ reg \in Registry
  BY DEF on_commitment_hash, CeremonyInv, TypeInv, Types
<1>2. p \in Live /\ net.up[p] # <<>> /\ h.kind = "CommitmentHash"
  BY DEF on_commitment_hash, Reads
<1>3. x \in DownMsgs /\ x.kind = "AllCommitmentsReceived" /\ <<x>> \in Seq(DownMsgs)
  <2>1. x \in DownMsgs /\ x.kind = "AllCommitmentsReceived"
    BY MessageTypes DEF Msg
  <2> HIDE DEF x
  <2> QED
    BY <2>1
<1>4. H \subseteq Live /\ (Cardinality(H) >= Cardinality(Live) <=> H = Live)
  <2>1. H \subseteq Live
    BY <1>1, <1>2 DEF Started
  <2> QED
    BY <2>1, FullRoster
<1> HIDE DEF x
<1>5. ms \in Seq(DownMsgs) /\ (H = Live => ms = <<x>>) /\ (H # Live => ms = <<>>)
  <2>1. <<>> \in Seq(DownMsgs)
    OBVIOUS
  <2>2. PICK b : b <=> Cardinality(H) >= Cardinality(Live)
    OBVIOUS
  <2>3. ms = IF b THEN <<x>> ELSE <<>>
    BY <2>2
  <2> HIDE DEF ms, H
  <2> QED
    BY <1>3, <1>4, <2>1, <2>2, <2>3
<1>6. /\ r \in Registry /\ r.conns = reg.conns /\ r.hashes = H /\ r.dealers = reg.dealers
      /\ r.excluded = reg.excluded /\ r.done = reg.done /\ r.acks = reg.acks
      /\ r.ceremony = reg.ceremony
  BY <1>1, RegistryShape DEF Registry
<1> HIDE DEF r, ms, h
<1>7. /\ reg' = r /\ UNCHANGED <<op, demo, faults>> /\ Live' = Live
      /\ net'.broken = net.broken
      /\ Up(p) = {h} \cup Up(p)' /\ UpSorted(net'.up[p])
      /\ \A m \in Up(p)' : Precedes(h, m) /\ m \in UpMsgs
      /\ \A q \in Live : q # p => net'.up[q] = net.up[q] /\ Up(q)' = Up(q)
      /\ \A q \in Live : /\ net.down[q] \in Seq(DownMsgs)
                         /\ net'.down[q] = net.down[q] \o ms
                         /\ Down(q)' = Down(q) \cup Messages(ms)
      /\ \A q \in Ids : q \notin Live => net'.down[q] = net.down[q]
  BY <1>1, <1>2, <1>5, <1>6, HandledQueues DEF h
\* Nobody has gone beyond its commitment.
<1>8. Heard(p) = 0 /\ p \notin reg.hashes /\ reg.hashes # Live
  <2>1. Heard(p) < 1
    BY <1>1, <1>2, ReadIs, Ranks DEF h
  <2> QED
    BY <1>2, <2>1, HeardIs
<1>9. reg.dealers = {} /\ reg.done = {} /\ \A q \in Ids : reg.acks[q] = None
  BY <1>1, <1>8, Progress
<1>10. Messages(ms) \subseteq {x} /\ (H = Live => Messages(ms) = {x})
  BY <1>5, ShortQueues
<1>11. \A q \in Live : Up(q)' \subseteq Up(q)
  BY <1>7
<1>12. \A q \in Live' : UpInOrder(q)'
  <2>1. \A q \in Live : q # p => Heard(q)' = Heard(q)
    BY <1>6, <1>7 DEF Heard
  <2>2. Heard(p)' = 1
    BY <1>2, <1>6, <1>7, <1>9, LiveIds DEF Heard
  <2>3. ASSUME NEW m \in Up(p)' PROVE UpRank[m.kind] <= 5 /\ Heard(p)' < UpRank[m.kind]
    <3>1. Precedes(h, m) /\ m \in UpMsgs /\ UpRank[m.kind] <= 5
      BY <1>1, <1>2, <1>7, <2>3 DEF Started, UpInOrder
    <3>2. 1 < UpRank[m.kind]
      BY <1>2, <3>1, Ranks DEF Precedes
    <3> QED
      BY <2>2, <3>1, <3>2
  <2> QED
    BY <1>1, <1>2, <1>7, <2>1, <2>3, UpStaysInOrder
<1>13. ASSUME NEW q \in Live PROVE UpGrounds(q)'
  <2>1. UpGrounds(q) /\ q \in Ids
    BY <1>1, LiveIds DEF Started
  <2>2. /\ ~Comes(q, "Reveal") /\ ~Comes(q, "NoMoreComplaints") /\ ~Comes(q, "CeremonyAck")
        /\ ~Comes(q, "Complaint")
    BY <1>2, <1>8, <1>9, <2>1 DEF UpGrounds, Comes
  <2>3. /\ ~Comes(q, "Reveal")' /\ ~Comes(q, "NoMoreComplaints")' /\ ~Comes(q, "CeremonyAck")'
        /\ ~Comes(q, "Complaint")'
    BY <1>11, <2>2 DEF Comes
  <2> QED
    BY <1>6, <1>7, <1>9, <2>1, <2>3 DEF UpGrounds, Comes
<1>14. ASSUME NEW o \in Operators, NEW q \in Live, Holds(o, q) PROVE Part(o, q)'
  <2>1. Part(o, q) /\ q \in Ids
    BY <1>1, <1>14, LiveIds DEF Started
  <2>2. \A m \in Down(q) : m.kind = "Welcome"
    BY <1>8, <2>1 DEF Part, DownInOrder
  <2>3. DownInOrder(q)'
    <3>1. DownSorted(net'.down[q])
      <4>1. \A m \in Down(q) : Leads(m, x)
        BY <1>3, <2>2, Ranks DEF Leads
      <4>2. DownSorted(net.down[q]) /\ net.down[q] \in Seq(DownMsgs)
        BY <1>7, <2>1 DEF Part, DownInOrder
      <4> QED
        BY <1>3, <1>5, <1>7, <4>1, <4>2, TellsInOrder DEF Down
    <3>2. \A m \in Down(q)' : m \in Down(q) \/ (m = x /\ H = Live)
      BY <1>5, <1>7, <1>10, ShortQueues
    <3> QED
      BY <1>3, <1>6, <1>7, <2>1, <2>2, <3>1, <3>2 DEF Part, DownInOrder
  <2>4. InStep(o, q)'
    <3>1. op[o].stage \in {"joining", "committing"} /\ op'[o] = op[o]
      BY <1>7, <1>8, <2>1 DEF Part, InStep
    <3>2. Heard(q)' <= Said[op[o].stage]
      <4>1. CASE q # p
        BY <1>6, <1>7, <2>1, <4>1 DEF Part, InStep, Heard
      <4>2. CASE q = p
        <5>1. Heard(q)' = 1
          BY <1>2, <1>6, <1>7, <1>9, <4>2, LiveIds DEF Heard
        <5>2. UpRank[h.kind] <= Said[op[o].stage]
          BY <1>7, <2>1, <4>2 DEF Part, InStep
        <5> QED
          BY <1>2, <5>1, <5>2, Ranks
      <4> QED
        BY <4>1, <4>2
    <3>3. Down(q) \subseteq Down(q)' /\ (H = Live => x \in Down(q)')
      BY <1>7, <1>10
    <3> QED
      BY <1>3, <1>6, <1>7, <1>11, <2>1, <3>1, <3>2, <3>3 DEF Part, InStep, Told
  <2>5. Received(o, q)'
    BY <1>3, <1>6, <1>7, <1>9, <1>10, <2>1, <2>2 DEF Part, Received
  <2>6. Excluded(o, q)'
    <3>1. Down(q) \subseteq Down(q)' /\ Up(q)' \subseteq Up(q)
      BY <1>7, <1>11
    <3>2. \A m \in Up(q) : m.kind = "Complaint" => m \in Up(q)'
      BY <1>2, <1>7
    <3>3. Silenced(q) => Silenced(q)'
      BY <1>6, <1>7, <3>1 DEF Silenced, Comes
    <3> QED
      BY <1>6, <1>7, <2>1, <3>1, <3>2, <3>3 DEF Part, Excluded
  <2> QED
    BY <2>3, <2>4, <2>5, <2>6 DEF Part
<1>15. Started'
  BY <1>1, <1>4, <1>6, <1>7, <1>12, <1>13, <1>14 DEF Started, Holds
<1> QED
  BY <1>6, <1>7, <1>15

\* A reveal, while the ceremony runs.
LEMMA RevealStep ==
  ASSUME TypeInv, CeremonyInv, reg.ceremony = "started",
         NEW p \in Ids, on_reveal(p)
  PROVE  reg'.ceremony = "started" /\ Started' /\ op' = op
<1> DEFINE h == Head(net.up[p])
           D == reg.dealers \cup {p}
           E == IF h.matches THEN reg.excluded ELSE reg.excluded \cup {p}
           r == [reg EXCEPT !.dealers = D, !.excluded = E]
<1>1. PICK x : x = [h EXCEPT !.kind = "RevealBroadcast", !.from = p]
  OBVIOUS
<1> DEFINE ms == <<x>>
<1>2. Types /\ Started /\ Handled(p, r, ms) /\ reg \in Registry
  BY <1>1 DEF on_reveal, CeremonyInv, TypeInv, Types
<1>3. p \in Live /\ net.up[p] # <<>> /\ h.kind = "Reveal" /\ h \in UpMsgs
  BY <1>2, HeadOf DEF on_reveal
<1>4. /\ x \in DownMsgs /\ x.kind = "RevealBroadcast" /\ x.from = p
      /\ x.matches = h.matches /\ h.matches \in BOOLEAN
  <2>1. PICK y : y = h
    OBVIOUS
  <2>2. y \in UpMsgs /\ y.kind = "Reveal" /\ x = [y EXCEPT !.kind = "RevealBroadcast", !.from = p]
    BY <1>1, <1>3, <2>1
  <2>3. /\ x \in DownMsgs /\ x.kind = "RevealBroadcast" /\ x.from = p
        /\ x.matches = y.matches /\ y.matches \in BOOLEAN
    <3>1. /\ y \in UpMsgs /\ y.kind = "Reveal"
          /\ x = [y EXCEPT !.kind = "RevealBroadcast", !.from = p]
      BY <2>2
    <3>2. y \in [kind : {"Reveal"}, from : {0}, matches : BOOLEAN, bad : SUBSET Ids]
      BY <3>1 DEF UpMsgs
    <3> HIDE DEF h, D, E, r, ms
    <3> QED
      BY <3>1, <3>2 DEF DownMsgs
  <2> QED
    BY <2>1, <2>3, Zenon
<1>5. ms \in Seq(DownMsgs) /\ Messages(ms) = {x}
  BY <1>4, ShortQueues
<1>6. /\ r \in Registry /\ r.conns = reg.conns /\ r.hashes = reg.hashes /\ r.dealers = D
      /\ r.excluded = E /\ r.done = reg.done /\ r.acks = reg.acks /\ r.ceremony = reg.ceremony
  <2>1. D \in SUBSET Ids /\ E \in SUBSET Ids
    BY <1>2, RegistryShape
  <2> HIDE DEF D, E
  <2> QED
    BY <1>2, <2>1, RegistryShape DEF Registry
<1> HIDE DEF r, ms, h
<1>7. /\ reg' = r /\ UNCHANGED <<op, demo, faults>> /\ Live' = Live
      /\ net'.broken = net.broken
      /\ Up(p) = {h} \cup Up(p)' /\ UpSorted(net'.up[p])
      /\ \A m \in Up(p)' : Precedes(h, m) /\ m \in UpMsgs
      /\ \A q \in Live : q # p => net'.up[q] = net.up[q] /\ Up(q)' = Up(q)
      /\ \A q \in Live : /\ net.down[q] \in Seq(DownMsgs)
                         /\ net'.down[q] = net.down[q] \o ms
                         /\ Down(q)' = Down(q) \cup Messages(ms)
      /\ \A q \in Ids : q \notin Live => net'.down[q] = net.down[q]
  BY <1>2, <1>3, <1>5, <1>6, HandledQueues DEF h
\* Everyone is committed, and p has not dealt before.
<1>8. Heard(p) < 2 /\ p \notin reg.dealers /\ reg.hashes = Live
  <2>1. Heard(p) < 2 /\ h \in Up(p)
    BY <1>2, <1>3, ReadIs, Ranks DEF h
  <2>2. UpGrounds(p)
    BY <1>2, <1>3 DEF Started
  <2> QED
    BY <1>3, <2>1, <2>2, HeardIs DEF UpGrounds, Comes
<1>9. reg.dealers # Live /\ reg.done = {} /\ \A q \in Ids : reg.acks[q] = None
  BY <1>2, <1>3, <1>8, Progress
<1>10. reg.excluded \subseteq E /\ E \subseteq reg.excluded \cup {p} /\ (~x.matches => p \in E)
  BY <1>4
<1>11. \A q \in Live : Up(q)' \subseteq Up(q)
  BY <1>7
<1> HIDE DEF E
<1>12. \A q \in Live' : UpInOrder(q)'
  <2>1. \A q \in Live : q # p => Heard(q)' = Heard(q)
    BY <1>6, <1>7 DEF Heard
  <2>2. Heard(p)' = 2
    BY <1>3, <1>6, <1>7, <1>9 DEF Heard
  <2>3. ASSUME NEW m \in Up(p)' PROVE UpRank[m.kind] <= 5 /\ Heard(p)' < UpRank[m.kind]
    <3>1. Precedes(h, m) /\ m \in UpMsgs /\ UpRank[m.kind] <= 5
      BY <1>2, <1>3, <1>7, <2>3 DEF Started, UpInOrder
    <3>2. 2 < UpRank[m.kind]
      BY <1>3, <3>1, Ranks DEF Precedes
    <3> QED
      BY <2>2, <3>1, <3>2
  <2> QED
    BY <1>2, <1>3, <1>7, <2>1, <2>3, UpStaysInOrder
<1>13. ASSUME NEW q \in Live PROVE UpGrounds(q)'
  <2>1. UpGrounds(q) /\ q \in Ids
    BY <1>2, LiveIds DEF Started
  <2>2. ~Comes(q, "NoMoreComplaints") /\ ~Comes(q, "CeremonyAck")
    BY <1>3, <1>9, <2>1 DEF UpGrounds
  <2>3. ~Comes(q, "NoMoreComplaints")' /\ ~Comes(q, "CeremonyAck")'
    BY <1>11, <2>2 DEF Comes
  <2> QED
    BY <1>6, <1>7, <1>8, <1>9, <1>11, <2>1, <2>3 DEF UpGrounds, Comes
<1>14. ASSUME NEW o \in Operators, NEW q \in Live, Holds(o, q) PROVE Part(o, q)'
  <2>1. Part(o, q) /\ q \in Ids
    BY <1>2, <1>14, LiveIds DEF Started
  <2>2. \A m \in Down(q) : /\ m.kind \in {"Welcome", "AllCommitmentsReceived",
                                          "RevealBroadcast", "ComplaintBroadcast"}
                           /\ m.kind = "RevealBroadcast" => m.from # p
    BY <1>3, <1>8, <1>9, <2>1 DEF Part, DownInOrder
  <2>3. DownInOrder(q)'
    <3>1. DownSorted(net'.down[q])
      <4>1. \A m \in Down(q) : Leads(m, x)
        BY <1>4, <2>2, Ranks DEF Leads
      <4>2. DownSorted(net.down[q]) /\ net.down[q] \in Seq(DownMsgs)
        BY <1>7, <2>1 DEF Part, DownInOrder
      <4> QED
        BY <1>4, <1>7, <4>1, <4>2, TellsInOrder DEF Down, ms
    <3>2. \A m \in Down(q)' : m \in Down(q) \/ m = x
      BY <1>5, <1>7
    <3>3. x.from \in D /\ (x.matches \/ x.from \in E)
      BY <1>4, <1>10
    <3> QED
      BY <1>4, <1>6, <1>7, <1>8, <1>10, <2>1, <3>1, <3>2, <3>3 DEF Part, DownInOrder
  <2>4. InStep(o, q)'
    <3>1. op[o].stage # "acking" /\ op'[o] = op[o]
      BY <1>3, <1>7, <1>9, <2>1 DEF Part, InStep
    <3>2. Heard(q)' <= Said[op[o].stage]
      <4>1. CASE q # p
        BY <1>6, <1>7, <2>1, <4>1 DEF Part, InStep, Heard
      <4>2. CASE q = p
        <5>1. Heard(q)' = 2
          BY <1>3, <1>6, <1>7, <1>9, <4>2 DEF Heard
        <5>2. UpRank[h.kind] <= Said[op[o].stage]
          BY <1>7, <2>1, <4>2 DEF Part, InStep
        <5> QED
          BY <1>3, <5>1, <5>2, Ranks
      <4> QED
        BY <4>1, <4>2
    <3>3. Down(q) \subseteq Down(q)'
      BY <1>7
    <3> QED
      BY <1>6, <1>7, <1>11, <2>1, <3>1, <3>2, <3>3 DEF Part, InStep, Told
  <2>5. Received(o, q)'
    <3>1. op'[o] = op[o] /\ Down(q)' = Down(q) \cup {x} /\ reg'.dealers = reg.dealers \cup {p}
      BY <1>5, <1>6, <1>7
    <3>2. Received(o, q) /\ p \notin op[o].received
      BY <1>8, <2>1 DEF Part, Received
    <3> QED
      BY <1>4, <3>1, <3>2 DEF Received
  <2>6. Excluded(o, q)'
    <3>1. Down(q)' = Down(q) \cup {x} /\ Up(q)' \subseteq Up(q) /\ op'[o] = op[o]
          /\ reg'.excluded = E /\ reg'.done = reg.done
      BY <1>5, <1>6, <1>7, <1>11
    <3>2. \A m \in Up(q) : m.kind = "Complaint" => m \in Up(q)'
      BY <1>3, <1>7
    <3>3. Silenced(q) => Silenced(q)'
      BY <1>7, <3>1 DEF Silenced, Comes
    <3>4. Excluded(o, q)
      BY <2>1 DEF Part
    <3>5. \A u \in op[o].excluded : \/ u \in E \/ Silenced(q)'
                                    \/ \E m \in Up(q)' : m.kind = "Complaint" /\ u \in m.of
      BY <1>10, <3>2, <3>3, <3>4 DEF Excluded
    <3>6. op[o].stage # "acking" => \A u \in E :
            \/ u \in op[o].excluded
            \/ \E m \in Down(q)' :
                \/ m.kind = "RevealBroadcast" /\ m.from = u /\ ~m.matches
                \/ m.kind = "ComplaintBroadcast" /\ u \in m.of
      <4> SUFFICES ASSUME op[o].stage # "acking", NEW u \in E
                   PROVE  \/ u \in op[o].excluded
                          \/ \E m \in Down(q)' :
                              \/ m.kind = "RevealBroadcast" /\ m.from = u /\ ~m.matches
                              \/ m.kind = "ComplaintBroadcast" /\ u \in m.of
        OBVIOUS
      <4>1. CASE u \in reg.excluded
        BY <3>1, <3>4, <4>1 DEF Excluded
      <4>2. CASE u \notin reg.excluded
        <5>1. u = p /\ ~x.matches
          BY <1>4, <1>10, <4>2 DEF E
        <5> QED
          BY <1>4, <3>1, <5>1
      <4> QED
        BY <4>1, <4>2
    <3> QED
      BY <3>1, <3>5, <3>6 DEF Excluded
  <2> QED
    BY <2>3, <2>4, <2>5, <2>6 DEF Part
<1>15. Started'
  BY <1>2, <1>3, <1>6, <1>7, <1>12, <1>13, <1>14 DEF Started, Holds
<1> QED
  BY <1>6, <1>7, <1>15

\* A complaint, while the ceremony runs.
LEMMA ComplaintStep ==
  ASSUME TypeInv, CeremonyInv, reg.ceremony = "started",
         NEW p \in Ids, on_complaint(p)
  PROVE  reg'.ceremony = "started" /\ Started' /\ op' = op
<1> DEFINE h == Head(net.up[p])
           A == h.of
           E == reg.excluded \cup A
           r == [reg EXCEPT !.excluded = E]
<1>1. PICK x : x = MsgOf("ComplaintBroadcast", A)
  OBVIOUS
<1> DEFINE ms == <<x>>
<1>2. Types /\ Started /\ reg \in Registry
  BY DEF CeremonyInv, TypeInv, Types
<1>3. p \in Live /\ net.up[p] # <<>> /\ h.kind = "Complaint" /\ h \in UpMsgs
  BY <1>2, HeadOf DEF on_complaint
\* The dealer is one, and p has complaints still.
<1>4. A \subseteq reg.dealers /\ reg.hashes = Live /\ Heard(p) < 3 /\ p \notin reg.done
  <2>1. Heard(p) < 3 /\ h \in Up(p)
    BY <1>2, <1>3, ReadIs, Ranks DEF h
  <2>2. UpGrounds(p)
    BY <1>2, <1>3 DEF Started
  <2> QED
    BY <1>3, <2>1, <2>2, HeardIs DEF UpGrounds
<1>5. Handled(p, r, ms)
  BY <1>1, <1>4 DEF on_complaint
<1>6. x \in DownMsgs /\ x.kind = "ComplaintBroadcast" /\ x.of = A
  <2>1. A \in SUBSET Ids
    BY <1>2, <1>4, RegistryShape
  <2> HIDE DEF A
  <2> QED
    BY <1>1, <2>1, MessageTypes DEF MsgOf
<1>7. /\ r \in Registry /\ r.conns = reg.conns /\ r.hashes = reg.hashes
      /\ r.dealers = reg.dealers /\ r.excluded = E /\ r.done = reg.done
      /\ r.acks = reg.acks /\ r.ceremony = reg.ceremony
  <2>1. E \in SUBSET Ids
    BY <1>2, <1>4, RegistryShape
  <2> HIDE DEF E
  <2> QED
    BY <1>2, <2>1, RegistryShape DEF Registry
<1>8. ms \in Seq(DownMsgs) /\ Messages(ms) = {x}
  BY <1>6, ShortQueues
<1> HIDE DEF r, ms, h, A
<1>9. /\ reg' = r /\ UNCHANGED <<op, demo, faults>> /\ Live' = Live
      /\ net'.broken = net.broken
      /\ Up(p) = {h} \cup Up(p)' /\ UpSorted(net'.up[p])
      /\ \A m \in Up(p)' : Precedes(h, m) /\ m \in UpMsgs
      /\ \A q \in Live : q # p => net'.up[q] = net.up[q] /\ Up(q)' = Up(q)
      /\ \A q \in Live : /\ net.down[q] \in Seq(DownMsgs)
                         /\ net'.down[q] = net.down[q] \o ms
                         /\ Down(q)' = Down(q) \cup Messages(ms)
      /\ \A q \in Ids : q \notin Live => net'.down[q] = net.down[q]
  BY <1>2, <1>3, <1>5, <1>7, <1>8, HandledQueues DEF h
<1>10. reg.done # Live /\ \A q \in Ids : reg.acks[q] = None
  BY <1>2, <1>3, <1>4, Progress
<1>11. \A q \in Live : Up(q)' \subseteq Up(q)
  BY <1>9
<1>12. \A q \in Live' : UpInOrder(q)'
  <2>1. \A q \in Live : Heard(q)' = Heard(q)
    BY <1>7, <1>9 DEF Heard
  <2>2. ASSUME NEW m \in Up(p)' PROVE UpRank[m.kind] <= 5 /\ Heard(p)' < UpRank[m.kind]
    BY <1>2, <1>3, <1>9, <2>1, <2>2 DEF Started, UpInOrder
  <2> QED
    BY <1>2, <1>3, <1>9, <2>1, <2>2, UpStaysInOrder
<1>13. ASSUME NEW q \in Live PROVE UpGrounds(q)'
  <2>1. UpGrounds(q) /\ q \in Ids
    BY <1>2, LiveIds DEF Started
  <2>2. ~Comes(q, "CeremonyAck")
    BY <1>10, <2>1 DEF UpGrounds
  <2>3. ~Comes(q, "CeremonyAck")'
    BY <1>11, <2>2 DEF Comes
  <2> QED
    BY <1>7, <1>9, <1>10, <1>11, <2>1, <2>3 DEF UpGrounds, Comes
<1>14. ASSUME NEW o \in Operators, NEW q \in Live, Holds(o, q) PROVE Part(o, q)'
  <2>1. Part(o, q) /\ q \in Ids
    BY <1>2, <1>14, LiveIds DEF Started
  <2>2. \A m \in Down(q) : m.kind \in {"Welcome", "AllCommitmentsReceived",
                                       "RevealBroadcast", "ComplaintBroadcast"}
    BY <1>10, <2>1 DEF Part, DownInOrder
  <2>3. DownInOrder(q)'
    <3>1. DownSorted(net'.down[q])
      <4>1. \A m \in Down(q) : Leads(m, x)
        BY <1>6, <2>2, Ranks DEF Leads
      <4>2. DownSorted(net.down[q]) /\ net.down[q] \in Seq(DownMsgs)
        BY <1>9, <2>1 DEF Part, DownInOrder
      <4> QED
        BY <1>6, <1>9, <4>1, <4>2, TellsInOrder DEF Down, ms
    <3>2. \A m \in Down(q)' : m \in Down(q) \/ m = x
      BY <1>8, <1>9
    <3> QED
      BY <1>4, <1>6, <1>7, <1>9, <2>1, <3>1, <3>2 DEF Part, DownInOrder
  <2>4. InStep(o, q)'
    <3>1. op[o].stage # "acking" /\ op'[o] = op[o]
      BY <1>9, <1>10, <2>1 DEF Part, InStep
    <3>2. Heard(q)' = Heard(q)
      BY <1>7, <1>9 DEF Heard
    <3>3. Down(q) \subseteq Down(q)'
      BY <1>9
    <3> QED
      BY <1>7, <1>9, <1>11, <2>1, <3>1, <3>2, <3>3 DEF Part, InStep, Told
  <2>5. Received(o, q)'
    <3>1. op'[o] = op[o] /\ Down(q)' = Down(q) \cup {x} /\ reg'.dealers = reg.dealers
      BY <1>7, <1>8, <1>9
    <3> QED
      BY <1>6, <2>1, <3>1 DEF Part, Received
  <2>6. Excluded(o, q)'
    <3>1. Down(q)' = Down(q) \cup {x} /\ Up(q)' \subseteq Up(q) /\ op'[o] = op[o]
          /\ reg'.excluded = reg.excluded \cup A /\ reg'.done = reg.done
      BY <1>7, <1>8, <1>9, <1>11
    <3>2. \A m \in Up(q) : m \in Up(q)' \/ (m = h /\ m.of = A)
      BY <1>9 DEF A
    <3>3. Silenced(q) => Silenced(q)'
      BY <1>9, <3>1 DEF Silenced, Comes
    <3>4. Excluded(o, q)
      BY <2>1 DEF Part
    <3>5. \A u \in op[o].excluded : \/ u \in reg.excluded \cup A \/ Silenced(q)'
                                    \/ \E m \in Up(q)' : m.kind = "Complaint" /\ u \in m.of
      BY <3>2, <3>3, <3>4 DEF Excluded
    <3>6. op[o].stage # "acking" => \A u \in reg.excluded \cup A :
            \/ u \in op[o].excluded
            \/ \E m \in Down(q)' :
                \/ m.kind = "RevealBroadcast" /\ m.from = u /\ ~m.matches
                \/ m.kind = "ComplaintBroadcast" /\ u \in m.of
      BY <1>6, <3>1, <3>4 DEF Excluded
    <3> QED
      BY <3>1, <3>5, <3>6 DEF Excluded
  <2> QED
    BY <2>3, <2>4, <2>5, <2>6 DEF Part
<1>15. Started'
  BY <1>2, <1>7, <1>9, <1>12, <1>13, <1>14 DEF Started, Holds
<1> QED
  BY <1>7, <1>9, <1>15

\* The end of an operator's complaints, while the ceremony runs.
LEMMA NoMoreComplaintsStep ==
  ASSUME TypeInv, CeremonyInv, reg.ceremony = "started",
         NEW p \in Ids, on_no_more_complaints(p)
  PROVE  reg'.ceremony = "started" /\ Started' /\ op' = op
<1> DEFINE D == reg.done \cup {p}
           r == [reg EXCEPT !.done = D]
           x == Msg("ComplaintWindowClosed")
           ms == IF Cardinality(D) >= Cardinality(Live) THEN <<x>> ELSE <<>>
           h == Head(net.up[p])
<1>1. Types /\ Started /\ Handled(p, r, ms) /\ reg \in Registry
  BY DEF on_no_more_complaints, CeremonyInv, TypeInv, Types
<1>2. p \in Live /\ net.up[p] # <<>> /\ h.kind = "NoMoreComplaints"
  BY DEF on_no_more_complaints, Reads
<1>3. x \in DownMsgs /\ x.kind = "ComplaintWindowClosed" /\ <<x>> \in Seq(DownMsgs)
  <2>1. x \in DownMsgs /\ x.kind = "ComplaintWindowClosed"
    BY MessageTypes DEF Msg
  <2> HIDE DEF x
  <2> QED
    BY <2>1
<1>4. D \subseteq Live /\ (Cardinality(D) >= Cardinality(Live) <=> D = Live)
  <2>1. D \subseteq Live
    BY <1>1, <1>2 DEF Started
  <2> QED
    BY <2>1, FullRoster
<1> HIDE DEF x
<1>5. ms \in Seq(DownMsgs) /\ (D = Live => ms = <<x>>) /\ (D # Live => ms = <<>>)
  <2>1. <<>> \in Seq(DownMsgs)
    OBVIOUS
  <2>2. PICK b : b <=> Cardinality(D) >= Cardinality(Live)
    OBVIOUS
  <2>3. ms = IF b THEN <<x>> ELSE <<>>
    BY <2>2
  <2> HIDE DEF ms, D
  <2> QED
    BY <1>3, <1>4, <2>1, <2>2, <2>3
<1>6. /\ r \in Registry /\ r.conns = reg.conns /\ r.hashes = reg.hashes
      /\ r.dealers = reg.dealers /\ r.excluded = reg.excluded /\ r.done = D
      /\ r.acks = reg.acks /\ r.ceremony = reg.ceremony
  BY <1>1, RegistryShape DEF Registry
<1> HIDE DEF r, ms, h
<1>7. /\ reg' = r /\ UNCHANGED <<op, demo, faults>> /\ Live' = Live
      /\ net'.broken = net.broken
      /\ Up(p) = {h} \cup Up(p)' /\ UpSorted(net'.up[p])
      /\ \A m \in Up(p)' : Precedes(h, m) /\ m \in UpMsgs
      /\ \A q \in Live : q # p => net'.up[q] = net.up[q] /\ Up(q)' = Up(q)
      /\ \A q \in Live : /\ net.down[q] \in Seq(DownMsgs)
                         /\ net'.down[q] = net.down[q] \o ms
                         /\ Down(q)' = Down(q) \cup Messages(ms)
      /\ \A q \in Ids : q \notin Live => net'.down[q] = net.down[q]
  BY <1>1, <1>2, <1>5, <1>6, HandledQueues DEF h
\* Everyone has dealt, and p had not ended its complaints before.
<1>8. Heard(p) < 4 /\ p \notin reg.done /\ reg.dealers = Live /\ reg.hashes = Live
  <2>1. Heard(p) < 4 /\ h \in Up(p)
    BY <1>1, <1>2, ReadIs, Ranks DEF h
  <2>2. UpGrounds(p)
    BY <1>1, <1>2 DEF Started
  <2> QED
    BY <1>2, <2>1, <2>2, HeardIs DEF UpGrounds, Comes
<1>9. reg.done # Live /\ \A q \in Ids : reg.acks[q] = None
  BY <1>1, <1>2, <1>8, Progress
<1>10. Messages(ms) \subseteq {x} /\ (D = Live => Messages(ms) = {x})
  BY <1>5, ShortQueues
<1>11. \A q \in Live : Up(q)' \subseteq Up(q)
  BY <1>7
<1>12. \A q \in Live' : UpInOrder(q)'
  <2>1. \A q \in Live : q # p => Heard(q)' = Heard(q)
    BY <1>6, <1>7 DEF Heard
  <2>2. Heard(p)' = 4
    BY <1>6, <1>7, <1>9 DEF Heard
  <2>3. ASSUME NEW m \in Up(p)' PROVE UpRank[m.kind] <= 5 /\ Heard(p)' < UpRank[m.kind]
    <3>1. Precedes(h, m) /\ m \in UpMsgs /\ UpRank[m.kind] <= 5
      BY <1>1, <1>2, <1>7, <2>3 DEF Started, UpInOrder
    <3>2. 4 < UpRank[m.kind]
      BY <1>2, <3>1, Ranks DEF Precedes
    <3> QED
      BY <2>2, <3>1, <3>2
  <2> QED
    BY <1>1, <1>2, <1>7, <2>1, <2>3, UpStaysInOrder
<1>13. ASSUME NEW q \in Live PROVE UpGrounds(q)'
  <2>1. UpGrounds(q) /\ q \in Ids
    BY <1>1, LiveIds DEF Started
  <2>2. ~Comes(q, "CeremonyAck")
    BY <1>9, <2>1 DEF UpGrounds
  <2>3. ~Comes(q, "CeremonyAck")'
    BY <1>11, <2>2 DEF Comes
  <2> QED
    BY <1>6, <1>7, <1>8, <1>9, <1>11, <2>1, <2>3 DEF UpGrounds, Comes
<1>14. ASSUME NEW o \in Operators, NEW q \in Live, Holds(o, q) PROVE Part(o, q)'
  <2>1. Part(o, q) /\ q \in Ids
    BY <1>1, <1>14, LiveIds DEF Started
  <2>2. \A m \in Down(q) : m.kind \in {"Welcome", "AllCommitmentsReceived",
                                       "RevealBroadcast", "ComplaintBroadcast"}
    BY <1>9, <2>1 DEF Part, DownInOrder
  <2>3. DownInOrder(q)'
    <3>1. DownSorted(net'.down[q])
      <4>1. \A m \in Down(q) : Leads(m, x)
        BY <1>3, <2>2, Ranks DEF Leads
      <4>2. DownSorted(net.down[q]) /\ net.down[q] \in Seq(DownMsgs)
        BY <1>7, <2>1 DEF Part, DownInOrder
      <4> QED
        BY <1>3, <1>5, <1>7, <4>1, <4>2, TellsInOrder DEF Down
    <3>2. \A m \in Down(q)' : m \in Down(q) \/ (m = x /\ D = Live)
      BY <1>5, <1>7, <1>10, ShortQueues
    <3> QED
      BY <1>3, <1>6, <1>7, <1>8, <2>1, <2>2, <3>1, <3>2 DEF Part, DownInOrder
  <2>4. InStep(o, q)'
    <3>1. op[o].stage # "acking" /\ op'[o] = op[o]
      BY <1>7, <1>9, <2>1 DEF Part, InStep
    <3>2. Heard(q)' <= Said[op[o].stage]
      <4>1. CASE q # p
        BY <1>6, <1>7, <2>1, <4>1 DEF Part, InStep, Heard
      <4>2. CASE q = p
        <5>1. Heard(q)' = 4
          BY <1>6, <1>7, <1>9, <4>2 DEF Heard
        <5>2. UpRank[h.kind] <= Said[op[o].stage]
          BY <1>7, <2>1, <4>2 DEF Part, InStep
        <5> QED
          BY <1>2, <5>1, <5>2, Ranks
      <4> QED
        BY <4>1, <4>2
    <3>3. Down(q) \subseteq Down(q)'
      BY <1>7
    <3> QED
      BY <1>6, <1>7, <1>11, <2>1, <3>1, <3>2, <3>3 DEF Part, InStep, Told
  <2>5. Received(o, q)'
    <3>1. op'[o] = op[o] /\ Down(q) \subseteq Down(q)' /\ Down(q)' \subseteq Down(q) \cup {x}
          /\ reg'.dealers = reg.dealers
      BY <1>6, <1>7, <1>10
    <3> QED
      BY <1>3, <2>1, <3>1 DEF Part, Received
  <2>6. Excluded(o, q)'
    <3>1. /\ Down(q) \subseteq Down(q)' /\ Up(q)' \subseteq Up(q) /\ op'[o] = op[o]
          /\ reg'.excluded = reg.excluded
      BY <1>6, <1>7, <1>11
    <3>2. \A m \in Up(q) : m.kind = "Complaint" => m \in Up(q)'
      BY <1>2, <1>7
    <3>3. Silenced(q) => Silenced(q)'
      <4>1. CASE q = p
        BY <1>2, <1>7, <4>1 DEF Silenced, Comes
      <4>2. CASE q # p
        BY <1>6, <1>7, <4>2 DEF Silenced, Comes
      <4> QED
        BY <4>1, <4>2
    <3> QED
      BY <2>1, <3>1, <3>2, <3>3 DEF Part, Excluded
  <2> QED
    BY <2>3, <2>4, <2>5, <2>6 DEF Part
<1>15. Started'
  BY <1>1, <1>4, <1>6, <1>7, <1>12, <1>13, <1>14 DEF Started, Holds
<1> QED
  BY <1>6, <1>7, <1>15

\* An acknowledgement that is not the last is noted; the last completes the
\* ceremony, and finds every other the same.
LEMMA CeremonyAckStep ==
  ASSUME TypeInv, CeremonyInv, reg.ceremony = "started",
         NEW p \in Ids, on_ceremony_ack(p)
  PROVE  /\ op' = op
         /\ reg'.ceremony = "started" => Started'
         /\ reg'.ceremony = "complete" => Complete'
<1> DEFINE h == Head(net.up[p])
           key == h.of
           acks == [reg.acks EXCEPT ![p] = key]
           given == {q \in Ids : acks[q] # None}
<1>1. Types /\ Started /\ reg \in Registry
  BY DEF CeremonyInv, TypeInv, Types
<1>2. p \in Live /\ net.up[p] # <<>> /\ h.kind = "CeremonyAck" /\ h \in Up(p)
  <2>1. p \in Live /\ net.up[p] # <<>> /\ h.kind = "CeremonyAck"
    BY DEF on_ceremony_ack, Reads
  <2> QED
    BY <1>1, <2>1, ReadIs DEF h
<1>3. key = Kept /\ reg.done = Live /\ reg.dealers = Live /\ reg.hashes = Live
  <2>1. key = Kept /\ reg.done = Live
    BY <1>1, <1>2 DEF Started, UpGrounds, Comes
  <2> QED
    BY <1>1, <1>2, <2>1, Progress
<1>4. Kept \in SUBSET Ids /\ Kept # None
  BY <1>1, RegistryShape, Constants DEF Kept
<1>5. \/ /\ Cardinality(given) < Cardinality(Live)
         /\ Handled(p, [reg EXCEPT !.acks = acks], <<>>)
      \/ /\ ~(Cardinality(given) < Cardinality(Live))
         /\ Handled(p, Completed(key), <<MsgOf("CeremonyComplete", key)>>)
      \/ Handled(p, fail_ceremony(reg), <<Msg("CeremonyFailed")>>)
  BY DEF on_ceremony_ack, Completed
<1>6. /\ \A q \in Ids : acks[q] = IF q = p THEN Kept ELSE reg.acks[q]
      /\ acks \in [Ids -> (SUBSET Ids) \cup {None}]
      /\ given \subseteq Live
  <2>1. /\ \A q \in Ids : acks[q] = IF q = p THEN Kept ELSE reg.acks[q]
        /\ acks \in [Ids -> (SUBSET Ids) \cup {None}]
    BY <1>1, <1>3, <1>4, RegistryShape
  <2> QED
    BY <1>1, <1>2, <2>1 DEF Started
<1>7. given # Live <=> Cardinality(given) < Cardinality(Live)
  <2>1. Cardinality(given) >= Cardinality(Live) <=> given = Live
    BY <1>6, FullRoster
  <2>2. IsFiniteSet(Live) /\ IsFiniteSet(given)
    BY <1>6, LiveIds, Constants, FS_Subset
  <2>3. Cardinality(given) \in Nat /\ Cardinality(Live) \in Nat
    BY <2>2, FS_CardinalityType
  <2> HIDE DEF given
  <2> QED
    BY <2>1, <2>3
<1> HIDE DEF acks, h
<1>8. CASE given # Live /\ Handled(p, [reg EXCEPT !.acks = acks], <<>>)
  <2> DEFINE r == [reg EXCEPT !.acks = acks]
             ms == <<>>
  <2>1. /\ r \in Registry /\ r.conns = reg.conns /\ r.hashes = reg.hashes
        /\ r.dealers = reg.dealers /\ r.excluded = reg.excluded /\ r.done = reg.done
        /\ r.acks = acks /\ r.ceremony = reg.ceremony
    BY <1>1, <1>6, RegistryShape DEF Registry
  <2> HIDE DEF r
  <2>2. Handled(p, r, ms)
    BY <1>8 DEF r
  <2>3. ms \in Seq(DownMsgs) /\ Messages(ms) = {} /\ \A s \in Seq(DownMsgs) : s \o ms = s
    BY ShortQueues
  <2> HIDE DEF ms
  <2>4. /\ reg' = r /\ UNCHANGED <<op, demo, faults>> /\ Live' = Live
        /\ net'.broken = net.broken
        /\ Up(p) = {h} \cup Up(p)' /\ UpSorted(net'.up[p])
        /\ \A m \in Up(p)' : Precedes(h, m) /\ m \in UpMsgs
        /\ \A q \in Live : q # p => net'.up[q] = net.up[q] /\ Up(q)' = Up(q)
        /\ \A q \in Live : /\ net.down[q] \in Seq(DownMsgs)
                           /\ net'.down[q] = net.down[q] \o ms
                           /\ Down(q)' = Down(q) \cup Messages(ms)
        /\ \A q \in Ids : q \notin Live => net'.down[q] = net.down[q]
    BY <1>1, <1>2, <2>1, <2>2, <2>3, HandledQueues DEF h
  <2>5. \A q \in Live : Up(q)' \subseteq Up(q) /\ Down(q)' = Down(q) /\ net'.down[q] = net.down[q]
    BY <2>3, <2>4
  <2>6. \A q \in Live : Heard(q)' = IF q = p THEN 5 ELSE Heard(q)
    BY <1>4, <1>6, <2>1, <2>4, LiveIds DEF Heard
  <2>7. \A q \in Live' : UpInOrder(q)'
    <3>1. ASSUME NEW m \in Up(p)' PROVE UpRank[m.kind] <= 5 /\ Heard(p)' < UpRank[m.kind]
      <4>1. Precedes(h, m) /\ m \in UpMsgs /\ UpRank[m.kind] <= 5
        BY <1>1, <1>2, <2>4, <3>1 DEF Started, UpInOrder
      <4>2. 5 < UpRank[m.kind]
        BY <1>2, <4>1, Ranks DEF Precedes
      <4> QED
        BY <1>2, <2>6, <4>1, <4>2
    <3> QED
      BY <1>1, <1>2, <2>4, <2>6, <3>1, UpStaysInOrder
  <2>8. Kept' = Kept /\ Live' = Live
    BY <2>1, <2>4 DEF Kept
  <2>9. ASSUME NEW q \in Live PROVE UpGrounds(q)'
    <3>1. UpGrounds(q) /\ q \in Ids
      BY <1>1, LiveIds DEF Started
    <3>2. reg'.acks[q] # None => reg'.acks[q] = Kept
      BY <1>6, <2>1, <2>4, <3>1 DEF UpGrounds
    <3> QED
      BY <1>3, <2>1, <2>4, <2>5, <2>8, <3>1, <3>2 DEF UpGrounds, Comes
  <2>10. ASSUME NEW o \in Operators, NEW q \in Live, Holds(o, q) PROVE Part(o, q)'
    <3>1. Part(o, q) /\ q \in Ids
      BY <1>1, <2>10, LiveIds DEF Started
    <3>2. DownInOrder(q)'
      BY <2>1, <2>4, <2>5, <3>1 DEF Part, DownInOrder
    <3>3. InStep(o, q)'
      <4>1. Heard(q)' <= Said[op[o].stage]
        <5>1. CASE q # p
          BY <2>6, <3>1, <5>1 DEF Part, InStep
        <5>2. CASE q = p
          BY <1>2, <2>6, <3>1, <5>2, Ranks DEF Part, InStep
        <5> QED
          BY <5>1, <5>2
      <4> QED
        BY <2>1, <2>4, <2>5, <2>8, <3>1, <4>1 DEF Part, InStep, Told
    <3>4. Received(o, q)'
      BY <2>1, <2>4, <2>5, <3>1 DEF Part, Received
    <3>5. Excluded(o, q)'
      <4>1. \A m \in Up(q) : m.kind = "Complaint" => m \in Up(q)'
        BY <1>2, <2>4
      <4>2. Silenced(q) => Silenced(q)'
        BY <2>1, <2>4, <2>5 DEF Silenced, Comes
      <4> QED
        BY <2>1, <2>4, <2>5, <3>1, <4>1, <4>2 DEF Part, Excluded
    <3> QED
      BY <3>2, <3>3, <3>4, <3>5 DEF Part
  <2>11. \A q \in Ids : reg'.acks[q] # None => q \in Live
    BY <1>6, <2>1, <2>4
  <2>12. Started'
    BY <1>1, <2>1, <2>4, <2>7, <2>9, <2>10, <2>11 DEF Started, Holds
  <2> QED
    BY <1>1, <2>1, <2>4, <2>12
<1>9. CASE given = Live /\ Handled(p, Completed(key), <<MsgOf("CeremonyComplete", key)>>)
  <2>1. PICK r : r = Completed(key)
    OBVIOUS
  <2>2. PICK x : x = MsgOf("CeremonyComplete", key)
    OBVIOUS
  <2> DEFINE ms == <<x>>
  <2>3. x \in DownMsgs /\ x.kind = "CeremonyComplete"
    BY <1>3, <1>4, <2>2, MessageTypes DEF MsgOf
  <2>4. ms \in Seq(DownMsgs) /\ Messages(ms) = {x}
    BY <2>3, ShortQueues
  <2>5. /\ r \in Registry /\ r.conns = reg.conns /\ r.ceremony = "complete"
        /\ r.dealers = reg.dealers /\ r.excluded = reg.excluded \cap reg.dealers
    BY <1>1, <1>3, <1>4, <2>1, CompletedIs
  <2>6. Handled(p, r, ms)
    BY <1>9, <2>1, <2>2
  <2> HIDE DEF ms
  <2>7. /\ reg' = r /\ UNCHANGED <<op, demo, faults>> /\ Live' = Live
        /\ net'.broken = net.broken
        /\ Up(p) = {h} \cup Up(p)' /\ UpSorted(net'.up[p])
        /\ \A m \in Up(p)' : Precedes(h, m) /\ m \in UpMsgs
        /\ \A q \in Live : q # p => net'.up[q] = net.up[q] /\ Up(q)' = Up(q)
        /\ \A q \in Live : /\ net.down[q] \in Seq(DownMsgs)
                           /\ net'.down[q] = net.down[q] \o ms
                           /\ Down(q)' = Down(q) \cup Messages(ms)
        /\ \A q \in Ids : q \notin Live => net'.down[q] = net.down[q]
    BY <1>1, <1>2, <2>4, <2>5, <2>6, HandledQueues DEF h
  <2>8. Kept' = Kept
    BY <2>5, <2>7 DEF Kept
  <2>9. ASSUME NEW o \in Operators
        PROVE  /\ op'[o].stage \in {"exited", "joining", "acking", "steady", "reconnecting"}
               /\ op'[o].stage = "joining" => ~Told(op[o].link, "Welcome")'
               /\ op'[o].stage \in {"acking", "steady", "reconnecting"} => op'[o].key = Kept'
    <3>1. CASE op[o].link \in Live
      <4>1. PICK q \in Live : q = op[o].link
        BY <3>1
      <4>2. Part(o, q) /\ q \in Ids
        BY <1>1, <4>1, LiveIds DEF Started, Holds
      <4>3. 5 <= Said[op[o].stage]
        <5>1. CASE q = p
          BY <1>2, <4>2, <5>1, Ranks DEF Part, InStep
        <5>2. CASE q # p
          <6>1. reg.acks[q] # None
            BY <1>6, <1>9, <4>2, <5>2
          <6> QED
            BY <4>2, <6>1, HeardIs DEF Part, InStep
        <5> QED
          BY <5>1, <5>2
      <4>4. op[o].stage = "acking" /\ op[o].key = Kept
        BY <4>2, <4>3, Ranks DEF Part, InStep
      <4> QED
        BY <2>7, <2>8, <4>4
    <3>2. CASE op[o].link \notin Live
      <4>1. op[o].stage \in {"exited", "joining"}
        BY <1>1, <3>2 DEF Started
      <4>2. ASSUME op[o].stage = "joining" PROVE ~Told(op[o].link, "Welcome")'
        <5>1. op[o].link \in Ids
          BY <4>2, ProcessShape DEF TypeInv, Types, Links
        <5>2. net.down[op[o].link] = <<>> /\ net'.down[op[o].link] = net.down[op[o].link]
          BY <1>1, <2>7, <3>2, <5>1 DEF Started, Holds
        <5>3. Down(op[o].link)' = {}
          BY <2>7, <5>2, ShortQueues DEF Down
        <5> QED
          BY <2>7, <5>3 DEF Told
      <4> QED
        BY <2>7, <4>1, <4>2
    <3> QED
      BY <3>1, <3>2
  <2>10. Complete'
    BY <2>7, <2>9 DEF Complete
  <2> QED
    BY <2>5, <2>7, <2>10
<1>10. CASE Handled(p, fail_ceremony(reg), <<Msg("CeremonyFailed")>>)
  <2>1. "failed" \in Ceremonies
    BY DEF Ceremonies
  <2>2. fail_ceremony(reg).ceremony = "failed"
    BY <1>1, <2>1, EnterIs DEF fail_ceremony
  <2> QED
    BY <1>10, <2>2 DEF Handled
<1> QED
  BY <1>5, <1>7, <1>8, <1>9, <1>10

\* Nobody else holds the connection of a participant.
LEMMA OneHolder ==
  ASSUME Links, NEW o \in Operators, NEW x \in Operators, NEW p \in Live,
         Holds(o, p), Holds(x, p)
  PROVE  x = o
<1>1. p \in Ids /\ reg.conns[p] # None
  BY DEF Live
<1> QED
  BY <1>1 DEF Links

\* Operator o reads the next message of a ceremony and goes on as n.
Reading(o, p, n, ms) ==
    /\ Goes(o, n, ms) /\ n \in Process /\ ms \in Seq(UpMsgs)
    /\ op[o].link = p /\ p # 0 /\ net.down[p] # <<>> /\ n.link = p

\* What a step of an operator does to its queues.
LEMMA GoesQueues ==
  ASSUME TypeInv, Started, NEW o \in Operators, NEW p, NEW n, NEW ms, Reading(o, p, n, ms)
  PROVE  /\ p \in Live /\ p \in Ids /\ Holds(o, p) /\ Part(o, p) /\ UpInOrder(p) /\ UpGrounds(p)
         /\ Incoming(o) \in Down(p) /\ Incoming(o) \in DownMsgs
         /\ UNCHANGED reg /\ Live' = Live /\ Heard(p)' = Heard(p) /\ net'.broken = net.broken
         /\ op'[o] = n /\ \A x \in Operators \ {o} : op'[x] = op[x]
         /\ \A q \in Ids \ {p} : net'.up[q] = net.up[q] /\ net'.down[q] = net.down[q]
         /\ Down(p) = {Incoming(o)} \cup Down(p)' /\ DownSorted(net'.down[p])
         /\ \A m \in Down(p)' : Leads(Incoming(o), m)
         /\ Up(p) \subseteq UpMsgs /\ net.up[p] \in Seq(UpMsgs) /\ ms \in Seq(UpMsgs)
         /\ p \in net.broken => net'.up[p] = net.up[p] /\ Up(p)' = Up(p)
         /\ p \notin net.broken => /\ net'.up[p] = net.up[p] \o ms
                                   /\ Up(p)' = Up(p) \cup Messages(ms)
<1>1. /\ p \in Ids /\ UNCHANGED <<reg, demo, faults>>
      /\ net'.broken = net.broken
      /\ op'[o] = n /\ \A x \in Operators \ {o} : op'[x] = op[x]
      /\ \A q \in Ids \ {p} : net'.up[q] = net.up[q] /\ net'.down[q] = net.down[q]
      /\ net'.down[p] = Tail(net.down[p])
      /\ net'.up[p] = IF p \in net.broken THEN net.up[p] ELSE net.up[p] \o ms
  <2>1. /\ Types /\ op[o].link = p /\ op[o].link # 0 /\ net.down[op[o].link] # <<>>
        /\ n \in Process /\ ms \in Seq(UpMsgs) /\ Goes(o, n, ms)
    BY DEF Reading, TypeInv
  <2> QED
    BY <2>1, GoesIs
<1>2. /\ net.up \in [Ids -> Seq(UpMsgs)] /\ net.down \in [Ids -> Seq(DownMsgs)]
      /\ op \in [Operators -> Process] /\ net.down[p] # <<>> /\ Holds(o, p)
  BY NetShape DEF TypeInv, Types, Reading, Holds
<1>3. p \in Live
  BY <1>1, <1>2 DEF Started
<1>4. Part(o, p) /\ UpInOrder(p) /\ UpGrounds(p)
  BY <1>2, <1>3 DEF Started
<1>6. Live' = Live /\ Heard(p)' = Heard(p)
  BY <1>1 DEF Live, Heard
<1>7. net.down[p] \in Seq(DownMsgs) /\ net.up[p] \in Seq(UpMsgs) /\ ms \in Seq(UpMsgs)
  BY <1>1, <1>2 DEF Reading
<1>8. Incoming(o) = Head(net.down[p])
  BY DEF Incoming, Reading
<1>9. DownSorted(net.down[p])
  BY <1>4 DEF Part, DownInOrder
<1>10. /\ Incoming(o) \in DownMsgs /\ Down(p) = {Incoming(o)} \cup Down(p)'
       /\ DownSorted(net'.down[p]) /\ \A m \in Down(p)' : Leads(Incoming(o), m)
  <2>1. PICK s : s = net.down[p]
    OBVIOUS
  <2>2. /\ Head(s) \in DownMsgs /\ Messages(s) = {Head(s)} \cup Messages(Tail(s))
        /\ DownSorted(Tail(s)) /\ \A m \in Messages(Tail(s)) : Leads(Head(s), m)
    BY <1>2, <1>7, <1>9, <2>1, TailIs
  <2> QED
    BY <1>1, <1>8, <2>1, <2>2 DEF Down
<1>11. Up(p) \subseteq UpMsgs
  BY <1>7 DEF Up, Messages
<1>12. p \in net.broken => net'.up[p] = net.up[p] /\ Up(p)' = Up(p)
  BY <1>1 DEF Up
<1>13. p \notin net.broken => net'.up[p] = net.up[p] \o ms /\ Up(p)' = Up(p) \cup Messages(ms)
  BY <1>1, <1>7, ConcatIs DEF Up
<1> QED
  BY <1>1, <1>2, <1>3, <1>4, <1>6, <1>7, <1>10, <1>11, <1>12, <1>13

\* What the process says next may be said: it is in order, news, and grounded.
MaySay(p, m) ==
    /\ Heard(p) < UpRank[m.kind] /\ UpRank[m.kind] <= 5
    /\ \A a \in Up(p) : Precedes(a, m)
    /\ m.kind \in {"Reveal", "Complaint"} => reg.hashes = Live
    /\ m.kind = "Complaint" => m.of \subseteq reg.dealers
    /\ m.kind = "NoMoreComplaints" => reg.dealers = Live
    /\ m.kind = "CeremonyAck" => reg.done = Live /\ m.of = Kept

\* A step that says what it may say keeps the ceremony in order.
LEMMA GoesStarted ==
  ASSUME TypeInv, Started, NEW o \in Operators, NEW p, NEW n, NEW ms, Reading(o, p, n, ms),
         UpSorted(ms), \A m \in Messages(ms) : MaySay(p, m),
         InStep(o, p)', Received(o, p)', Excluded(o, p)'
  PROVE  Started'
<1>1. /\ p \in Live /\ p \in Ids /\ Holds(o, p) /\ Part(o, p) /\ UpInOrder(p) /\ UpGrounds(p)
      /\ Incoming(o) \in Down(p)
      /\ UNCHANGED reg /\ Live' = Live /\ Heard(p)' = Heard(p) /\ net'.broken = net.broken
      /\ op'[o] = n /\ \A x \in Operators \ {o} : op'[x] = op[x]
      /\ \A q \in Ids \ {p} : net'.up[q] = net.up[q] /\ net'.down[q] = net.down[q]
      /\ Down(p) = {Incoming(o)} \cup Down(p)' /\ DownSorted(net'.down[p])
      /\ net.up[p] \in Seq(UpMsgs) /\ ms \in Seq(UpMsgs)
      /\ p \in net.broken => net'.up[p] = net.up[p] /\ Up(p)' = Up(p)
      /\ p \notin net.broken => /\ net'.up[p] = net.up[p] \o ms
                                /\ Up(p)' = Up(p) \cup Messages(ms)
  BY GoesQueues
<1>2. Kept' = Kept /\ \A q : Heard(q)' = Heard(q)
  BY <1>1 DEF Kept, Heard
<1>3. UpInOrder(p)'
  <2>1. CASE p \in net.broken
    BY <1>1, <2>1 DEF UpInOrder
  <2>2. CASE p \notin net.broken
    <3>1. \A a \in Messages(net.up[p]), b \in Messages(ms) : Precedes(a, b)
      BY DEF MaySay, Up
    <3>2. UpSorted(net'.up[p])
      <4>1. PICK s : s = net.up[p]
        OBVIOUS
      <4>2. s \in Seq(UpMsgs) /\ UpSorted(s) /\ UpSorted(ms) /\ ms \in Seq(UpMsgs)
            /\ \A a \in Messages(s), b \in Messages(ms) : Precedes(a, b)
        BY <1>1, <3>1, <4>1 DEF UpInOrder
      <4>3. UpSorted(s \o ms)
        BY <4>2, ConcatIs
      <4> QED
        BY <1>1, <2>2, <4>1, <4>3
    <3> QED
      BY <1>1, <2>2, <3>2 DEF UpInOrder, MaySay
  <2> QED
    BY <2>1, <2>2
<1>4. UpGrounds(p)'
  <2>1. \A m \in Up(p)' : m \in Up(p) \/ MaySay(p, m)
    BY <1>1
  <2>2. Comes(p, "Reveal")' => reg.hashes = Live
    BY <1>1, <2>1 DEF UpGrounds, Comes, MaySay
  <2>3. Comes(p, "NoMoreComplaints")' => reg.dealers = Live
    BY <1>1, <2>1 DEF UpGrounds, Comes, MaySay
  <2>4. Comes(p, "CeremonyAck")' => reg.done = Live
    BY <1>1, <2>1 DEF UpGrounds, Comes, MaySay
  <2>5. \A m \in Up(p)' :
          /\ m.kind = "Complaint" => m.of \subseteq reg.dealers /\ reg.hashes = Live
          /\ m.kind = "CeremonyAck" => m.of = Kept
    BY <1>1, <2>1 DEF UpGrounds, MaySay
  <2> QED
    BY <1>1, <1>2, <2>2, <2>3, <2>4, <2>5 DEF UpGrounds
<1>5. DownInOrder(p)'
  BY <1>1 DEF Part, DownInOrder
<1>6. ASSUME NEW q \in Live, q # p PROVE UpInOrder(q)' /\ UpGrounds(q)'
  <2>1. q \in Ids /\ UpInOrder(q) /\ UpGrounds(q)
    BY LiveIds DEF Started
  <2>2. net'.up[q] = net.up[q] /\ Up(q)' = Up(q)
    BY <1>1, <1>6, <2>1 DEF Up
  <2> QED
    BY <1>1, <1>2, <2>1, <2>2 DEF UpInOrder, UpGrounds, Comes
<1>7. ASSUME NEW x \in Operators, NEW q \in Live, Holds(x, q), q # p
      PROVE  Part(x, q)'
  <2>1. x # o /\ q \in Ids /\ Part(x, q)
    BY <1>1, <1>7, LiveIds DEF Holds, Started
  <2>2. /\ net'.up[q] = net.up[q] /\ Up(q)' = Up(q) /\ net'.down[q] = net.down[q]
        /\ Down(q)' = Down(q) /\ op'[x] = op[x]
    BY <1>1, <1>7, <2>1 DEF Up, Down
  <2>3. DownInOrder(q)' /\ Received(x, q)'
    BY <1>1, <2>1, <2>2 DEF Part, DownInOrder, Received
  <2>4. InStep(x, q)'
    BY <1>1, <1>2, <2>1, <2>2 DEF Part, InStep, Told
  <2>5. Excluded(x, q)'
    BY <1>1, <2>1, <2>2 DEF Part, Excluded, Silenced, Comes
  <2> QED
    BY <2>3, <2>4, <2>5 DEF Part
<1>8. \A x \in Operators : op'[x].link = op[x].link
  BY <1>1 DEF Reading
<1>9. \A x \in Operators : op'[x].link \notin Live => op'[x].stage \in {"exited", "joining"}
  <2>1. ASSUME NEW x \in Operators, op'[x].link \notin Live
        PROVE  op'[x].stage \in {"exited", "joining"}
    <3>1. x # o /\ op[x].link \notin Live
      BY <1>1, <1>8, <2>1 DEF Holds
    <3> QED
      BY <1>1, <3>1 DEF Started
  <2> QED
    BY <2>1
<1>10. ASSUME NEW x \in Operators, NEW q \in Ids, Holds(x, q)', q \notin Live
       PROVE  net'.down[q] = <<>>
  <2>1. Holds(x, q) /\ q # p
    BY <1>1, <1>8, <1>10 DEF Holds
  <2> QED
    BY <1>1, <1>10, <2>1 DEF Started
<1>11. ASSUME NEW x \in Operators, NEW q \in Live, Holds(x, q)' PROVE Part(x, q)'
  <2>1. Holds(x, q)
    BY <1>8, <1>11 DEF Holds
  <2>2. CASE q = p
    <3>1. x = o
      BY <1>1, <2>1, <2>2, OneHolder DEF TypeInv
    <3> QED
      BY <1>5, <2>2, <3>1 DEF Part
  <2>3. CASE q # p
    BY <1>7, <2>1, <2>3
  <2> QED
    BY <2>2, <2>3
<1> QED
  BY <1>1, <1>3, <1>4, <1>6, <1>9, <1>10, <1>11 DEF Started

\* A participant reads only what the ceremony's part it is in has for it.
LEMMA TakesIs ==
  ASSUME Types, Started, NEW o \in Operators, op[o].link # 0, net.down[op[o].link] # <<>>
  PROVE  /\ op[o].link \in Live /\ op[o] \in Process /\ Part(o, op[o].link)
         /\ Incoming(o) \in Down(op[o].link) /\ Incoming(o) \in DownMsgs
         /\ Incoming(o).kind \in {"Welcome", "AllCommitmentsReceived", "RevealBroadcast",
                                  "ComplaintBroadcast", "ComplaintWindowClosed"}
         /\ op[o].stage \in {"joining", "committing", "collecting", "closing", "acking"}
<1>1. PICK p : p = op[o].link
  OBVIOUS
<1>2. p \in Ids /\ op[o] \in Process /\ Incoming(o) \in DownMsgs
  BY <1>1, IncomingIs, ProcessShape
<1>3. p \in Live
  BY <1>1, <1>2 DEF Started, Holds
<1>4. Part(o, p)
  BY <1>1, <1>3 DEF Started, Holds
<1>5. PICK q : q = net.down[p]
  OBVIOUS
<1>6. q \in Seq(DownMsgs) /\ q # <<>>
  BY <1>1, <1>2, <1>5, NetShape DEF Types
<1>7. Head(q) \in Messages(q)
  BY <1>6, TailIs
<1>8. Incoming(o) \in Down(p)
  BY <1>1, <1>5, <1>7 DEF Incoming, Down
<1> QED
  BY <1>1, <1>2, <1>3, <1>4, <1>8 DEF Part, DownInOrder, InStep

\* What a participant knows of the dealers stays what the server knows when it
\* reads something else, and does not say that it has no more complaints.
LEMMA SameKnowledge ==
  ASSUME TypeInv, Started, NEW o \in Operators, NEW p, NEW n, NEW ms, Reading(o, p, n, ms),
         n.received = op[o].received, n.excluded = op[o].excluded,
         Incoming(o).kind # "RevealBroadcast",
         n.stage # "acking" => op[o].stage # "acking" /\ Incoming(o).kind # "ComplaintBroadcast",
         \A m \in Messages(ms) : m.kind # "NoMoreComplaints"
  PROVE  Received(o, p)' /\ Excluded(o, p)'
<1>1. /\ Part(o, p) /\ UNCHANGED reg /\ net'.broken = net.broken /\ op'[o] = n
      /\ Down(p) = {Incoming(o)} \cup Down(p)'
      /\ p \in net.broken => Up(p)' = Up(p)
      /\ p \notin net.broken => Up(p)' = Up(p) \cup Messages(ms)
  BY GoesQueues
<1>2. Received(o, p)'
  BY <1>1 DEF Part, Received
<1>3. Up(p) \subseteq Up(p)' /\ (Silenced(p) => Silenced(p)')
  BY <1>1 DEF Silenced, Comes
<1>4. \A q \in n.excluded : \/ q \in reg.excluded \/ Silenced(p)'
                            \/ \E m \in Up(p)' : m.kind = "Complaint" /\ q \in m.of
  BY <1>1, <1>3 DEF Part, Excluded
<1>5. n.stage # "acking" => \A q \in reg.excluded :
        \/ q \in n.excluded
        \/ \E m \in Down(p)' :
            \/ m.kind = "RevealBroadcast" /\ m.from = q /\ ~m.matches
            \/ m.kind = "ComplaintBroadcast" /\ q \in m.of
  BY <1>1 DEF Part, Excluded
<1> QED
  BY <1>1, <1>2, <1>4, <1>5 DEF Excluded

\* Welcomed, a process commits itself to its deal.
LEMMA OnWelcomeStep ==
  ASSUME TypeInv, CeremonyInv, reg.ceremony = "started", NEW o \in Operators, OnWelcome(o)
  PROVE  Started'
<1>1. PICK p : p = op[o].link
  OBVIOUS
<1>2. PICK m : m = Incoming(o)
  OBVIOUS
<1>3. PICK x : x = Msg("CommitmentHash")
  OBVIOUS
<1> DEFINE n == [op[o] EXCEPT !.stage = "committing", !.id = m.id, !.mates = m.of]
           ms == <<x>>
<1>4. Types /\ Started /\ Unwelcomed
  BY DEF TypeInv, CeremonyInv
<1>5. /\ op[o].stage = "joining" /\ p # 0 /\ net.down[p] # <<>> /\ m.kind = "Welcome"
      /\ Goes(o, n, ms)
  BY <1>1, <1>2, <1>3 DEF OnWelcome, Takes
<1>6. op[o] \in Process /\ m \in DownMsgs
  BY <1>1, <1>2, <1>4, <1>5, TakesIs
<1>7. m.id \in Ids /\ m.of \in SUBSET Ids
  BY <1>5, <1>6, DownMsgIs
<1>8. /\ n \in Process /\ n.link = p /\ n.stage = "committing" /\ n.id = m.id
      /\ n.mates = m.of /\ n.received = op[o].received /\ n.excluded = op[o].excluded
  BY <1>1, <1>6, <1>7, StagesAre DEF Process
<1>9. x \in UpMsgs /\ x.kind = "CommitmentHash"
  BY <1>3, MessageTypes DEF Msg
<1>10. ms \in Seq(UpMsgs) /\ Messages(ms) = {x} /\ UpSorted(ms)
  BY <1>9, ShortQueues
<1> HIDE DEF n, ms
<1>11. Reading(o, p, n, ms)
  BY <1>1, <1>5, <1>8, <1>10 DEF Reading
<1>12. /\ p \in Live /\ Part(o, p) /\ UpInOrder(p) /\ m \in Down(p)
       /\ UNCHANGED reg /\ Live' = Live /\ Heard(p)' = Heard(p) /\ op'[o] = n
       /\ p \in net.broken => Up(p)' = Up(p)
       /\ p \notin net.broken => Up(p)' = Up(p) \cup Messages(ms)
  BY <1>2, <1>4, <1>11, GoesQueues
<1>13. Heard(p) = 0 /\ Up(p) = {} /\ m.id = p /\ m.of = Live
  <2>1. Heard(p) <= 0 /\ \A a \in Up(p) : UpRank[a.kind] <= 0 /\ Heard(p) < UpRank[a.kind]
    BY <1>5, <1>12, Ranks DEF Part, InStep, UpInOrder
  <2>2. Heard(p) \in 0 .. 5
    BY HeardIs
  <2>3. Up(p) = {}
    <3>1. Up(p) \subseteq UpMsgs
      BY <1>4, <1>11, GoesQueues
    <3>2. \A a \in Up(p) : UpRank[a.kind] \in 1 .. 6
      BY <3>1, Kinds
    <3> QED
      BY <2>1, <3>2
  <2> QED
    BY <1>5, <1>12, <2>1, <2>2, <2>3 DEF Part, DownInOrder
<1>14. reg.hashes # Live
  BY <1>12, <1>13, HeardIs
<1>15. MaySay(p, x)
  BY <1>9, <1>13, Ranks DEF MaySay
<1>16. InStep(o, p)'
  <2>1. \A a \in Up(p)' : UpRank[a.kind] <= Said["committing"]
    BY <1>9, <1>10, <1>12, <1>13, Ranks
  <2>2. Heard(p)' <= Said["committing"]
    BY <1>12, <1>13, Ranks
  <2> QED
    BY <1>8, <1>12, <1>13, <1>14, <2>1, <2>2 DEF InStep
<1>17. Received(o, p)' /\ Excluded(o, p)'
  BY <1>2, <1>4, <1>5, <1>8, <1>9, <1>10, <1>11, SameKnowledge
<1> QED
  BY <1>4, <1>10, <1>11, <1>15, <1>16, <1>17, GoesStarted

\* It deals once every commitment is known.
LEMMA OnAllCommitmentsReceivedStep ==
  ASSUME TypeInv, CeremonyInv, reg.ceremony = "started", NEW o \in Operators,
         Takes(o, "committing", "AllCommitmentsReceived"),
         NEW d \in Deals(o, op[o].mates \ {op[o].id}),
         Goes(o, [op[o] EXCEPT !.stage = "collecting"],
              <<[kind |-> "Reveal", from |-> 0, matches |-> d.matches, bad |-> d.bad]>>)
  PROVE  Started'
<1>1. PICK p : p = op[o].link
  OBVIOUS
<1>2. PICK m : m = Incoming(o)
  OBVIOUS
<1>3. PICK x : x = [kind |-> "Reveal", from |-> 0, matches |-> d.matches, bad |-> d.bad]
  OBVIOUS
<1> DEFINE n == [op[o] EXCEPT !.stage = "collecting"]
           ms == <<x>>
<1>4. Types /\ Started
  BY DEF TypeInv, CeremonyInv
<1>5. /\ op[o].stage = "committing" /\ p # 0 /\ net.down[p] # <<>>
      /\ m.kind = "AllCommitmentsReceived" /\ Goes(o, n, ms)
  BY <1>1, <1>2, <1>3 DEF Takes
<1>6. op[o] \in Process
  BY <1>1, <1>4, <1>5, TakesIs
<1>7. /\ n \in Process /\ n.link = p /\ n.stage = "collecting" /\ n.id = op[o].id
      /\ n.mates = op[o].mates /\ n.received = op[o].received /\ n.excluded = op[o].excluded
  BY <1>1, <1>6, StagesAre DEF Process
<1>8. d.matches \in BOOLEAN /\ d.bad \in SUBSET Ids
  <2>1. PICK S : S = op[o].mates \ {op[o].id}
    OBVIOUS
  <2>2. S \in SUBSET Ids /\ d \in Deals(o, S)
    BY <1>6, <2>1, ProcessShape
  <2> QED
    BY <2>2, DealIs
<1>9. x \in UpMsgs /\ x.kind = "Reveal"
  BY <1>3, <1>8, MessageTypes
<1>10. ms \in Seq(UpMsgs) /\ Messages(ms) = {x} /\ UpSorted(ms)
  BY <1>9, ShortQueues
<1> HIDE DEF n, ms
<1>11. Reading(o, p, n, ms)
  BY <1>1, <1>5, <1>7, <1>10 DEF Reading
<1>12. /\ p \in Live /\ Part(o, p) /\ UpInOrder(p) /\ m \in Down(p) /\ Up(p) \subseteq UpMsgs
       /\ UNCHANGED reg /\ Live' = Live /\ Heard(p)' = Heard(p) /\ op'[o] = n
       /\ p \in net.broken => Up(p)' = Up(p)
       /\ p \notin net.broken => Up(p)' = Up(p) \cup Messages(ms)
  BY <1>2, <1>4, <1>11, GoesQueues
<1>13. reg.hashes = Live
  BY <1>5, <1>12 DEF Part, DownInOrder
<1>14. Heard(p) <= 1 /\ \A a \in Up(p) : UpRank[a.kind] <= 1
  BY <1>5, <1>12, Ranks DEF Part, InStep
<1>15. Heard(p) \in 0 .. 5 /\ \A a \in Up(p) : UpRank[a.kind] \in 1 .. 6
  BY <1>12, HeardIs, Kinds
<1>16. MaySay(p, x)
  BY <1>9, <1>13, <1>14, <1>15, Ranks DEF MaySay, Precedes
<1>17. InStep(o, p)'
  <2>1. \A a \in Up(p)' : UpRank[a.kind] <= Said["collecting"]
    <3>1. \A a \in Up(p)' : a \in Up(p) \/ a = x
      BY <1>10, <1>12
    <3> QED
      BY <1>9, <1>14, <1>15, <3>1, Ranks
  <2>2. Heard(p)' <= Said["collecting"]
    BY <1>12, <1>14, <1>15, Ranks
  <2> QED
    BY <1>5, <1>7, <1>12, <1>13, <2>1, <2>2 DEF InStep, Part
<1>18. Received(o, p)' /\ Excluded(o, p)'
  BY <1>2, <1>4, <1>5, <1>7, <1>9, <1>10, <1>11, SameKnowledge
<1> QED
  BY <1>4, <1>10, <1>11, <1>16, <1>17, <1>18, GoesStarted

\* It takes up a reveal: the server has it, and has excluded its dealer if the
\* process does so silently; if with a complaint, that is on its way or lost.
LEMMA OnRevealBroadcastStep ==
  ASSUME TypeInv, CeremonyInv, reg.ceremony = "started", NEW o \in Operators,
         OnRevealBroadcast(o)
  PROVE  Started'
<1>1. PICK p : p = op[o].link
  OBVIOUS
<1>2. PICK m : m = Incoming(o)
  OBVIOUS
<1>3. PICK x, y : x = MsgOf("Complaint", {m.from}) /\ y = Msg("NoMoreComplaints")
  OBVIOUS
<1>4. PICK fails : fails <=> m.matches /\ op[o].id \in m.bad
  OBVIOUS
<1>5. PICK last : last <=> Cardinality(op[o].received \cup {m.from}) = Cardinality(op[o].mates)
  OBVIOUS
<1> DEFINE n == [op[o] EXCEPT !.received = @ \cup {m.from},
                              !.excluded = IF fails \/ ~m.matches
                                           THEN @ \cup {m.from} ELSE @,
                              !.stage = IF last THEN "closing" ELSE @]
           ms == (IF fails THEN <<x>> ELSE <<>>) \o (IF last THEN <<y>> ELSE <<>>)
<1>6. Types /\ Started
  BY DEF TypeInv, CeremonyInv
<1>7. /\ op[o].stage = "collecting" /\ p # 0 /\ net.down[p] # <<>>
      /\ m.kind = "RevealBroadcast"
  BY <1>1, <1>2 DEF OnRevealBroadcast, Takes
<1>8. op[o] \in Process /\ m \in DownMsgs /\ Part(o, p) /\ m \in Down(p) /\ p \in Live
  BY <1>1, <1>2, <1>6, <1>7, TakesIs
<1>9. m.from \in Ids /\ m.matches \in BOOLEAN
  BY <1>7, <1>8, DownMsgIs
<1>10. m.from \notin op[o].received /\ m.from \in reg.dealers
       /\ (m.matches \/ m.from \in reg.excluded)
       /\ op[o].received \subseteq reg.dealers /\ reg.dealers \subseteq Live
  BY <1>6, <1>7, <1>8 DEF Part, Received, DownInOrder, Started
<1>11. Goes(o, n, ms)
  BY <1>2, <1>3, <1>4, <1>5, <1>10 DEF OnRevealBroadcast
<1>12. /\ n \in Process /\ n.link = p /\ n.id = op[o].id /\ n.mates = op[o].mates
       /\ n.received = op[o].received \cup {m.from}
       /\ n.excluded \subseteq op[o].excluded \cup {m.from}
       /\ op[o].excluded \subseteq n.excluded
       /\ m.from \in n.excluded => fails \/ ~m.matches \/ m.from \in op[o].excluded
       /\ ~m.matches => m.from \in n.excluded
       /\ n.stage = IF last THEN "closing" ELSE "collecting"
  BY <1>1, <1>7, <1>8, <1>9, StagesAre DEF Process
<1>13. x \in UpMsgs /\ y \in UpMsgs /\ x.kind = "Complaint" /\ x.of = {m.from}
       /\ y.kind = "NoMoreComplaints"
  <2>1. {m.from} \in SUBSET Ids
    BY <1>9
  <2> QED
    BY <1>3, <2>1, MessageTypes DEF Msg, MsgOf
<1>14. /\ ms \in Seq(UpMsgs) /\ UpSorted(ms)
       /\ Messages(ms) = (IF fails THEN {x} ELSE {}) \cup (IF last THEN {y} ELSE {})
  <2>1. PICK u : u = IF fails THEN <<x>> ELSE <<>>
    OBVIOUS
  <2>2. PICK v : v = IF last THEN <<y>> ELSE <<>>
    OBVIOUS
  <2>3. <<x>> \in Seq(UpMsgs) /\ <<y>> \in Seq(UpMsgs) /\ <<>> \in Seq(UpMsgs)
    BY <1>13
  <2>4. u \in Seq(UpMsgs) /\ UpSorted(u) /\ Messages(u) = IF fails THEN {x} ELSE {}
    BY <2>1, <2>3, ShortQueues
  <2>5. v \in Seq(UpMsgs) /\ UpSorted(v) /\ Messages(v) = IF last THEN {y} ELSE {}
    BY <2>2, <2>3, ShortQueues
  <2>6. \A a \in Messages(u), b \in Messages(v) : Precedes(a, b)
    BY <1>13, <2>4, <2>5, Ranks DEF Precedes
  <2>7. /\ u \o v \in Seq(UpMsgs) /\ UpSorted(u \o v)
        /\ Messages(u \o v) = Messages(u) \cup Messages(v)
    BY <2>4, <2>5, <2>6, ConcatIs
  <2> QED
    BY <2>1, <2>2, <2>4, <2>5, <2>7
<1> HIDE DEF n, ms
<1>15. Reading(o, p, n, ms)
  BY <1>1, <1>7, <1>11, <1>12, <1>14 DEF Reading
<1>16. /\ UpInOrder(p) /\ Up(p) \subseteq UpMsgs
       /\ UNCHANGED reg /\ Live' = Live /\ Heard(p)' = Heard(p) /\ op'[o] = n
       /\ net'.broken = net.broken
       /\ Down(p) = {m} \cup Down(p)' /\ \A a \in Down(p)' : Leads(m, a)
       /\ p \in net.broken => Up(p)' = Up(p)
       /\ p \notin net.broken => Up(p)' = Up(p) \cup Messages(ms)
  BY <1>2, <1>6, <1>15, GoesQueues
<1>17. reg.hashes = Live /\ op[o].id = p /\ op[o].mates = Live
  BY <1>7, <1>8 DEF Part, InStep
<1>18. last <=> op[o].received \cup {m.from} = Live
  <2>1. op[o].received \cup {m.from} \subseteq Live
    BY <1>10
  <2> QED
    BY <1>5, <1>17, <2>1, FullRoster
<1>19. last => reg.dealers = Live
  BY <1>10, <1>18
<1>20. /\ Heard(p) < 3 /\ Heard(p) \in 0 .. 5 /\ p \notin reg.done
       /\ \A a \in Up(p) : UpRank[a.kind] \in 1 .. 3
       /\ \A a \in Up(p) : UpRank[a.kind] = 3 => a.kind = "Complaint"
  <2>1. Heard(p) <= 3 /\ \A a \in Up(p) : UpRank[a.kind] <= 3
    BY <1>7, <1>8, Ranks DEF Part, InStep
  <2>2. Heard(p) \in 0 .. 5 /\ Heard(p) # 3
    BY HeardIs DEF Heard
  <2>3. \A a \in Up(p) : UpRank[a.kind] \in 1 .. 6
    BY <1>16, Kinds
  <2>4. \A a \in Up(p) : UpRank[a.kind] = 3 => a.kind = "Complaint"
    <3>1. \A a \in Up(p) : a.kind \in
            {"CommitmentHash", "Reveal", "Complaint", "NoMoreComplaints", "CeremonyAck",
             "PartialDecryptResponse", "Round1Response", "Round2Response"}
      BY <1>16, Kinds
    <3> QED
      BY <3>1, Ranks
  <2>5. p \notin reg.done
    BY <2>1, <2>2, HeardIs
  <2> QED
    BY <2>1, <2>2, <2>3, <2>4, <2>5
<1>21. MaySay(p, x)
  BY <1>10, <1>13, <1>17, <1>20, Ranks DEF MaySay, Precedes
<1>22. last => MaySay(p, y)
  BY <1>13, <1>19, <1>20, Ranks DEF MaySay, Precedes
<1>23. InStep(o, p)'
  <2>1. \A a \in Up(p)' : UpRank[a.kind] <= Said[n.stage]
    <3>1. CASE last
      <4>1. \A a \in Up(p)' : a \in Up(p) \/ a = x \/ a = y
        BY <1>14, <1>16
      <4> QED
        BY <1>12, <1>13, <1>20, <3>1, <4>1, Ranks
    <3>2. CASE ~last
      <4>1. \A a \in Up(p)' : a \in Up(p) \/ a = x
        BY <1>14, <1>16, <3>2
      <4> QED
        BY <1>12, <1>13, <1>20, <3>2, <4>1, Ranks
    <3> QED
      BY <3>1, <3>2
  <2>2. Heard(p)' <= Said[n.stage]
    BY <1>12, <1>16, <1>20, Ranks
  <2>3. n.stage \in {"collecting", "closing"} /\ (n.stage = "closing" => n.received = Live)
    BY <1>12, <1>18
  <2> QED
    BY <1>12, <1>16, <1>17, <2>1, <2>2, <2>3 DEF InStep
<1>24. Received(o, p)'
  <2>1. \A q \in reg.dealers : q \in n.received \/
           \E a \in Down(p)' : a.kind = "RevealBroadcast" /\ a.from = q
    BY <1>8, <1>12, <1>16 DEF Part, Received
  <2>2. \A a \in Down(p)' : a.kind = "RevealBroadcast" => a.from \notin n.received
    BY <1>7, <1>8, <1>12, <1>16 DEF Part, Received, Leads
  <2> QED
    BY <1>10, <1>12, <1>16, <2>1, <2>2 DEF Received
<1>25. Excluded(o, p)'
  <2>1. Silenced(p)' <=> Silenced(p) \/ (p \in net.broken)
    BY <1>16, <1>20, Ranks DEF Silenced, Comes
  <2>2. ASSUME NEW q \in n.excluded
        PROVE  \/ q \in reg.excluded \/ Silenced(p)'
               \/ \E a \in Up(p)' : a.kind = "Complaint" /\ q \in a.of
    <3>1. CASE q \in op[o].excluded
      <4>1. Up(p) \subseteq Up(p)'
        BY <1>16
      <4> QED
        BY <1>8, <2>1, <3>1, <4>1 DEF Part, Excluded
    <3>2. CASE q \notin op[o].excluded
      <4>1. q = m.from /\ (fails \/ ~m.matches)
        BY <1>12, <2>2, <3>2
      <4>2. CASE ~m.matches
        BY <1>10, <4>1, <4>2
      <4>3. CASE fails
        <5>1. p \notin net.broken => x \in Up(p)'
          BY <1>14, <1>16, <4>3
        <5> QED
          BY <1>13, <2>1, <4>1, <5>1
      <4> QED
        BY <4>1, <4>2, <4>3
    <3> QED
      BY <3>1, <3>2
  <2>3. \A q \in reg.excluded :
          \/ q \in n.excluded
          \/ \E a \in Down(p)' :
              \/ a.kind = "RevealBroadcast" /\ a.from = q /\ ~a.matches
              \/ a.kind = "ComplaintBroadcast" /\ q \in a.of
    BY <1>7, <1>8, <1>12, <1>16 DEF Part, Excluded
  <2> QED
    BY <1>16, <2>2, <2>3 DEF Excluded
<1>26. \A a \in Messages(ms) : MaySay(p, a)
  BY <1>14, <1>21, <1>22
<1> QED
  BY <1>6, <1>14, <1>15, <1>23, <1>24, <1>25, <1>26, GoesStarted

\* It takes up a complaint that the server upheld.
LEMMA OnComplaintBroadcastStep ==
  ASSUME TypeInv, CeremonyInv, reg.ceremony = "started", NEW o \in Operators,
         OnComplaintBroadcast(o)
  PROVE  Started'
<1>1. PICK p : p = op[o].link
  OBVIOUS
<1>2. PICK m : m = Incoming(o)
  OBVIOUS
<1> DEFINE n == [op[o] EXCEPT !.excluded = @ \cup m.of]
           ms == <<>>
<1>3. Types /\ Started
  BY DEF TypeInv, CeremonyInv
<1>4. /\ op[o].stage \in {"collecting", "closing"} /\ p # 0 /\ net.down[p] # <<>>
      /\ m.kind = "ComplaintBroadcast" /\ Goes(o, n, ms)
  BY <1>1, <1>2 DEF OnComplaintBroadcast, Takes
<1>5. op[o] \in Process /\ m \in DownMsgs /\ Part(o, p) /\ m \in Down(p) /\ p \in Live
  BY <1>1, <1>2, <1>3, <1>4, TakesIs
<1>6. m.of \in SUBSET Ids
  BY <1>4, <1>5, DownMsgIs
<1>7. /\ n \in Process /\ n.link = p /\ n.id = op[o].id /\ n.mates = op[o].mates
      /\ n.received = op[o].received /\ n.excluded = op[o].excluded \cup m.of
      /\ n.stage = op[o].stage
  BY <1>1, <1>5, <1>6 DEF Process
<1>8. ms \in Seq(UpMsgs) /\ Messages(ms) = {} /\ UpSorted(ms)
  BY ShortQueues
<1> HIDE DEF n, ms
<1>9. Reading(o, p, n, ms)
  BY <1>1, <1>4, <1>7, <1>8 DEF Reading
<1>10. /\ UNCHANGED reg /\ Live' = Live /\ Heard(p)' = Heard(p) /\ op'[o] = n
       /\ net'.broken = net.broken /\ Down(p) = {m} \cup Down(p)' /\ Up(p)' = Up(p)
  <2>1. /\ UNCHANGED reg /\ Live' = Live /\ Heard(p)' = Heard(p) /\ op'[o] = n
        /\ net'.broken = net.broken /\ Down(p) = {m} \cup Down(p)'
        /\ p \in net.broken => Up(p)' = Up(p)
        /\ p \notin net.broken => Up(p)' = Up(p) \cup Messages(ms)
    BY <1>2, <1>3, <1>9, GoesQueues
  <2> QED
    BY <1>8, <2>1
<1>11. InStep(o, p)'
  BY <1>4, <1>5, <1>7, <1>10 DEF Part, InStep, Told
<1>12. Received(o, p)'
  BY <1>4, <1>5, <1>7, <1>10 DEF Part, Received
<1>13. Excluded(o, p)'
  <2>1. m.of \subseteq reg.excluded
    BY <1>4, <1>5 DEF Part, DownInOrder
  <2>2. Silenced(p)' <=> Silenced(p)
    BY <1>10 DEF Silenced, Comes
  <2>3. \A q \in n.excluded : \/ q \in reg.excluded \/ Silenced(p)'
                              \/ \E a \in Up(p)' : a.kind = "Complaint" /\ q \in a.of
    BY <1>5, <1>7, <1>10, <2>1, <2>2 DEF Part, Excluded
  <2>4. \A q \in reg.excluded :
          \/ q \in n.excluded
          \/ \E a \in Down(p)' :
              \/ a.kind = "RevealBroadcast" /\ a.from = q /\ ~a.matches
              \/ a.kind = "ComplaintBroadcast" /\ q \in a.of
    BY <1>4, <1>5, <1>7, <1>10 DEF Part, Excluded
  <2> QED
    BY <1>10, <2>3, <2>4 DEF Excluded
<1> QED
  BY <1>3, <1>8, <1>9, <1>11, <1>12, <1>13, GoesStarted

\* When it sums its shares it has received what the server has, and excluded
\* whom the server has: nothing that would say otherwise is on its way.
LEMMA OnComplaintWindowClosedStep ==
  ASSUME TypeInv, CeremonyInv, reg.ceremony = "started", NEW o \in Operators,
         OnComplaintWindowClosed(o)
  PROVE  Started'
<1>1. PICK p : p = op[o].link
  OBVIOUS
<1>2. PICK m : m = Incoming(o)
  OBVIOUS
<1>3. PICK key : key = op[o].received \ op[o].excluded
  OBVIOUS
<1>4. PICK x : x = MsgOf("CeremonyAck", key)
  OBVIOUS
<1> DEFINE n == [op[o] EXCEPT !.stage = "acking", !.key = key]
           ms == <<x>>
<1>5. Types /\ Started
  BY DEF TypeInv, CeremonyInv
<1>6. /\ op[o].stage = "closing" /\ p # 0 /\ net.down[p] # <<>>
      /\ m.kind = "ComplaintWindowClosed" /\ Goes(o, n, ms)
  BY <1>1, <1>2, <1>3, <1>4 DEF OnComplaintWindowClosed, Takes
<1>7. op[o] \in Process /\ Part(o, p) /\ m \in Down(p) /\ p \in Live
  BY <1>1, <1>2, <1>5, <1>6, TakesIs
<1>8. key \in SUBSET Ids
  BY <1>3, <1>7, ProcessShape
<1>9. /\ n \in Process /\ n.link = p /\ n.id = op[o].id /\ n.mates = op[o].mates
      /\ n.received = op[o].received /\ n.excluded = op[o].excluded
      /\ n.stage = "acking" /\ n.key = key
  BY <1>1, <1>7, <1>8, StagesAre DEF Process
<1>10. x \in UpMsgs /\ x.kind = "CeremonyAck" /\ x.of = key
  BY <1>4, <1>8, MessageTypes DEF MsgOf
<1>11. ms \in Seq(UpMsgs) /\ Messages(ms) = {x} /\ UpSorted(ms)
  BY <1>10, ShortQueues
<1> HIDE DEF n, ms
<1>12. Reading(o, p, n, ms)
  BY <1>1, <1>6, <1>9, <1>11 DEF Reading
<1>13. /\ UpInOrder(p) /\ Up(p) \subseteq UpMsgs
       /\ UNCHANGED reg /\ Live' = Live /\ Heard(p)' = Heard(p) /\ op'[o] = n
       /\ Down(p) = {m} \cup Down(p)' /\ \A a \in Down(p)' : Leads(m, a)
       /\ p \in net.broken => Up(p)' = Up(p)
       /\ p \notin net.broken => Up(p)' = Up(p) \cup Messages(ms)
  BY <1>2, <1>5, <1>12, GoesQueues
<1>14. reg.done = Live /\ reg.hashes = Live /\ reg.dealers = Live /\ op[o].received = Live
  <2>1. reg.done = Live
    BY <1>6, <1>7 DEF Part, DownInOrder
  <2>2. reg.hashes = Live /\ reg.dealers = Live
    BY <1>5, <1>7, <2>1, Progress
  <2> QED
    BY <1>6, <1>7, <2>1, <2>2 DEF Part, InStep
<1>15. Heard(p) = 4 /\ Up(p) = {}
  <2>1. Heard(p) <= 4 /\ \A a \in Up(p) : UpRank[a.kind] <= 4 /\ Heard(p) < UpRank[a.kind]
    BY <1>6, <1>7, <1>13, Ranks DEF Part, InStep, UpInOrder
  <2>2. Heard(p) \in 0 .. 5 /\ 4 <= Heard(p)
    BY <1>7, <1>14, HeardIs
  <2>3. \A a \in Up(p) : UpRank[a.kind] \in 1 .. 6
    BY <1>13, Kinds
  <2> QED
    BY <2>1, <2>2, <2>3
<1>16. op[o].excluded \subseteq reg.excluded
  BY <1>7, <1>14, <1>15 DEF Part, Excluded, Silenced
<1>17. reg.excluded \subseteq op[o].excluded
  <2>1. \A a \in Down(p)' : 4 <= DownRank[a.kind]
    BY <1>6, <1>13, Ranks DEF Leads
  <2>2. \A a \in Down(p) : a.kind # "RevealBroadcast" /\ a.kind # "ComplaintBroadcast"
    BY <1>6, <1>13, <2>1, Ranks
  <2> QED
    BY <1>6, <1>7, <2>2 DEF Part, Excluded
<1>18. key = Kept
  BY <1>3, <1>14, <1>16, <1>17 DEF Kept
<1>19. MaySay(p, x)
  BY <1>10, <1>14, <1>15, <1>18, Ranks DEF MaySay
<1>20. Kept' = Kept
  BY <1>13 DEF Kept
<1>21. InStep(o, p)'
  <2>1. \A a \in Up(p)' : a = x
    BY <1>11, <1>13, <1>15
  <2>2. \A a \in Up(p)' : UpRank[a.kind] <= Said["acking"]
    BY <1>10, <2>1, Ranks
  <2>3. Heard(p)' <= Said["acking"]
    BY <1>13, <1>15, Ranks
  <2> QED
    BY <1>6, <1>7, <1>9, <1>13, <1>14, <1>18, <1>20, <2>2, <2>3 DEF Part, InStep
<1>22. Received(o, p)' /\ Excluded(o, p)'
  <2>1. m.kind # "RevealBroadcast" /\ x.kind # "NoMoreComplaints"
    BY <1>6, <1>10
  <2> QED
    BY <1>2, <1>5, <1>9, <1>11, <1>12, <2>1, SameKnowledge
<1> QED
  BY <1>5, <1>11, <1>12, <1>19, <1>21, <1>22, GoesStarted

\* What it skips it does not need.
LEMMA SkipStep ==
  ASSUME TypeInv, CeremonyInv, reg.ceremony = "started", NEW o \in Operators, Skip(o)
  PROVE  Started'
<1>1. PICK p : p = op[o].link
  OBVIOUS
<1>2. PICK m : m = Incoming(o)
  OBVIOUS
<1>3. PICK n : n = op[o]
  OBVIOUS
<1> DEFINE ms == <<>>
<1>4. Types /\ Started
  BY DEF TypeInv, CeremonyInv
<1>5. /\ p # 0 /\ net.down[p] # <<>> /\ Goes(o, n, ms) /\ m.kind \notin Heeds[n.stage]
  BY <1>1, <1>2, <1>3 DEF Skip
<1>6. /\ n \in Process /\ Part(o, p) /\ m \in Down(p) /\ p \in Live /\ n.link = p
      /\ m.kind \in {"Welcome", "AllCommitmentsReceived", "RevealBroadcast",
                     "ComplaintBroadcast", "ComplaintWindowClosed"}
      /\ n.stage \in {"joining", "committing", "collecting", "closing", "acking"}
  BY <1>1, <1>2, <1>3, <1>4, <1>5, TakesIs
<1>7. ms \in Seq(UpMsgs) /\ Messages(ms) = {} /\ UpSorted(ms)
  BY ShortQueues
<1> HIDE DEF ms
<1>8. Reading(o, p, n, ms)
  BY <1>1, <1>5, <1>6, <1>7 DEF Reading
<1>9. /\ UNCHANGED reg /\ Live' = Live /\ Heard(p)' = Heard(p) /\ op'[o] = op[o]
      /\ Down(p) = {m} \cup Down(p)' /\ \A a \in Down(p)' : Leads(m, a)
      /\ Up(p)' = Up(p)
  <2>1. /\ UNCHANGED reg /\ Live' = Live /\ Heard(p)' = Heard(p) /\ op'[o] = n
        /\ Down(p) = {m} \cup Down(p)' /\ \A a \in Down(p)' : Leads(m, a)
        /\ p \in net.broken => Up(p)' = Up(p)
        /\ p \notin net.broken => Up(p)' = Up(p) \cup Messages(ms)
    BY <1>2, <1>4, <1>8, GoesQueues
  <2> QED
    BY <1>3, <1>7, <2>1
<1>10. /\ n.stage = "joining" => m.kind # "Welcome"
       /\ n.stage = "committing" => m.kind # "AllCommitmentsReceived"
       /\ n.stage = "collecting" => m.kind \notin {"RevealBroadcast", "ComplaintBroadcast"}
       /\ n.stage = "closing" => m.kind # "ComplaintBroadcast"
  BY <1>5 DEF Heeds
<1>11. n.stage = "joining" => m.kind \notin {"RevealBroadcast", "ComplaintBroadcast"}
  <2> SUFFICES ASSUME n.stage = "joining", m.kind \in {"RevealBroadcast", "ComplaintBroadcast"}
               PROVE  FALSE
    OBVIOUS
  <2>1. PICK w \in Down(p) : w.kind = "Welcome"
    BY <1>3, <1>6 DEF Part, InStep, Told
  <2>2. w \in Down(p)'
    BY <1>9, <1>10, <2>1
  <2> QED
    BY <1>9, <2>1, <2>2, Ranks DEF Leads
<1>12. n.stage = "committing" => m.kind \notin {"RevealBroadcast", "ComplaintBroadcast"}
  <2> SUFFICES ASSUME n.stage = "committing",
                      m.kind \in {"RevealBroadcast", "ComplaintBroadcast"}
               PROVE  FALSE
    OBVIOUS
  <2>1. reg.hashes = Live
    BY <1>6 DEF Part, DownInOrder
  <2>2. PICK w \in Down(p) : w.kind = "AllCommitmentsReceived"
    BY <1>3, <1>6, <2>1 DEF Part, InStep, Told
  <2>3. w \in Down(p)'
    BY <1>9, <1>10, <2>2
  <2> QED
    BY <1>9, <2>2, <2>3, Ranks DEF Leads
<1>13. n.stage \in {"closing", "acking"} => m.kind # "RevealBroadcast"
  <2> SUFFICES ASSUME n.stage \in {"closing", "acking"}, m.kind = "RevealBroadcast"
               PROVE  FALSE
    OBVIOUS
  <2>1. m.from \in reg.dealers /\ m.from \notin n.received
    BY <1>3, <1>6 DEF Part, DownInOrder, Received
  <2>2. n.received = Live /\ reg.dealers \subseteq Live
    BY <1>3, <1>4, <1>6 DEF Part, InStep, Started
  <2> QED
    BY <2>1, <2>2
<1>14. Received(o, p)' /\ Excluded(o, p)'
  <2>1. m.kind # "RevealBroadcast" /\ (n.stage # "acking" => m.kind # "ComplaintBroadcast")
    BY <1>6, <1>10, <1>11, <1>12, <1>13
  <2> QED
    BY <1>2, <1>3, <1>4, <1>7, <1>8, <2>1, SameKnowledge
<1>15. InStep(o, p)'
  <2>1. \A k : Told(p, k) /\ m.kind # k => Told(p, k)'
    BY <1>9 DEF Told
  <2>2. Kept' = Kept
    BY <1>9 DEF Kept
  <2> QED
    BY <1>3, <1>6, <1>9, <1>10, <2>1, <2>2 DEF Part, InStep
<1> QED
  BY <1>4, <1>7, <1>8, <1>14, <1>15, GoesStarted

\* A process that leaves the ceremony leaves a broken connection.
LEMMA ExitsStep ==
  ASSUME TypeInv, CeremonyInv, reg.ceremony = "started", NEW o \in Operators, Exits(o)
  PROVE  Started'
<1>1. PICK p : p = op[o].link
  OBVIOUS
<1>2. Types /\ Started /\ Links
  BY DEF TypeInv, CeremonyInv
<1>3. /\ op' = [op EXCEPT ![o] = NotStarted] /\ UNCHANGED reg /\ net'.up = net.up
      /\ p = 0 => net' = net
      /\ p # 0 => /\ p \in Ids /\ net'.broken = net.broken \cup {p}
                  /\ net'.down = [net.down EXCEPT ![p] = <<>>]
  BY <1>1, <1>2, LeavesIs, NotStartedIs DEF Exits
<1>4. /\ op'[o].stage = "exited" /\ op'[o].link = 0
      /\ \A x \in Operators \ {o} : op'[x] = op[x]
  BY <1>2, <1>3 DEF Types, NotStarted
<1>5. /\ Live' = Live /\ Kept' = Kept /\ net.broken \subseteq net'.broken
      /\ \A q : Heard(q)' = Heard(q)
  BY <1>3 DEF Live, Kept, Heard
<1>6. /\ \A q \in Ids \ {p} : net'.down[q] = net.down[q]
      /\ p \in Ids => net'.down[p] = <<>>
  <2>1. net.down \in [Ids -> Seq(DownMsgs)] /\ p \in Ids \cup {0} /\ 0 \notin Ids
    BY <1>1, <1>2, NetShape, ProcessShape, Constants DEF Types
  <2> QED
    BY <1>3, <2>1
<1>7. ASSUME NEW q \in Live PROVE UpInOrder(q)' /\ UpGrounds(q)'
  BY <1>2, <1>3, <1>5, <1>7 DEF Started, UpInOrder, UpGrounds, Up, Comes
<1>8. ASSUME NEW x \in Operators, NEW q \in Live, Holds(x, q)' PROVE Part(x, q)'
  <2>1. q \in Ids /\ q # 0
    BY LiveIds, Constants
  <2>2. x # o /\ op'[x] = op[x] /\ Holds(x, q)
    BY <1>4, <1>8, <2>1 DEF Holds
  <2>3. q # p
    BY <1>1, <1>2, <2>2, OneHolder DEF Holds
  <2>4. Part(x, q) /\ net'.down[q] = net.down[q] /\ Down(q)' = Down(q) /\ Up(q)' = Up(q)
    BY <1>2, <1>3, <1>6, <2>1, <2>2, <2>3 DEF Started, Down, Up
  <2>5. DownInOrder(q)' /\ Received(x, q)'
    BY <1>3, <1>5, <2>2, <2>4 DEF Part, DownInOrder, Received
  <2>6. InStep(x, q)'
    BY <1>3, <1>5, <2>2, <2>4 DEF Part, InStep, Told
  <2>7. Excluded(x, q)'
    BY <1>3, <1>5, <2>2, <2>4 DEF Part, Excluded, Silenced, Comes
  <2> QED
    BY <2>5, <2>6, <2>7 DEF Part
<1>9. ASSUME NEW x \in Operators, op'[x].link \notin Live
      PROVE  op'[x].stage \in {"exited", "joining"}
  BY <1>2, <1>4, <1>9 DEF Started
<1>10. ASSUME NEW x \in Operators, NEW q \in Ids, Holds(x, q)', q \notin Live
       PROVE  net'.down[q] = <<>>
  <2>1. q # 0
    BY Constants
  <2>2. Holds(x, q)
    BY <1>4, <1>10, <2>1 DEF Holds
  <2>3. net.down[q] = <<>>
    BY <1>2, <1>10, <2>2 DEF Started
  <2> QED
    BY <1>6, <2>3
<1> QED
  BY <1>2, <1>3, <1>5, <1>7, <1>8, <1>9, <1>10 DEF Started

\* Every step of an operator says what it may.
LEMMA RunsStarted ==
  ASSUME TypeInv, CeremonyInv, reg.ceremony = "started", NEW o \in Operators, Runs(o)
  PROVE  Started'
<1>1. Types /\ Started /\ Links
  BY DEF TypeInv, CeremonyInv
<1>2. op[o].stage \in {"exited", "joining", "committing", "collecting", "closing", "acking"}
  BY <1>1 DEF Started, Holds, Part, InStep
<1>3. CASE OnAllCommitmentsReceived(o)
  BY <1>3, ExitsStep, OnAllCommitmentsReceivedStep DEF OnAllCommitmentsReceived
<1>4. CASE OnWelcome(o) \/ OnRevealBroadcast(o) \/ OnComplaintBroadcast(o)
           \/ OnComplaintWindowClosed(o) \/ Skip(o)
  BY <1>4, OnWelcomeStep, OnRevealBroadcastStep, OnComplaintBroadcastStep,
     OnComplaintWindowClosedStep, SkipStep
<1>5. CASE OnCeremonyComplete(o)
  <2>1. op[o].link # 0 /\ net.down[op[o].link] # <<>> /\ Incoming(o).kind = "CeremonyComplete"
    BY <1>5 DEF OnCeremonyComplete, Takes
  <2> QED
    BY <1>1, <2>1, TakesIs
<1>6. CASE OnRequest(o) \/ OnReconnected(o)
  BY <1>2, <1>6 DEF OnRequest, OnReconnected, Takes
<1>7. CASE OnEnd(o) \/ LosesConnection(o) \/ SendFails(o) \/ Kill(o)
  BY <1>2, <1>7, ExitsStep DEF OnEnd, LosesConnection, SendFails, Kill, Serving
<1> QED
  BY <1>3, <1>4, <1>5, <1>6, <1>7 DEF Runs, main

----------------------------------------------------------------------------
(* What a process keeps, in and after the ceremony *)

Keyed == {"acking", "steady", "reconnecting"}

\* A process that does not know who takes part knows nothing; one that has
\* summed its shares keeps their sum.
LEMMA RunsKeep ==
  ASSUME Types, Links, NEW o \in Operators, Runs(o)
  PROVE  /\ \A x \in Operators \ {o} : op'[x] = op[x]
         /\ op'[o].stage = "joining" => op'[o] = op[o]
         /\ op'[o].stage = "exited" => op'[o] = NotStarted
         /\ op[o].stage = "joining" => \/ op'[o].stage \in {"joining", "exited"}
                                       \/ OnWelcome(o)
         /\ op[o].stage \in Keyed => \/ op'[o].stage = "exited"
                                     \/ op'[o].stage \in Keyed /\ op'[o].key = op[o].key
<1>1. op \in [Operators -> Process] /\ op[o] \in Process
  BY DEF Types
<1>2. \A n : Goes(o, n, <<>>) \/ Leaves(o, n) => op' = [op EXCEPT ![o] = n]
  BY DEF Goes, Leaves
<1>3. ASSUME NEW n, op' = [op EXCEPT ![o] = n]
      PROVE  op'[o] = n /\ \A x \in Operators \ {o} : op'[x] = op[x]
  BY <1>1, <1>3
<1>4. CASE Exits(o)
  <2>1. op'[o] = NotStarted /\ \A x \in Operators \ {o} : op'[x] = op[x]
    BY <1>2, <1>3, <1>4 DEF Exits
  <2> QED
    BY <2>1 DEF NotStarted, Keyed
<1>5. CASE OnWelcome(o)
  <2>1. PICK n : n = [op[o] EXCEPT !.stage = "committing", !.id = Incoming(o).id,
                                   !.mates = Incoming(o).of]
    OBVIOUS
  <2>2. op' = [op EXCEPT ![o] = n] /\ op[o].stage = "joining"
    BY <1>5, <2>1 DEF OnWelcome, Goes, Takes
  <2>3. n.stage = "committing"
    BY <1>1, <2>1 DEF Process
  <2> QED
    BY <1>3, <1>5, <2>2, <2>3 DEF Keyed
<1>6. ASSUME NEW s \in {"collecting", "closing", "acking", "steady"}, NEW n,
             n.stage = s, op' = [op EXCEPT ![o] = n], op[o].stage # "joining",
             op[o].stage \in Keyed => s = "steady" /\ n.key = op[o].key
      PROVE  /\ \A x \in Operators \ {o} : op'[x] = op[x]
             /\ op'[o].stage = "joining" => op'[o] = op[o]
             /\ op'[o].stage = "exited" => op'[o] = NotStarted
             /\ op[o].stage = "joining" => \/ op'[o].stage \in {"joining", "exited"}
                                           \/ OnWelcome(o)
             /\ op[o].stage \in Keyed => \/ op'[o].stage = "exited"
                                         \/ op'[o].stage \in Keyed /\ op'[o].key = op[o].key
  BY <1>3, <1>6 DEF Keyed
<1>7. CASE OnAllCommitmentsReceived(o)
  <2>1. CASE \E d : Goes(o, [op[o] EXCEPT !.stage = "collecting"],
                         <<[kind |-> "Reveal", from |-> 0, matches |-> d.matches,
                            bad |-> d.bad]>>)
    <3>1. PICK n : n = [op[o] EXCEPT !.stage = "collecting"]
      OBVIOUS
    <3>2. op' = [op EXCEPT ![o] = n] /\ op[o].stage = "committing"
      <4>1. PICK d : Goes(o, n, <<[kind |-> "Reveal", from |-> 0, matches |-> d.matches,
                                   bad |-> d.bad]>>)
        BY <2>1, <3>1
      <4>2. op' = [op EXCEPT ![o] = n]
        BY <4>1 DEF Goes
      <4> QED
        BY <1>7, <4>2 DEF OnAllCommitmentsReceived, Takes
    <3>3. n.stage = "collecting"
      BY <1>1, <3>1 DEF Process
    <3> QED
      BY <1>6, <3>2, <3>3 DEF Keyed
  <2> QED
    BY <1>4, <1>7, <2>1 DEF OnAllCommitmentsReceived
<1>8. CASE OnRevealBroadcast(o)
  <2>1. PICK n : op' = [op EXCEPT ![o] = n] /\ n.stage \in {"collecting", "closing"}
    <3>1. PICK last : last <=> Cardinality(op[o].received \cup {Incoming(o).from})
                               = Cardinality(op[o].mates)
      OBVIOUS
    <3>2. op[o].stage = "collecting"
      BY <1>8 DEF OnRevealBroadcast, Takes
    <3>3. CASE Incoming(o).from \in op[o].received
      BY <1>8, <3>2, <3>3 DEF OnRevealBroadcast, Goes
    <3>4. CASE Incoming(o).from \notin op[o].received
      <4>1. PICK m : m = Incoming(o)
        OBVIOUS
      <4>2. PICK fails : fails <=> m.matches /\ op[o].id \in m.bad
        OBVIOUS
      <4>3. PICK n : n = [op[o] EXCEPT !.received = @ \cup {m.from},
                                       !.excluded = IF fails \/ ~m.matches
                                                    THEN @ \cup {m.from} ELSE @,
                                       !.stage = IF last THEN "closing" ELSE @]
        OBVIOUS
      <4>4. \E ms : Goes(o, n, ms)
        BY <1>8, <3>1, <3>4, <4>1, <4>2, <4>3 DEF OnRevealBroadcast
      <4>5. op' = [op EXCEPT ![o] = n]
        BY <4>4 DEF Goes
      <4>6. n.stage \in {"collecting", "closing"}
        BY <1>1, <3>2, <4>3 DEF Process
      <4> QED
        BY <4>5, <4>6
    <3> QED
      BY <3>3, <3>4
  <2>2. op[o].stage = "collecting"
    BY <1>8 DEF OnRevealBroadcast, Takes
  <2> QED
    BY <1>6, <2>1, <2>2 DEF Keyed
<1>9. CASE OnComplaintBroadcast(o)
  <2>1. PICK n : n = [op[o] EXCEPT !.excluded = @ \cup Incoming(o).of]
    OBVIOUS
  <2>2. op' = [op EXCEPT ![o] = n] /\ op[o].stage \in {"collecting", "closing"}
    BY <1>9, <2>1 DEF OnComplaintBroadcast, Goes, Takes
  <2>3. n.stage = op[o].stage
    BY <1>1, <2>1 DEF Process
  <2> QED
    BY <1>6, <2>2, <2>3 DEF Keyed
<1>10. CASE OnComplaintWindowClosed(o)
  <2>1. PICK n : n = [op[o] EXCEPT !.stage = "acking",
                                   !.key = op[o].received \ op[o].excluded]
    OBVIOUS
  <2>2. op' = [op EXCEPT ![o] = n] /\ op[o].stage = "closing"
    BY <1>10, <2>1 DEF OnComplaintWindowClosed, Goes, Takes
  <2>3. n.stage = "acking"
    BY <1>1, <2>1 DEF Process
  <2> QED
    BY <1>6, <2>2, <2>3 DEF Keyed
<1>11. CASE OnCeremonyComplete(o)
  <2>1. CASE Goes(o, [op[o] EXCEPT !.stage = "steady"], <<>>)
    <3>1. PICK n : n = [op[o] EXCEPT !.stage = "steady"]
      OBVIOUS
    <3>2. op' = [op EXCEPT ![o] = n] /\ op[o].stage = "acking"
      BY <1>11, <2>1, <3>1 DEF OnCeremonyComplete, Goes, Takes
    <3>3. n.stage = "steady" /\ n.key = op[o].key
      BY <1>1, <3>1 DEF Process
    <3> QED
      BY <1>6, <3>2, <3>3
  <2> QED
    BY <1>4, <1>11, <2>1 DEF OnCeremonyComplete
<1>12. CASE OnRequest(o)
  <2>1. op[o].stage = "steady"
    BY <1>12 DEF OnRequest, Takes
  <2>2. PICK n : op' = [op EXCEPT ![o] = n] /\ n.stage = op[o].stage /\ n.key = op[o].key
    <3>1. CASE op' = [op EXCEPT ![o] = op[o]]
      BY <3>1
    <3>2. CASE op' = [op EXCEPT ![o] = [op[o] EXCEPT !.nonces = TRUE, !.signed = 0]]
      <4>1. PICK n : n = [op[o] EXCEPT !.nonces = TRUE, !.signed = 0]
        OBVIOUS
      <4>2. n.stage = op[o].stage /\ n.key = op[o].key
        BY <1>1, <4>1 DEF Process
      <4> QED
        BY <3>2, <4>1, <4>2
    <3>3. CASE op' = [op EXCEPT ![o] = [op[o] EXCEPT !.nonces = FALSE, !.signed = @ + 1]]
      <4>1. PICK n : n = [op[o] EXCEPT !.nonces = FALSE, !.signed = @ + 1]
        OBVIOUS
      <4>2. n.stage = op[o].stage /\ n.key = op[o].key
        BY <1>1, <4>1 DEF Process
      <4> QED
        BY <3>3, <4>1, <4>2
    <3> QED
      BY <1>12, <3>1, <3>2, <3>3 DEF OnRequest, Goes
  <2> QED
    BY <1>6, <2>1, <2>2
<1>13. CASE OnReconnected(o) \/ (LosesConnection(o) /\ ~Exits(o))
  <2>1. op[o].stage \in {"steady", "reconnecting"}
    BY <1>13 DEF OnReconnected, LosesConnection, Takes, Serving
  <2>2. PICK n : /\ op' = [op EXCEPT ![o] = n] /\ n.key = op[o].key
                 /\ n.stage \in {"steady", "reconnecting"}
    <3>1. CASE op' = [op EXCEPT ![o] = [op[o] EXCEPT !.stage = "steady", !.nonces = FALSE,
                                                     !.signed = 0]]
      <4>1. PICK n : n = [op[o] EXCEPT !.stage = "steady", !.nonces = FALSE, !.signed = 0]
        OBVIOUS
      <4>2. n.stage = "steady" /\ n.key = op[o].key
        BY <1>1, <4>1 DEF Process
      <4> QED
        BY <3>1, <4>1, <4>2
    <3>2. CASE op' = [op EXCEPT ![o] = [op[o] EXCEPT !.link = 0]]
      <4>1. PICK n : n = [op[o] EXCEPT !.link = 0]
        OBVIOUS
      <4>2. n.stage = op[o].stage /\ n.key = op[o].key
        BY <1>1, <4>1 DEF Process
      <4> QED
        BY <2>1, <3>2, <4>1, <4>2
    <3>3. CASE op' = [op EXCEPT ![o] = [op[o] EXCEPT !.stage = "reconnecting", !.link = 0]]
      <4>1. PICK n : n = [op[o] EXCEPT !.stage = "reconnecting", !.link = 0]
        OBVIOUS
      <4>2. n.stage = "reconnecting" /\ n.key = op[o].key
        BY <1>1, <4>1 DEF Process
      <4> QED
        BY <3>3, <4>1, <4>2
    <3> QED
      BY <1>13, <3>1, <3>2, <3>3 DEF OnReconnected, LosesConnection, Goes, Leaves
  <2> QED
    BY <1>3, <2>1, <2>2 DEF Keyed
<1>14. CASE Skip(o)
  <2>1. op' = [op EXCEPT ![o] = op[o]] /\ op[o].stage # "exited"
    BY <1>14 DEF Skip, Goes, Links
  <2> QED
    BY <1>3, <2>1
<1>15. CASE OnEnd(o) \/ SendFails(o) \/ Kill(o)
  BY <1>4, <1>15 DEF OnEnd, SendFails, Kill
<1> QED
  BY <1>4, <1>5, <1>7, <1>8, <1>9, <1>10, <1>11, <1>12, <1>13, <1>14, <1>15 DEF Runs, main

----------------------------------------------------------------------------
(* The ceremony, step by step *)

\* Nothing of the ceremony changes while the rest does.
LEMMA StartedStays ==
  ASSUME Started, UNCHANGED op, net'.up = net.up, net'.down = net.down,
         net.broken \subseteq net'.broken,
         reg'.conns = reg.conns, reg'.hashes = reg.hashes, reg'.dealers = reg.dealers,
         reg'.excluded = reg.excluded, reg'.done = reg.done, reg'.acks = reg.acks
  PROVE  Started'
<1>1. /\ Live' = Live /\ Kept' = Kept
      /\ \A q : Heard(q)' = Heard(q) /\ Up(q)' = Up(q) /\ Down(q)' = Down(q)
  BY DEF Live, Kept, Heard, Up, Down
<1>2. ASSUME NEW q \in Live PROVE UpInOrder(q)' /\ UpGrounds(q)'
  BY <1>1, <1>2 DEF Started, UpInOrder, UpGrounds, Comes
<1>3. ASSUME NEW x \in Operators, NEW q \in Live, Holds(x, q)' PROVE Part(x, q)'
  <2>1. Part(x, q)
    BY <1>3 DEF Started, Holds
  <2>2. DownInOrder(q)' /\ Received(x, q)' /\ InStep(x, q)'
    BY <1>1, <2>1 DEF Part, DownInOrder, Received, InStep, Told
  <2>3. Excluded(x, q)'
    BY <1>1, <2>1 DEF Part, Excluded, Silenced, Comes
  <2> QED
    BY <2>2, <2>3 DEF Part
<1> QED
  BY <1>1, <1>2, <1>3 DEF Started, Holds

\* Nothing of a complete ceremony changes.
LEMMA CompleteStays ==
  ASSUME Types, Links, Complete, UNCHANGED op,
         reg'.dealers = reg.dealers, reg'.excluded = reg.excluded,
         \A q \in Ids : Told(q, "Welcome")' => Told(q, "Welcome")
  PROVE  Complete'
<1>1. Kept' = Kept
  BY DEF Kept
<1>2. \A o \in Operators : op[o].stage = "joining" => op[o].link \in Ids
  BY ProcessShape DEF Types, Links
<1> QED
  BY <1>1, <1>2 DEF Complete

\* A message that is no welcome welcomes nobody.
LEMMA ToldOneMore ==
  ASSUME Types, NEW p \in Ids, NEW x \in DownMsgs, x.kind # "Welcome",
         net'.down = [net.down EXCEPT ![p] = Append(net.down[p], x)]
  PROVE  \A q \in Ids : Told(q, "Welcome")' => Told(q, "Welcome")
<1>1. net.down \in [Ids -> Seq(DownMsgs)]
  BY NetShape DEF Types
<1>2. \A q \in Ids : q # p => net'.down[q] = net.down[q]
  BY <1>1
<1>3. Down(p)' = Down(p) \cup {x}
  <2>1. PICK s : s = net.down[p]
    OBVIOUS
  <2>2. s \in Seq(DownMsgs) /\ <<x>> \in Seq(DownMsgs) /\ Append(s, x) = s \o <<x>>
    BY <1>1, <2>1
  <2>3. Messages(Append(s, x)) = Messages(s) \cup {x}
    <3>1. PICK t : t = <<x>>
      OBVIOUS
    <3>2. t \in Seq(DownMsgs) /\ Messages(t) = {x} /\ Append(s, x) = s \o t
      BY <2>2, <3>1, ShortQueues
    <3>3. Messages(s \o t) = Messages(s) \cup Messages(t)
      BY <2>2, <3>2, ConcatIs
    <3> QED
      BY <3>2, <3>3
  <2>4. net'.down[p] = Append(s, x)
    BY <1>1, <2>1
  <2> QED
    BY <2>1, <2>3, <2>4 DEF Down
<1>4. \A q \in Ids : q # p => Down(q)' = Down(q)
  BY <1>2 DEF Down
<1> QED
  BY <1>3, <1>4 DEF Told

\* With the first welcome everyone is in step: nothing has been said.
LEMMA StartStep ==
  ASSUME TypeInv, CeremonyInv, NEW p \in Ids, maybe_start_ceremony(p)
  PROVE  CeremonyInv'
<1>1. /\ UNCHANGED <<op, demo, faults>> /\ net'.broken = net.broken /\ net'.up = net.up
      /\ \/ reg' = reg /\ net'.down = net.down
         \/ /\ reg.ceremony = "waiting" /\ reg' = Enter(reg, "started")
            /\ net'.down = [q \in Ids |-> IF q \notin Live THEN net.down[q]
                              ELSE Append(net.down[q], [kind |-> "Welcome", id |-> q,
                                                        of |-> Live])]
  BY StartIs DEF TypeInv
<1>2. Unwelcomed'
  BY <1>1 DEF CeremonyInv, Unwelcomed
<1>3. CASE reg' = reg /\ net'.down = net.down
  <2>1. reg.ceremony = "started" => Started'
    BY <1>1, <1>3, StartedStays DEF CeremonyInv
  <2>2. \A q : Told(q, "Welcome")' = Told(q, "Welcome")
    BY <1>3 DEF Told, Down
  <2>3. reg.ceremony = "complete" => Complete'
    BY <1>1, <1>3, <2>2, CompleteStays DEF CeremonyInv, TypeInv
  <2> QED
    BY <1>2, <1>3, <2>1, <2>3 DEF CeremonyInv
<1>4. CASE /\ reg.ceremony = "waiting" /\ reg' = Enter(reg, "started")
           /\ net'.down = [q \in Ids |-> IF q \notin Live THEN net.down[q]
                             ELSE Append(net.down[q], [kind |-> "Welcome", id |-> q,
                                                       of |-> Live])]
  <2>1. /\ reg'.ceremony = "started" /\ reg'.conns = reg.conns /\ reg'.hashes = {}
        /\ reg'.dealers = {} /\ reg'.excluded = {} /\ reg'.done = {} /\ reg'.acks = NoAcks
    <3>1. reg \in Registry /\ "started" \in Ceremonies
      BY DEF TypeInv, Types, Ceremonies
    <3> QED
      BY <1>4, <3>1, EnterIs
  <2>2. /\ \A q \in Ids : net.up[q] = <<>> /\ net.down[q] = <<>>
        /\ \A o \in Operators : op[o].stage \in {"exited", "joining"}
    BY <1>4 DEF TypeInv, Quiet
  <2>3. Live' = Live /\ \A q \in Ids : reg'.acks[q] = None /\ Heard(q)' = 0 /\ Up(q)' = {}
    BY <1>1, <2>1, <2>2, ShortQueues DEF Live, NoAcks, Heard, Up
  <2>4. ASSUME NEW q \in Ids
        PROVE  /\ q \notin Live => net'.down[q] = <<>>
               /\ q \in Live => \E w : /\ w.kind = "Welcome" /\ w.id = q /\ w.of = Live
                                       /\ net'.down[q] = <<w>> /\ Down(q)' = {w}
    <3>1. PICK w : w = [kind |-> "Welcome", id |-> q, of |-> Live]
      OBVIOUS
    <3>2. w.kind = "Welcome" /\ w.id = q /\ w.of = Live
      BY <3>1
    <3>3. Append(net.down[q], w) = <<w>>
      <4>1. Append(<<>>, w) = <<w>>
        OBVIOUS
      <4> QED
        BY <2>2, <4>1
    <3>4. net'.down[q] = IF q \notin Live THEN <<>> ELSE <<w>>
      BY <1>4, <2>2, <3>1, <3>3
    <3>5. q \in Live => Down(q)' = {w}
      BY <3>4, ShortQueues DEF Down
    <3> QED
      BY <3>2, <3>4, <3>5
  <2>5. ASSUME NEW q \in Live PROVE UpInOrder(q)' /\ UpGrounds(q)'
    <3>1. q \in Ids
      BY LiveIds
    <3> QED
      BY <1>1, <2>1, <2>2, <2>3, <3>1, ShortQueues DEF UpInOrder, UpGrounds, Comes
  <2>6. ASSUME NEW o \in Operators, NEW q \in Live, Holds(o, q)' PROVE Part(o, q)'
    <3>1. q \in Ids /\ q # 0
      BY LiveIds, Constants
    <3>2. op'[o] = op[o] /\ op[o].stage = "joining"
      BY <1>1, <2>2, <2>6, <3>1 DEF Holds, TypeInv, Links
    <3>3. op[o].received = {} /\ op[o].excluded = {}
      BY <3>2 DEF CeremonyInv, Unwelcomed
    <3>4. PICK w : /\ w.kind = "Welcome" /\ w.id = q /\ w.of = Live
                   /\ net'.down[q] = <<w>> /\ Down(q)' = {w}
      BY <2>4, <3>1
    <3>5. DownInOrder(q)'
      BY <2>3, <3>4, ShortQueues DEF DownInOrder
    <3>6. InStep(o, q)'
      BY <2>3, <3>1, <3>2, <3>4, Ranks DEF InStep, Told
    <3>7. Received(o, q)' /\ Excluded(o, q)'
      BY <2>1, <3>2, <3>3, <3>4 DEF Received, Excluded
    <3> QED
      BY <3>5, <3>6, <3>7 DEF Part
  <2>7. Started'
    BY <1>1, <2>1, <2>2, <2>3, <2>4, <2>5, <2>6 DEF Started
  <2> QED
    BY <1>2, <2>1, <2>7 DEF CeremonyInv
<1> QED
  BY <1>1, <1>3, <1>4

\* The confirmation of a return.
LEMMA ConfirmStep ==
  ASSUME TypeInv, CeremonyInv, NEW p \in Ids, ConfirmReturn(p)
  PROVE  CeremonyInv'
<1>1. /\ UNCHANGED <<reg, op, demo, faults>> /\ p \in net.back
      /\ net'.down = [net.down EXCEPT ![p] = Append(net.down[p], MsgOf("Reconnected", {p}))]
  BY ConfirmIs DEF TypeInv
<1>2. reg.ceremony = "complete" /\ Complete
  BY <1>1 DEF TypeInv, Demos, CeremonyInv
<1>3. \A q \in Ids : Told(q, "Welcome")' => Told(q, "Welcome")
  <2>1. PICK x : x = MsgOf("Reconnected", {p})
    OBVIOUS
  <2>2. x \in DownMsgs /\ x.kind = "Reconnected"
    <3>1. {p} \in SUBSET Ids
      OBVIOUS
    <3> QED
      BY <2>1, <3>1, MessageTypes DEF MsgOf
  <2> QED
    BY <1>1, <2>1, <2>2, ToldOneMore DEF TypeInv
<1> QED
  BY <1>1, <1>2, <1>3, CompleteStays DEF TypeInv, CeremonyInv, Unwelcomed

\* Outside the ceremony its messages are dropped.
LEMMA DroppedIs ==
  ASSUME NEW p \in Ids, CeremonyMessage(p), reg.ceremony # "started"
  PROVE  Handled(p, reg, <<>>)
<1>1. CASE on_ceremony_ack(p)
  BY <1>1 DEF on_ceremony_ack
<1> QED
  BY <1>1 DEF CeremonyMessage, on_commitment_hash, on_reveal, on_complaint,
         on_no_more_complaints

\* A message of the ceremony.
LEMMA MessageStep ==
  ASSUME TypeInv, CeremonyInv, NEW p \in Ids, CeremonyMessage(p)
  PROVE  CeremonyInv'
<1>1. CASE reg.ceremony = "started"
  <2>1. /\ op' = op
        /\ reg'.ceremony = "started" => Started'
        /\ reg'.ceremony = "complete" => Complete'
    BY <1>1, CommitmentHashStep, RevealStep, ComplaintStep, NoMoreComplaintsStep,
       CeremonyAckStep DEF CeremonyMessage
  <2> QED
    BY <2>1 DEF CeremonyInv, Unwelcomed
<1>2. CASE reg.ceremony # "started"
  <2>1. p \in Live /\ net.up[p] # <<>> /\ Handled(p, reg, <<>>) /\ Types /\ reg \in Registry
    BY <1>2, DroppedIs, CeremonyOutcome DEF TypeInv, Types
  <2>2. <<>> \in Seq(DownMsgs)
    OBVIOUS
  <2>3. /\ reg' = reg /\ UNCHANGED <<op, demo, faults>>
        /\ net'.down = [q \in Ids |-> IF q \in Live THEN net.down[q] \o <<>> ELSE net.down[q]]
    BY <2>1, <2>2, HandledIs
  <2>4. \A q \in Ids : net'.down[q] = net.down[q]
    <3>1. ASSUME NEW q \in Ids PROVE net.down[q] \o <<>> = net.down[q]
      <4>1. net.down[q] \in Seq(DownMsgs)
        BY <2>1, NetShape DEF Types
      <4> QED
        BY <4>1
    <3> QED
      BY <2>3, <3>1
  <2>5. \A q \in Ids : Told(q, "Welcome")' => Told(q, "Welcome")
    BY <2>4 DEF Told, Down
  <2>6. reg.ceremony = "complete" => Complete'
    BY <2>3, <2>5, CompleteStays DEF TypeInv, CeremonyInv
  <2> QED
    BY <1>2, <2>3, <2>6 DEF CeremonyInv, Unwelcomed
<1> QED
  BY <1>1, <1>2

\* A reply to a request.
LEMMA ReplyStep ==
  ASSUME TypeInv, CeremonyInv, NEW p \in Ids, OnReply(p)
  PROVE  CeremonyInv'
<1>1. /\ p \in Live /\ net.up[p] # <<>> /\ UNCHANGED op /\ net'.down = net.down
      /\ reg' = [reg EXCEPT !.pending[p] = None]
  BY OnReplyIs DEF TypeInv
<1>2. PICK k \in DOMAIN ReplyOf : Head(net.up[p]).kind = ReplyOf[k]
  BY DEF OnReply, Reads
<1>3. UpRank[Head(net.up[p]).kind] = 6
  BY <1>2, Ranks DEF ReplyOf
<1>4. reg.ceremony # "started"
  BY <1>1, <1>3, ReadIs DEF CeremonyInv, TypeInv
<1>5. /\ reg'.ceremony = reg.ceremony /\ reg'.dealers = reg.dealers
      /\ reg'.excluded = reg.excluded
  BY <1>1 DEF TypeInv, Types, Registry
<1>6. \A q : Told(q, "Welcome")' = Told(q, "Welcome")
  BY <1>1 DEF Told, Down
<1>7. reg.ceremony = "complete" => Complete'
  BY <1>1, <1>5, <1>6, CompleteStays DEF TypeInv, CeremonyInv
<1> QED
  BY <1>1, <1>4, <1>5, <1>7 DEF CeremonyInv, Unwelcomed

\* A disconnection fails a ceremony that runs.
LEMMA DisconnectStep ==
  ASSUME TypeInv, CeremonyInv, NEW p \in Ids, Disconnect(p)
  PROVE  CeremonyInv'
<1>1. /\ UNCHANGED op
      /\ \/ reg.ceremony = "started" /\ reg'.ceremony = "failed"
         \/ /\ reg.ceremony # "started" /\ reg'.ceremony = reg.ceremony
            /\ reg'.dealers = reg.dealers /\ reg'.excluded = reg.excluded
            /\ net'.down = net.down
  BY DisconnectIs DEF TypeInv
<1>2. net'.down = net.down => \A q : Told(q, "Welcome")' = Told(q, "Welcome")
  BY DEF Told, Down
<1>3. reg'.ceremony = "complete" => Complete'
  BY <1>1, <1>2, CompleteStays DEF TypeInv, CeremonyInv
<1> QED
  BY <1>1, <1>3 DEF CeremonyInv, Unwelcomed

\* A break is not seen yet.
LEMMA BreakStep ==
  ASSUME TypeInv, CeremonyInv, NEW p \in Ids, Break(p)
  PROVE  CeremonyInv'
<1>1. /\ UNCHANGED <<reg, op>> /\ net'.down = net.down /\ net'.up = net.up
      /\ net.broken \subseteq net'.broken
  BY DEF Break, TypeInv, Types, Net
<1>2. \A q : Told(q, "Welcome")' = Told(q, "Welcome")
  BY <1>1 DEF Told, Down
<1>3. reg.ceremony = "complete" => Complete'
  BY <1>1, <1>2, CompleteStays DEF TypeInv, CeremonyInv
<1>4. reg.ceremony = "started" => Started'
  BY <1>1, StartedStays DEF CeremonyInv
<1> QED
  BY <1>1, <1>3, <1>4 DEF CeremonyInv, Unwelcomed

\* A hello: a new operator may start the ceremony.
LEMMA HelloStep ==
  ASSUME TypeInv, CeremonyInv, NEW o \in Operators, Hello(o)
  PROVE  CeremonyInv'
<1>1. PICK p, as : /\ as \in {"fresh", "back"} /\ p \in Ids /\ Attach(o, p, as)
                   /\ op[o].stage \in {"exited", "reconnecting"}
                   /\ reg'.ceremony = reg.ceremony /\ reg'.dealers = reg.dealers
                   /\ reg'.excluded = reg.excluded
                   /\ reg.ceremony \in {"waiting", "complete"}
  <2>1. "fresh" \in {"fresh", "back"} /\ "back" \in {"fresh", "back"} /\ reg \in Registry
    BY DEF TypeInv, Types
  <2>2. CASE HelloNew(o)
    <3>1. reg.next_id \in Ids
      BY <2>2, IdLeft DEF HelloNew
    <3>2. PICK q : q = reg.next_id
      OBVIOUS
    <3>3. /\ reg'.ceremony = reg.ceremony /\ reg'.dealers = reg.dealers
          /\ reg'.excluded = reg.excluded
      BY <2>1, <2>2 DEF HelloNew, Registry
    <3>4. Attach(o, q, "fresh")
      BY <2>2, <3>2 DEF HelloNew
    <3> QED
      BY <2>1, <2>2, <3>1, <3>2, <3>3, <3>4 DEF HelloNew
  <2>3. CASE \E p : HelloBack(o, p)
    <3>1. PICK q : HelloBack(o, q)
      BY <2>3
    <3>2. /\ reg'.ceremony = reg.ceremony /\ reg'.dealers = reg.dealers
          /\ reg'.excluded = reg.excluded
      BY <2>1, <3>1 DEF HelloBack, Registry
    <3> QED
      BY <2>1, <3>1, <3>2 DEF HelloBack
  <2> QED
    BY <2>2, <2>3, HelloIs
<1>2. /\ \A x \in Operators \ {o} : op'[x] = op[x]
      /\ net'.down = [net.down EXCEPT ![p] = <<>>]
      /\ op'[o].link = p /\ op'[o].key = op[o].key
      /\ op'[o].received = op[o].received /\ op'[o].excluded = op[o].excluded
      /\ op[o].stage = "exited" => op'[o].stage = "joining"
      /\ op[o].stage # "exited" => op'[o].stage = op[o].stage
  <2>1. CASE as = "fresh"
    BY <1>1, <2>1, AttachIs DEF TypeInv
  <2>2. CASE as = "back"
    BY <1>1, <2>2, AttachIs DEF TypeInv
  <2> QED
    BY <1>1, <2>1, <2>2
<1>4. Unwelcomed'
  BY <1>1, <1>2 DEF CeremonyInv, Unwelcomed
<1>5. ASSUME reg.ceremony = "complete" PROVE Complete'
  <2>1. Complete
    BY <1>5 DEF CeremonyInv
  <2>2. Kept' = Kept
    BY <1>1 DEF Kept
  <2>3. net.down \in [Ids -> Seq(DownMsgs)]
    BY NetShape DEF TypeInv, Types
  <2>4. \A q \in Ids : net'.down[q] = IF q = p THEN <<>> ELSE net.down[q]
    BY <1>2, <2>3
  <2>5. \A q \in Ids : Told(q, "Welcome")' => Told(q, "Welcome") /\ q # p
    BY <2>4, ShortQueues DEF Told, Down
  <2>6. \A x \in Operators : op[x].stage = "joining" => op[x].link \in Ids
    BY ProcessShape DEF TypeInv, Types, Links
  <2> QED
    BY <1>1, <1>2, <2>1, <2>2, <2>5, <2>6 DEF Complete
<1> QED
  BY <1>1, <1>4, <1>5 DEF CeremonyInv

\* A step of an operator.
LEMMA RunsStep ==
  ASSUME TypeInv, CeremonyInv, NEW o \in Operators, Runs(o)
  PROVE  CeremonyInv'
<1>1. /\ \A x \in Operators \ {o} : op'[x] = op[x]
      /\ op'[o].stage = "joining" => op'[o] = op[o]
      /\ op'[o].stage = "exited" => op'[o] = NotStarted
      /\ op[o].stage = "joining" => \/ op'[o].stage \in {"joining", "exited"}
                                    \/ OnWelcome(o)
      /\ op[o].stage \in Keyed => \/ op'[o].stage = "exited"
                                  \/ op'[o].stage \in Keyed /\ op'[o].key = op[o].key
  BY RunsKeep DEF TypeInv
<1>2. Unwelcomed'
  BY <1>1 DEF CeremonyInv, Unwelcomed, NotStarted
<1>3. PICK n : (\E ms : GoesOn(o, n, ms)) \/ GoesWithout(o, n)
  BY RunsIs DEF TypeInv
<1>4. UNCHANGED reg /\ net.down \in [Ids -> Seq(DownMsgs)]
  <2>1. \A ms : GoesOn(o, n, ms) => UNCHANGED reg
    BY DEF GoesOn, Goes
  <2>2. GoesWithout(o, n) => UNCHANGED reg
    BY DEF GoesWithout, Leaves
  <2>3. net.down \in [Ids -> Seq(DownMsgs)]
    BY NetShape DEF TypeInv, Types
  <2> QED
    BY <1>3, <2>1, <2>2, <2>3
<1>5. \A q \in Ids : Told(q, "Welcome")' => Told(q, "Welcome")
  <2>1. CASE \E ms : GoesOn(o, n, ms)
    <3>1. PICK ms : GoesOn(o, n, ms)
      BY <2>1
    <3>2. PICK p : p = op[o].link
      OBVIOUS
    <3>3. /\ p \in Ids /\ net.down[p] # <<>> /\ net'.down[p] = Tail(net.down[p])
          /\ \A q \in Ids \ {p} : net'.down[q] = net.down[q]
      BY <3>1, <3>2, GoesIs DEF GoesOn, TypeInv
    <3>4. Down(p)' \subseteq Down(p)
      <4>1. PICK s : s = net.down[p]
        OBVIOUS
      <4>2. s \in Seq(DownMsgs) /\ s # <<>> /\ net'.down[p] = Tail(s)
        BY <1>4, <3>3, <4>1
      <4>3. Messages(Tail(s)) \subseteq Messages(s)
        BY <4>2, TailIs
      <4> QED
        BY <4>1, <4>2, <4>3 DEF Down
    <3> QED
      BY <3>3, <3>4 DEF Told, Down
  <2>2. CASE GoesWithout(o, n)
    <3>1. /\ op[o].link = 0 => net' = net
          /\ op[o].link # 0 => /\ op[o].link \in Ids
                               /\ net'.down = [net.down EXCEPT ![op[o].link] = <<>>]
      BY <2>2, LeavesIs DEF GoesWithout, TypeInv
    <3>2. \A q \in Ids : net'.down[q] = net.down[q] \/ net'.down[q] = <<>>
      BY <1>4, <3>1
    <3> QED
      BY <3>2, ShortQueues DEF Told, Down
  <2> QED
    BY <1>3, <2>1, <2>2
<1>6. ASSUME reg.ceremony = "complete" PROVE Complete'
  <2>1. Complete /\ Kept' = Kept
    BY <1>4, <1>6 DEF CeremonyInv, Kept
  <2> SUFFICES ASSUME NEW x \in Operators
               PROVE (/\ op[x].stage \in {"exited", "joining", "acking", "steady", "reconnecting"}
                      /\ op[x].stage = "joining" => ~Told(op[x].link, "Welcome")
                      /\ op[x].stage \in {"acking", "steady", "reconnecting"}
                            => op[x].key = Kept)'
    BY DEF Complete
  <2>2. /\ op'[x].stage \in {"exited", "joining"} \cup Keyed
        /\ (op[x].stage = "joining" => ~Told(op[x].link, "Welcome"))'
        /\ op'[x].stage \in Keyed => op'[x].key = Kept
    <3>1. op[x].stage = "joining" => op[x].link \in Ids
      BY ProcessShape DEF TypeInv, Types, Links
    <3>2. CASE op'[x] = op[x]
      <4>1. PICK p : p = op[x].link
        OBVIOUS
      <4>2. op'[x].stage = "joining" => p \in Ids /\ ~Told(p, "Welcome")
        BY <2>1, <3>1, <3>2, <4>1 DEF Complete
      <4>3. op'[x].stage = "joining" => ~Told(p, "Welcome")'
        BY <1>5, <4>2
      <4>4. (op[x].stage = "joining" => ~Told(op[x].link, "Welcome"))'
        BY <3>2, <4>1, <4>3
      <4> QED
        BY <2>1, <3>2, <4>4 DEF Complete, Keyed
    <3>3. CASE op'[x] # op[x]
      <4>1. x = o /\ op'[o].stage # "joining"
        BY <1>1, <3>3
      <4>5. (op[x].stage = "joining" => ~Told(op[x].link, "Welcome"))'
        BY <4>1
      <4>2. ASSUME op[o].stage = "joining" PROVE op'[o].stage = "exited"
        <5>1. ~OnWelcome(o)
          <6> SUFFICES ASSUME OnWelcome(o) PROVE FALSE
            OBVIOUS
          <6>1. PICK p : p = op[o].link
            OBVIOUS
          <6>2. /\ p \in Ids /\ net.down[p] # <<>> /\ Head(net.down[p]).kind = "Welcome"
            BY <3>1, <4>1, <4>2, <6>1 DEF OnWelcome, Takes, Incoming
          <6>3. PICK s : s = net.down[p]
            OBVIOUS
          <6>4. Head(s) \in Messages(s)
            BY <1>4, <6>2, <6>3, TailIs
          <6>5. Told(p, "Welcome")
            BY <6>2, <6>3, <6>4 DEF Told, Down
          <6> QED
            BY <2>1, <4>2, <6>1, <6>5 DEF Complete
        <5> QED
          BY <1>1, <4>1, <4>2, <5>1
      <4>3. ASSUME op[o].stage \in Keyed
            PROVE  op'[o].stage = "exited" \/ (op'[o].stage \in Keyed /\ op'[o].key = Kept)
        <5>1. op[o].key = Kept
          BY <2>1, <4>3 DEF Complete, Keyed
        <5> QED
          BY <1>1, <4>3, <5>1
      <4>4. op[o].stage # "exited"
        <5> SUFFICES ASSUME op[o].stage = "exited" PROVE FALSE
          OBVIOUS
        <5>1. op[o].link = 0
          BY DEF TypeInv, Links
        <5>2. 0 \notin net.broken
          BY NetShape, Constants DEF TypeInv, Types
        <5> QED
          BY <5>1, <5>2 DEF Runs, main, OnWelcome, OnEnd, OnAllCommitmentsReceived,
             OnRevealBroadcast, OnComplaintBroadcast, OnComplaintWindowClosed,
             OnCeremonyComplete, OnRequest, OnReconnected, Skip, LosesConnection, SendFails,
             Kill, Takes
      <4>6. op[o].stage \in {"joining"} \cup Keyed
        BY <2>1, <4>4 DEF Complete, Keyed
      <4>7. op'[o].stage = "exited" \/ (op'[o].stage \in Keyed /\ op'[o].key = Kept)
        BY <4>2, <4>3, <4>6
      <4>8. "exited" \notin Keyed
        BY DEF Keyed
      <4> QED
        BY <4>1, <4>5, <4>7, <4>8
    <3> QED
      BY <3>2, <3>3
  <2> QED
    BY <2>1, <2>2 DEF Keyed
<1>7. reg.ceremony = "started" => Started'
  BY RunsStarted
<1> QED
  BY <1>2, <1>4, <1>6, <1>7 DEF CeremonyInv

\* Demonstrations leave the ceremony alone.
LEMMA DemoStep ==
  ASSUME TypeInv, CeremonyInv, NEW c \in Clients,
         handle_demo_request(c) \/ request_reply(c) \/ GiveUp(c)
  PROVE  CeremonyInv'
<1>1. UNCHANGED op
  BY DEF handle_demo_request, request_reply, GiveUp
<1>2. reg.ceremony = "complete" /\ Complete
  <2>1. demo[c].d # Idle \/ reg.ceremony = "complete"
    BY DEF handle_demo_request, request_reply, GiveUp, Idle
  <2> QED
    BY <2>1 DEF TypeInv, Demos, CeremonyInv
<1>3. /\ reg'.ceremony = reg.ceremony /\ reg'.dealers = reg.dealers
      /\ reg'.excluded = reg.excluded
  <2>1. reg \in Registry
    BY DEF TypeInv, Types
  <2>2. reg' = reg \/ \E p \in Ids, x \in Clients \cup {None} :
                        reg' = [reg EXCEPT !.pending[p] = x]
    BY NextRequestIs DEF TypeInv, handle_demo_request, GiveUp
  <2> QED
    BY <2>1, <2>2 DEF Registry
<1>4. \A q \in Ids : Told(q, "Welcome")' => Told(q, "Welcome")
  <2>1. \/ net' = net
        \/ \E p \in Live, k \in {"PartialDecryptRequest", "Round1Request", "Round2Request"} :
              net'.down = [net.down EXCEPT ![p] = Append(net.down[p], Msg(k))]
    BY NextRequestIs DEF TypeInv, handle_demo_request, GiveUp
  <2>2. CASE net' = net
    BY <2>2 DEF Told, Down
  <2>3. ASSUME NEW p \in Live,
               NEW k \in {"PartialDecryptRequest", "Round1Request", "Round2Request"},
               net'.down = [net.down EXCEPT ![p] = Append(net.down[p], Msg(k))]
        PROVE  \A q \in Ids : Told(q, "Welcome")' => Told(q, "Welcome")
    <3>1. PICK x : x = Msg(k)
      OBVIOUS
    <3>2. x \in DownMsgs /\ x.kind # "Welcome" /\ p \in Ids
      BY <3>1, MessageTypes, LiveIds DEF Msg
    <3> QED
      BY <2>3, <3>1, <3>2, ToldOneMore DEF TypeInv
  <2> QED
    BY <2>1, <2>2, <2>3
<1> QED
  BY <1>1, <1>2, <1>3, <1>4, CompleteStays DEF TypeInv, CeremonyInv, Unwelcomed

\* No ceremony.
LEMMA CeremonyInit == Init => CeremonyInv
  BY DEF Init, CeremonyInv, Unwelcomed, Waiting, NotStarted

\* Every step keeps the ceremony.
LEMMA CeremonyStep == TypeInv /\ CeremonyInv /\ [Next]_vars => CeremonyInv'
<1> SUFFICES ASSUME TypeInv, CeremonyInv, [Next]_vars PROVE CeremonyInv'
  OBVIOUS
<1>1. CASE UNCHANGED vars
  <2>1. UNCHANGED <<reg, net, op>>
    BY <1>1 DEF vars
  <2>2. reg.ceremony = "started" => Started'
    BY <2>1, StartedStays DEF CeremonyInv
  <2>3. \A q : Told(q, "Welcome")' = Told(q, "Welcome")
    BY <2>1 DEF Told, Down
  <2>4. reg.ceremony = "complete" => Complete'
    BY <2>1, <2>3, CompleteStays DEF TypeInv, CeremonyInv
  <2> QED
    BY <2>1, <2>2, <2>4 DEF CeremonyInv, Unwelcomed
<1>2. ASSUME NEW p \in Ids, Greet(p) \/ handle_operator_message(p)
      PROVE  CeremonyInv'
  BY <1>2, StartStep, ConfirmStep, MessageStep, ReplyStep
     DEF Greet, handle_operator_message, CeremonyMessage
<1>3. ASSUME NEW p \in Ids, Disconnect(p) \/ Break(p) PROVE CeremonyInv'
  BY <1>3, DisconnectStep, BreakStep
<1>4. ASSUME NEW o \in Operators, Hello(o) \/ Runs(o) PROVE CeremonyInv'
  BY <1>4, HelloStep, RunsStep
<1>5. ASSUME NEW c \in Clients, handle_demo_request(c) \/ request_reply(c) \/ GiveUp(c)
      PROVE  CeremonyInv'
  BY <1>5, DemoStep
<1> QED
  BY <1>1, <1>2, <1>3, <1>4, <1>5 DEF Next, Runs

\* The ceremony's invariant, of every reachable state.
LEMMA CeremonyHolds == Spec => [](TypeInv /\ CeremonyInv)
<1>1. Init => TypeInv /\ CeremonyInv
  BY InitTypes, CeremonyInit
<1>2. TypeInv /\ CeremonyInv /\ [Next]_vars => (TypeInv /\ CeremonyInv)'
  BY TypeStep, CeremonyStep
<1> QED
  BY <1>1, <1>2, PTL DEF Spec

\* Nobody deals with another's deal in hand: no operator's deal is on its way,
\* or known, before every operator is bound to its own by a hash the server has
\* (session/nova_operator.rs, on_commitment_hash; nova-operator main.rs).
THEOREM DealsAwaitEveryCommitment == Spec => []NobodyDealsBeforeAllCommit
<1>1. TypeInv /\ CeremonyInv => NobodyDealsBeforeAllCommit
  <2> SUFFICES ASSUME TypeInv, CeremonyInv, reg.ceremony = "started",
                      reg.dealers # {} \/ \E p \in Live : \E i \in DOMAIN net.up[p] :
                                              net.up[p][i].kind = "Reveal"
               PROVE  reg.hashes = Live
    BY DEF NobodyDealsBeforeAllCommit
  <2>1. Types /\ Started
    BY DEF TypeInv, CeremonyInv
  <2>2. CASE reg.dealers # {}
    BY <2>1, <2>2, Progress
  <2>3. CASE \E p \in Live : \E i \in DOMAIN net.up[p] : net.up[p][i].kind = "Reveal"
    <3>1. PICK p \in Live : \E i \in DOMAIN net.up[p] : net.up[p][i].kind = "Reveal"
      BY <2>3
    <3>2. Comes(p, "Reveal")
      BY <3>1 DEF Comes, Up, Messages
    <3> QED
      BY <2>1, <3>2 DEF Started, UpGrounds
  <2> QED
    BY <2>2, <2>3
<1> QED
  BY <1>1, CeremonyHolds, PTL

\* Operators and server settle on one key, whatever drops out or dies, and
\* whatever is wrong with the deals (session/nova_operator.rs, on_complaint,
\* on_ceremony_ack; nova-operator main.rs, ComplaintBroadcast).
THEOREM KeysAgree == Spec => []OneKey
<1>1. TypeInv /\ CeremonyInv => OneKey
  <2> SUFFICES ASSUME TypeInv, CeremonyInv, NEW o \in Operators,
                      op[o].stage \in {"acking"} \cup Serving, reg.ceremony # "failed"
               PROVE  op[o].key = reg.dealers \ reg.excluded
    BY DEF OneKey
  <2>1. op[o].stage \in {"acking", "steady", "reconnecting"}
    BY DEF Serving
  <2>2. reg.ceremony \in {"waiting", "started", "complete"}
    BY RegistryShape DEF TypeInv, Types, Ceremonies
  <2>3. reg.ceremony # "waiting"
    BY <2>1 DEF TypeInv, Quiet
  <2>4. CASE reg.ceremony = "started"
    BY <2>1, <2>4 DEF CeremonyInv, Started, Holds, Part, InStep, Kept
  <2>5. CASE reg.ceremony = "complete"
    BY <2>1, <2>5 DEF CeremonyInv, Complete, Kept
  <2> QED
    BY <2>2, <2>3, <2>4, <2>5
<1> QED
  BY <1>1, CeremonyHolds, PTL

\* A ceremony the server calls complete left none of its participants behind
\* (session/nova_operator.rs, on_ceremony_ack).
THEOREM NobodyIsLeftBehind == Spec => []CompleteMeansEveryoneHasAShare
<1>1. TypeInv /\ CeremonyInv => CompleteMeansEveryoneHasAShare
  BY DEF CeremonyInv, Complete, CompleteMeansEveryoneHasAShare
<1> QED
  BY <1>1, CeremonyHolds, PTL
=============================================================================
