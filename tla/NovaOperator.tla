----------------------------- MODULE NovaOperator ------------------------------
(***************************************************************************)
(* The operators that hold the shares of the nova group key: the server,   *)
(* which relays a distributed key generation among them and later asks a   *)
(* quorum to decrypt and to sign (session/nova_operator.rs), and the       *)
(* operator processes (nova-operator/src/main.rs).                         *)
(*                                                                         *)
(* One lock guards the registry, and every handler of the server is one    *)
(* step under it. A participant id stands for the connection that holds    *)
(* it: at most one does at any time. A key is the set of dealers whose     *)
(* contributions it sums, and a deal says only whether it matches its hash *)
(* and whom it gives a share that fails verification.                      *)
(***************************************************************************)
EXTENDS Naturals, FiniteSets, Sequences

CONSTANTS
    Operators,   \* operator processes, each with an identity of its own
    Clients,     \* browser connections that may ask for a demonstration
    Count,       \* NOVA_OPERATOR_COUNT
    Threshold,   \* NOVA_OPERATOR_THRESHOLD
    Faulty,      \* operators whose deals are wrong, one way or another
    MaxFaults,   \* bound: connections that drop and processes that die
    MaxDemos,    \* bound: demonstrations of one client
    None         \* no operator, no client

ASSUME OperatorAssumption ==
    /\ Count \in Nat \ {0} /\ Threshold \in 1 .. Count
    /\ MaxFaults \in Nat /\ MaxDemos \in Nat
    /\ Faulty \subseteq Operators
    /\ None \notin Operators \cup Clients
    /\ \A S \in SUBSET (1 .. Count + MaxFaults) : None # S

VARIABLES
    reg,      \* NovaOperatorRegistry
    net,      \* the sockets: queues both ways, those broken, those being greeted
    op,       \* each operator process
    demo,     \* each client's handle_demo_request
    faults    \* faults so far

vars == <<reg, net, op, demo, faults>>

\* An id is spent on a connection that replaces one lost to a fault.
Ids == 1 .. Count + MaxFaults

----------------------------------------------------------------------------
(* The registry and the sockets *)

Live == {p \in Ids : reg.conns[p] # None}
Lowest(S) == CHOOSE p \in S : \A q \in S : p <= q

\* A message, and one that carries a value.
Msg(k) == [kind |-> k, of |-> {}]
MsgOf(k, v) == [kind |-> k, of |-> v]

\* Nobody is connected, and nothing has been said yet.
Waiting == [conns |-> [p \in Ids |-> None], next_id |-> 1,
            pending |-> [p \in Ids |-> None],
            ceremony |-> "waiting", hashes |-> {}, dealers |-> {},
            excluded |-> {}, done |-> {}, acks |-> [p \in Ids |-> None],
            roster |-> [p \in Ids |-> None], key |-> {}]

\* The registry r in a new state of the ceremony, whose own part starts empty.
Enter(r, c) == [Waiting EXCEPT !.ceremony = c, !.conns = r.conns,
                               !.next_id = r.next_id, !.pending = r.pending]

\* The server reads the connection of p once it has greeted it.
Reads(p, k) ==
    /\ p \in Live /\ p \notin net.fresh \cup net.back
    /\ net.up[p] # <<>> /\ Head(net.up[p]).kind = k

Consumed(p) == [net.up EXCEPT ![p] = Tail(@)]

\* A handler that changes the registry to r and tells everyone ms, in order.
Handled(p, r, ms) ==
    /\ reg' = r
    /\ net' = [net EXCEPT !.up = Consumed(p),
                          !.down = [q \in Ids |-> IF q \in Live THEN @[q] \o ms ELSE @[q]]]
    /\ UNCHANGED <<op, demo, faults>>

----------------------------------------------------------------------------
(* Connections *)

\* A connection for operator o under the id p.
Attach(o, p, as) ==
    /\ net' = [net EXCEPT !.up[p] = <<>>, !.down[p] = <<>>,
                          !.broken = @ \ {p}, ![as] = @ \cup {p}]
    /\ op' = [op EXCEPT ![o].link = p,
                        ![o].stage = IF @ = "exited" THEN "joining" ELSE @]
    /\ UNCHANGED <<demo, faults>>

\* The id at which a returning operator is recognised.
returning_id(o) == {p \in Ids : reg.roster[p] = o /\ p \notin Live}

\* Mutant: an id is given out again.
HelloSameId(o) ==
    /\ op[o].stage = "exited" /\ reg.ceremony = "waiting" /\ Cardinality(Live) < Count
    /\ reg' = [reg EXCEPT !.conns[reg.next_id] = o]
    /\ Attach(o, reg.next_id, "fresh")

\* An operator says hello, having just started or (after the ceremony) lost its
\* connection. One that is turned away exits, or keeps trying: no change.
Hello(o) ==
    /\ op[o].stage \in {"exited", "reconnecting"} /\ op[o].link = 0
    /\ \/ /\ reg.ceremony = "waiting" /\ Cardinality(Live) < Count
          /\ reg' = [reg EXCEPT !.conns[reg.next_id] = o, !.next_id = @ + 1]
          /\ Attach(o, reg.next_id, "fresh")
       \/ /\ reg.ceremony = "complete"
          /\ \E p \in returning_id(o) :
                /\ reg' = [reg EXCEPT !.conns[p] = o]
                /\ Attach(o, p, "back")

\* A fresh connection's handler, in a second critical section, starts the
\* ceremony if the roster is full.
maybe_start_ceremony(p) ==
    /\ p \in net.fresh
    /\ LET starts == reg.ceremony = "waiting" /\ Cardinality(Live) >= Count
       IN  /\ reg' = IF starts THEN Enter(reg, "started") ELSE reg
           /\ net' = [net EXCEPT
                        !.fresh = @ \ {p},
                        !.down = IF ~starts THEN @
                                 ELSE [q \in Ids |->
                                        IF q \notin Live THEN @[q]
                                        ELSE Append(@[q], [kind |-> "Welcome", id |-> q,
                                                           of |-> Live])]]
    /\ UNCHANGED <<op, demo, faults>>

\* A returning connection's handler confirms its id.
ConfirmReturn(p) ==
    /\ p \in net.back
    /\ net' = [net EXCEPT !.back = @ \ {p},
                          !.down[p] = Append(@, MsgOf("Reconnected", {p}))]
    /\ UNCHANGED <<reg, op, demo, faults>>

fail_ceremony(r) == Enter(r, "failed")

\* Mutants: the ceremony goes on without p; p stays in the registry.
DisconnectQuietly(p) ==
    /\ p \in net.broken \cap Live /\ p \notin net.fresh \cup net.back
    /\ reg' = [reg EXCEPT !.conns[p] = None]
    /\ net' = [net EXCEPT !.up[p] = <<>>]
    /\ UNCHANGED <<op, demo, faults>>

DisconnectKept(p) ==
    /\ p \in net.broken \cap Live /\ p \notin net.fresh \cup net.back
    /\ reg' = IF reg.ceremony = "started" THEN fail_ceremony(reg) ELSE reg
    /\ net' = [net EXCEPT !.up[p] = <<>>]
    /\ UNCHANGED <<op, demo, faults>>

\* The server sees the end of a connection, perhaps with messages unread.
Disconnect(p) ==
    /\ p \in net.broken \cap Live /\ p \notin net.fresh \cup net.back
    /\ LET left == [reg EXCEPT !.conns[p] = None]
           fails == reg.ceremony = "started"
       IN  /\ reg' = IF fails THEN fail_ceremony(left) ELSE left
           /\ net' = [net EXCEPT
                        !.up[p] = <<>>,
                        !.down = IF fails
                                 THEN [q \in Ids |-> IF q \in Live \ {p}
                                            THEN Append(@[q], Msg("CeremonyFailed")) ELSE @[q]]
                                 ELSE @]
    /\ UNCHANGED <<op, demo, faults>>

----------------------------------------------------------------------------
(* The ceremony, at the server. Outside it these messages are dropped. *)

\* Mutant: reveals are called for one hash too early.
CommitmentHashEarly(p) ==
    /\ Reads(p, "CommitmentHash")
    /\ Handled(p, [reg EXCEPT !.hashes = @ \cup {p}],
               IF Cardinality(reg.hashes) + 2 >= Cardinality(Live)
               THEN <<Msg("AllCommitmentsReceived")>> ELSE <<>>)

\* Reveals are called for once every operator is committed to its deal.
on_commitment_hash(p) ==
    /\ Reads(p, "CommitmentHash")
    /\ LET hashes == reg.hashes \cup {p}
       IN  IF reg.ceremony # "started" THEN Handled(p, reg, <<>>)
           ELSE Handled(p, [reg EXCEPT !.hashes = hashes],
                        IF Cardinality(hashes) >= Cardinality(Live)
                        THEN <<Msg("AllCommitmentsReceived")>> ELSE <<>>)

\* A reveal is relayed to everyone; a dealer that does not match its hash is
\* excluded.
on_reveal(p) ==
    /\ Reads(p, "Reveal")
    /\ LET m == Head(net.up[p])
       IN  IF reg.ceremony # "started" THEN Handled(p, reg, <<>>)
           ELSE Handled(p, [reg EXCEPT !.dealers = @ \cup {p},
                                       !.excluded = IF m.matches THEN @ ELSE @ \cup {p}],
                        <<[m EXCEPT !.kind = "RevealBroadcast", !.from = p]>>)

\* Mutant: the complaint is not relayed.
ComplaintNotRelayed(p) ==
    /\ Reads(p, "Complaint")
    /\ Handled(p, [reg EXCEPT !.excluded = @ \cup Head(net.up[p]).of], <<>>)

\* A complaint about a share that does fail against its dealer's commitments
\* excludes the dealer, and is relayed.
on_complaint(p) ==
    /\ Reads(p, "Complaint")
    /\ LET against == Head(net.up[p]).of
       IN  IF reg.ceremony # "started" \/ ~(against \subseteq reg.dealers)
           THEN Handled(p, reg, <<>>)
           ELSE Handled(p, [reg EXCEPT !.excluded = @ \cup against],
                        <<MsgOf("ComplaintBroadcast", against)>>)

on_no_more_complaints(p) ==
    /\ Reads(p, "NoMoreComplaints")
    /\ LET done == reg.done \cup {p}
       IN  IF reg.ceremony # "started" THEN Handled(p, reg, <<>>)
           ELSE Handled(p, [reg EXCEPT !.done = done],
                        IF Cardinality(done) >= Cardinality(Live)
                        THEN <<Msg("ComplaintWindowClosed")>> ELSE <<>>)

\* Mutant: the first acknowledgement completes the ceremony.
FirstAckCompletes(p) ==
    /\ Reads(p, "CeremonyAck")
    /\ Handled(p, [reg EXCEPT !.ceremony = "complete", !.key = Head(net.up[p]).of,
                              !.roster = reg.conns],
               <<MsgOf("CeremonyComplete", Head(net.up[p]).of)>>)

\* The ceremony is complete when all acknowledge one key; the server keeps the
\* commitments, whom it excluded, and who took part.
on_ceremony_ack(p) ==
    /\ Reads(p, "CeremonyAck")
    /\ LET key == Head(net.up[p]).of
           acks == [reg.acks EXCEPT ![p] = key]
           given == {q \in Ids : acks[q] # None}
           complete == [Enter(reg, "complete") EXCEPT
                           !.dealers = reg.dealers,
                           !.excluded = reg.excluded \cap reg.dealers,
                           !.key = key, !.roster = reg.conns]
       IN  IF reg.ceremony # "started" THEN Handled(p, reg, <<>>)
           ELSE IF Cardinality(given) < Cardinality(Live)
           THEN Handled(p, [reg EXCEPT !.acks = acks], <<>>)
           ELSE IF \A q \in given : acks[q] = key
           THEN Handled(p, complete, <<MsgOf("CeremonyComplete", key)>>)
           ELSE Handled(p, fail_ceremony(reg), <<Msg("CeremonyFailed")>>)

----------------------------------------------------------------------------
(* Demonstrations, at the server *)

Idle == [phase |-> "idle", quorum |-> {}, left |-> {}, asked |-> 0]

After == [decrypt |-> "round1", round1 |-> "round2", round2 |-> "idle"]
ReplyOf == [decrypt |-> "PartialDecryptResponse", round1 |-> "Round1Response",
            round2 |-> "Round2Response"]
RequestOf == [decrypt |-> "PartialDecryptRequest", round1 |-> "Round1Request",
              round2 |-> "Round2Request"]

\* A demonstration asks the lowest live ids; without a key or a quorum it is
\* refused, and nothing changes. Clients do not wait for each other.
handle_demo_request(c) ==
    /\ demo[c].d = Idle /\ demo[c].runs < MaxDemos
    /\ reg.ceremony = "complete" /\ Cardinality(Live) >= Threshold
    /\ LET quorum == {p \in Live : Cardinality({q \in Live : q < p}) < Threshold}
       IN  demo' = [demo EXCEPT ![c] = [runs |-> @.runs + 1,
                        d |-> [phase |-> "decrypt", quorum |-> quorum,
                               left |-> quorum, asked |-> 0]]]
    /\ UNCHANGED <<reg, net, op, faults>>

\* The demonstration d once p has answered in its phase.
Answered(d, p) ==
    IF d.left # {p} THEN [d EXCEPT !.left = @ \ {p}, !.asked = 0]
    ELSE IF After[d.phase] = "idle" THEN Idle
    ELSE [d EXCEPT !.phase = After[@], !.left = d.quorum, !.asked = 0]

\* The next of the quorum is asked. It may have gone, or its connection be
\* found broken: then the demonstration ends.
request_reply(c) ==
    /\ demo[c].d.phase # "idle" /\ demo[c].d.asked = 0
    /\ LET p == Lowest(demo[c].d.left)
       IN  \/ /\ p \in Live
              /\ reg' = [reg EXCEPT !.pending[p] = c]
              /\ net' = [net EXCEPT !.down[p] =
                            IF p \in net.broken THEN @
                            ELSE Append(@, Msg(RequestOf[demo[c].d.phase]))]
              /\ demo' = [demo EXCEPT ![c].d.asked = p]
           \/ /\ p \notin Live \/ p \in net.broken
              /\ reg' = IF p \in Live THEN [reg EXCEPT !.pending[p] = None] ELSE reg
              /\ demo' = [demo EXCEPT ![c].d = Idle]
              /\ UNCHANGED net
    /\ UNCHANGED <<op, faults>>

\* A reply goes to whoever asked that participant last, if it still waits; one
\* of the wrong kind ends the demonstration.
OnReply(p) ==
    /\ \E k \in DOMAIN ReplyOf : Reads(p, ReplyOf[k])
    /\ LET c == reg.pending[p]
       IN  demo' = IF c = None \/ demo[c].d.asked # p THEN demo
                   ELSE [demo EXCEPT ![c].d =
                            IF Head(net.up[p]).kind = ReplyOf[@.phase]
                            THEN Answered(@, p) ELSE Idle]
    /\ reg' = [reg EXCEPT !.pending[p] = None]
    /\ net' = [net EXCEPT !.up = Consumed(p)]
    /\ UNCHANGED <<op, faults>>

\* The request times out, or another displaced it and its channel closed. What
\* is pending stays pending.
GiveUp(c) ==
    /\ demo[c].d.asked # 0
    /\ demo' = [demo EXCEPT ![c].d = Idle]
    /\ UNCHANGED <<reg, net, op, faults>>

----------------------------------------------------------------------------
(* The operator process *)

NotStarted == [stage |-> "exited", link |-> 0, id |-> 0, mates |-> {},
               received |-> {}, excluded |-> {}, key |-> {},
               nonces |-> FALSE, signed |-> 0]

\* What each stage heeds of what it is sent; the rest it skips.
Heeds == [joining    |-> {"Welcome", "Reconnected"},
          committing |-> {"AllCommitmentsReceived", "CeremonyFailed"},
          collecting |-> {"RevealBroadcast", "ComplaintBroadcast", "CeremonyFailed"},
          closing    |-> {"ComplaintBroadcast", "ComplaintWindowClosed", "CeremonyFailed"},
          acking     |-> {"CeremonyComplete", "CeremonyFailed"},
          steady     |-> {"PartialDecryptRequest", "Round1Request", "Round2Request"},
          reconnecting |-> {"Reconnected"}]

\* Holding a share, and serving requests with it or trying to.
Serving == {"steady", "reconnecting"}

Incoming(o) == Head(net.down[op[o].link])

\* Operator o, at stage s, takes a message of kind k.
Takes(o, s, k) ==
    /\ op[o].stage = s /\ op[o].link # 0
    /\ net.down[op[o].link] # <<>> /\ Incoming(o).kind = k

\* It goes on as the process n, having sent ms; into a broken connection, in vain.
Goes(o, n, ms) ==
    LET p == op[o].link
    IN  /\ op' = [op EXCEPT ![o] = n]
        /\ net' = [net EXCEPT !.down[p] = Tail(@),
                              !.up[p] = IF p \in net.broken THEN @ ELSE @ \o ms]
        /\ UNCHANGED <<reg, demo, faults>>

\* It goes on as the process n without its connection, which ends.
Leaves(o, n) ==
    LET p == op[o].link
    IN  /\ op' = [op EXCEPT ![o] = n]
        /\ net' = IF p = 0 THEN net
                  ELSE [net EXCEPT !.down[p] = <<>>, !.broken = @ \cup {p}]
        /\ UNCHANGED <<reg, demo>>

Exits(o) == Leaves(o, NotStarted)

OnWelcome(o) ==
    /\ Takes(o, "joining", "Welcome")
    /\ Goes(o, [op[o] EXCEPT !.stage = "committing", !.id = Incoming(o).id,
                             !.mates = Incoming(o).of],
            <<Msg("CommitmentHash")>>)

\* A cold start recognised as a participant of a ceremony whose share it lost,
\* and a ceremony that failed, end the process.
OnEnd(o) ==
    /\ \/ Takes(o, "joining", "Reconnected")
       \/ \E s \in {"committing", "collecting", "closing", "acking"} :
            Takes(o, s, "CeremonyFailed")
    /\ Exits(o) /\ UNCHANGED faults

\* The deals of o to itself and everyone in S.
Deals(o, S) ==
    IF o \notin Faulty THEN {[matches |-> TRUE, bad |-> {}]}
    ELSE {[matches |-> FALSE, bad |-> {}]} \cup [matches : {TRUE}, bad : (SUBSET S) \ {{}}]

\* The deal has a share for each of 1 .. n, sealed to the key the roster gives
\* that id; an id the roster does not know stops the process.
OnAllCommitmentsReceived(o) ==
    LET mates == op[o].mates
    IN  /\ Takes(o, "committing", "AllCommitmentsReceived")
        /\ \/ /\ 1 .. Cardinality(mates) \subseteq mates
              /\ \E d \in Deals(o, mates \ {op[o].id}) :
                    Goes(o, [op[o] EXCEPT !.stage = "collecting"],
                         <<[kind |-> "Reveal", from |-> 0, matches |-> d.matches,
                            bad |-> d.bad]>>)
           \/ /\ ~(1 .. Cardinality(mates) \subseteq mates)
              /\ Exits(o) /\ UNCHANGED faults

\* A dealer off its hash is excluded silently, one whose share fails with a
\* complaint. With the last reveal the operator has no more complaints.
OnRevealBroadcast(o) ==
    /\ Takes(o, "collecting", "RevealBroadcast")
    /\ LET m == Incoming(o)
           n == op[o]
           fails == m.matches /\ n.id \in m.bad
           last == Cardinality(n.received \cup {m.from}) = Cardinality(n.mates)
       IN  IF m.from \in n.received THEN Goes(o, n, <<>>)
           ELSE Goes(o, [n EXCEPT !.received = @ \cup {m.from},
                                  !.excluded = IF fails \/ ~m.matches
                                               THEN @ \cup {m.from} ELSE @,
                                  !.stage = IF last THEN "closing" ELSE @],
                     (IF fails THEN <<MsgOf("Complaint", {m.from})>> ELSE <<>>)
                     \o (IF last THEN <<Msg("NoMoreComplaints")>> ELSE <<>>))

OnComplaintBroadcast(o) ==
    /\ \E s \in {"collecting", "closing"} : Takes(o, s, "ComplaintBroadcast")
    /\ Goes(o, [op[o] EXCEPT !.excluded = @ \cup Incoming(o).of], <<>>)

\* The key sums the dealers received and not excluded.
OnComplaintWindowClosed(o) ==
    /\ Takes(o, "closing", "ComplaintWindowClosed")
    /\ LET key == op[o].received \ op[o].excluded
       IN  Goes(o, [op[o] EXCEPT !.stage = "acking", !.key = key],
                <<MsgOf("CeremonyAck", key)>>)

OnCeremonyComplete(o) ==
    /\ Takes(o, "acking", "CeremonyComplete")
    /\ IF Incoming(o).of = op[o].key
       THEN Goes(o, [op[o] EXCEPT !.stage = "steady"], <<>>)
       ELSE Exits(o) /\ UNCHANGED faults

\* Mutant: nonces are used where they lie, not taken.
OnRequestKeepsNonces(o) ==
    \/ /\ Takes(o, "steady", "PartialDecryptRequest")
       /\ Goes(o, op[o], <<Msg("PartialDecryptResponse")>>)
    \/ /\ Takes(o, "steady", "Round1Request")
       /\ Goes(o, [op[o] EXCEPT !.nonces = TRUE, !.signed = 0], <<Msg("Round1Response")>>)
    \/ /\ Takes(o, "steady", "Round2Request")
       /\ Goes(o, [op[o] EXCEPT !.signed = @ + 1], <<Msg("Round2Response")>>)

\* Nonces are drawn in round 1 and taken in round 2; signed counts what the
\* nonces last drawn have signed.
OnRequest(o) ==
    LET n == op[o]
    IN  \/ /\ Takes(o, "steady", "PartialDecryptRequest")
           /\ Goes(o, n, <<Msg("PartialDecryptResponse")>>)
        \/ /\ Takes(o, "steady", "Round1Request")
           /\ Goes(o, [n EXCEPT !.nonces = TRUE, !.signed = 0],
                   <<Msg("Round1Response")>>)
        \/ /\ Takes(o, "steady", "Round2Request") /\ n.nonces
           /\ Goes(o, [n EXCEPT !.nonces = FALSE, !.signed = @ + 1],
                   <<Msg("Round2Response")>>)
        \/ /\ Takes(o, "steady", "Round2Request") /\ ~n.nonces
           /\ Goes(o, n, <<>>)

\* Confirmed as itself it serves again, with no nonces; as another, it retries.
OnReconnected(o) ==
    /\ Takes(o, "reconnecting", "Reconnected")
    /\ IF Incoming(o).of = {op[o].id}
       THEN Goes(o, [op[o] EXCEPT !.stage = "steady", !.nonces = FALSE, !.signed = 0], <<>>)
       ELSE Leaves(o, [op[o] EXCEPT !.link = 0]) /\ UNCHANGED faults

Skip(o) ==
    /\ op[o].link # 0 /\ net.down[op[o].link] # <<>>
    /\ Incoming(o).kind \notin Heeds[op[o].stage]
    /\ Goes(o, op[o], <<>>)

\* The process sees the end of its connection: a holder of a share reconnects,
\* any other exits.
LosesConnection(o) ==
    /\ op[o].link \in net.broken
    /\ UNCHANGED faults
    /\ IF op[o].stage \in Serving
       THEN Leaves(o, [op[o] EXCEPT !.stage = "reconnecting", !.link = 0])
       ELSE Exits(o)

\* An answer, or the hello of a reconnection (whose connection breaks at once),
\* cannot be written: send panics.
SendFails(o) ==
    /\ \/ /\ op[o].link \in net.broken
          /\ \/ \E k \in {"PartialDecryptRequest", "Round1Request"} : Takes(o, "steady", k)
             \/ Takes(o, "steady", "Round2Request") /\ op[o].nonces
       \/ op[o].stage = "reconnecting" /\ op[o].link = 0
    /\ Exits(o) /\ UNCHANGED faults

----------------------------------------------------------------------------
(* Faults, and the specification *)

Break(p) ==
    /\ p \in Live \ net.broken /\ faults < MaxFaults
    /\ net' = [net EXCEPT !.broken = @ \cup {p}]
    /\ faults' = faults + 1
    /\ UNCHANGED <<reg, op, demo>>

Kill(o) ==
    /\ op[o].stage # "exited" /\ faults < MaxFaults
    /\ faults' = faults + 1
    /\ Exits(o)

Init ==
    /\ reg = Waiting
    /\ net = [up |-> [p \in Ids |-> <<>>], down |-> [p \in Ids |-> <<>>],
              broken |-> {}, fresh |-> {}, back |-> {}]
    /\ op = [o \in Operators |-> NotStarted]
    /\ demo = [c \in Clients |-> [d |-> Idle, runs |-> 0]]
    /\ faults = 0

Greet(p) == maybe_start_ceremony(p) \/ ConfirmReturn(p)

handle_operator_message(p) ==
    \/ on_commitment_hash(p) \/ on_reveal(p) \/ on_complaint(p)
    \/ on_no_more_complaints(p) \/ on_ceremony_ack(p) \/ OnReply(p)

main(o) ==
    \/ OnWelcome(o) \/ OnEnd(o) \/ OnAllCommitmentsReceived(o)
    \/ OnRevealBroadcast(o) \/ OnComplaintBroadcast(o)
    \/ OnComplaintWindowClosed(o) \/ OnCeremonyComplete(o)
    \/ OnRequest(o) \/ OnReconnected(o) \/ Skip(o)
    \/ LosesConnection(o)

Next ==
    \/ \E p \in Ids : \/ Greet(p) \/ handle_operator_message(p)
                      \/ Disconnect(p) \/ Break(p)
    \/ \E o \in Operators : Hello(o) \/ main(o) \/ SendFails(o) \/ Kill(o)
    \/ \E c \in Clients : handle_demo_request(c) \/ request_reply(c) \/ GiveUp(c)

Spec == Init /\ [][Next]_vars

\* A connection's handler, an operator process and a client's handler are one
\* task each, and each takes its next step. A broken connection is noticed at
\* both ends; nobody must start, ask, or fail.
FairSpec ==
    /\ Spec
    /\ \A p \in Ids : WF_vars(Greet(p) \/ handle_operator_message(p) \/ Disconnect(p))
    /\ \A o \in Operators :
            WF_vars(main(o) \/ (op[o].stage = "reconnecting" /\ Hello(o)))
    /\ \A c \in Clients : WF_vars(request_reply(c) \/ GiveUp(c))

----------------------------------------------------------------------------
(* Properties *)

\* Types; a process that runs is linked to a connection that was its own, and
\* only the connections of running handlers await a greeting.
TypeOK ==
    /\ reg.conns \in [Ids -> Operators \cup {None}]
    /\ reg.next_id \in Nat /\ Live \subseteq 1 .. reg.next_id - 1
    /\ reg.ceremony \in {"waiting", "started", "complete", "failed"}
    /\ reg.pending \in [Ids -> Clients \cup {None}]
    /\ net.broken \cup net.fresh \cup net.back \subseteq Ids
    /\ net.fresh \cup net.back \subseteq Live
    /\ \A o \in Operators :
        /\ op[o].stage \in DOMAIN Heeds \cup {"exited"}
        /\ op[o].link # 0 /\ op[o].link \notin net.broken => reg.conns[op[o].link] = o
    /\ \A c \in Clients : demo[c].d.left \subseteq demo[c].d.quorum
    /\ faults \in 0 .. MaxFaults

\* No operator's deal is on its way, or known, before every operator is bound to
\* its own by a hash the server has: nobody deals with another's deal in hand
\* (the rushing-bias window the commit round closes).
NobodyDealsBeforeAllCommit ==
    reg.ceremony = "started"
        /\ (reg.dealers # {} \/ \E p \in Live : \E i \in DOMAIN net.up[p] :
                                    net.up[p][i].kind = "Reveal")
    => reg.hashes = Live

\* Operators and server settle on one key: whoever has summed its shares left
\* out the same dealers as every other and as the server, which checks
\* signature shares against the commitments of those it kept.
OneKey ==
    \A o \in Operators :
        op[o].stage \in {"acking"} \cup Serving =>
            \/ reg.ceremony = "failed"
            \/ op[o].key = reg.dealers \ reg.excluded

\* A ceremony the server calls complete left none of its participants behind:
\* each has its share, or is gone.
CompleteMeansEveryoneHasAShare ==
    reg.ceremony = "complete" =>
        \A o \in Operators :
            op[o].stage \in {"committing", "collecting", "closing"} => op[o].link \in net.broken

\* Nonces sign once, however demonstrations overlap, displace each other's
\* requests, and are cut off: twice would give the share away.
NoncesSignOnce == \A o \in Operators : op[o].signed <= 1

\* A ceremony that starts does not hang: it completes or fails, whoever drops
\* out or dies in it (it never goes back to waiting). A demonstration comes to
\* its end as well, though an operator it waits for left, or another
\* demonstration displaced its request.
CeremonyEnds ==
    /\ []<>(reg.ceremony # "started")
    /\ \A c \in Clients : []<>(demo[c].d = Idle)

\* An operator that lost its connection after the ceremony serves again, unless
\* it dies: the server does not go on taking the old connection for it.
ReturnersServe ==
    \A o \in Operators : []<>(op[o].stage # "reconnecting")

=============================================================================
