---------------------------- MODULE ReliableLink ----------------------------
(***************************************************************************)
(* One direction of a connection between two ReliableEndpoints over UDP.   *)
(* A data packet carries no acknowledgement and an ACK carries no data, so *)
(* the send half of one endpoint talks only to the receive half of the     *)
(* other: the opposite direction is another copy of this module.           *)
(*                                                                         *)
(* Packet number k of the direction (k = 1, 2, ...) has the wire id        *)
(* WireId(k); the HELLO is number 0.  A datagram records its number in the *)
(* field n, which no action of the endpoints reads: it only states how     *)
(* long UDP may hold a datagram back (Lifetime).                           *)
(***************************************************************************)
EXTENDS Reliable

CONSTANTS
    Payload,    \* what queue_payload is given
    Ping,       \* the empty payload of a keepalive
    Lossy,      \* the kinds of datagram UDP may lose
    Duplicates, \* may UDP deliver a datagram twice
    Lifetime,   \* newer packets that may be numbered while a datagram lives
    MaxSent     \* bound on the packets of one behaviour

ASSUME LinkAssumption ==
    /\ Ping \notin Payload
    /\ Lossy \subseteq {"data", "ack"}
    /\ Duplicates \in BOOLEAN
    /\ Lifetime \in Nat
    /\ max_in_flight < Lifetime
    /\ Lifetime + ACK_WINDOW <= MAX_PACKET_ID
    /\ MaxSent \in Nat

VARIABLES
    \* send half
    outbound,       \* payloads not numbered yet
    in_flight,      \* numbered and not acknowledged: [packet_id, payload]
    next_send_id,
    opened,         \* keepalives are sent only on an open connection
    \* receive half (AckState)
    expected_recv,
    highest_recv,
    ack_due,        \* packets_since_ack > 0
    \* UDP, and the two histories the properties speak of
    net,
    log,            \* every payload numbered so far
    got             \* every payload accepted so far

sendVars == <<outbound, in_flight, next_send_id, opened>>
recvVars == <<expected_recv, highest_recv, ack_due>>
vars == <<outbound, in_flight, next_send_id, opened,
          expected_recv, highest_recv, ack_due, net, log, got>>

Item  == Payload \cup {Ping}
Entry == [packet_id : PacketId, payload : Item]

Data(k, e) == [kind |-> "data", n |-> k, packet_id |-> e.packet_id,
               payload |-> e.payload]
Ack(k, id) == [kind |-> "ack", n |-> k, ack_id |-> id]

DataDatagram == [kind : {"data"}, n : Nat, packet_id : PacketId, payload : Item]
AckDatagram  == [kind : {"ack"}, n : Nat, ack_id : PacketId]

\* The datagrams UDP may still deliver once len packets have been numbered.
Alive(ds, len) == {d \in ds : d.n + Lifetime > len}

\* What is left in UDP after one copy of d arrived.
Arrived(d) ==
    \/ net' = net \ {d}
    \/ Duplicates /\ net' = net

-----------------------------------------------------------------------------
(***************************************************************************)
(* After the handshake.  The server half expects packet 1 and has nothing  *)
(* to acknowledge; the upstream half has acknowledged the HELLO, id 0.     *)
(***************************************************************************)
Init ==
    /\ outbound = <<>>
    /\ in_flight = <<>>
    /\ next_send_id = 1
    /\ opened = FALSE
    /\ expected_recv = 1
    /\ ack_due = FALSE
    /\ \/ highest_recv = NoId /\ net = {}
       \/ highest_recv = 0 /\ net = {Ack(0, 0)}
    /\ log = <<>>
    /\ got = <<>>

queue_payload(p) ==
    /\ Len(log) + Len(outbound) < MaxSent
    /\ outbound' = Append(outbound, p)
    /\ UNCHANGED <<in_flight, next_send_id, opened, recvVars, net, log, got>>

Open ==
    /\ ~ opened
    /\ opened' = TRUE
    /\ UNCHANGED <<outbound, in_flight, next_send_id, recvVars, net, log, got>>

\* The number of packets whose acknowledgement has been seen.
Acked == Len(log) - Len(in_flight)

\* A window that is refilled without looking at how full it is.
MutPollUnbounded(stale) ==
    LET k      == Len(outbound)
        window == in_flight \o Numbered(next_send_id, outbound, k)
        first  == IF stale THEN 1 ELSE Len(in_flight) + 1
        out    == {Data(Acked + i, window[i]) : i \in first .. Len(window)}
    IN  /\ stale => in_flight # <<>>
        /\ outbound' = <<>>
        /\ in_flight' = window
        /\ next_send_id' = (next_send_id + k) % MAX_PACKET_ID
        /\ log' = log \o outbound
        /\ net' = Alive(net \cup out, Len(log'))
        /\ UNCHANGED <<opened, recvVars, got>>

\* A retransmission that starts behind the oldest entry.
MutPollSkipsOldest(stale) ==
    LET k      == Fits(in_flight, outbound)
        window == in_flight \o Numbered(next_send_id, outbound, k)
        first  == IF stale THEN 2 ELSE Len(in_flight) + 1
        out    == {Data(Acked + i, window[i]) : i \in first .. Len(window)}
    IN  /\ stale => in_flight # <<>>
        /\ outbound' = SubSeq(outbound, k + 1, Len(outbound))
        /\ in_flight' = window
        /\ next_send_id' = (next_send_id + k) % MAX_PACKET_ID
        /\ log' = log \o SubSeq(outbound, 1, k)
        /\ net' = Alive(net \cup out, Len(log'))
        /\ UNCHANGED <<opened, recvVars, got>>

(***************************************************************************)
(* poll_outbound of the sending endpoint while it has something to send.   *)
(* If the oldest entry is stale the whole window is sent again; then the   *)
(* window is filled from the queue.  A resent packet differs from the      *)
(* first copy in the IS_RETRANSMIT flag only, on which nothing depends:    *)
(* accept_reliable returns false on both branches that look at it.         *)
(***************************************************************************)
poll_outbound(stale) ==
    LET k      == Fits(in_flight, outbound)
        window == in_flight \o Numbered(next_send_id, outbound, k)
        first  == IF stale THEN 1 ELSE Len(in_flight) + 1
        out    == {Data(Acked + i, window[i]) : i \in first .. Len(window)}
    IN  /\ stale => in_flight # <<>>
        /\ outbound' = SubSeq(outbound, k + 1, Len(outbound))
        /\ in_flight' = window
        /\ next_send_id' = (next_send_id + k) % MAX_PACKET_ID
        /\ log' = log \o SubSeq(outbound, 1, k)
        /\ net' = Alive(net \cup out, Len(log'))
        /\ UNCHANGED <<opened, recvVars, got>>

(***************************************************************************)
(* poll_outbound of an idle endpoint, ping_interval after the last ping.   *)
(* Both queues must be empty, so nothing else is sent in the same call.    *)
(***************************************************************************)
poll_ping ==
    LET e == [packet_id |-> next_send_id, payload |-> Ping]
    IN  /\ opened
        /\ in_flight = <<>>
        /\ outbound = <<>>
        /\ Len(log) < MaxSent
        /\ next_send_id' = next_packet_id(next_send_id)
        /\ in_flight' = <<e>>
        /\ log' = Append(log, Ping)
        /\ net' = Alive(net \cup {Data(Len(log'), e)}, Len(log'))
        /\ UNCHANGED <<outbound, opened, recvVars, got>>

\* The sender's receive handler, for a datagram with ACK_REPLY.
recv_ack(d) ==
    /\ d \in net /\ d.kind = "ack"
    /\ in_flight' = on_ack_id(in_flight, d.ack_id)
    /\ Arrived(d)
    /\ UNCHANGED <<outbound, next_send_id, opened, recvVars, log, got>>

\* Out-of-order packets are accepted as well.
MutAcceptAhead(d) ==
    /\ expected_recv' = next_packet_id(d.packet_id)
    /\ highest_recv' = d.packet_id
    /\ ack_due' = TRUE
    /\ got' = Append(got, d.payload)

\* A packet is accepted only if it is the expected one.
accept_reliable(d) ==
    /\ d.packet_id = expected_recv
    /\ expected_recv' = next_packet_id(expected_recv)
    /\ highest_recv' = d.packet_id
    /\ ack_due' = TRUE
    /\ got' = Append(got, d.payload)

(***************************************************************************)
(* The receiver's handler, for a datagram with ACK_REQUEST.  A packet that *)
(* is not accepted, a duplicate included, makes the receiver send a        *)
(* RETRANSMIT_REQUEST with ack id 0.  Neither receive path of the proxy    *)
(* reads such a datagram, so it is not put into net.                       *)
(***************************************************************************)
recv_data(d) ==
    /\ d \in net /\ d.kind = "data"
    /\ \/ accept_reliable(d)
       \/ d.packet_id # expected_recv /\ UNCHANGED <<recvVars, got>>
    /\ Arrived(d)
    /\ UNCHANGED <<sendVars, log>>

(***************************************************************************)
(* poll_outbound of the receiving endpoint: should_send_ack, whose timer   *)
(* may fire at any tick, and build_ack_packet.                             *)
(***************************************************************************)
poll_ack ==
    /\ highest_recv # NoId
    /\ ack_due
    /\ net' = net \cup {Ack(Len(got), highest_recv)}
    /\ ack_due' = FALSE
    /\ UNCHANGED <<sendVars, expected_recv, highest_recv, log, got>>

\* UDP loses a datagram.
Lose(d) ==
    /\ d.kind \in Lossy
    /\ net' = net \ {d}
    /\ UNCHANGED <<sendVars, recvVars, log, got>>

Next ==
    \/ \E p \in Payload : queue_payload(p)
    \/ Open
    \/ \E stale \in BOOLEAN : poll_outbound(stale)
    \/ poll_ping
    \/ \E d \in net : recv_ack(d)
    \/ \E d \in net : recv_data(d)
    \/ poll_ack
    \/ \E d \in net : Lose(d)

Spec == Init /\ [][Next]_vars

(***************************************************************************)
(* Both endpoints are polled every 5 ms, and 30 ms without progress make   *)
(* the window stale, so every kind of poll that stays possible happens.    *)
(* UDP eventually delivers a datagram that is sent again and again; one    *)
(* sent only once may be lost.                                             *)
(***************************************************************************)
RecvDataNo(k) == \E d \in net : d.n = k /\ recv_data(d)
RecvAckNo(k)  == \E d \in net : d.n = k /\ recv_ack(d)

Fairness ==
    /\ \A stale \in BOOLEAN : WF_vars(poll_outbound(stale))
    /\ WF_vars(poll_ack)
    /\ \A k \in 0 .. MaxSent : SF_vars(RecvDataNo(k)) /\ SF_vars(RecvAckNo(k))

FairSpec == Spec /\ Fairness

-----------------------------------------------------------------------------
TypeOK ==
    /\ outbound \in Seq(Payload)
    /\ in_flight \in Seq(Entry)
    /\ next_send_id \in PacketId
    /\ opened \in BOOLEAN
    /\ expected_recv \in PacketId
    /\ highest_recv \in PacketId \cup {NoId}
    /\ ack_due \in BOOLEAN
    /\ net \subseteq DataDatagram \cup AckDatagram
    /\ log \in Seq(Item)
    /\ got \in Seq(Item)

(***************************************************************************)
(* on_ack_id releases only packets the peer has accepted: an ack that is   *)
(* late, duplicated, or wrapped past the end of the id space never frees a *)
(* packet that could still be lost.                                        *)
(***************************************************************************)
AckedWereDelivered == Acked <= Len(got)

(***************************************************************************)
(* What is kept for retransmission is exactly the unacknowledged tail of   *)
(* what was numbered, with the ids it was sent under, and it never exceeds *)
(* max_in_flight, whatever acks arrived and however often the ids wrapped. *)
(***************************************************************************)
WindowIsUnackedTail ==
    /\ Len(in_flight) <= max_in_flight
    /\ Len(in_flight) <= Len(log)
    /\ \A i \in 1 .. Len(in_flight) :
         in_flight[i] = [packet_id |-> WireId(Acked + i),
                         payload   |-> log[Acked + i]]

\* Both ends count as one: the ids they use next are the wire ids of their
\* histories, and what was accepted is a prefix of what was sent.
EndsAgree ==
    /\ next_send_id = WireId(Len(log) + 1)
    /\ expected_recv = WireId(Len(got) + 1)
    /\ highest_recv # NoId => highest_recv = WireId(Len(got))
    /\ Len(got) <= Len(log)
    /\ \A i \in 1 .. Len(got) : got[i] = log[i]

\* Every datagram still in UDP is what was sent under its number, and young
\* enough that its wire id cannot be taken for that of another packet.
NetIsHistory ==
    /\ \A d \in net : d.n + Lifetime > Len(log)
    /\ \A d \in net : d.kind = "data" =>
         /\ 1 <= d.n /\ d.n <= Len(log)
         /\ d.packet_id = WireId(d.n)
         /\ d.payload = log[d.n]
    /\ \A d \in net : d.kind = "ack" =>
         /\ d.n <= Len(got)
         /\ d.ack_id = WireId(d.n)

\* The inductive invariant of the link.
LinkInv ==
    TypeOK /\ WindowIsUnackedTail /\ AckedWereDelivered /\ EndsAgree
           /\ NetIsHistory

(***************************************************************************)
(* The link implements a FIFO channel: accept_reliable hands on every      *)
(* payload exactly once and in order, over a network that loses, reorders  *)
(* and duplicates, with ids that wrap.                                     *)
(***************************************************************************)
Fifo == INSTANCE FifoChannel WITH sent <- log \o outbound, delivered <- got

ImplementsFifo == Fifo!Spec

(***************************************************************************)
(* Every payload handed to queue_payload reaches the peer, through loss    *)
(* and retransmission of the window (poll_outbound).                       *)
(***************************************************************************)
EverythingDelivered ==
    \A k \in 1 .. MaxSent :
        (Len(log) + Len(outbound) >= k) ~> (Len(got) >= k)

(***************************************************************************)
(* "Peers must ACK or the sender retransmits" (docs/PROTOCOL.md): every    *)
(* packet in flight is acknowledged in the end and leaves the window.      *)
(***************************************************************************)
EveryPacketAcknowledged ==
    \A k \in 1 .. MaxSent : (Len(log) >= k) ~> (Acked >= k)
=============================================================================
