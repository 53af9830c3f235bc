------------------------- MODULE ReliableLinkProofs -------------------------
(***************************************************************************)
(* Proofs about ReliableLink, for every window, id space, payload set,     *)
(* kind of loss and number of packets.  The argument: datagrams in UDP are *)
(* younger than Lifetime packets, so among the numbers either end can be   *)
(* talking about no two share a wire id; comparing wire ids is then the    *)
(* same as comparing numbers, and LinkInv is inductive.                    *)
(***************************************************************************)
EXTENDS ReliableLink, ReliableProofs, SequenceTheorems

-----------------------------------------------------------------------------
\* The bounds on the constants in one place.
LEMMA ConstantBounds ==
    /\ MAX_PACKET_ID \in Nat /\ ACK_WINDOW \in Nat /\ max_in_flight \in Nat
    /\ Lifetime \in Nat /\ MaxSent \in Nat
    /\ 1 <= max_in_flight /\ max_in_flight <= ACK_WINDOW
    /\ ACK_WINDOW < MAX_PACKET_ID
    /\ max_in_flight < Lifetime /\ Lifetime + ACK_WINDOW <= MAX_PACKET_ID
  BY ReliableAssumption, LinkAssumption

\* What the invariant says about lengths.
LEMMA Lengths ==
    ASSUME LinkInv
    PROVE  /\ Len(log) \in Nat /\ Len(got) \in Nat /\ Len(outbound) \in Nat
           /\ Len(in_flight) \in Nat /\ Acked \in Nat
           /\ Acked + Len(in_flight) = Len(log)
           /\ Len(in_flight) <= max_in_flight
           /\ Acked <= Len(got) /\ Len(got) <= Len(log)
<1>1. /\ log \in Seq(Item) /\ got \in Seq(Item) /\ outbound \in Seq(Payload)
      /\ in_flight \in Seq(Entry)
  BY DEF LinkInv, TypeOK
<1>2. /\ Len(log) \in Nat /\ Len(got) \in Nat /\ Len(outbound) \in Nat
      /\ Len(in_flight) \in Nat
  BY <1>1, LenProperties
<1> QED
  BY <1>2 DEF LinkInv, WindowIsUnackedTail, AckedWereDelivered, EndsAgree, Acked

\* The fields of the two kinds of datagram.
LEMMA DatagramFields ==
    /\ \A k, e : /\ Data(k, e).kind = "data" /\ Data(k, e).n = k
                 /\ Data(k, e).packet_id = e.packet_id
                 /\ Data(k, e).payload = e.payload
    /\ \A k, id : Ack(k, id).kind = "ack" /\ Ack(k, id).n = k
                  /\ Ack(k, id).ack_id = id
  BY DEF Data, Ack

\* Datagrams of the right fields are datagrams.
LEMMA DatagramTypes ==
    /\ \A k \in Nat, e \in Entry : Data(k, e) \in DataDatagram
    /\ \A k \in Nat, id \in PacketId : Ack(k, id) \in AckDatagram
  BY DEF Data, Ack, DataDatagram, AckDatagram, Entry

\* A datagram of a TypeOK net is numbered.
LEMMA NetTypes ==
    ASSUME TypeOK, NEW d \in net
    PROVE  /\ d.n \in Nat
           /\ d.kind \in {"data", "ack"}
           /\ d.kind = "data" => d.packet_id \in PacketId /\ d.payload \in Item
           /\ d.kind = "ack" => d.ack_id \in PacketId
  BY DEF TypeOK, DataDatagram, AckDatagram

\* Losing datagrams, or keeping them all, disturbs nothing.
LEMMA FewerDatagrams ==
    ASSUME LinkInv, net' \subseteq net,
           UNCHANGED <<outbound, in_flight, next_send_id, opened,
                       expected_recv, highest_recv, ack_due, log, got>>
    PROVE  LinkInv'
<1>1. TypeOK'
  BY DEF LinkInv, TypeOK
<1>2. WindowIsUnackedTail' /\ AckedWereDelivered' /\ EndsAgree'
  BY DEF LinkInv, WindowIsUnackedTail, AckedWereDelivered, EndsAgree, Acked
<1>3. NetIsHistory'
  BY DEF LinkInv, NetIsHistory
<1> QED
  BY <1>1, <1>2, <1>3 DEF LinkInv

-----------------------------------------------------------------------------
\* The link starts out in the invariant.
LEMMA InitLinkInv == Init => LinkInv
<1> SUFFICES ASSUME Init PROVE LinkInv
  OBVIOUS
<1>1. Len(log) = 0 /\ Len(got) = 0 /\ Len(in_flight) = 0 /\ Acked = 0
  BY EmptySeq DEF Init, Acked
<1>2. WireId(1) = 1 /\ WireId(0) = 0 /\ 0 \in PacketId /\ 1 \in PacketId
  <2>1. MAX_PACKET_ID \in Nat /\ MAX_PACKET_ID > 1
    BY ConstantBounds
  <2>2. \A j \in 0 .. 1 : j = MAX_PACKET_ID * 0 + j /\ j \in 0 .. MAX_PACKET_ID - 1
    BY <2>1
  <2>3. \A j \in 0 .. 1 : j % MAX_PACKET_ID = j
    BY <2>1, <2>2, ModIs
  <2> QED
    BY <2>1, <2>3 DEF WireId, PacketId
<1>3. Ack(0, 0) \in AckDatagram
  BY <1>2, DatagramTypes
<1>4. TypeOK
  <2>1. net \subseteq AckDatagram
    BY <1>3 DEF Init
  <2>2. highest_recv \in PacketId \cup {NoId}
    BY <1>2 DEF Init
  <2>3. \A S : <<>> \in Seq(S)
    BY EmptySeq
  <2> QED
    BY <1>2, <2>1, <2>2, <2>3 DEF Init, TypeOK
<1>5. WindowIsUnackedTail /\ AckedWereDelivered
  BY <1>1, ConstantBounds DEF WindowIsUnackedTail, AckedWereDelivered
<1>6. EndsAgree
  BY <1>1, <1>2 DEF Init, EndsAgree, NoId
<1>7. NetIsHistory
  BY <1>1, <1>2, ConstantBounds, DatagramFields DEF Init, NetIsHistory
<1> QED
  BY <1>4, <1>5, <1>6, <1>7 DEF LinkInv

-----------------------------------------------------------------------------
(***************************************************************************)
(* The four steps that do not touch a sequence by position.                *)
(***************************************************************************)
\* queue_payload only lengthens the queue.
LEMMA QueueStep ==
    ASSUME LinkInv, NEW p \in Payload, queue_payload(p)
    PROVE  LinkInv'
<1>1. outbound' \in Seq(Payload)
  BY AppendProperties DEF queue_payload, LinkInv, TypeOK
<1>2. TypeOK'
  BY <1>1 DEF queue_payload, LinkInv, TypeOK, recvVars
<1>3. /\ WindowIsUnackedTail' /\ AckedWereDelivered' /\ EndsAgree'
      /\ NetIsHistory'
  BY DEF queue_payload, LinkInv, WindowIsUnackedTail, AckedWereDelivered,
         EndsAgree, NetIsHistory, Acked, recvVars
<1> QED
  BY <1>2, <1>3 DEF LinkInv

\* Opening the connection only allows keepalives.
LEMMA OpenStep ==
    ASSUME LinkInv, Open
    PROVE  LinkInv'
<1>1. TypeOK'
  BY DEF Open, LinkInv, TypeOK, recvVars
<1>2. /\ WindowIsUnackedTail' /\ AckedWereDelivered' /\ EndsAgree'
      /\ NetIsHistory'
  BY DEF Open, LinkInv, WindowIsUnackedTail, AckedWereDelivered, EndsAgree,
         NetIsHistory, Acked, recvVars
<1> QED
  BY <1>1, <1>2 DEF LinkInv

\* The ack of the last accepted packet is young: the window is shorter than
\* Lifetime and everything before it is acknowledged.
LEMMA PollAckStep ==
    ASSUME LinkInv, poll_ack
    PROVE  LinkInv'
<1> DEFINE a == Ack(Len(got), highest_recv)
<1>1. highest_recv = WireId(Len(got)) /\ highest_recv \in PacketId
  BY DEF poll_ack, LinkInv, EndsAgree, TypeOK
<1>2. Len(got) \in Nat /\ Len(got) + Lifetime > Len(log)
  BY Lengths, ConstantBounds
<1>3. a \in AckDatagram /\ a.kind = "ack" /\ a.n = Len(got)
      /\ a.ack_id = WireId(Len(got))
  BY <1>1, <1>2, DatagramTypes, DatagramFields
<1> HIDE DEF a
<1>4. net' = net \cup {a}
  BY DEF poll_ack, a
<1>5. TypeOK'
  BY <1>3, <1>4 DEF poll_ack, LinkInv, TypeOK, sendVars
<1>6. WindowIsUnackedTail' /\ AckedWereDelivered' /\ EndsAgree'
  BY DEF poll_ack, LinkInv, WindowIsUnackedTail, AckedWereDelivered, EndsAgree,
         Acked, sendVars
<1>7. NetIsHistory'
  BY <1>2, <1>3, <1>4 DEF poll_ack, LinkInv, NetIsHistory, sendVars
<1> QED
  BY <1>5, <1>6, <1>7 DEF LinkInv

\* UDP loses a datagram.
LEMMA LoseStep ==
    ASSUME LinkInv, NEW d, Lose(d)
    PROVE  LinkInv'
  BY FewerDatagrams DEF Lose, sendVars, recvVars

(***************************************************************************)
(* accept_reliable: a datagram that carries the expected wire id is the    *)
(* next packet, because its number is close to the receiver's.             *)
(***************************************************************************)
LEMMA AcceptedIsNext ==
    ASSUME LinkInv, NEW d \in net, d.kind = "data", d.packet_id = expected_recv
    PROVE  d.n = Len(got) + 1
<1>1. /\ d.n \in Nat /\ d.n + Lifetime > Len(log) /\ d.n <= Len(log)
      /\ d.packet_id = WireId(d.n)
  BY NetTypes DEF LinkInv, NetIsHistory
<1>2. expected_recv = WireId(Len(got) + 1)
  BY DEF LinkInv, EndsAgree
<1>3. /\ d.n \in Int /\ Len(got) + 1 \in Int
      /\ d.n - (Len(got) + 1) < MAX_PACKET_ID
      /\ (Len(got) + 1) - d.n < MAX_PACKET_ID
  BY <1>1, Lengths, ConstantBounds
<1>4. WireId(d.n) = WireId(Len(got) + 1)
  BY <1>1, <1>2
<1> QED
  BY <1>3, <1>4, WireIdInjective

\* recv_data, whether or not the packet is accepted.
LEMMA RecvDataStep ==
    ASSUME LinkInv, NEW d \in net, recv_data(d)
    PROVE  LinkInv'
<1>1. net' \subseteq net
  BY DEF recv_data, Arrived
<1>2. CASE UNCHANGED <<recvVars, got>>
  BY <1>1, <1>2, FewerDatagrams DEF recv_data, sendVars, recvVars
<1>3. CASE accept_reliable(d)
  <2>1. d.kind = "data" /\ d.packet_id = expected_recv
    BY <1>3 DEF recv_data, accept_reliable
  <2>2. d.n = Len(got) + 1
    BY <2>1, AcceptedIsNext
  <2>3. /\ d.n <= Len(log) /\ d.payload = log[Len(got) + 1]
        /\ d.packet_id = WireId(Len(got) + 1) /\ d.packet_id \in PacketId
        /\ d.payload \in Item
    BY <2>1, <2>2, NetTypes DEF LinkInv, NetIsHistory
  <2>4. got \in Seq(Item) /\ got' = Append(got, d.payload)
    BY <1>3 DEF accept_reliable, LinkInv, TypeOK
  <2>5. /\ got' \in Seq(Item) /\ Len(got') = Len(got) + 1
        /\ \A i \in 1 .. Len(got) : got'[i] = got[i]
        /\ got'[Len(got) + 1] = d.payload
    BY <2>3, <2>4, AppendProperties
  <2>6. expected_recv' = WireId(Len(got) + 2) /\ expected_recv' \in PacketId
    <3>1. Len(got) + 1 \in Int /\ (Len(got) + 1) + 1 = Len(got) + 2
      BY Lengths
    <3>2. expected_recv' = next_packet_id(WireId(Len(got) + 1))
      BY <1>3, <2>1, <2>3 DEF accept_reliable
    <3> QED
      BY <3>1, <3>2, NextWireId, WireIdType
  <2>7. UNCHANGED <<outbound, in_flight, next_send_id, opened, log>>
    BY DEF recv_data, sendVars
  <2>8. highest_recv' = d.packet_id /\ ack_due' = TRUE
    BY <1>3 DEF accept_reliable
  <2>9. TypeOK'
    BY <1>1, <2>3, <2>5, <2>6, <2>7, <2>8 DEF LinkInv, TypeOK
  <2>10. WindowIsUnackedTail' /\ AckedWereDelivered'
    BY <2>5, <2>7, Lengths DEF LinkInv, WindowIsUnackedTail, AckedWereDelivered,
                               Acked
  <2>11. EndsAgree'
    <3>1. \A i \in 1 .. Len(got') : got'[i] = log[i]
      BY <2>3, <2>5, Lengths DEF LinkInv, EndsAgree
    <3>2. Len(got') + 1 = Len(got) + 2
      BY <2>5, Lengths
    <3> QED
      BY <2>2, <2>3, <2>5, <2>6, <2>7, <2>8, <3>1, <3>2 DEF LinkInv, EndsAgree
  <2>12. NetIsHistory'
    BY <1>1, <2>5, <2>7, Lengths, NetTypes DEF LinkInv, NetIsHistory
  <2> QED
    BY <2>9, <2>10, <2>11, <2>12 DEF LinkInv
<1> QED
  BY <1>2, <1>3 DEF recv_data

(***************************************************************************)
(* on_ack_id: an ack in UDP names a packet close to the window, so the     *)
(* code pops exactly the packets up to it.                                 *)
(***************************************************************************)
LEMMA RecvAckStep ==
    ASSUME LinkInv, NEW d \in net, recv_ack(d)
    PROVE  LinkInv'
<1> DEFINE k == IF d.n <= Acked THEN 0 ELSE d.n - Acked
<1>1. net' \subseteq net /\ d.kind = "ack"
  BY DEF recv_ack, Arrived
<1>2. /\ d.n \in Nat /\ d.n <= Len(got) /\ d.n + Lifetime > Len(log)
      /\ d.ack_id = WireId(d.n)
  BY <1>1, NetTypes DEF LinkInv, NetIsHistory
<1>3. in_flight \in Seq(Entry)
  BY DEF LinkInv, TypeOK
<1>4. CoveredPrefix(in_flight, d.ack_id) = k
  <2>1. /\ Acked \in Nat /\ Len(in_flight) <= ACK_WINDOW
        /\ d.n <= Acked + Len(in_flight)
        /\ Acked + Len(in_flight) - d.n <= MAX_PACKET_ID - ACK_WINDOW
    BY <1>2, Lengths, ConstantBounds
  <2>2. \A i \in 1 .. Len(in_flight) : in_flight[i].packet_id = WireId(Acked + i)
    <3> SUFFICES ASSUME NEW i \in 1 .. Len(in_flight)
                 PROVE  in_flight[i].packet_id = WireId(Acked + i)
      OBVIOUS
    <3>1. in_flight[i] = [packet_id |-> WireId(Acked + i),
                          payload |-> log[Acked + i]]
      BY DEF LinkInv, WindowIsUnackedTail
    <3> QED
      BY <3>1
  <2>3. CoveredPrefix(in_flight, WireId(d.n))
          = IF d.n <= Acked THEN 0 ELSE d.n - Acked
    BY <1>2, <1>3, <2>1, <2>2, AckPopsUpTo
  <2> QED
    BY <1>2, <2>3
<1>5. k \in 0 .. Len(in_flight) /\ Acked + k <= Len(got)
  BY <1>2, Lengths
<1> HIDE DEF k
<1>6. in_flight' = SubSeq(in_flight, k + 1, Len(in_flight))
  BY <1>4 DEF recv_ack, on_ack_id
<1>7. /\ in_flight' \in Seq(Entry)
      /\ Len(in_flight') = Len(in_flight) - k
      /\ \A i \in 1 .. Len(in_flight') : in_flight'[i] = in_flight[k + i]
  <2>1. /\ k + 1 \in Int /\ Len(in_flight) \in Int
        /\ \A i \in k + 1 .. Len(in_flight) : in_flight[i] \in Entry
    BY <1>3, <1>5, Lengths, ElementOfSeq
  <2>2. /\ SubSeq(in_flight, k + 1, Len(in_flight)) \in Seq(Entry)
        /\ Len(SubSeq(in_flight, k + 1, Len(in_flight)))
             = IF k + 1 <= Len(in_flight) THEN Len(in_flight) - (k + 1) + 1 ELSE 0
        /\ \A i \in 1 .. Len(in_flight) - (k + 1) + 1 :
             SubSeq(in_flight, k + 1, Len(in_flight))[i] = in_flight[(k + 1) + i - 1]
    BY <2>1, SubSeqProperties
  <2> HIDE DEF Entry
  <2> QED
    BY <1>5, <1>6, <2>2, Lengths
<1>8. UNCHANGED <<outbound, next_send_id, opened, expected_recv, highest_recv,
                  ack_due, log, got>>
  BY DEF recv_ack, recvVars
<1>9. Acked' = Acked + k
  BY <1>5, <1>7, <1>8, Lengths DEF Acked
<1>10. TypeOK'
  BY <1>1, <1>7, <1>8 DEF LinkInv, TypeOK
<1>11. WindowIsUnackedTail'
  <2>1. Len(in_flight') <= max_in_flight /\ Len(in_flight') <= Len(log')
    BY <1>5, <1>7, <1>8, Lengths, ConstantBounds
  <2>2. ASSUME NEW i \in 1 .. Len(in_flight')
        PROVE  in_flight'[i] = [packet_id |-> WireId(Acked' + i),
                                payload |-> log'[Acked' + i]]
    <3>1. k + i \in 1 .. Len(in_flight) /\ Acked + (k + i) = Acked' + i
      BY <1>5, <1>7, <1>9, Lengths
    <3>2. in_flight[k + i] = [packet_id |-> WireId(Acked + (k + i)),
                              payload |-> log[Acked + (k + i)]]
      BY <3>1 DEF LinkInv, WindowIsUnackedTail
    <3> QED
      BY <1>7, <1>8, <3>1, <3>2
  <2> QED
    BY <2>1, <2>2 DEF WindowIsUnackedTail
<1>12. AckedWereDelivered' /\ EndsAgree'
  BY <1>5, <1>8, <1>9 DEF LinkInv, AckedWereDelivered, EndsAgree
<1>13. NetIsHistory'
  BY <1>1, <1>8 DEF LinkInv, NetIsHistory
<1> QED
  BY <1>10, <1>11, <1>12, <1>13 DEF LinkInv

-----------------------------------------------------------------------------
(***************************************************************************)
(* Numbering payloads xs, sending them and resending the window from entry *)
(* first on: what poll_outbound does, with or without a stale window, and  *)
(* what a keepalive does.                                                  *)
(***************************************************************************)
Numbers(xs, fresh, first) ==
    /\ xs \in Seq(Item) /\ fresh \in Seq(Entry) /\ Len(fresh) = Len(xs)
    /\ Len(in_flight) + Len(xs) <= max_in_flight
    /\ \A j \in 1 .. Len(xs) :
         fresh[j] = [packet_id |-> WireId(Len(log) + j), payload |-> xs[j]]
    /\ first \in Nat /\ 1 <= first
    /\ in_flight' = in_flight \o fresh
    /\ log' = log \o xs
    /\ next_send_id' = WireId(Len(log) + Len(xs) + 1)
    /\ outbound' \in Seq(Payload)
    /\ net' = Alive(net \cup {Data(Acked + i, in_flight'[i]) :
                               i \in first .. Len(in_flight')}, Len(log'))
    /\ UNCHANGED <<opened, expected_recv, highest_recv, ack_due, got>>

\* Such a step keeps the invariant.
LEMMA NumberingStep ==
    ASSUME LinkInv, NEW xs, NEW fresh, NEW first, Numbers(xs, fresh, first)
    PROVE  LinkInv'
<1> DEFINE n == Len(in_flight)
           m == Len(xs)
<1>1. /\ n \in Nat /\ m \in Nat /\ Len(log) \in Nat /\ Len(got) \in Nat
      /\ Acked \in Nat /\ Acked + n = Len(log) /\ Acked <= Len(got)
      /\ Len(got) <= Len(log)
  BY Lengths, LenProperties DEF Numbers
<1>2. log \in Seq(Item) /\ in_flight \in Seq(Entry)
  BY DEF LinkInv, TypeOK
<1>3. /\ log' \in Seq(Item) /\ Len(log') = Len(log) + m
      /\ \A i \in 1 .. Len(log) + m :
           log'[i] = IF i <= Len(log) THEN log[i] ELSE xs[i - Len(log)]
  BY <1>2, ConcatProperties DEF Numbers
<1>4. /\ in_flight' \in Seq(Entry) /\ Len(in_flight') = n + m
      /\ \A i \in 1 .. n + m :
           in_flight'[i] = IF i <= n THEN in_flight[i] ELSE fresh[i - n]
  <2>1. /\ in_flight \o fresh \in Seq(Entry)
        /\ Len(in_flight \o fresh) = Len(in_flight) + Len(fresh)
        /\ \A i \in 1 .. Len(in_flight) + Len(fresh) :
             (in_flight \o fresh)[i] = IF i <= Len(in_flight) THEN in_flight[i]
                                       ELSE fresh[i - Len(in_flight)]
    BY <1>2, ConcatProperties DEF Numbers
  <2> QED
    BY <2>1 DEF Numbers
<1> HIDE DEF n, m
<1>5. Acked' = Acked
  BY <1>1, <1>3, <1>4 DEF Acked, n
<1>6. \A i \in 1 .. Len(log) : log'[i] = log[i]
  BY <1>1, <1>3
<1>7. ASSUME NEW i \in 1 .. n + m
      PROVE  in_flight'[i] = [packet_id |-> WireId(Acked + i),
                              payload |-> log'[Acked + i]]
  <2>1. CASE i <= n
    <3>1. i \in 1 .. n /\ Acked + i \in 1 .. Len(log)
      BY <1>1, <2>1
    <3>2. in_flight[i] = [packet_id |-> WireId(Acked + i),
                          payload |-> log[Acked + i]]
      BY <3>1 DEF LinkInv, WindowIsUnackedTail, n
    <3> QED
      BY <1>4, <1>6, <2>1, <3>1, <3>2
  <2>2. CASE i > n
    <3> DEFINE j == i - n
    <3>1. /\ j \in 1 .. m /\ Acked + i = Len(log) + j
          /\ Len(log) + j \in 1 .. Len(log) + m
          /\ ~ (Len(log) + j <= Len(log)) /\ (Len(log) + j) - Len(log) = j
      BY <1>1, <2>2
    <3>2. in_flight'[i] = fresh[j]
      BY <1>1, <1>4, <2>2
    <3> HIDE DEF j
    <3>3. fresh[j] = [packet_id |-> WireId(Len(log) + j), payload |-> xs[j]]
      BY <3>1 DEF m, Numbers
    <3>4. log'[Len(log) + j] = xs[j]
      BY <1>3, <3>1
    <3> QED
      BY <3>1, <3>2, <3>3, <3>4
  <2> QED
    BY <1>1, <2>1, <2>2
<1>8. ASSUME NEW d \in net', d \notin net
      PROVE  \E i \in 1 .. n + m : d = Data(Acked + i, in_flight'[i])
  <2>1. d \in {Data(Acked + i, in_flight'[i]) : i \in first .. Len(in_flight')}
    BY <1>8 DEF Alive, Numbers
  <2>2. PICK i \in first .. Len(in_flight') : d = Data(Acked + i, in_flight'[i])
    BY <2>1
  <2>3. i \in 1 .. n + m
    BY <1>1, <1>4 DEF Numbers
  <2> QED
    BY <2>2, <2>3
<1>9. \A d \in net' : d.n + Lifetime > Len(log')
  BY DEF Alive, Numbers
<1>10. TypeOK'
  <2>1. next_send_id' \in PacketId
    BY <1>1, WireIdType DEF Numbers, m
  <2>2. ASSUME NEW d \in net', d \notin net PROVE d \in DataDatagram
    <3>1. PICK i \in 1 .. n + m : d = Data(Acked + i, in_flight'[i])
      BY <1>8, <2>2
    <3>2. in_flight'[i] \in Entry /\ Acked + i \in Nat
      BY <1>1, <1>4, ElementOfSeq
    <3> QED
      BY <3>1, <3>2, DatagramTypes
  <2>3. net' \subseteq DataDatagram \cup AckDatagram
    BY <2>2 DEF LinkInv, TypeOK
  <2> QED
    BY <1>3, <1>4, <2>1, <2>3 DEF LinkInv, TypeOK, Numbers
<1>11. WindowIsUnackedTail'
  <2>1. Len(in_flight') <= max_in_flight /\ Len(in_flight') <= Len(log')
    BY <1>1, <1>3, <1>4 DEF n, m, Numbers
  <2> QED
    BY <1>4, <1>5, <1>7, <2>1 DEF WindowIsUnackedTail
<1>12. AckedWereDelivered'
  BY <1>5 DEF LinkInv, AckedWereDelivered, Numbers
<1>13. EndsAgree'
  <2>1. next_send_id' = WireId(Len(log') + 1)
    BY <1>3 DEF m, Numbers
  <2>2. \A i \in 1 .. Len(got) : got[i] = log'[i]
    BY <1>1, <1>6 DEF LinkInv, EndsAgree
  <2>3. Len(got) <= Len(log')
    BY <1>1, <1>3
  <2> QED
    BY <2>1, <2>2, <2>3 DEF LinkInv, EndsAgree, Numbers
<1>14. NetIsHistory'
  <2>1. ASSUME NEW d \in net', d.kind = "data"
        PROVE  /\ 1 <= d.n /\ d.n <= Len(log')
               /\ d.packet_id = WireId(d.n)
               /\ d.payload = log'[d.n]
    <3>1. CASE d \in net
      <4>1. /\ d.n \in Nat /\ 1 <= d.n /\ d.n <= Len(log)
            /\ d.packet_id = WireId(d.n) /\ d.payload = log[d.n]
        BY <2>1, <3>1, NetTypes DEF LinkInv, NetIsHistory
      <4> QED
        BY <1>1, <1>3, <1>6, <4>1
    <3>2. CASE d \notin net
      <4>1. PICK i \in 1 .. n + m : d = Data(Acked + i, in_flight'[i])
        BY <1>8, <3>2
      <4>2. /\ d.n = Acked + i
            /\ d.packet_id = in_flight'[i].packet_id
            /\ d.payload = in_flight'[i].payload
        BY <4>1, DatagramFields
      <4>3. 1 <= Acked + i /\ Acked + i <= Len(log')
        BY <1>1, <1>3
      <4>4. /\ in_flight'[i].packet_id = WireId(Acked + i)
            /\ in_flight'[i].payload = log'[Acked + i]
        <5>1. in_flight'[i] = [packet_id |-> WireId(Acked + i),
                               payload |-> log'[Acked + i]]
          BY <1>7
        <5> QED
          BY <5>1
      <4> QED
        BY <4>2, <4>3, <4>4
    <3> QED
      BY <3>1, <3>2
  <2>2. ASSUME NEW d \in net', d.kind = "ack"
        PROVE  d.n <= Len(got') /\ d.ack_id = WireId(d.n)
    <3>1. d \in net
      <4>1. ASSUME d \notin net PROVE d.kind = "data"
        BY <1>8, <4>1, DatagramFields
      <4> QED
        BY <2>2, <4>1
    <3> QED
      BY <2>2, <3>1 DEF LinkInv, NetIsHistory, Numbers
  <2> QED
    BY <1>9, <2>1, <2>2 DEF NetIsHistory
<1> QED
  BY <1>10, <1>11, <1>12, <1>13, <1>14 DEF LinkInv

\* poll_outbound with something to send.
LEMMA PollStep ==
    ASSUME LinkInv, NEW stale \in BOOLEAN, poll_outbound(stale)
    PROVE  LinkInv'
<1> DEFINE k == Fits(in_flight, outbound)
           xs == SubSeq(outbound, 1, k)
           fresh == Numbered(next_send_id, outbound, k)
           first == IF stale THEN 1 ELSE Len(in_flight) + 1
<1>1. outbound \in Seq(Payload) /\ Payload \subseteq Item
  BY DEF LinkInv, TypeOK, Item
<1>2. k \in 0 .. Len(outbound) /\ Len(in_flight) + k <= max_in_flight
  BY Lengths, ConstantBounds DEF Fits
<1>3. first \in Nat /\ 1 <= first
  BY Lengths
<1>4. /\ in_flight' = in_flight \o fresh
      /\ log' = log \o xs
      /\ outbound' = SubSeq(outbound, k + 1, Len(outbound))
      /\ next_send_id' = (next_send_id + k) % MAX_PACKET_ID
      /\ net' = Alive(net \cup {Data(Acked + i, in_flight'[i]) :
                                  i \in first .. Len(in_flight')}, Len(log'))
      /\ UNCHANGED <<opened, expected_recv, highest_recv, ack_due, got>>
  BY DEF poll_outbound, recvVars
<1> HIDE DEF k, first
<1>5. \A i \in 1 .. Len(outbound) : outbound[i] \in Payload /\ outbound[i] \in Item
  BY <1>1, ElementOfSeq
<1>6. /\ xs \in Seq(Item) /\ Len(xs) = k
      /\ \A j \in 1 .. k : xs[j] = outbound[j]
  <2>1. 1 \in Int /\ k \in Int /\ \A i \in 1 .. k : outbound[i] \in Item
    BY <1>2, <1>5, Lengths
  <2>2. /\ xs \in Seq(Item) /\ Len(xs) = IF 1 <= k THEN k - 1 + 1 ELSE 0
        /\ \A i \in 1 .. k - 1 + 1 : xs[i] = outbound[1 + i - 1]
    BY <2>1, SubSeqProperties
  <2> HIDE DEF xs, Item
  <2> QED
    BY <1>2, <2>2, Lengths
<1>7. outbound' \in Seq(Payload)
  <2>1. /\ k + 1 \in Int /\ Len(outbound) \in Int
        /\ \A i \in k + 1 .. Len(outbound) : outbound[i] \in Payload
    BY <1>2, <1>5, Lengths
  <2> QED
    BY <1>4, <2>1, SubSeqProperties
<1>8. next_send_id = WireId(Len(log) + 1) /\ Len(log) + 1 \in Int
  BY Lengths DEF LinkInv, EndsAgree
<1>9. next_send_id' = WireId(Len(log) + k + 1)
  <2>1. (WireId(Len(log) + 1) + k) % MAX_PACKET_ID = WireId((Len(log) + 1) + k)
    BY <1>2, <1>8, Lengths, WireIdAdd
  <2>2. (Len(log) + 1) + k = Len(log) + k + 1
    BY <1>2, Lengths
  <2> QED
    BY <1>4, <1>8, <2>1, <2>2
<1>10. ASSUME NEW j \in 1 .. k
       PROVE  /\ fresh[j] = [packet_id |-> WireId(Len(log) + j),
                             payload |-> xs[j]]
              /\ fresh[j] \in Entry
  <2>1. fresh[j] = [packet_id |-> (next_send_id + j - 1) % MAX_PACKET_ID,
                    payload |-> outbound[j]]
    BY DEF Numbered
  <2>2. (next_send_id + j - 1) % MAX_PACKET_ID = WireId(Len(log) + j)
    <3>1. j - 1 \in Int /\ (Len(log) + 1) + (j - 1) = Len(log) + j
      BY <1>2, Lengths
    <3>2. (WireId(Len(log) + 1) + (j - 1)) % MAX_PACKET_ID
            = WireId((Len(log) + 1) + (j - 1))
      BY <1>8, <3>1, WireIdAdd
    <3>3. next_send_id + j - 1 = WireId(Len(log) + 1) + (j - 1)
      <4>1. next_send_id \in Int
        BY ConstantBounds DEF LinkInv, TypeOK, PacketId
      <4> QED
        BY <1>2, <1>8, <4>1, Lengths
    <3> QED
      BY <3>1, <3>2, <3>3
  <2>3. WireId(Len(log) + j) \in PacketId
    BY <1>2, Lengths, WireIdType
  <2>4. outbound[j] \in Item /\ xs[j] = outbound[j]
    BY <1>2, <1>5, <1>6, Lengths
  <2> HIDE DEF fresh, xs
  <2> QED
    BY <2>1, <2>2, <2>3, <2>4 DEF Entry
<1>11. fresh \in Seq(Entry) /\ Len(fresh) = k
  <2>1. k \in Nat /\ fresh \in [1 .. k -> Entry]
    <3>1. fresh = [j \in 1 .. k |-> fresh[j]]
      BY DEF Numbered
    <3> HIDE DEF fresh
    <3> QED
      BY <1>2, <1>10, <3>1, Lengths
  <2> HIDE DEF fresh
  <2> QED
    BY <2>1
<1> HIDE DEF fresh, xs
<1> QED
  <2>1. Numbers(xs, fresh, first)
    BY <1>2, <1>3, <1>4, <1>6, <1>7, <1>9, <1>10, <1>11 DEF Numbers
  <2> QED
    BY <2>1, NumberingStep

\* A keepalive.
LEMMA PingStep ==
    ASSUME LinkInv, poll_ping
    PROVE  LinkInv'
<1> DEFINE e == [packet_id |-> next_send_id, payload |-> Ping]
           xs == <<Ping>>
           fresh == <<e>>
<1>1. Ping \in Item /\ next_send_id \in PacketId
  BY DEF LinkInv, TypeOK, Item
<1>2. e \in Entry
  BY <1>1 DEF Entry
<1>3. next_send_id = WireId(Len(log) + 1) /\ Len(log) + 1 \in Int
  BY Lengths DEF LinkInv, EndsAgree
<1>4. e = [packet_id |-> WireId(Len(log) + 1), payload |-> Ping]
  BY <1>3
<1>5. /\ in_flight = <<>> /\ Len(in_flight) = 0 /\ Acked = Len(log)
      /\ outbound' = outbound
      /\ UNCHANGED <<opened, expected_recv, highest_recv, ack_due, got>>
  BY Lengths, EmptySeq DEF poll_ping, Acked, recvVars
<1>6. next_send_id' = WireId(Len(log) + 1 + 1)
  BY <1>3, NextWireId DEF poll_ping
<1>7. in_flight' = fresh /\ log' = Append(log, Ping)
      /\ net' = Alive(net \cup {Data(Len(log'), e)}, Len(log'))
  BY DEF poll_ping
<1> HIDE DEF e
<1>8. xs \in Seq(Item) /\ Len(xs) = 1 /\ xs[1] = Ping
  BY <1>1
<1>9. fresh \in Seq(Entry) /\ Len(fresh) = 1 /\ fresh[1] = e
  BY <1>2
<1>10. in_flight' = in_flight \o fresh
  BY <1>5, <1>7, <1>9, ConcatEmptySeq
<1>11. log \in Seq(Item) /\ outbound \in Seq(Payload)
  BY DEF LinkInv, TypeOK
<1>12. log' = log \o xs /\ Len(log') = Len(log) + 1
  BY <1>1, <1>7, <1>11, AppendIsConcat, AppendProperties
<1> HIDE DEF xs, fresh
<1>13. {Data(Acked + i, in_flight'[i]) : i \in 1 .. Len(in_flight')}
         = {Data(Len(log'), e)}
  BY <1>5, <1>7, <1>9, <1>12, Lengths
<1>14. Len(in_flight) + Len(xs) <= max_in_flight
  BY <1>5, <1>8, ConstantBounds
<1>15. \A j \in 1 .. Len(xs) :
         fresh[j] = [packet_id |-> WireId(Len(log) + j), payload |-> xs[j]]
  BY <1>4, <1>8, <1>9
<1>16. Len(fresh) = Len(xs) /\ next_send_id' = WireId(Len(log) + Len(xs) + 1)
  BY <1>6, <1>8, <1>9
<1>17. net' = Alive(net \cup {Data(Acked + i, in_flight'[i]) :
                                i \in 1 .. Len(in_flight')}, Len(log'))
  BY <1>7, <1>13
<1>18. outbound' \in Seq(Payload) /\ 1 \in Nat /\ 1 <= 1
  BY <1>5, <1>11
<1> QED
  <2>1. Numbers(xs, fresh, 1)
    BY <1>5, <1>8, <1>9, <1>10, <1>12, <1>14, <1>15, <1>16, <1>17, <1>18
       DEF Numbers
  <2> QED
    BY <2>1, NumberingStep

-----------------------------------------------------------------------------
\* LinkInv holds in every reachable state.
THEOREM LinkInvariant == Spec => []LinkInv
<1>1. LinkInv /\ [Next]_vars => LinkInv'
  <2> SUFFICES ASSUME LinkInv, [Next]_vars PROVE LinkInv'
    OBVIOUS
  <2>1. CASE UNCHANGED vars
    BY <2>1, FewerDatagrams DEF vars
  <2>2. ASSUME NEW p \in Payload, queue_payload(p) PROVE LinkInv'
    BY <2>2, QueueStep
  <2>3. CASE Open
    BY <2>3, OpenStep
  <2>4. ASSUME NEW stale \in BOOLEAN, poll_outbound(stale) PROVE LinkInv'
    BY <2>4, PollStep
  <2>5. CASE poll_ping
    BY <2>5, PingStep
  <2>6. ASSUME NEW d \in net, recv_ack(d) PROVE LinkInv'
    BY <2>6, RecvAckStep
  <2>7. ASSUME NEW d \in net, recv_data(d) PROVE LinkInv'
    BY <2>7, RecvDataStep
  <2>8. CASE poll_ack
    BY <2>8, PollAckStep
  <2>9. ASSUME NEW d \in net, Lose(d) PROVE LinkInv'
    BY <2>9, LoseStep
  <2> QED
    BY <2>1, <2>2, <2>3, <2>4, <2>5, <2>6, <2>7, <2>8, <2>9 DEF Next
<1> QED
  BY <1>1, InitLinkInv, PTL DEF Spec

(***************************************************************************)
(* Every variable of the link keeps its type; ids stay inside the 15-bit   *)
(* space (next_packet_id).                                                 *)
(***************************************************************************)
THEOREM LinkTypeCorrect == Spec => []TypeOK
<1>1. LinkInv => TypeOK
  BY DEF LinkInv
<1> QED
  BY <1>1, LinkInvariant, PTL

(***************************************************************************)
(* No acknowledgement, late, duplicated or wrapped, ever makes on_ack_id   *)
(* release a packet the peer has not accepted.                             *)
(***************************************************************************)
THEOREM OnlyDeliveredIsReleased == Spec => []AckedWereDelivered
<1>1. LinkInv => AckedWereDelivered
  BY DEF LinkInv
<1> QED
  BY <1>1, LinkInvariant, PTL

(***************************************************************************)
(* The in-flight window is always the unacknowledged tail of what was sent *)
(* and never longer than max_in_flight (poll_outbound).                    *)
(***************************************************************************)
THEOREM WindowIsExact == Spec => []WindowIsUnackedTail
<1>1. LinkInv => WindowIsUnackedTail
  BY DEF LinkInv
<1> QED
  BY <1>1, LinkInvariant, PTL

-----------------------------------------------------------------------------
\* Filling the window moves payloads from the queue to the log and leaves
\* what was handed to the link as it is.
LEMMA PollKeepsSent ==
    ASSUME LinkInv, NEW stale \in BOOLEAN, poll_outbound(stale)
    PROVE  log' \o outbound' = log \o outbound /\ got' = got
<1> DEFINE k == Fits(in_flight, outbound)
           pre == SubSeq(outbound, 1, k)
           post == SubSeq(outbound, k + 1, Len(outbound))
<1>1. log \in Seq(Item) /\ outbound \in Seq(Item)
  BY SeqMonotonic DEF LinkInv, TypeOK, Item
<1>2. k \in 0 .. Len(outbound)
  BY Lengths, ConstantBounds DEF Fits
<1>3. log' = log \o pre /\ outbound' = post /\ got' = got
  BY DEF poll_outbound
<1> HIDE DEF k
<1>4. \A i \in 1 .. Len(outbound) : outbound[i] \in Item
  BY <1>1, ElementOfSeq
<1>5. pre \in Seq(Item)
  <2>1. 1 \in Int /\ k \in Int /\ \A i \in 1 .. k : outbound[i] \in Item
    BY <1>2, <1>4, Lengths
  <2> QED
    BY <2>1, SubSeqProperties
<1>6. post \in Seq(Item)
  <2>1. /\ k + 1 \in Int /\ Len(outbound) \in Int
        /\ \A i \in k + 1 .. Len(outbound) : outbound[i] \in Item
    BY <1>2, <1>4, Lengths
  <2> QED
    BY <2>1, SubSeqProperties
<1>7. pre \o post = outbound
  <2>1. /\ 1 \in 1 .. Len(outbound) + 1 /\ k \in 1 - 1 .. Len(outbound)
        /\ Len(outbound) \in k .. Len(outbound)
    BY <1>2, Lengths
  <2>2. pre \o post = SubSeq(outbound, 1, Len(outbound))
    BY <1>1, <2>1, ConcatAdjacentSubSeq
  <2> QED
    BY <1>1, <2>2, SubSeqFull
<1> HIDE DEF pre, post
<1>8. (log \o pre) \o post = log \o (pre \o post)
  BY <1>1, <1>5, <1>6, ConcatAssociative
<1> QED
  BY <1>3, <1>7, <1>8

(***************************************************************************)
(* The detailed link implements the FIFO channel: whatever UDP does, the   *)
(* peer's accept_reliable hands on what queue_payload and the keepalives   *)
(* put in, each once and in order.                                         *)
(***************************************************************************)
THEOREM LinkImplementsFifo == Spec => ImplementsFifo
<1>1. Init => Fifo!Init
  BY EmptySeq, ConcatEmptySeq DEF Init, Fifo!Init
<1>2. LinkInv /\ [Next]_vars => [Fifo!Next]_Fifo!vars
  <2> SUFFICES ASSUME LinkInv, [Next]_vars
               PROVE  Fifo!Next \/ UNCHANGED Fifo!vars
    OBVIOUS
  <2>0. log \in Seq(Item) /\ outbound \in Seq(Item) /\ got \in Seq(Item)
    BY SeqMonotonic DEF LinkInv, TypeOK, Item
  <2>1. CASE UNCHANGED vars
    BY <2>1 DEF vars, Fifo!vars
  <2>2. ASSUME NEW p \in Payload, queue_payload(p) PROVE Fifo!Next
    <3>1. p \in Item /\ <<p>> \in Seq(Item)
      BY DEF Item
    <3>2. outbound' = outbound \o <<p>> /\ log' = log /\ got' = got
      BY <2>0, <2>2, <3>1, AppendIsConcat DEF queue_payload
    <3>3. log \o (outbound \o <<p>>) = (log \o outbound) \o <<p>>
      BY <2>0, <3>1, ConcatAssociative
    <3>4. log \o outbound \in Seq(Item)
      BY <2>0, ConcatProperties
    <3>5. (log \o outbound) \o <<p>> = Append(log \o outbound, p)
      BY <3>1, <3>4, AppendIsConcat
    <3>6. log' \o outbound' = Append(log \o outbound, p)
      BY <3>2, <3>3, <3>5
    <3> QED
      BY <3>1, <3>2, <3>6 DEF Fifo!Next, Fifo!Send
  <2>3. CASE Open
    BY <2>3 DEF Open, Fifo!vars
  <2>4. ASSUME NEW stale \in BOOLEAN, poll_outbound(stale)
        PROVE  UNCHANGED Fifo!vars
    BY <2>4, PollKeepsSent DEF Fifo!vars
  <2>5. CASE poll_ping
    <3>1. outbound = <<>> /\ outbound' = <<>> /\ log' = Append(log, Ping)
          /\ got' = got /\ Ping \in Item
      BY <2>5 DEF poll_ping, Item
    <3>2. log' \in Seq(Item)
      BY <2>0, <3>1, AppendProperties
    <3>3. log' \o <<>> = log' /\ log \o <<>> = log
      BY <2>0, <3>2, ConcatEmptySeq
    <3>4. log' \o outbound' = Append(log \o outbound, Ping)
      BY <3>1, <3>3
    <3> QED
      BY <3>1, <3>4 DEF Fifo!Next, Fifo!Send
  <2>6. ASSUME NEW d \in net, recv_ack(d) PROVE UNCHANGED Fifo!vars
    BY <2>6 DEF recv_ack, Fifo!vars
  <2>7. ASSUME NEW d \in net, recv_data(d)
        PROVE  Fifo!Next \/ UNCHANGED Fifo!vars
    <3>1. log' = log /\ outbound' = outbound
      BY <2>7 DEF recv_data, sendVars
    <3>2. CASE UNCHANGED <<recvVars, got>>
      BY <3>1, <3>2 DEF Fifo!vars
    <3>3. CASE accept_reliable(d)
      <4>1. d.kind = "data" /\ d.packet_id = expected_recv
            /\ got' = Append(got, d.payload)
        BY <2>7, <3>3 DEF recv_data, accept_reliable
      <4>2. d.n = Len(got) + 1
        BY <4>1, AcceptedIsNext
      <4>3. d.n <= Len(log) /\ d.payload = log[Len(got) + 1]
        BY <4>1, <4>2 DEF LinkInv, NetIsHistory
      <4>4. /\ Len(log \o outbound) = Len(log) + Len(outbound)
            /\ \A i \in 1 .. Len(log) + Len(outbound) :
                 (log \o outbound)[i] = IF i <= Len(log) THEN log[i]
                                        ELSE outbound[i - Len(log)]
        BY <2>0, ConcatProperties
      <4>5. /\ Len(got) < Len(log \o outbound)
            /\ (log \o outbound)[Len(got) + 1] = d.payload
        BY <4>2, <4>3, <4>4, Lengths
      <4> QED
        BY <3>1, <4>1, <4>5 DEF Fifo!Next, Fifo!Deliver
    <3> QED
      BY <2>7, <3>2, <3>3 DEF recv_data
  <2>8. CASE poll_ack
    BY <2>8 DEF poll_ack, sendVars, Fifo!vars
  <2>9. ASSUME NEW d \in net, Lose(d) PROVE UNCHANGED Fifo!vars
    BY <2>9 DEF Lose, sendVars, Fifo!vars
  <2> QED
    BY <2>1, <2>2, <2>3, <2>4, <2>5, <2>6, <2>7, <2>8, <2>9 DEF Next
<1> QED
  BY <1>1, <1>2, LinkInvariant, PTL DEF Spec, ImplementsFifo, Fifo!Spec
=============================================================================
