----------------------------- MODULE WireProofs -----------------------------
(***************************************************************************)
(* What the wire format of Wire does, for every input: a packet's way      *)
(* through encoding, the retransmission mark and decoding (packet.rs,      *)
(* reliable.rs), and commands framed in a row and parsed again             *)
(* (command.rs).                                                           *)
(*                                                                         *)
(* The loop of parse_commands is a recursive function of the offset.  That *)
(* it exists, and what it gives, is shown by induction from the end of the *)
(* payload; an induction is the least counterexample of a set, so the      *)
(* property of an induction is a set here.                                 *)
(***************************************************************************)
EXTENDS Wire, SequenceTheorems, NaturalsInduction, WellFoundedInduction, TLAPS

-----------------------------------------------------------------------------
(* Packets. *)

\* Five flag bits.
Flags == 0..31

\* The headers a sender fills in; encode_packet overwrites the length.
PacketHeader ==
    [flags : Flags, length : Nat, session_id : Nat, ack_id : Nat,
     retransmit_request : Nat, unknown : Nat, packet_id : Nat]

\* Two numbers share one word and come apart again.
LEMMA WordSplits ==
    ASSUME NEW K \in Nat, K > 0, NEW f \in Nat, NEW l \in Nat, l < K
    PROVE  (f * K + l) \div K = f /\ (f * K + l) % K = l
<1> DEFINE w == f * K + l
           d == w \div K
           r == w % K
<1>1. w \in Nat
  OBVIOUS
<1>2. d \in Int /\ r \in 0..K-1 /\ w = K * d + r
  <2> HIDE DEF w
  <2> QED  BY <1>1
<1> HIDE DEF d, r
<1>3. K * (d - f) = l - r
  BY <1>2
<1>4. d - f = 0
  <2>1. l - r < K /\ -K < l - r
    BY <1>2
  <2>2. CASE d - f >= 1
    <3>1. K * (d - f) >= K * 1
      BY <1>2, <2>2
    <3> QED  BY <1>2, <1>3, <2>1, <3>1
  <2>3. CASE d - f <= -1
    <3>1. K * (d - f) <= K * (-1)
      BY <1>2, <2>3
    <3> QED  BY <1>2, <1>3, <2>1, <3>1
  <2> QED  BY <1>2, <2>2, <2>3
<1>5. d = f
  BY <1>2, <1>4
<1>6. r = l
  BY <1>2, <1>5
<1> QED  BY <1>5, <1>6 DEF d, r

\* The header as it is sent with a payload.
Sent(h, payload) == [h EXCEPT !.length = HEADER_LEN + Len(payload)]

\* The header with the retransmission bit set.
Marked(h) == [h EXCEPT !.flags = IF contains(@, IS_RETRANSMIT) THEN @
                                 ELSE @ + IS_RETRANSMIT]

\* The cells of a packet that is not cut.
LEMMA PacketCells ==
    ASSUME NEW h \in PacketHeader, NEW S, NEW payload \in Seq(S), Fits(payload)
    PROVE  encode_packet(h, payload)
             = <<(h.flags * 2 ^ LEN_BITS) + (HEADER_LEN + Len(payload)),
                 h.session_id, h.ack_id, h.retransmit_request, h.unknown,
                 h.packet_id>> \o payload
<1> DEFINE n == HEADER_LEN + Len(payload)
           K == 2 ^ LEN_BITS
<1>1. /\ n \in Nat /\ K \in Nat /\ n < K /\ n <= MAX_LENGTH
      /\ MAX_LENGTH \in Int
  BY WireAssumption, LenProperties DEF Fits, MAX_LENGTH, HEADER_LEN
<1>2. Min({n, MAX_LENGTH}) = n
  <2> HIDE DEF n
  <2> QED  BY <1>1 DEF Min
<1>3. n % K = n
  <2> HIDE DEF n, K
  <2>1. (0 * K + n) % K = n /\ 0 * K + n = n
    BY <1>1, WordSplits
  <2> QED  BY <2>1
<1>4. SubSeq(payload, 1, n - HEADER_LEN) = payload
  <2>1. n - HEADER_LEN = Len(payload)
    BY LenProperties DEF HEADER_LEN
  <2>2. SubSeq(payload, 1, Len(payload)) = payload
    BY SubSeqFull
  <2> QED  BY <2>1, <2>2
<1>5. header_encode([h EXCEPT !.length = n])
        = <<(h.flags * K) + (n % K), h.session_id, h.ack_id,
            h.retransmit_request, h.unknown, h.packet_id>>
  <2> HIDE DEF n
  <2> QED  BY DEF header_encode, PacketHeader
<1>6. encode_packet(h, payload)
        = header_encode([h EXCEPT !.length = n]) \o SubSeq(payload, 1, n - HEADER_LEN)
  BY <1>2 DEF encode_packet
<1> QED  BY <1>3, <1>4, <1>5, <1>6

\* A payload that fits leaves room in the length field.
LEMMA LengthFits ==
    ASSUME NEW S, NEW payload \in Seq(S), Fits(payload),
           NEW n, n = HEADER_LEN + Len(payload), NEW K, K = 2 ^ LEN_BITS
    PROVE  n \in Nat /\ HEADER_LEN <= n /\ K \in Nat /\ n < K /\ K > 0
  BY WireAssumption, LenProperties DEF Fits, MAX_LENGTH, HEADER_LEN

\* The flags of a header are a number.
LEMMA FlagsType == \A h \in PacketHeader : h.flags \in Nat
  BY DEF PacketHeader, Flags

\* The cells of a packet, one by one: b is h in front of payload.
IsPacket(b, h, payload, S) ==
    /\ b \in Seq(Nat \cup S)
    /\ Len(b) = HEADER_LEN + Len(payload)
    /\ b[1] = (h.flags * 2 ^ LEN_BITS) + (HEADER_LEN + Len(payload))
    /\ b[2] = h.session_id /\ b[3] = h.ack_id
    /\ b[4] = h.retransmit_request /\ b[5] = h.unknown /\ b[6] = h.packet_id
    /\ \A i \in 1..Len(payload) : b[HEADER_LEN + i] = payload[i]

\* What encode_packet makes is a packet in this sense.
LEMMA PacketByCell ==
    ASSUME NEW h \in PacketHeader, NEW S, NEW payload \in Seq(S), Fits(payload)
    PROVE  IsPacket(encode_packet(h, payload), h, payload, S)
<1> DEFINE n == HEADER_LEN + Len(payload)
           K == 2 ^ LEN_BITS
           w == (h.flags * K) + n
           hd == <<w, h.session_id, h.ack_id, h.retransmit_request, h.unknown,
                   h.packet_id>>
           C == Nat \cup S
           b == encode_packet(h, payload)
<1>1. h.flags \in Nat
  BY FlagsType
<1>2. n \in Nat /\ K \in Nat
  <2> HIDE DEF n, K
  <2> QED  BY LengthFits DEF n, K
<1>3. w \in Nat
  <2> DEFINE f == h.flags
  <2>1. f \in Nat
    BY <1>1
  <2> HIDE DEF n, K, f
  <2>2. f * K + n \in Nat
    BY <1>2, <2>1
  <2> QED  BY <2>2 DEF f
<1>4. b = hd \o payload
  BY PacketCells
<1> HIDE DEF n, w, K
<1>5. w \in C /\ h.session_id \in C /\ h.ack_id \in C
       /\ h.retransmit_request \in C /\ h.unknown \in C /\ h.packet_id \in C
  BY <1>3 DEF PacketHeader
<1>6. /\ hd \in Seq(C) /\ Len(hd) = 6 /\ hd[1] = w
      /\ hd[2] = h.session_id /\ hd[3] = h.ack_id
      /\ hd[4] = h.retransmit_request /\ hd[5] = h.unknown
      /\ hd[6] = h.packet_id
  <2> HIDE DEF C
  <2> QED  BY <1>5
<1>7. payload \in Seq(C)
  BY SeqMonotonic
<1> HIDE DEF hd, C, b
<1>8. /\ b \in Seq(C) /\ Len(b) = Len(hd) + Len(payload)
      /\ \A i \in 1..Len(hd) : b[i] = hd[i]
      /\ \A i \in 1..Len(payload) : b[Len(hd) + i] = payload[i]
  <2>1. hd \in Seq(C)
    BY <1>6
  <2>2. /\ hd \o payload \in Seq(C)
        /\ Len(hd \o payload) = Len(hd) + Len(payload)
        /\ \A i \in 1..Len(hd) : (hd \o payload)[i] = hd[i]
        /\ \A i \in 1..Len(payload) : (hd \o payload)[Len(hd) + i] = payload[i]
    BY <2>1, <1>7, ConcatProperties
  <2> QED  BY <2>2, <1>4
<1>9. /\ b[1] = w /\ b[2] = h.session_id /\ b[3] = h.ack_id
      /\ b[4] = h.retransmit_request /\ b[5] = h.unknown
      /\ b[6] = h.packet_id
  BY <1>6, <1>8
<1>10. Len(b) = HEADER_LEN + Len(payload)
      /\ \A i \in 1..Len(payload) : b[HEADER_LEN + i] = payload[i]
  BY <1>6, <1>8 DEF HEADER_LEN
<1>11. IsPacket(b, h, payload, S)
  BY <1>8, <1>9, <1>10 DEF IsPacket, n, w, K, C
<1> QED  BY <1>11 DEF b

\* What the two halves of the first cell say.
LEMMA FirstCell ==
    ASSUME NEW h \in PacketHeader, NEW S, NEW payload \in Seq(S), Fits(payload),
           NEW b, IsPacket(b, h, payload, S)
    PROVE  /\ b[1] \div 2 ^ LEN_BITS = h.flags
           /\ b[1] % 2 ^ LEN_BITS = HEADER_LEN + Len(payload)
<1> DEFINE n == HEADER_LEN + Len(payload)
           K == 2 ^ LEN_BITS
           f == h.flags
<1>1. b[1] = f * K + n
  BY DEF IsPacket
<1>2. f \in Nat
  BY FlagsType
<1> HIDE DEF n, K, f
<1>3. n \in Nat /\ K \in Nat /\ n < K /\ K > 0
  BY LengthFits DEF n, K
<1>4. b[1] \div K = f /\ b[1] % K = n
  BY <1>1, <1>2, <1>3, WordSplits
<1> QED  BY <1>4 DEF n, K, f

(***************************************************************************)
(* What encode_packet makes of a header and a payload that fits,           *)
(* decode_packet turns back into the same header, with the length filled   *)
(* in, and the same payload, for every width of the length field.          *)
(***************************************************************************)
THEOREM PacketRoundTrip ==
    ASSUME NEW h \in PacketHeader, NEW S, NEW payload \in Seq(S), Fits(payload)
    PROVE  decode_packet(encode_packet(h, payload))
             = Ok([header |-> Sent(h, payload), payload |-> payload])
<1> DEFINE b == encode_packet(h, payload)
           n == HEADER_LEN + Len(payload)
           K == 2 ^ LEN_BITS
           sh == Sent(h, payload)
<1>1. IsPacket(b, h, payload, S)
  BY PacketByCell
<1> HIDE DEF b
<1>2. /\ b \in Seq(Nat \cup S) /\ Len(b) = n
      /\ \A i \in 1..Len(payload) : b[HEADER_LEN + i] = payload[i]
  BY <1>1 DEF IsPacket
<1>3. n \in Nat /\ HEADER_LEN <= n
  <2> HIDE DEF n, K
  <2> QED  BY LengthFits DEF n, K
<1>4. b[1] \div K = h.flags /\ b[1] % K = n
  BY <1>1, FirstCell
<1>5. header_decode(b) = sh
  <2>1. header_decode(b)
          = [flags |-> h.flags, length |-> n, session_id |-> h.session_id,
             ack_id |-> h.ack_id, retransmit_request |-> h.retransmit_request,
             unknown |-> h.unknown, packet_id |-> h.packet_id]
    <3>1. /\ b[2] = h.session_id /\ b[3] = h.ack_id
          /\ b[4] = h.retransmit_request /\ b[5] = h.unknown
          /\ b[6] = h.packet_id
      BY <1>1 DEF IsPacket
    <3> HIDE DEF n
    <3> QED  BY <1>4, <3>1 DEF header_decode
  <2>2. [h EXCEPT !.length = n]
          = [flags |-> h.flags, length |-> n, session_id |-> h.session_id,
             ack_id |-> h.ack_id, retransmit_request |-> h.retransmit_request,
             unknown |-> h.unknown, packet_id |-> h.packet_id]
    <3> HIDE DEF n
    <3> QED  BY DEF PacketHeader
  <2> QED  BY <2>1, <2>2 DEF Sent
<1>6. SubSeq(b, HEADER_LEN + 1, n) = payload
  <2> DEFINE q == SubSeq(b, HEADER_LEN + 1, n)
  <2>1. HEADER_LEN \in Nat /\ Len(payload) \in Nat
    BY LenProperties DEF HEADER_LEN
  <2>2. \A i \in HEADER_LEN + 1 .. n : i \in 1..Len(b) /\ b[i] \in Nat \cup S
    <3> HIDE DEF b
    <3> QED  BY <1>2, <2>1
  <2>3. /\ q \in Seq(Nat \cup S) /\ Len(q) = Len(payload)
        /\ \A i \in 1..Len(payload) : q[i] = b[HEADER_LEN + 1 + i - 1]
    <3> HIDE DEF b
    <3>1. /\ q \in Seq(Nat \cup S)
          /\ Len(q) = IF HEADER_LEN + 1 <= n THEN n - (HEADER_LEN + 1) + 1 ELSE 0
          /\ \A i \in 1..n - (HEADER_LEN + 1) + 1 :
                q[i] = b[HEADER_LEN + 1 + i - 1]
      <4>1. HEADER_LEN + 1 \in Int /\ n \in Int
        BY <1>3, <2>1
      <4> QED  BY <2>2, <4>1, SubSeqProperties
    <3> HIDE DEF q
    <3> QED  BY <2>1, <3>1
  <2> HIDE DEF q, b
  <2>4. \A i \in 1..Len(payload) : q[i] = payload[i]
    <3> TAKE i \in 1..Len(payload)
    <3>1. HEADER_LEN + 1 + i - 1 = HEADER_LEN + i
      BY <2>1
    <3> QED  BY <1>2, <2>3, <3>1
  <2>5. payload \in Seq(Nat \cup S)
    BY SeqMonotonic
  <2>6. q = payload
    BY <2>3, <2>4, <2>5, SeqEqual
  <2> QED  BY <2>6 DEF q
<1>7. sh.length = n
  BY DEF Sent, PacketHeader
<1> HIDE DEF n, sh
<1>8. decode_packet(b) = Ok([header |-> sh, payload |-> payload])
  <2> DEFINE pl == SubSeq(b, HEADER_LEN + 1, sh.length)
  <2>1. pl = payload
    BY <1>6, <1>7
  <2>2. ~(Len(b) < HEADER_LEN) /\ ~(sh.length < HEADER_LEN)
        /\ ~(Len(b) < sh.length)
    BY <1>2, <1>3, <1>7 DEF HEADER_LEN
  <2>3. decode_packet(b) = Ok([header |-> sh, payload |-> pl])
    BY <1>5, <2>2 DEF decode_packet
  <2> QED  BY <2>1, <2>3
<1> QED  BY <1>8 DEF b, sh

\* Marking sets one flag and leaves the other four as they are.
LEMMA MarkedFlags ==
    ASSUME NEW h \in PacketHeader
    PROVE  /\ Marked(h) \in PacketHeader
           /\ contains(Marked(h).flags, IS_RETRANSMIT)
           /\ \A bit \in {1, 2, 8, 16} :
                 contains(Marked(h).flags, bit) <=> contains(h.flags, bit)
           /\ Marked(Marked(h)) = Marked(h)
<1> DEFINE f == h.flags
           g == IF contains(f, IS_RETRANSMIT) THEN f ELSE f + IS_RETRANSMIT
<1>1. f \in 0..31
  BY DEF PacketHeader, Flags
<1>2. Marked(h) = [h EXCEPT !.flags = g]
  BY DEF Marked, PacketHeader
<1> HIDE DEF f
<1>3. g \in 0..31 /\ contains(g, IS_RETRANSMIT)
  BY <1>1 DEF contains, IS_RETRANSMIT
<1>4. /\ contains(g, 1) <=> contains(f, 1)
      /\ contains(g, 2) <=> contains(f, 2)
      /\ contains(g, 8) <=> contains(f, 8)
      /\ contains(g, 16) <=> contains(f, 16)
  BY <1>1 DEF contains, IS_RETRANSMIT
<1> HIDE DEF g
<1>5. Marked(h) \in PacketHeader /\ Marked(h).flags = g
  BY <1>2, <1>3 DEF PacketHeader, Flags
<1>6. Marked(Marked(h)) = Marked(h)
  <2> DEFINE k == Marked(h)
  <2>1. k \in PacketHeader /\ contains(k.flags, IS_RETRANSMIT)
    BY <1>3, <1>5
  <2> HIDE DEF k
  <2>2. Marked(k) = k
    BY <2>1 DEF Marked, PacketHeader
  <2> QED  BY <2>2 DEF k
<1> QED  BY <1>3, <1>4, <1>5, <1>6 DEF f

\* Marking the encoded bytes is encoding the marked header.
LEMMA MarkIsMarked ==
    ASSUME NEW h \in PacketHeader, NEW S, NEW payload \in Seq(S), Fits(payload)
    PROVE  mark_retransmit(encode_packet(h, payload))
              = encode_packet(Marked(h), payload)
<1> DEFINE b == encode_packet(h, payload)
           c == encode_packet(Marked(h), payload)
           n == HEADER_LEN + Len(payload)
           K == 2 ^ LEN_BITS
           g == Marked(h).flags
           d == mark_retransmit(b)
<1>1. Marked(h) \in PacketHeader
  BY MarkedFlags
<1>2. IsPacket(b, h, payload, S)
  BY PacketByCell
<1>3. IsPacket(c, Marked(h), payload, S)
  BY <1>1, PacketByCell
<1> HIDE DEF b, c
<1>4. n \in Nat /\ HEADER_LEN <= n
  <2> HIDE DEF n, K
  <2> QED  BY LengthFits DEF n, K
<1>5. b[1] \div K = h.flags /\ b[1] % K = n
  BY <1>2, FirstCell
<1>6. g = IF contains(h.flags, IS_RETRANSMIT) THEN h.flags
          ELSE h.flags + IS_RETRANSMIT
  BY DEF Marked, PacketHeader
<1>7. /\ Marked(h).session_id = h.session_id /\ Marked(h).ack_id = h.ack_id
      /\ Marked(h).retransmit_request = h.retransmit_request
      /\ Marked(h).unknown = h.unknown /\ Marked(h).packet_id = h.packet_id
  BY DEF Marked, PacketHeader
<1>8. c[1] = (g * K) + n
  BY <1>3 DEF IsPacket
<1>9. /\ b \in Seq(Nat \cup S) /\ Len(b) = n
      /\ c \in Seq(Nat \cup S) /\ Len(c) = n
  BY <1>2, <1>3 DEF IsPacket
<1>10. /\ DOMAIN b = 1..n /\ DOMAIN c = 1..n
       /\ b = [i \in 1..n |-> b[i]] /\ c = [i \in 1..n |-> c[i]]
  <2> HIDE DEF n
  <2> QED  BY <1>9, LenProperties
<1>11. ASSUME NEW i \in 1..n, i # 1  PROVE b[i] = c[i]
  <2>1. HEADER_LEN = 6 /\ Len(payload) \in Nat /\ n = 6 + Len(payload)
    BY LenProperties DEF HEADER_LEN
  <2>2. CASE i \in {2, 3, 4, 5, 6}
    <3>1. b[2] = c[2] /\ b[3] = c[3] /\ b[4] = c[4] /\ b[5] = c[5] /\ b[6] = c[6]
      BY <1>2, <1>3, <1>7 DEF IsPacket
    <3> QED  BY <2>2, <3>1
  <2>3. CASE i > 6
    <3>1. i - 6 \in 1..Len(payload) /\ HEADER_LEN + (i - 6) = i
      BY <2>1, <2>3
    <3>2. b[i] = payload[i - 6] /\ c[i] = payload[i - 6]
      BY <1>2, <1>3, <3>1 DEF IsPacket
    <3> QED  BY <3>2
  <2> QED  BY <1>11, <2>1, <2>2, <2>3
<1>12. d = [b EXCEPT ![1] = c[1]]
  <2>1. d = [b EXCEPT ![1] = (g * K) + (b[1] % K)]
    <3> HIDE DEF g
    <3> QED  BY <1>5, <1>6 DEF mark_retransmit
  <2> QED  BY <1>5, <1>8, <2>1
<1> HIDE DEF n, d
<1>13. d = [i \in 1..n |-> IF i = 1 THEN c[1] ELSE b[i]]
  BY <1>10, <1>12
<1>14. [i \in 1..n |-> IF i = 1 THEN c[1] ELSE b[i]] = [i \in 1..n |-> c[i]]
  BY <1>11
<1> QED  BY <1>10, <1>13, <1>14 DEF b, c, d

(***************************************************************************)
(* The mark that poll_outbound puts into the encoded bytes of a packet it  *)
(* sends again is the packet with the flag set in its header: payload,     *)
(* length and ids are untouched, a second mark changes nothing, and the    *)
(* other flags arrive as they were.                                        *)
(***************************************************************************)
THEOREM RetransmitKeepsPacket ==
    ASSUME NEW h \in PacketHeader, NEW S, NEW payload \in Seq(S), Fits(payload)
    PROVE  LET again == mark_retransmit(encode_packet(h, payload))
           IN  /\ decode_packet(again)
                    = Ok([header |-> Sent(Marked(h), payload), payload |-> payload])
               /\ mark_retransmit(again) = again
               /\ contains(Marked(h).flags, IS_RETRANSMIT)
               /\ \A bit \in {1, 2, 8, 16} :
                     contains(Marked(h).flags, bit) <=> contains(h.flags, bit)
<1> DEFINE again == mark_retransmit(encode_packet(h, payload))
<1>1. /\ Marked(h) \in PacketHeader /\ Marked(Marked(h)) = Marked(h)
      /\ contains(Marked(h).flags, IS_RETRANSMIT)
      /\ \A bit \in {1, 2, 8, 16} :
            contains(Marked(h).flags, bit) <=> contains(h.flags, bit)
  BY MarkedFlags
<1>2. again = encode_packet(Marked(h), payload)
  BY MarkIsMarked
<1>3. decode_packet(encode_packet(Marked(h), payload))
         = Ok([header |-> Sent(Marked(h), payload), payload |-> payload])
  BY <1>1, PacketRoundTrip
<1>4. mark_retransmit(encode_packet(Marked(h), payload))
         = encode_packet(Marked(Marked(h)), payload)
  BY <1>1, MarkIsMarked
<1> HIDE DEF again
<1>5. mark_retransmit(again) = again
  BY <1>1, <1>2, <1>4
<1> QED  BY <1>1, <1>2, <1>3, <1>5 DEF again

-----------------------------------------------------------------------------
(* Induction. *)

\* A set of natural numbers that is not empty has a least element.
LEMMA Least ==
    ASSUME NEW S \in SUBSET Nat, S # {}
    PROVE  \E m \in S : \A k \in S : m <= k
<1> DEFINE R == OpToRel(<, Nat)
<1>1. IsWellFoundedOn(R, Nat)
  BY NatLessThanWellFounded
<1>2. PICK x \in S : \A y \in S : ~ (<<y, x>> \in R)
  <2> HIDE DEF R
  <2> QED  BY <1>1, WFMin
<1>3. \A y \in S : ~ (y < x)
  BY <1>2 DEF OpToRel
<1> QED  BY <1>3

\* Induction from n down to 0, with the property as a set.
LEMMA DownInduction ==
    ASSUME NEW n \in Nat, NEW S,
           \A o \in 0..n : (\A i \in o+1..n : i \in S) => o \in S
    PROVE  \A o \in 0..n : o \in S
<1> DEFINE B == {j \in Nat : j <= n /\ n - j \notin S}
<1> SUFFICES ASSUME NEW o \in 0..n, o \notin S
             PROVE  FALSE
  OBVIOUS
<1>1. n - o \in B
  <2>1. n - (n - o) = o /\ n - o \in Nat /\ n - o <= n
    OBVIOUS
  <2> QED  BY <2>1
<1>2. PICK m \in B : \A k \in B : m <= k
  <2> HIDE DEF B
  <2>1. B \in SUBSET Nat
    BY DEF B
  <2> QED  BY <1>1, <2>1, Least
<1>3. n - m \in 0..n /\ n - m \notin S
  BY <1>2
<1>4. \A i \in (n - m) + 1 .. n : i \in S
  <2> SUFFICES ASSUME NEW i \in (n - m) + 1 .. n, i \notin S
               PROVE  FALSE
    OBVIOUS
  <2>1. n - i \in Nat /\ n - i <= n /\ n - (n - i) = i /\ n - i < m
    BY <1>2
  <2>2. n - i \in B
    BY <2>1
  <2> QED  BY <1>2, <2>1, <2>2
<1> QED  BY <1>3, <1>4

\* Induction over the natural numbers, with the property as a set.
LEMMA UpInduction ==
    ASSUME NEW S, 0 \in S, \A n \in Nat : n \in S => n + 1 \in S
    PROVE  \A n \in Nat : n \in S
<1> DEFINE B == {n \in Nat : n \notin S}
<1> SUFFICES ASSUME B # {}  PROVE FALSE
  OBVIOUS
<1>1. PICK m \in B : \A k \in B : m <= k
  <2> HIDE DEF B
  <2>1. B \in SUBSET Nat
    BY DEF B
  <2> QED  BY <2>1, Least
<1>2. m # 0 /\ m \in Nat
  BY <1>1
<1>3. m - 1 \in Nat /\ ~ (m <= m - 1) /\ (m - 1) + 1 = m
  BY <1>2
<1>4. m - 1 \in S
  BY <1>1, <1>3
<1> QED  BY <1>1, <1>3, <1>4

\* Induction over sequences, by the last element.
LEMMA SeqInduction ==
    ASSUME NEW T, NEW P, <<>> \in P,
           \A s \in Seq(T), e \in T : s \in P => Append(s, e) \in P
    PROVE  \A s \in Seq(T) : s \in P
<1> DEFINE S == {n \in Nat : \A s \in Seq(T) : Len(s) = n => s \in P}
<1>1. 0 \in S
  <2>1. \A s \in Seq(T) : Len(s) = 0 => s = <<>>
    BY EmptySeq
  <2> QED  BY <2>1
<1>2. ASSUME NEW n \in Nat, n \in S
      PROVE  n + 1 \in S
  <2> SUFFICES ASSUME NEW s \in Seq(T), Len(s) = n + 1
               PROVE  s \in P
    OBVIOUS
  <2>1. s # <<>>
    BY EmptySeq
  <2>2. PICK t \in Seq(T), e \in T : s = Append(t, e)
    BY <2>1, SequenceEmptyOrAppend
  <2>3. Len(s) = Len(t) + 1 /\ Len(t) \in Nat
    BY <2>2, AppendProperties, LenProperties
  <2>4. Len(t) = n
    BY <2>3
  <2>5. t \in P
    BY <1>2, <2>4
  <2> QED  BY <2>2, <2>5
<1>3. \A n \in Nat : n \in S
  <2> HIDE DEF S
  <2> QED  BY <1>1, <1>2, UpInduction
<1> QED  BY <1>3, LenProperties

-----------------------------------------------------------------------------
(* The parser: one round of its loop. *)

\* A round of the loop looks only at what follows it.
LEMMA ParseLocal ==
    ASSUME NEW p \in Seq(Nat), NEW o \in 0..Len(p), NEW f, NEW g,
           \A i \in o+1..Len(p) : f[i] = g[i]
    PROVE  ParseAt(p, f, o) = ParseAt(p, g, o)
<1>1. Len(p) \in Nat
  BY LenProperties
<1>2. CASE o + FRAME_LEN > Len(p)
  BY <1>2 DEF ParseAt
<1>3. CASE ~ (o + FRAME_LEN > Len(p))
  <2> DEFINE len == p[o + 1]
  <2>1. o + 1 \in 1..Len(p)
    BY <1>1, <1>3 DEF FRAME_LEN
  <2>2. len \in Nat
    BY <2>1, ElementOfSeq
  <2> HIDE DEF len
  <2>3. CASE len < FRAME_LEN \/ o + len > Len(p)
    <3>1. ParseAt(p, f, o) = Fail
      BY <1>3, <2>3 DEF ParseAt, FrameAt, len
    <3>2. ParseAt(p, g, o) = Fail
      BY <1>3, <2>3 DEF ParseAt, FrameAt, len
    <3> QED  BY <3>1, <3>2
  <2>4. CASE ~ (len < FRAME_LEN \/ o + len > Len(p))
    <3>1. f[o + len] = g[o + len]
      <4>1. o + len \in o+1..Len(p)
        BY <1>1, <2>2, <2>4 DEF FRAME_LEN
      <4> QED  BY <4>1
    <3> QED  BY <1>3, <3>1 DEF ParseAt, FrameAt, len
  <2> QED  BY <2>3, <2>4
<1> QED  BY <1>2, <1>3

\* The loop from every offset exists, and is made of its rounds.
LEMMA ParseUnfolds ==
    ASSUME NEW p \in Seq(Nat)
    PROVE  \A o \in 0..Len(p) :
              ParseFrom(p)[o] = ParseAt(p, ParseFrom(p), o)
<1> DEFINE n == Len(p)
           S == {k \in Nat : \E f : f = [o \in k..n |-> ParseAt(p, f, o)]}
<1>1. n \in Nat
  BY LenProperties
<1>2. \A k \in 0..n : k \in S
  <2> SUFFICES ASSUME NEW k \in 0..n, \A i \in k+1..n : i \in S
               PROVE  k \in S
    <3> HIDE DEF S, n
    <3> QED  BY <1>1, DownInduction
  <2>1. PICK f : k < n => f = [o \in k+1..n |-> ParseAt(p, f, o)]
    <3>1. CASE k < n
      <4>1. k + 1 \in k+1..n
        BY <1>1, <3>1
      <4> QED  BY <4>1
    <3>2. CASE ~ (k < n)
      BY <3>2
    <3> QED  BY <3>1, <3>2
  <2> DEFINE g == [o \in k..n |-> IF o = k THEN ParseAt(p, f, k) ELSE f[o]]
  <2>2. \A i \in k+1..n : g[i] = f[i]
    BY <1>1
  <2>3. \A o \in k..n : g[o] = ParseAt(p, g, o)
    <3> SUFFICES ASSUME NEW o \in k..n
                 PROVE  g[o] = ParseAt(p, g, o)
      OBVIOUS
    <3>1. o \in 0..Len(p)
      BY <1>1
    <3>2. \A i \in o+1..Len(p) : g[i] = f[i]
      BY <1>1, <2>2
    <3> HIDE DEF n
    <3>3. g[o] = ParseAt(p, f, o)
      <4>1. CASE o = k
        BY <4>1
      <4>2. CASE o # k
        <5>1. o \in k+1..n /\ k < n
          BY <1>1, <4>2
        <5>2. g[o] = f[o]
          BY <5>1, <2>2
        <5>3. f[o] = ParseAt(p, f, o)
          BY <2>1, <5>1
        <5> QED  BY <5>2, <5>3
      <4> QED  BY <4>1, <4>2
    <3> HIDE DEF g
    <3> QED  BY <3>1, <3>2, <3>3, ParseLocal
  <2>4. g = [o \in k..n |-> ParseAt(p, g, o)]
    <3>1. g = [o \in k..n |-> g[o]]
      OBVIOUS
    <3> HIDE DEF g
    <3> QED  BY <2>3, <3>1
  <2> HIDE DEF g
  <2> QED  BY <2>4
<1>3. \E f : f = [o \in 0..n |-> ParseAt(p, f, o)]
  BY <1>1, <1>2
<1>4. ParseFrom(p) = [o \in 0..n |-> ParseAt(p, ParseFrom(p), o)]
  BY <1>3 DEF ParseFrom
<1> HIDE DEF n
<1>5. \A o \in 0..n : ParseFrom(p)[o] = ParseAt(p, ParseFrom(p), o)
  BY <1>4
<1> QED  BY <1>5 DEF n

\* What a parsed command is.
Parsed == [name : Nat, body : Seq(Nat)]

\* A frame starts at offset o, and the command in it.
FrameStarts(p, o) ==
    o + FRAME_LEN <= Len(p) /\ FRAME_LEN <= p[o + 1] /\ o + p[o + 1] <= Len(p)

Frame(p, o) == [name |-> p[o + 2], body |-> SubSeq(p, o + 3, o + p[o + 1])]

\* A frame lies within its payload, and its body is the cells behind the head.
LEMMA FrameType ==
    ASSUME NEW p \in Seq(Nat), NEW o \in 0..Len(p), FrameStarts(p, o)
    PROVE  /\ p[o + 1] \in Nat /\ p[o + 2] \in Nat
           /\ o + p[o + 1] \in o+2..Len(p)
           /\ Frame(p, o) \in Parsed
           /\ Len(Frame(p, o).body) = p[o + 1] - 2
           /\ \A i \in 1..p[o + 1] - 2 : Frame(p, o).body[i] = p[o + 2 + i]
<1> DEFINE len == p[o + 1]
           b == SubSeq(p, o + 3, o + len)
<1>1. Len(p) \in Nat
  BY LenProperties
<1>2. o + 1 \in 1..Len(p) /\ o + 2 \in 1..Len(p)
  BY <1>1 DEF FrameStarts, FRAME_LEN
<1>3. len \in Nat /\ p[o + 2] \in Nat
  BY <1>2, ElementOfSeq
<1>4. 2 <= len /\ o + len <= Len(p)
  BY DEF FrameStarts, FRAME_LEN
<1> HIDE DEF len
<1>5. o + len \in o+2..Len(p)
  BY <1>1, <1>3, <1>4
<1>6. \A i \in o+3..o+len : p[i] \in Nat
  <2> SUFFICES ASSUME NEW i \in o+3..o+len  PROVE p[i] \in Nat
    OBVIOUS
  <2>1. i \in 1..Len(p)
    BY <1>1, <1>3, <1>4
  <2> QED  BY <2>1, ElementOfSeq
<1>7. /\ b \in Seq(Nat)
      /\ Len(b) = IF o + 3 <= o + len THEN (o + len) - (o + 3) + 1 ELSE 0
      /\ \A i \in 1..(o + len) - (o + 3) + 1 : b[i] = p[o + 3 + i - 1]
  <2>1. o + 3 \in Int /\ o + len \in Int
    BY <1>3
  <2> QED  BY <1>6, <2>1, SubSeqProperties
<1> HIDE DEF b
<1>8. Len(b) = len - 2
  BY <1>3, <1>4, <1>7
<1>9. \A i \in 1..len - 2 : b[i] = p[o + 2 + i]
  <2> TAKE i \in 1..len - 2
  <2>1. i \in 1..(o + len) - (o + 3) + 1 /\ o + 3 + i - 1 = o + 2 + i
    BY <1>3
  <2> QED  BY <1>7, <2>1
<1>10. Frame(p, o) = [name |-> p[o + 2], body |-> b]
  BY DEF Frame, b, len
<1>11. Frame(p, o) \in Parsed /\ Frame(p, o).body = b
  BY <1>3, <1>7, <1>10 DEF Parsed
<1> QED  BY <1>3, <1>5, <1>8, <1>9, <1>11 DEF len

\* What the loop from one offset gives, by the three ways a round can end.
LEMMA ParseRound ==
    ASSUME NEW p \in Seq(Nat), NEW o \in 0..Len(p)
    PROVE  /\ o = Len(p) => ParseFrom(p)[o] = Ok(<<>>)
           /\ o # Len(p) /\ ~ FrameStarts(p, o) => ParseFrom(p)[o] = Fail
           /\ FrameStarts(p, o) =>
                 ParseFrom(p)[o]
                   = IF ParseFrom(p)[o + p[o + 1]].ok
                     THEN Ok(<<Frame(p, o)>> \o ParseFrom(p)[o + p[o + 1]].val)
                     ELSE Fail
<1> DEFINE F == ParseFrom(p)
<1>1. Len(p) \in Nat
  BY LenProperties
<1>2. F[o] = ParseAt(p, F, o)
  BY ParseUnfolds
<1> HIDE DEF F
<1>3. CASE o = Len(p)
  <2>1. F[o] = Ok(<<>>)
    BY <1>1, <1>2, <1>3 DEF ParseAt, FRAME_LEN
  <2>2. ~ FrameStarts(p, o)
    BY <1>1, <1>3 DEF FrameStarts, FRAME_LEN
  <2> QED  BY <1>3, <2>1, <2>2 DEF F
<1>4. CASE o # Len(p) /\ o + FRAME_LEN > Len(p)
  <2>1. F[o] = Fail
    BY <1>2, <1>4 DEF ParseAt
  <2>2. ~ FrameStarts(p, o)
    BY <1>1, <1>4 DEF FrameStarts, FRAME_LEN
  <2> QED  BY <1>4, <2>1, <2>2 DEF F
<1>5. CASE ~ (o + FRAME_LEN > Len(p))
  <2> DEFINE len == p[o + 1]
  <2>1. o + 1 \in 1..Len(p) /\ o # Len(p) /\ o + FRAME_LEN <= Len(p)
    BY <1>1, <1>5 DEF FRAME_LEN
  <2>2. len \in Nat
    BY <2>1, ElementOfSeq
  <2>3. F[o] = FrameAt(p, F, o)
    BY <1>2, <1>5 DEF ParseAt
  <2>4. FrameStarts(p, o) <=> FRAME_LEN <= len /\ o + len <= Len(p)
    BY <2>1 DEF FrameStarts
  <2>5. F[o] = IF len < FRAME_LEN \/ o + len > Len(p) \/ ~ F[o + len].ok
               THEN Fail ELSE Ok(<<Frame(p, o)>> \o F[o + len].val)
    BY <2>3 DEF FrameAt, Frame
  <2> HIDE DEF len
  <2>6. FrameStarts(p, o) <=> ~ (len < FRAME_LEN \/ o + len > Len(p))
    BY <1>1, <2>2, <2>4 DEF FRAME_LEN
  <2>7. CASE FrameStarts(p, o)
    <3>1. F[o] = IF F[o + len].ok THEN Ok(<<Frame(p, o)>> \o F[o + len].val)
                 ELSE Fail
      BY <2>5, <2>6, <2>7
    <3> QED  BY <2>1, <2>7, <3>1 DEF F, len
  <2>8. CASE ~ FrameStarts(p, o)
    <3>1. F[o] = Fail
      BY <2>5, <2>6, <2>8
    <3> QED  BY <2>1, <2>8, <3>1 DEF F
  <2> QED  BY <2>7, <2>8
<1> QED  BY <1>3, <1>4, <1>5

\* The results of the loop.
Results == {Fail} \cup {Ok(cs) : cs \in Seq(Parsed)}

\* A result is a failure or a list of commands.
LEMMA ResultFacts ==
    /\ Fail \in Results /\ ~ Fail.ok
    /\ \A cs \in Seq(Parsed) : Ok(cs) \in Results
    /\ \A cs : Ok(cs).ok /\ Ok(cs).val = cs
    /\ \A r \in Results : r.ok => r = Ok(r.val) /\ r.val \in Seq(Parsed)
    /\ \A r \in Results : ~ r.ok => r = Fail
<1>1. ~ Fail.ok
  BY DEF Fail
<1>2. \A cs : Ok(cs).ok /\ Ok(cs).val = cs
  BY DEF Ok
<1>3. Fail \in Results /\ \A cs \in Seq(Parsed) : Ok(cs) \in Results
  BY DEF Results
<1>4. ASSUME NEW r \in Results
      PROVE  /\ r.ok => r = Ok(r.val) /\ r.val \in Seq(Parsed)
             /\ ~ r.ok => r = Fail
  <2>1. CASE r = Fail
    BY <1>1, <2>1
  <2>2. CASE \E cs \in Seq(Parsed) : r = Ok(cs)
    BY <1>2, <2>2
  <2> QED  BY <2>1, <2>2 DEF Results
<1> QED  BY <1>1, <1>2, <1>3, <1>4

\* The loop gives a result from every offset.
LEMMA ParseType ==
    ASSUME NEW p \in Seq(Nat)
    PROVE  \A o \in 0..Len(p) : ParseFrom(p)[o] \in Results
<1> DEFINE F == ParseFrom(p)
           S == {o \in 0..Len(p) : F[o] \in Results}
<1>1. Len(p) \in Nat
  BY LenProperties
<1>2. ASSUME NEW o \in 0..Len(p), \A i \in o+1..Len(p) : i \in S
      PROVE  o \in S
  <2>1. CASE o = Len(p)
    <3>1. F[o] = Ok(<<>>)
      BY <2>1, ParseRound
    <3>2. <<>> \in Seq(Parsed)
      BY EmptySeq
    <3>3. F[o] \in Results
      BY <3>1, <3>2, ResultFacts
    <3> QED  BY <3>3
  <2>2. CASE o # Len(p) /\ ~ FrameStarts(p, o)
    <3>1. F[o] = Fail
      BY <2>2, ParseRound
    <3> QED  BY <3>1, ResultFacts
  <2>3. CASE FrameStarts(p, o)
    <3> DEFINE k == o + p[o + 1]
    <3>1. k \in o+1..Len(p) /\ Frame(p, o) \in Parsed
      <4>1. k \in o+2..Len(p) /\ Frame(p, o) \in Parsed
        BY <2>3, FrameType
      <4> HIDE DEF k
      <4> QED  BY <1>1, <4>1
    <3>2. F[k] \in Results
      BY <1>2, <3>1
    <3>3. F[o] = IF F[k].ok THEN Ok(<<Frame(p, o)>> \o F[k].val) ELSE Fail
      BY <2>3, ParseRound
    <3> HIDE DEF k, F
    <3>4. CASE F[k].ok
      <4>1. F[k].val \in Seq(Parsed)
        BY <3>2, <3>4, ResultFacts
      <4>2. <<Frame(p, o)>> \in Seq(Parsed)
        BY <3>1
      <4>3. <<Frame(p, o)>> \o F[k].val \in Seq(Parsed)
        BY <4>1, <4>2, ConcatProperties
      <4> QED  BY <3>3, <3>4, <4>3, ResultFacts
    <3>5. CASE ~ F[k].ok
      BY <3>3, <3>5, ResultFacts
    <3> QED  BY <3>4, <3>5
  <2>4. FrameStarts(p, o) \/ (o # Len(p) /\ ~ FrameStarts(p, o)) \/ o = Len(p)
    OBVIOUS
  <2> QED  BY <2>1, <2>2, <2>3, <2>4
<1>3. \A o \in 0..Len(p) : o \in S
  <2> HIDE DEF S
  <2> QED  BY <1>1, <1>2, DownInduction
<1> QED  BY <1>3

-----------------------------------------------------------------------------
(* Payloads in a row. *)

\* The cells of two payloads in a row.
LEMMA RowCells ==
    ASSUME NEW p \in Seq(Nat), NEW q \in Seq(Nat), NEW r, r = p \o q
    PROVE  /\ r \in Seq(Nat) /\ Len(p) \in Nat /\ Len(q) \in Nat
           /\ Len(r) = Len(p) + Len(q)
           /\ \A i \in 1..Len(p) : r[i] = p[i]
           /\ \A i \in 1..Len(q) : r[Len(p) + i] = q[i]
<1>1. Len(p) \in Nat /\ Len(q) \in Nat
  BY LenProperties
<1>2. /\ r \in Seq(Nat) /\ Len(r) = Len(p) + Len(q)
      /\ \A i \in 1..Len(p) + Len(q) :
            r[i] = IF i <= Len(p) THEN p[i] ELSE q[i - Len(p)]
  BY ConcatProperties
<1>3. \A i \in 1..Len(p) : r[i] = p[i]
  BY <1>1, <1>2
<1>4. ASSUME NEW i \in 1..Len(q)  PROVE r[Len(p) + i] = q[i]
  <2>1. /\ Len(p) + i \in 1..Len(p) + Len(q) /\ ~ (Len(p) + i <= Len(p))
        /\ (Len(p) + i) - Len(p) = i
    BY <1>1
  <2> QED  BY <1>2, <2>1
<1> QED  BY <1>1, <1>2, <1>3, <1>4

\* Frames with the same cells are the same.
LEMMA SameFrame ==
    ASSUME NEW p \in Seq(Nat), NEW o \in 0..Len(p), FrameStarts(p, o),
           NEW r \in Seq(Nat), NEW k \in 0..Len(r), FrameStarts(r, k),
           p[o + 1] = r[k + 1],
           \A i \in 1..p[o + 1] : p[o + i] = r[k + i]
    PROVE  Frame(p, o) = Frame(r, k)
<1> DEFINE a == Frame(p, o)
           b == Frame(r, k)
           len == p[o + 1]
<1>1. /\ len \in Nat /\ 2 <= len /\ a \in Parsed /\ Len(a.body) = len - 2
      /\ \A i \in 1..len - 2 : a.body[i] = p[o + 2 + i]
  BY FrameType DEF FrameStarts, FRAME_LEN
<1>2. /\ b \in Parsed /\ Len(b.body) = len - 2
      /\ \A i \in 1..len - 2 : b.body[i] = r[k + 2 + i]
  BY FrameType
<1>3. a.name = p[o + 2] /\ b.name = r[k + 2]
  BY DEF Frame
<1> HIDE DEF a, b, len
<1>4. a.name = b.name
  <2>1. 2 \in 1..len
    BY <1>1
  <2> QED  BY <1>3, <2>1 DEF len
<1>5. a.body = b.body
  <2>1. a.body \in Seq(Nat) /\ b.body \in Seq(Nat)
    BY <1>1, <1>2 DEF Parsed
  <2>2. ASSUME NEW i \in 1..len - 2  PROVE a.body[i] = b.body[i]
    <3>1. /\ 2 + i \in 1..len /\ o + 2 + i = o + (2 + i)
          /\ k + 2 + i = k + (2 + i)
      BY <1>1
    <3> QED  BY <1>1, <1>2, <3>1 DEF len
  <2> DEFINE s == a.body
             t == b.body
  <2>3. Len(s) = Len(t) /\ \A i \in 1..Len(s) : s[i] = t[i]
    BY <1>1, <1>2, <2>2
  <2>4. s \in Seq(Nat) /\ t \in Seq(Nat)
    BY <2>1
  <2> HIDE DEF s, t
  <2>5. s = t
    BY <2>3, <2>4, SeqEqual
  <2> QED  BY <2>5 DEF s, t
<1>6. a = b
  <2>1. a = [name |-> a.name, body |-> a.body]
    BY <1>1 DEF Parsed
  <2>2. b = [name |-> b.name, body |-> b.body]
    BY <1>2 DEF Parsed
  <2> QED  BY <1>4, <1>5, <2>1, <2>2
<1> QED  BY <1>6 DEF a, b

\* A frame of the first payload is one of the row.
LEMMA FrameOfFirst ==
    ASSUME NEW p \in Seq(Nat), NEW q \in Seq(Nat), NEW r, r = p \o q,
           NEW o \in 0..Len(p), FrameStarts(p, o)
    PROVE  FrameStarts(r, o) /\ r[o + 1] = p[o + 1] /\ Frame(r, o) = Frame(p, o)
<1> DEFINE len == p[o + 1]
<1>1. /\ r \in Seq(Nat) /\ Len(p) \in Nat /\ Len(q) \in Nat
      /\ Len(r) = Len(p) + Len(q)
      /\ \A i \in 1..Len(p) : r[i] = p[i]
  BY RowCells
<1>2. len \in Nat /\ o + len \in o+2..Len(p)
  BY FrameType
<1>3. o + 2 <= Len(p) /\ 2 <= len
  BY DEF FrameStarts, FRAME_LEN
<1> DEFINE n == Len(p)
<1>0. n \in Nat /\ o \in 0..n /\ len \in Nat /\ o + len \in o+2..n
  BY <1>1, <1>2
<1> HIDE DEF len, n
<1>4. \A i \in 1..len : p[o + i] = r[o + i]
  <2> TAKE i \in 1..len
  <2>0. o + i \in 1..n
    BY <1>0
  <2>1. o + i \in 1..Len(p)
    BY <2>0 DEF n
  <2> QED  BY <1>1, <2>1
<1>5. r[o + 1] = len
  <2>1. 1 \in 1..len
    BY <1>2, <1>3
  <2> QED  BY <1>4, <2>1 DEF len
<1>6. FrameStarts(r, o)
  BY <1>1, <1>2, <1>3, <1>5 DEF FrameStarts, FRAME_LEN
<1>7. o \in 0..Len(r)
  BY <1>1
<1>8. Frame(p, o) = Frame(r, o)
  BY <1>1, <1>4, <1>5, <1>6, <1>7, SameFrame DEF len
<1> QED  BY <1>5, <1>6, <1>8 DEF len

\* The frames behind the first payload are those of the second.
LEMMA FrameOfSecond ==
    ASSUME NEW p \in Seq(Nat), NEW q \in Seq(Nat), NEW r, r = p \o q,
           NEW o \in 0..Len(q)
    PROVE  /\ FrameStarts(r, Len(p) + o) <=> FrameStarts(q, o)
           /\ FrameStarts(q, o) => /\ r[Len(p) + o + 1] = q[o + 1]
                                   /\ Frame(r, Len(p) + o) = Frame(q, o)
<1> DEFINE m == Len(p)
<1>1. /\ r \in Seq(Nat) /\ m \in Nat /\ Len(q) \in Nat
      /\ Len(r) = m + Len(q)
      /\ \A i \in 1..Len(q) : r[m + i] = q[i]
  BY RowCells
<1>0. m \in Nat /\ Len(q) \in Nat /\ o \in Nat
  BY <1>1
<1> HIDE DEF m
<1>2. CASE o + 2 <= Len(q)
  <2> DEFINE len == q[o + 1]
  <2>1. o + 1 \in 1..Len(q) /\ m + o + 1 = m + (o + 1)
    BY <1>0, <1>2
  <2>2. r[m + o + 1] = len
    BY <1>1, <2>1
  <2>3. len \in Nat
    BY <2>1, ElementOfSeq
  <2> HIDE DEF len
  <2>4. FrameStarts(r, m + o) <=> 2 <= len /\ o + len <= Len(q)
    BY <1>1, <1>2, <2>2, <2>3 DEF FrameStarts, FRAME_LEN
  <2>5. FrameStarts(q, o) <=> 2 <= len /\ o + len <= Len(q)
    BY <1>2 DEF FrameStarts, FRAME_LEN, len
  <2>6. ASSUME FrameStarts(q, o)  PROVE Frame(r, m + o) = Frame(q, o)
    <3>1. FrameStarts(r, m + o) /\ m + o \in 0..Len(r) /\ 2 <= len
          /\ o + len <= Len(q)
      BY <1>1, <2>4, <2>5, <2>6
    <3>2. \A i \in 1..len : q[o + i] = r[m + o + i]
      <4> TAKE i \in 1..len
      <4>1. o + i \in 1..Len(q) /\ m + o + i = m + (o + i)
        BY <1>1, <2>3, <3>1
      <4> QED  BY <1>1, <4>1
    <3> QED  BY <1>1, <2>2, <2>6, <3>1, <3>2, SameFrame DEF len
  <2> QED  BY <2>2, <2>4, <2>5, <2>6 DEF m, len
<1>3. CASE ~ (o + 2 <= Len(q))
  <2>1. ~ FrameStarts(q, o)
    BY <1>3 DEF FrameStarts, FRAME_LEN
  <2>2. ~ FrameStarts(r, m + o)
    BY <1>1, <1>3 DEF FrameStarts, FRAME_LEN
  <2> QED  BY <2>1, <2>2 DEF m
<1> QED  BY <1>2, <1>3

\* The loop behind the first payload is the loop over the second.
LEMMA ParseSecond ==
    ASSUME NEW p \in Seq(Nat), NEW q \in Seq(Nat), NEW r, r = p \o q
    PROVE  \A o \in 0..Len(q) : ParseFrom(r)[Len(p) + o] = ParseFrom(q)[o]
<1> DEFINE m == Len(p)
           F == ParseFrom(r)
           G == ParseFrom(q)
           S == {o \in 0..Len(q) : F[m + o] = G[o]}
<1>1. r \in Seq(Nat) /\ m \in Nat /\ Len(q) \in Nat /\ Len(r) = m + Len(q)
  BY RowCells
<1>2. ASSUME NEW o \in 0..Len(q), \A i \in o+1..Len(q) : i \in S
      PROVE  o \in S
  <2>1. m + o \in 0..Len(r) /\ (m + o = Len(r) <=> o = Len(q))
    <3> DEFINE n == Len(q)
               l == Len(r)
    <3>1. n \in Nat /\ m \in Nat /\ l = m + n /\ o \in 0..n
      BY <1>1
    <3> HIDE DEF n, l, m
    <3>2. m + o \in 0..l /\ (m + o = l <=> o = n)
      BY <3>1
    <3> QED  BY <3>2 DEF n, l
  <2>2. FrameStarts(r, m + o) <=> FrameStarts(q, o)
    BY FrameOfSecond
  <2>3. CASE o = Len(q)
    <3>1. F[m + o] = Ok(<<>>)
      BY <1>1, <2>1, <2>3, ParseRound
    <3>2. G[o] = Ok(<<>>)
      BY <2>3, ParseRound
    <3> QED  BY <3>1, <3>2
  <2>4. CASE o # Len(q) /\ ~ FrameStarts(q, o)
    <3>1. F[m + o] = Fail
      <4> DEFINE k == m + o
      <4>1. k \in 0..Len(r) /\ k # Len(r) /\ ~ FrameStarts(r, k)
        BY <2>1, <2>2, <2>4
      <4> HIDE DEF k
      <4>2. ParseFrom(r)[k] = Fail
        BY <1>1, <4>1, ParseRound
      <4> QED  BY <4>2 DEF k
    <3>2. G[o] = Fail
      BY <2>4, ParseRound
    <3> QED  BY <3>1, <3>2
  <2>5. CASE FrameStarts(q, o)
    <3> DEFINE len == q[o + 1]
               c == Frame(q, o)
    <3>1. r[m + o + 1] = len /\ Frame(r, m + o) = c
      BY <2>5, FrameOfSecond, ZenonT(60)
    <3>2. len \in Nat /\ o + len \in o+2..Len(q)
      BY <2>5, FrameType
    <3>3. G[o] = IF G[o + len].ok THEN Ok(<<c>> \o G[o + len].val) ELSE Fail
      BY <2>5, ParseRound
    <3>4. F[m + o] = IF F[m + o + r[m + o + 1]].ok
                     THEN Ok(<<Frame(r, m + o)>> \o F[m + o + r[m + o + 1]].val)
                     ELSE Fail
      BY <1>1, <2>1, <2>2, <2>5, ParseRound
    <3> HIDE DEF len, c
    <3>5. F[m + (o + len)] = G[o + len]
      <4>1. o + len \in o+1..Len(q)
        BY <1>1, <3>2
      <4> QED  BY <1>2, <4>1
    <3>6. m + o + len = m + (o + len)
      BY <1>1, <3>2
    <3>7. F[m + o] = G[o]
      <4> HIDE DEF F, G
      <4> QED  BY <3>1, <3>3, <3>4, <3>5, <3>6
    <3> QED  BY <3>7
  <2> QED  BY <2>3, <2>4, <2>5
<1>3. \A o \in 0..Len(q) : o \in S
  <2> HIDE DEF S
  <2> QED  BY <1>1, <1>2, DownInduction
<1> QED  BY <1>3

\* At the border between the two it is parse_commands of the second.
LEMMA ParseBehind ==
    ASSUME NEW p \in Seq(Nat), NEW q \in Seq(Nat)
    PROVE  ParseFrom(p \o q)[Len(p)] = parse_commands(q)
<1> DEFINE r == p \o q
<1>1. r = p \o q
  OBVIOUS
<1>2. Len(p) + 0 = Len(p) /\ 0 \in 0..Len(q)
  BY LenProperties
<1> HIDE DEF r
<1>3. \A o \in 0..Len(q) : ParseFrom(r)[Len(p) + o] = ParseFrom(q)[o]
  BY <1>1, ParseSecond, ZenonT(60)
<1> QED  BY <1>2, <1>3 DEF r, parse_commands

(***************************************************************************)
(* Payloads parse apart: a row of two payloads that parse gives the        *)
(* commands of the first and then those of the second, so it makes no      *)
(* difference how commands are gathered into packets.                      *)
(***************************************************************************)
THEOREM ParseRow ==
    ASSUME NEW p \in Seq(Nat), NEW q \in Seq(Nat),
           parse_commands(p).ok, parse_commands(q).ok
    PROVE  parse_commands(p \o q)
             = Ok(parse_commands(p).val \o parse_commands(q).val)
<1> DEFINE r == p \o q
           n == Len(p)
           F == ParseFrom(r)
           G == ParseFrom(p)
           v == parse_commands(q).val
           S == {o \in 0..n : G[o].ok => F[o] = Ok(G[o].val \o v)}
<1>1. r \in Seq(Nat) /\ n \in Nat /\ Len(q) \in Nat /\ Len(r) = n + Len(q)
  BY RowCells
<1>2. F[n] = Ok(v) /\ v \in Seq(Parsed)
  <2>1. 0 \in 0..Len(q) /\ n + 0 = n
    BY <1>1
  <2>2. F[n] = ParseFrom(q)[0]
    BY ParseBehind DEF parse_commands
  <2>3. ParseFrom(q)[0] \in Results
    BY <2>1, ParseType
  <2> QED  BY <2>2, <2>3, ResultFacts DEF parse_commands
<1> HIDE DEF v
<1>3. ASSUME NEW o \in 0..n, \A i \in o+1..n : i \in S
      PROVE  o \in S
  <2> SUFFICES ASSUME G[o].ok
               PROVE  F[o] = Ok(G[o].val \o v)
    OBVIOUS
  <2>1. CASE o = n
    <3>1. G[o] = Ok(<<>>)
      BY <2>1, ParseRound
    <3>2. G[o].val = <<>>
      BY <3>1, ResultFacts
    <3>3. <<>> \o v = v
      BY <1>2, ConcatEmptySeq
    <3> HIDE DEF F, G
    <3> QED  BY <1>2, <2>1, <3>2, <3>3
  <2>2. CASE o # n /\ ~ FrameStarts(p, o)
    <3>1. G[o] = Fail
      BY <2>2, ParseRound
    <3> QED  BY <3>1, ResultFacts
  <2>3. CASE FrameStarts(p, o)
    <3> DEFINE len == p[o + 1]
               c == Frame(p, o)
               w == G[o + len].val
    <3>1. len \in Nat /\ o + len \in o+2..n /\ c \in Parsed
      BY <2>3, FrameType
    <3>2. FrameStarts(r, o) /\ r[o + 1] = len /\ Frame(r, o) = c
      BY <2>3, FrameOfFirst
    <3>3. G[o] = IF G[o + len].ok THEN Ok(<<c>> \o w) ELSE Fail
      BY <2>3, ParseRound
    <3>4. F[o] = IF F[o + r[o + 1]].ok
                 THEN Ok(<<Frame(r, o)>> \o F[o + r[o + 1]].val) ELSE Fail
      <4>1. o \in 0..Len(r)
        BY <1>1
      <4> QED  BY <1>1, <3>2, <4>1, ParseRound
    <3>5. G[o + len] \in Results
      <4>1. o + len \in 0..n
        <5> HIDE DEF len
        <5> QED  BY <1>1, <3>1
      <4> QED  BY <4>1, ParseType
    <3>6. o + len \in o+1..n
      <4> HIDE DEF len
      <4> QED  BY <1>1, <3>1
    <3>7. G[o + len].ok => F[o + len] = Ok(w \o v)
      BY <1>3, <3>6
    <3> HIDE DEF F, G, len, c
    <3>8. G[o + len].ok /\ G[o].val = <<c>> \o w
      BY <3>3, ResultFacts
    <3>9. w \in Seq(Parsed)
      BY <3>5, <3>8, ResultFacts
    <3>10. F[o] = Ok(<<c>> \o (w \o v))
      <4> HIDE DEF w
      <4>1. F[o + len].ok /\ F[o + len].val = w \o v
        BY <3>7, <3>8, ResultFacts
      <4> QED  BY <3>2, <3>4, <4>1
    <3> HIDE DEF w
    <3>11. (<<c>> \o w) \o v = <<c>> \o (w \o v)
      <4>1. <<c>> \in Seq(Parsed)
        BY <3>1
      <4> QED  BY <1>2, <3>9, <4>1, ConcatAssociative
    <3> QED  BY <3>8, <3>10, <3>11
  <2> QED  BY <2>1, <2>2, <2>3
<1>4. \A o \in 0..n : o \in S
  <2> HIDE DEF S
  <2> QED  BY <1>1, <1>3, DownInduction
<1>5. G[0].ok => F[0] = Ok(G[0].val \o v)
  BY <1>1, <1>4
<1> QED  BY <1>5 DEF parse_commands, v

\* A framed command by itself.
LEMMA ParseOne ==
    ASSUME NEW c \in Parsed
    PROVE  /\ serialize_command(c) \in Seq(Nat)
           /\ Len(serialize_command(c)) = FRAME_LEN + Len(c.body)
           /\ parse_commands(serialize_command(c)) = Ok(<<c>>)
<1> DEFINE n == FRAME_LEN + Len(c.body)
           h == <<n, c.name>>
           p == serialize_command(c)
           F == ParseFrom(p)
<1>1. c.name \in Nat /\ c.body \in Seq(Nat) /\ Len(c.body) \in Nat /\ n \in Nat
  <2>1. c.name \in Nat /\ c.body \in Seq(Nat)
    BY DEF Parsed
  <2> QED  BY <2>1, LenProperties DEF FRAME_LEN
<1>2. h \in Seq(Nat) /\ Len(h) = 2 /\ h[1] = n /\ h[2] = c.name
  BY <1>1
<1>3. p = h \o c.body
  BY DEF serialize_command
<1> HIDE DEF h, p
<1>4. /\ p \in Seq(Nat) /\ Len(p) = n /\ p[1] = n /\ p[2] = c.name
      /\ \A i \in 1..Len(c.body) : p[2 + i] = c.body[i]
  <2> DEFINE b == c.body
  <2>0. b \in Seq(Nat) /\ h \in Seq(Nat) /\ p = h \o b
    BY <1>1, <1>2, <1>3
  <2> HIDE DEF b
  <2>1. /\ p \in Seq(Nat) /\ Len(p) = Len(h) + Len(b)
        /\ \A i \in 1..Len(h) : p[i] = h[i]
        /\ \A i \in 1..Len(b) : p[Len(h) + i] = b[i]
    BY <2>0, RowCells
  <2> USE DEF b
  <2> QED  BY <1>2, <2>1 DEF FRAME_LEN
<1>5. FrameStarts(p, 0) /\ 0 \in 0..Len(p) /\ 0 + p[0 + 1] = n
  <2> HIDE DEF n
  <2>1. 2 <= n
    BY <1>1 DEF n, FRAME_LEN
  <2> QED  BY <1>1, <1>4, <2>1 DEF FrameStarts, FRAME_LEN
<1>6. Frame(p, 0) = c
  <2> DEFINE a == Frame(p, 0)
  <2>1. /\ a \in Parsed /\ Len(a.body) = p[0 + 1] - 2
        /\ \A i \in 1..p[0 + 1] - 2 : a.body[i] = p[0 + 2 + i]
    BY <1>4, <1>5, FrameType
  <2>2. a.name = c.name
    BY <1>4 DEF Frame
  <2> HIDE DEF a
  <2>3. a.body = c.body
    <3>1. p[0 + 1] - 2 = Len(c.body)
      BY <1>1, <1>4 DEF FRAME_LEN
    <3>2. \A i \in 1..Len(c.body) : a.body[i] = c.body[i]
      <4> TAKE i \in 1..Len(c.body)
      <4>1. 0 + 2 + i = 2 + i
        BY <1>1
      <4> QED  BY <1>4, <2>1, <3>1, <4>1
    <3>3. a.body \in Seq(Nat)
      BY <2>1 DEF Parsed
    <3> QED  BY <1>1, <2>1, <3>1, <3>2, <3>3, SeqEqual
  <2>4. a = c
    BY <2>1, <2>2, <2>3 DEF Parsed
  <2> QED  BY <2>4 DEF a
<1>7. F[n] = Ok(<<>>)
  <2>1. n \in 0..Len(p)
    BY <1>1, <1>4
  <2> QED  BY <1>4, <2>1, ParseRound
<1>8. F[0] = Ok(<<c>> \o <<>>)
  <2>1. F[0] = IF F[0 + p[0 + 1]].ok
               THEN Ok(<<Frame(p, 0)>> \o F[0 + p[0 + 1]].val) ELSE Fail
    BY <1>4, <1>5, ParseRound
  <2> HIDE DEF F, n
  <2> QED  BY <1>5, <1>6, <1>7, <2>1, ResultFacts
<1>9. <<c>> \o <<>> = <<c>>
  <2>1. <<c>> \in Seq(Parsed)
    OBVIOUS
  <2> QED  BY <2>1, ConcatEmptySeq
<1> QED  BY <1>4, <1>8, <1>9 DEF p, parse_commands

-----------------------------------------------------------------------------
(* Sequences in a row. *)

\* The partial results of FlattenSeq.
FlatUpTo(s) ==
    LET flatten[i \in 1..Len(s)] ==
          IF i = 1 THEN s[i] ELSE flatten[i-1] \o s[i]
    IN  flatten

\* They exist, and each is the one before and one sequence more.
LEMMA FlatUnfolds ==
    ASSUME NEW T, NEW s \in Seq(T)
    PROVE  \A i \in 1..Len(s) :
              FlatUpTo(s)[i] = IF i = 1 THEN s[i] ELSE FlatUpTo(s)[i-1] \o s[i]
<1> DEFINE n == Len(s)
           At(f, i) == IF i = 1 THEN s[i] ELSE f[i-1] \o s[i]
           S == {k \in Nat : \E f : f = [i \in 1..k |-> At(f, i)]}
<1>1. n \in Nat
  BY LenProperties
<1>2. 0 \in S
  <2> DEFINE f == [i \in 1..0 |-> s]
  <2>1. 1..0 = {}
    OBVIOUS
  <2>2. f = [i \in 1..0 |-> At(f, i)]
    BY <2>1
  <2> QED  BY <2>2
<1>3. ASSUME NEW k \in Nat, k \in S  PROVE k + 1 \in S
  <2>1. PICK f : f = [i \in 1..k |-> At(f, i)]
    BY <1>3
  <2> DEFINE g == [i \in 1..k+1 |-> IF i = k + 1 THEN At(f, i) ELSE f[i]]
  <2>2. \A i \in 1..k : g[i] = f[i]
    OBVIOUS
  <2>3. ASSUME NEW i \in 1..k+1  PROVE g[i] = At(g, i)
    <3>1. g[i] = At(f, i)
      <4>1. CASE i = k + 1
        BY <4>1
      <4>2. CASE i # k + 1
        <5>1. i \in 1..k
          BY <4>2
        <5>2. f[i] = At(f, i)
          BY <2>1, <5>1
        <5> QED  BY <2>2, <5>1, <5>2
      <4> QED  BY <4>1, <4>2
    <3>2. i # 1 => i - 1 \in 1..k
      OBVIOUS
    <3> HIDE DEF g
    <3>3. At(f, i) = At(g, i)
      BY <2>2, <3>2
    <3> QED  BY <3>1, <3>3
  <2>4. g = [i \in 1..k+1 |-> g[i]]
    OBVIOUS
  <2> HIDE DEF g
  <2>5. g = [i \in 1..k+1 |-> At(g, i)]
    BY <2>3, <2>4
  <2>6. \E h : h = [i \in 1..k+1 |-> At(h, i)]
    <3> HIDE DEF At
    <3> QED  BY <2>5
  <2>7. k + 1 \in Nat
    OBVIOUS
  <2> QED  BY <2>6, <2>7
<1>4. \A k \in Nat : k \in S
  <2> HIDE DEF S
  <2> QED  BY <1>2, <1>3, UpInduction
<1>5. \E f : f = [i \in 1..n |-> At(f, i)]
  BY <1>1, <1>4
<1>6. FlatUpTo(s) = [i \in 1..n |-> At(FlatUpTo(s), i)]
  BY <1>5 DEF FlatUpTo
<1> DEFINE F == FlatUpTo(s)
<1> HIDE DEF F
<1>7. \A i \in 1..n : F[i] = At(F, i)
  BY <1>6 DEF F
<1> QED  BY <1>7 DEF F

\* FlattenSeq of nothing, and of one sequence more.
LEMMA FlattenAppend ==
    ASSUME NEW T, NEW s \in Seq(Seq(T)), NEW x \in Seq(T)
    PROVE  /\ FlattenSeq(<<>>) = <<>>
           /\ FlattenSeq(Append(s, x)) = FlattenSeq(s) \o x
<1> DEFINE t == Append(s, x)
           n == Len(s)
           F == FlatUpTo(s)
           G == FlatUpTo(t)
<1>1. FlattenSeq(<<>>) = <<>>
  BY DEF FlattenSeq
<1>2. /\ t \in Seq(Seq(T)) /\ Len(t) = n + 1 /\ t[n + 1] = x
      /\ \A i \in 1..n : t[i] = s[i]
  BY AppendProperties
<1>3. n \in Nat
  BY LenProperties
<1>4. FlattenSeq(t) = G[n + 1]
  <2> HIDE DEF t
  <2> QED  BY <1>2, <1>3 DEF FlattenSeq, FlatUpTo
<1>5. \A i \in 1..n+1 : G[i] = IF i = 1 THEN t[i] ELSE G[i-1] \o t[i]
  <2> HIDE DEF t, n
  <2> QED  BY <1>2, FlatUnfolds
<1>6. \A i \in 1..n : F[i] = IF i = 1 THEN s[i] ELSE F[i-1] \o s[i]
  BY FlatUnfolds
<1> HIDE DEF F, G, t
<1>7. CASE n = 0
  <2>1. s = <<>>
    BY <1>7, EmptySeq
  <2>2. G[1] = x
    BY <1>2, <1>5, <1>7
  <2>3. <<>> \o x = x
    BY ConcatEmptySeq
  <2> QED  BY <1>1, <1>4, <1>7, <2>1, <2>2, <2>3 DEF t
<1>8. CASE n # 0
  <2> DEFINE S == {k \in Nat : k \in 1..n => G[k] = F[k]}
  <2>1. 0 \in S
    OBVIOUS
  <2>2. ASSUME NEW k \in Nat, k \in S  PROVE k + 1 \in S
    <3> SUFFICES ASSUME k + 1 \in 1..n
                 PROVE  G[k + 1] = F[k + 1]
      OBVIOUS
    <3>1. k + 1 \in 1..n+1 /\ (k + 1) - 1 = k /\ t[k + 1] = s[k + 1]
      BY <1>2, <1>3
    <3>2. CASE k = 0
      <4>1. k + 1 = 1
        BY <3>2
      <4>2. G[k + 1] = t[k + 1] /\ F[k + 1] = s[k + 1]
        BY <1>5, <1>6, <3>1, <4>1
      <4> QED  BY <3>1, <4>2
    <3>3. CASE k # 0
      <4>1. k \in 1..n /\ k + 1 # 1
        BY <1>3, <3>3
      <4>2. G[k] = F[k]
        BY <2>2, <4>1
      <4>3. G[k + 1] = G[(k + 1) - 1] \o t[k + 1]
        BY <1>5, <3>1, <4>1
      <4>4. F[k + 1] = F[(k + 1) - 1] \o s[k + 1]
        BY <1>6, <4>1
      <4> QED  BY <3>1, <4>2, <4>3, <4>4
    <3> QED  BY <3>2, <3>3
  <2>3. \A k \in Nat : k \in S
    <3> HIDE DEF S
    <3> QED  BY <2>1, <2>2, UpInduction
  <2>6. n \in 1..n /\ n + 1 \in 1..n+1 /\ n + 1 # 1 /\ (n + 1) - 1 = n
    <3> HIDE DEF n
    <3> QED  BY <1>3, <1>8
  <2>4. G[n] = F[n]
    BY <1>3, <2>3, <2>6
  <2>5. G[n + 1] = G[(n + 1) - 1] \o t[n + 1]
    <3> HIDE DEF n
    <3> QED  BY <1>5, <2>6
  <2>7. FlattenSeq(s) = F[n]
    BY <1>8 DEF FlattenSeq, FlatUpTo, F
  <2> HIDE DEF n
  <2> QED  BY <1>1, <1>2, <1>4, <2>4, <2>5, <2>6, <2>7 DEF t
<1> QED  BY <1>1, <1>7, <1>8

\* The row of a row of sequences over T is one over T.
LEMMA FlattenType ==
    ASSUME NEW T
    PROVE  \A s \in Seq(Seq(T)) : FlattenSeq(s) \in Seq(T)
<1> DEFINE P == {s \in Seq(Seq(T)) : FlattenSeq(s) \in Seq(T)}
<1>0. <<>> \in Seq(Seq(T)) /\ <<>> \in Seq(T)
  BY EmptySeq
<1>1. <<>> \in P
  <2>1. FlattenSeq(<<>>) = <<>>
    BY <1>0, FlattenAppend
  <2> QED  BY <1>0, <2>1
<1>2. ASSUME NEW s \in Seq(Seq(T)), NEW e \in Seq(T), s \in P
      PROVE  Append(s, e) \in P
  <2>1. FlattenSeq(Append(s, e)) = FlattenSeq(s) \o e
    BY FlattenAppend
  <2>2. FlattenSeq(s) \o e \in Seq(T)
    BY <1>2, ConcatProperties
  <2>3. Append(s, e) \in Seq(Seq(T))
    BY AppendProperties
  <2> QED  BY <2>1, <2>2, <2>3
<1>3. \A s \in Seq(Seq(T)) : s \in P
  <2> HIDE DEF P
  <2> QED  BY <1>1, <1>2, SeqInduction
<1> QED  BY <1>3

\* Two rows in a row are one.
LEMMA FlattenConcat ==
    ASSUME NEW T, NEW s \in Seq(Seq(T))
    PROVE  \A t \in Seq(Seq(T)) :
              FlattenSeq(s \o t) = FlattenSeq(s) \o FlattenSeq(t)
<1> DEFINE P == {t \in Seq(Seq(T)) :
                    FlattenSeq(s \o t) = FlattenSeq(s) \o FlattenSeq(t)}
<1>1. <<>> \in P
  <2>1. <<>> \in Seq(Seq(T)) /\ <<>> \in Seq(T)
    BY EmptySeq
  <2>2. FlattenSeq(<<>>) = <<>>
    BY <2>1, FlattenAppend
  <2>3. FlattenSeq(s) \o <<>> = FlattenSeq(s)
    BY FlattenType, ConcatEmptySeq
  <2>4. s \o <<>> = s
    BY ConcatEmptySeq
  <2> QED  BY <2>1, <2>2, <2>3, <2>4
<1>2. ASSUME NEW t \in Seq(Seq(T)), NEW e \in Seq(T), t \in P
      PROVE  Append(t, e) \in P
  <2>1. /\ Append(t, e) \in Seq(Seq(T)) /\ Append(t, e) = t \o <<e>>
        /\ <<e>> \in Seq(Seq(T)) /\ s \o t \in Seq(Seq(T))
    BY AppendProperties, AppendIsConcat, ConcatProperties
  <2>2. s \o (t \o <<e>>) = Append(s \o t, e)
    <3>1. (s \o t) \o <<e>> = s \o (t \o <<e>>)
      BY <2>1, ConcatAssociative, SMTT(30)
    <3>2. Append(s \o t, e) = (s \o t) \o <<e>>
      BY <2>1, AppendIsConcat
    <3> QED  BY <3>1, <3>2
  <2>3. FlattenSeq(Append(s \o t, e)) = FlattenSeq(s \o t) \o e
    BY <2>1, FlattenAppend
  <2>4. FlattenSeq(Append(t, e)) = FlattenSeq(t) \o e
    BY FlattenAppend
  <2>5. (FlattenSeq(s) \o FlattenSeq(t)) \o e = FlattenSeq(s) \o (FlattenSeq(t) \o e)
    <3> DEFINE a == FlattenSeq(s)
               b == FlattenSeq(t)
    <3>1. a \in Seq(T) /\ b \in Seq(T)
      BY FlattenType
    <3> HIDE DEF a, b
    <3>2. (a \o b) \o e = a \o (b \o e)
      BY <3>1, ConcatAssociative, SMTT(30)
    <3> QED  BY <3>2 DEF a, b
  <2>6. FlattenSeq(s \o t) = FlattenSeq(s) \o FlattenSeq(t)
    BY <1>2
  <2>7. FlattenSeq(s \o Append(t, e)) = FlattenSeq(s) \o FlattenSeq(Append(t, e))
    BY <2>1, <2>2, <2>3, <2>4, <2>5, <2>6
  <2> QED  BY <2>1, <2>7
<1>3. \A t \in Seq(Seq(T)) : t \in P
  <2> HIDE DEF P
  <2> QED  BY <1>1, <1>2, SeqInduction
<1> QED  BY <1>3

-----------------------------------------------------------------------------
(* The parser and the framer. *)

\* The framed commands of a list, and their cells in a row.
Raws(cs)  == [i \in DOMAIN cs |-> serialize_command(cs[i])]
Bytes(cs) == FlattenSeq(Raws(cs))

\* A frame is the framed form of the command in it.
LEMMA FrameBytes ==
    ASSUME NEW p \in Seq(Nat), NEW o \in 0..Len(p), FrameStarts(p, o)
    PROVE  serialize_command(Frame(p, o)) = SubSeq(p, o + 1, o + p[o + 1])
<1> DEFINE len == p[o + 1]
           c == Frame(p, o)
           b == c.body
           h == <<FRAME_LEN + Len(b), c.name>>
           x == serialize_command(c)
           y == SubSeq(p, o + 1, o + len)
<1>1. /\ len \in Nat /\ o + len \in o+2..Len(p) /\ c \in Parsed
      /\ Len(b) = len - 2 /\ \A i \in 1..len - 2 : b[i] = p[o + 2 + i]
  BY FrameType
<1>2. c.name = p[o + 2] /\ c.name \in Nat /\ b \in Seq(Nat)
  BY <1>1 DEF Frame, Parsed
<1>3. x = h \o b
  BY DEF serialize_command
<1>4. Len(p) \in Nat /\ 2 <= len /\ len \in Nat /\ o \in Nat
      /\ o + len <= Len(p)
  BY <1>1, LenProperties DEF FrameStarts, FRAME_LEN
<1> HIDE DEF len, b, c
<1>5. h \in Seq(Nat) /\ Len(h) = 2 /\ h[1] = len /\ h[2] = p[o + 2]
  BY <1>1, <1>2, <1>4 DEF FRAME_LEN
<1> HIDE DEF h, x
<1>6. /\ x \in Seq(Nat) /\ Len(x) = len
      /\ x[1] = len /\ x[2] = p[o + 2]
      /\ \A i \in 1..len - 2 : x[2 + i] = p[o + 2 + i]
  <2>1. /\ x \in Seq(Nat) /\ Len(x) = Len(h) + Len(b)
        /\ \A i \in 1..Len(h) : x[i] = h[i]
        /\ \A i \in 1..Len(b) : x[Len(h) + i] = b[i]
    <3>1. h \in Seq(Nat) /\ b \in Seq(Nat)
      BY <1>2, <1>5
    <3> QED  BY <1>3, <3>1, RowCells
  <2>2. Len(x) = len
    BY <1>1, <1>5, <2>1
  <2>3. x[1] = len /\ x[2] = p[o + 2]
    BY <1>5, <2>1
  <2>4. ASSUME NEW i \in 1..len - 2  PROVE x[2 + i] = p[o + 2 + i]
    <3>1. i \in 1..Len(b)
      BY <1>1
    <3>2. x[Len(h) + i] = b[i] /\ b[i] = p[o + 2 + i]
      BY <1>1, <2>1, <3>1
    <3> QED  BY <1>5, <3>2
  <2> QED  BY <2>1, <2>2, <2>3, <2>4
<1>7. /\ y \in Seq(Nat) /\ Len(y) = len
      /\ \A i \in 1..len : y[i] = p[o + i]
  <2>1. \A i \in o+1..o+len : p[i] \in Nat
    <3> SUFFICES ASSUME NEW i \in o+1..o+len  PROVE p[i] \in Nat
      OBVIOUS
    <3>1. i \in 1..Len(p)
      BY <1>4
    <3> QED  BY <3>1, ElementOfSeq
  <2>2. /\ y \in Seq(Nat)
        /\ Len(y) = IF o + 1 <= o + len THEN (o + len) - (o + 1) + 1 ELSE 0
        /\ \A i \in 1..(o + len) - (o + 1) + 1 : y[i] = p[o + 1 + i - 1]
    <3>1. o + 1 \in Int /\ o + len \in Int
      BY <1>4
    <3> QED  BY <2>1, <3>1, SubSeqProperties
  <2> HIDE DEF y
  <2>3. Len(y) = len
    BY <1>1, <1>4, <2>2
  <2>4. ASSUME NEW i \in 1..len  PROVE y[i] = p[o + i]
    <3>1. i \in 1..(o + len) - (o + 1) + 1 /\ o + 1 + i - 1 = o + i
      BY <1>4
    <3> QED  BY <2>2, <3>1
  <2> QED  BY <2>2, <2>3, <2>4
<1> HIDE DEF y
<1>8. ASSUME NEW i \in 1..len  PROVE x[i] = y[i]
  <2>1. CASE i = 1
    <3>1. y[1] = p[o + 1]
      BY <1>7, <2>1
    <3>2. p[o + 1] = len
      BY DEF len
    <3>3. x[1] = len
      BY <1>6
    <3>4. x[1] = y[1]
      BY <3>1, <3>2, <3>3
    <3> QED  BY <2>1, <3>4
  <2>2. CASE i = 2
    BY <1>6, <1>7, <2>2
  <2>3. CASE i > 2
    <3>0. len \in Nat /\ o \in Nat
      BY <1>1, <1>4
    <3>1. i - 2 \in 1..len - 2 /\ 2 + (i - 2) = i /\ o + 2 + (i - 2) = o + i
      BY <2>3, <3>0
    <3>2. x[i] = p[o + i]
      BY <1>6, <3>1
    <3> QED  BY <1>7, <3>2
  <2> QED  BY <1>1, <2>1, <2>2, <2>3
<1>9. x = y
  BY <1>6, <1>7, <1>8, SeqEqual
<1> QED  BY <1>9 DEF x, y, len, c

\* Framing a list by its head.
LEMMA BytesOfRow ==
    ASSUME NEW c \in Parsed, NEW cs \in Seq(Parsed)
    PROVE  /\ Bytes(<<>>) = <<>>
           /\ Bytes(<<c>> \o cs) = serialize_command(c) \o Bytes(cs)
<1> DEFINE r == <<c>> \o cs
           x == serialize_command(c)
           n == Len(cs)
<1>1. Bytes(<<>>) = <<>>
  <2>1. Raws(<<>>) = <<>>
    BY DEF Raws
  <2>2. <<>> \in Seq(Seq(Nat)) /\ <<>> \in Seq(Nat)
    BY EmptySeq
  <2> QED  BY <2>1, <2>2, FlattenAppend DEF Bytes
<1>2. x \in Seq(Nat)
  BY ParseOne
<1>3. n \in Nat /\ DOMAIN cs = 1..n /\ \A i \in 1..n : cs[i] \in Parsed
  BY LenProperties, ElementOfSeq
<1>4. Raws(cs) \in Seq(Seq(Nat)) /\ Len(Raws(cs)) = n
      /\ \A i \in 1..n : Raws(cs)[i] = serialize_command(cs[i])
  <2> DEFINE u == Raws(cs)
  <2>1. \A i \in 1..n : serialize_command(cs[i]) \in Seq(Nat)
    BY <1>3, ParseOne
  <2>2. u = [i \in 1..n |-> serialize_command(cs[i])]
    BY <1>3 DEF Raws
  <2>3. u \in [1..n -> Seq(Nat)]
    BY <2>1, <2>2
  <2> HIDE DEF u, n
  <2>4. u \in Seq(Seq(Nat)) /\ Len(u) = n
    BY <1>3, <2>3
  <2>5. \A i \in 1..n : u[i] = serialize_command(cs[i])
    BY <2>2
  <2> QED  BY <2>4, <2>5 DEF u
<1>5. r \in Seq(Parsed) /\ Len(r) = 1 + n /\ r[1] = c
      /\ \A i \in 1..n : r[1 + i] = cs[i]
  <2> DEFINE s == <<c>>
  <2>1. s \in Seq(Parsed) /\ Len(s) = 1 /\ s[1] = c
    OBVIOUS
  <2> HIDE DEF s
  <2>2. /\ s \o cs \in Seq(Parsed) /\ Len(s \o cs) = Len(s) + Len(cs)
        /\ \A i \in 1..Len(s) + Len(cs) :
              (s \o cs)[i] = IF i <= Len(s) THEN s[i] ELSE cs[i - Len(s)]
    BY <2>1, ConcatProperties
  <2>3. (s \o cs)[1] = c
    BY <1>3, <2>1, <2>2
  <2>4. ASSUME NEW i \in 1..n  PROVE (s \o cs)[1 + i] = cs[i]
    <3>1. 1 + i \in 1..1 + n /\ ~ (1 + i <= 1) /\ (1 + i) - 1 = i
      BY <1>3
    <3> QED  BY <2>1, <2>2, <3>1
  <2> QED  BY <2>1, <2>2, <2>3, <2>4 DEF s
<1>6. Raws(r) = <<x>> \o Raws(cs)
  <2> DEFINE u == Raws(r)
             v == Raws(cs)
             w == <<x>> \o v
  <2>1. w \in Seq(Seq(Nat)) /\ Len(w) = 1 + n /\ w[1] = x
        /\ \A i \in 1..n : w[1 + i] = v[i]
    <3> DEFINE s == <<x>>
    <3>1. s \in Seq(Seq(Nat)) /\ Len(s) = 1 /\ s[1] = x
      BY <1>2
    <3>0. v \in Seq(Seq(Nat)) /\ Len(v) = n
      BY <1>4
    <3> HIDE DEF s, v, n, x
    <3>2. /\ s \o v \in Seq(Seq(Nat)) /\ Len(s \o v) = Len(s) + Len(v)
          /\ \A i \in 1..Len(s) + Len(v) :
                (s \o v)[i] = IF i <= Len(s) THEN s[i] ELSE v[i - Len(s)]
      BY <3>0, <3>1, ConcatProperties
    <3>3. (s \o v)[1] = x
      BY <1>3, <3>0, <3>1, <3>2
    <3>4. ASSUME NEW i \in 1..n  PROVE (s \o v)[1 + i] = v[i]
      <4>1. 1 + i \in 1..1 + n /\ ~ (1 + i <= 1) /\ (1 + i) - 1 = i
        BY <1>3
      <4> QED  BY <3>0, <3>1, <3>2, <4>1
    <3> QED  BY <3>0, <3>1, <3>2, <3>3, <3>4 DEF s
  <2>2. u = [i \in 1..1 + n |-> serialize_command(r[i])]
    <3>1. DOMAIN r = 1..1 + n
      <4> HIDE DEF r, n
      <4> QED  BY <1>5, LenProperties
    <3> QED  BY <3>1 DEF Raws
  <2> HIDE DEF r, w
  <2>3. ASSUME NEW i \in 1..1 + n  PROVE u[i] = w[i]
    <3>0. u[i] = serialize_command(r[i])
      BY <2>2
    <3>1. CASE i = 1
      BY <1>5, <2>1, <3>0, <3>1
    <3>2. CASE i # 1
      <4>1. i - 1 \in 1..n /\ 1 + (i - 1) = i
        BY <1>3, <3>2
      <4>2. r[i] = cs[i - 1] /\ w[i] = Raws(cs)[i - 1]
        BY <1>5, <2>1, <4>1
      <4> QED  BY <1>4, <3>0, <4>1, <4>2
    <3> QED  BY <3>1, <3>2
  <2> HIDE DEF u, n
  <2>4. w = [i \in 1..1 + n |-> w[i]]
    BY <2>1, LenProperties
  <2>5. u = w
    BY <2>2, <2>3, <2>4
  <2> QED  BY <2>5 DEF u, w
<1>7. FlattenSeq(<<x>>) = x
  <2>1. <<>> \in Seq(Seq(Nat)) /\ Append(<<>>, x) = <<x>>
    BY EmptySeq
  <2>2. FlattenSeq(Append(<<>>, x)) = FlattenSeq(<<>>) \o x /\ FlattenSeq(<<>>) = <<>>
    BY <1>2, <2>1, FlattenAppend
  <2>3. <<>> \o x = x
    BY <1>2, ConcatEmptySeq
  <2> QED  BY <2>1, <2>2, <2>3
<1>8. FlattenSeq(<<x>> \o Raws(cs)) = FlattenSeq(<<x>>) \o FlattenSeq(Raws(cs))
  <2>1. <<x>> \in Seq(Seq(Nat))
    BY <1>2
  <2> QED  BY <1>4, <2>1, FlattenConcat
<1> QED  BY <1>1, <1>6, <1>7, <1>8 DEF Bytes

(***************************************************************************)
(* Nothing is dropped, invented or taken from the wrong place: the frames  *)
(* of the commands that parse_commands returns, put in a row, are the      *)
(* payload.                                                                *)
(***************************************************************************)
THEOREM ParseIsExact ==
    ASSUME NEW p \in Seq(Nat), parse_commands(p).ok
    PROVE  Bytes(parse_commands(p).val) = p
<1> DEFINE n == Len(p)
           F == ParseFrom(p)
           S == {o \in 0..n : F[o].ok => Bytes(F[o].val) = SubSeq(p, o + 1, n)}
<1>1. n \in Nat
  BY LenProperties
<1>2. ASSUME NEW o \in 0..n, \A i \in o+1..n : i \in S
      PROVE  o \in S
  <2> SUFFICES ASSUME F[o].ok
               PROVE  Bytes(F[o].val) = SubSeq(p, o + 1, n)
    OBVIOUS
  <2>1. CASE o = n
    <3>1. F[o] = Ok(<<>>)
      BY <2>1, ParseRound
    <3>2. Bytes(F[o].val) = <<>>
      <4>1. Bytes(<<>>) = <<>>
        <5>1. <<>> \in Seq(Seq(Nat)) /\ <<>> \in Seq(Nat)
          BY EmptySeq
        <5>2. Raws(<<>>) = <<>>
          BY DEF Raws
        <5> QED  BY <5>1, <5>2, FlattenAppend DEF Bytes
      <4> HIDE DEF F
      <4> QED  BY <3>1, <4>1, ResultFacts
    <3>3. SubSeq(p, o + 1, n) = <<>>
      <4>1. o + 1 \in Int /\ n \in Int /\ n < o + 1
        BY <1>1, <2>1
      <4> QED  BY <4>1, SubSeqEmpty
    <3> QED  BY <3>2, <3>3
  <2>2. CASE o # n /\ ~ FrameStarts(p, o)
    <3>1. F[o] = Fail
      BY <2>2, ParseRound
    <3> QED  BY <3>1, ResultFacts
  <2>3. CASE FrameStarts(p, o)
    <3> DEFINE k == o + p[o + 1]
               c == Frame(p, o)
               w == F[k].val
    <3>1. k \in o+2..n /\ c \in Parsed
      BY <2>3, FrameType
    <3>2. F[o] = IF F[k].ok THEN Ok(<<c>> \o w) ELSE Fail
      BY <2>3, ParseRound
    <3>3. serialize_command(c) = SubSeq(p, o + 1, k)
      BY <2>3, FrameBytes
    <3> HIDE DEF k, c, n
    <3>4. k \in o+1..n /\ k \in 0..n
      BY <1>1, <3>1
    <3>5. F[k] \in Results
      BY <3>4, ParseType DEF n
    <3>6. F[k].ok => Bytes(w) = SubSeq(p, k + 1, n)
      BY <1>2, <3>4
    <3> HIDE DEF F
    <3>7. F[k].ok /\ F[o].val = <<c>> \o w
      BY <3>2, ResultFacts
    <3>8. w \in Seq(Parsed)
      BY <3>5, <3>7, ResultFacts
    <3> HIDE DEF w
    <3>9. Bytes(<<c>> \o w) = SubSeq(p, o + 1, k) \o SubSeq(p, k + 1, n)
      BY <3>1, <3>3, <3>6, <3>7, <3>8, BytesOfRow
    <3>10. SubSeq(p, o + 1, k) \o SubSeq(p, k + 1, n) = SubSeq(p, o + 1, n)
      <4>1. o + 1 \in 1..n + 1 /\ k \in (o + 1) - 1..n /\ n \in k..n
        BY <1>1, <3>4
      <4> QED  BY <4>1, ConcatAdjacentSubSeq DEF n
    <3> QED  BY <3>7, <3>9, <3>10
  <2> QED  BY <2>1, <2>2, <2>3
<1>3. \A o \in 0..n : o \in S
  <2> HIDE DEF S
  <2> QED  BY <1>1, <1>2, DownInduction
<1>4. F[0].ok => Bytes(F[0].val) = SubSeq(p, 0 + 1, n)
  BY <1>1, <1>3
<1>5. SubSeq(p, 1, n) = p
  BY SubSeqFull
<1> QED  BY <1>4, <1>5 DEF parse_commands
=============================================================================
