-------------------------------- MODULE Wire --------------------------------
(***************************************************************************)
(* The wire format: commands framed inside a payload                       *)
(* (crates/atem-protocol/src/command.rs), commands packed into payloads    *)
(* (reliable.rs) and payloads behind a packet header (packet.rs).          *)
(*                                                                         *)
(* A datagram is a sequence of cells, each a natural number that stands    *)
(* for one field; lengths count cells.  A frame starts with its own length *)
(* and a name; a header has six fields, the first of which shares one word *)
(* between five flag bits and the length.                                  *)
(***************************************************************************)
EXTENDS Integers, Sequences, SequencesExt

CONSTANTS LEN_BITS,          \* width of the length field (11 in the code)
          MAX_PACKET_LEN     \* what a packet is packed up to (1400)

FRAME_LEN  == 2
HEADER_LEN == 6
MAX_LENGTH == 2 ^ LEN_BITS - 1

\* The length field has room for a bare header and for what packets are packed
\* up to.
ASSUME WireAssumption ==
    /\ LEN_BITS \in Nat /\ 2 ^ LEN_BITS \in Nat
    /\ HEADER_LEN <= MAX_LENGTH
    /\ MAX_PACKET_LEN \in Nat /\ MAX_PACKET_LEN <= MAX_LENGTH

Fail == [ok |-> FALSE]
Ok(x) == [ok |-> TRUE, val |-> x]

-----------------------------------------------------------------------------
(* Commands. *)

serialize_command(cmd) == <<FRAME_LEN + Len(cmd.body), cmd.name>> \o cmd.body

\* One round of the loop: the frame at offset o, with what follows it.
FrameAt(p, rest, o) ==
    LET len == p[o + 1]
    IN  IF len < FRAME_LEN \/ o + len > Len(p) \/ ~ rest[o + len].ok
        THEN Fail
        ELSE Ok(<<[name |-> p[o + 2], body |-> SubSeq(p, o + 3, o + len)]>>
                \o rest[o + len].val)

MutParseTrailing(p, rest, o) ==
    IF o + FRAME_LEN > Len(p) THEN Ok(<<>>) ELSE FrameAt(p, rest, o)

\* The loop from offset o on; what is too short for a frame must be nothing.
ParseAt(p, rest, o) ==
    IF o + FRAME_LEN > Len(p)
    THEN IF o = Len(p) THEN Ok(<<>>) ELSE Fail
    ELSE FrameAt(p, rest, o)

\* The loop from every offset.
ParseFrom(p) ==
    LET rest[o \in 0..Len(p)] == ParseAt(p, rest, o) IN rest

\* The commands of a payload; it fails as a whole when one frame is shorter
\* than its own head, runs past the end, or leaves a remainder.
parse_commands(p) == ParseFrom(p)[0]

-----------------------------------------------------------------------------
(* Packing: commands are gathered until the next one would not fit. *)

TooLong(n) == HEADER_LEN + n > MAX_PACKET_LEN

\* The loop over the commands: out is what was queued, current what is being
\* gathered.
PackStart == [out |-> <<>>, current |-> <<>>]

\* One round of it, for one framed command.
PackStep(st, raw) ==
    LET full    == TooLong(Len(st.current) + Len(raw)) /\ st.current # <<>>
        flushed == IF full THEN [out     |-> Append(st.out, st.current),
                                 current |-> <<>>]
                           ELSE st
    IN  IF TooLong(Len(raw))
        THEN [flushed EXCEPT !.out = Append(@, raw)]
        ELSE [flushed EXCEPT !.current = @ \o raw]

\* What is queued when the loop ends in st.
queue_commands_packed(st) ==
    IF st.current = <<>> THEN st.out ELSE Append(st.out, st.current)

-----------------------------------------------------------------------------
(* Packets.  Flags are a number below 32, one bit each. *)

ACK_REQUEST   == 1
IS_RETRANSMIT == 4

contains(flags, bit) == (flags \div bit) % 2 = 1

header_encode(h) ==
    <<(h.flags * 2 ^ LEN_BITS) + (h.length % 2 ^ LEN_BITS), h.session_id, h.ack_id,
      h.retransmit_request, h.unknown, h.packet_id>>

header_decode(buf) ==
    [flags  |-> buf[1] \div 2 ^ LEN_BITS, length |-> buf[1] % 2 ^ LEN_BITS,
     session_id |-> buf[2], ack_id |-> buf[3], retransmit_request |-> buf[4],
     unknown |-> buf[5], packet_id |-> buf[6]]

\* What encode_packet asserts in a debug build.
Fits(payload) == HEADER_LEN + Len(payload) <= MAX_LENGTH

\* In a release build a payload that does not fit the length field is cut.
encode_packet(h, payload) ==
    LET total == Min({HEADER_LEN + Len(payload), MAX_LENGTH})
    IN  header_encode([h EXCEPT !.length = total])
        \o SubSeq(payload, 1, total - HEADER_LEN)

\* Cells after the declared length are ignored.
decode_packet(buf) ==
    IF Len(buf) < HEADER_LEN THEN Fail
    ELSE LET h == header_decode(buf) IN
         IF h.length < HEADER_LEN \/ Len(buf) < h.length
         THEN Fail
         ELSE Ok([header  |-> h,
                  payload |-> SubSeq(buf, HEADER_LEN + 1, h.length)])

MutMarkAdds(bytes) == [bytes EXCEPT ![1] = @ + 2 ^ LEN_BITS * IS_RETRANSMIT]

\* poll_outbound marks the copy it sends again, in the encoded bytes.
mark_retransmit(bytes) ==
    LET flags  == bytes[1] \div 2 ^ LEN_BITS
        marked == IF contains(flags, IS_RETRANSMIT) THEN flags
                                                    ELSE flags + IS_RETRANSMIT
    IN  [bytes EXCEPT ![1] = (marked * 2 ^ LEN_BITS) + (@ % 2 ^ LEN_BITS)]
=============================================================================
