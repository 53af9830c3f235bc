------------------------------ MODULE Reliable ------------------------------
(***************************************************************************)
(* The arithmetic and the queue operations of a ReliableEndpoint           *)
(* (crates/atem-protocol/src/reliable.rs): 15-bit packet ids that wrap,    *)
(* the 256-wide acknowledgement window and the in-flight window of 32.     *)
(* The three numbers are constants, so that TLC wraps them quickly and the *)
(* proofs hold for every choice the assumption allows.                     *)
(***************************************************************************)
EXTENDS Integers, Sequences

CONSTANTS
    MAX_PACKET_ID,   \* size of the packet id space, 1 << 15 in the code
    ACK_WINDOW,      \* how far back an ack id reaches, 256 in the code
    max_in_flight    \* ReliableConfig::max_in_flight, 32 by default

ASSUME ReliableAssumption ==
    /\ MAX_PACKET_ID \in Nat
    /\ ACK_WINDOW \in Nat
    /\ max_in_flight \in Nat
    /\ 1 <= max_in_flight
    /\ max_in_flight <= ACK_WINDOW
    /\ ACK_WINDOW < MAX_PACKET_ID

PacketId == 0 .. MAX_PACKET_ID - 1

\* The id that packet number k of a direction is sent under.
WireId(k) == k % MAX_PACKET_ID

\* Option<u16>::None of ack.highest_recv: nothing to acknowledge yet.
NoId == -1

-----------------------------------------------------------------------------
MutNextNoWrap(current) == current + 1

next_packet_id(current) == (current + 1) % MAX_PACKET_ID

\* An ack id compared without regard to the wrap.
MutCoverNoWrap(ack_id, packet_id) == ack_id >= packet_id

\* The equal case forgotten.
MutCoverExclusive(ack_id, packet_id) ==
    (ack_id - packet_id + MAX_PACKET_ID) % MAX_PACKET_ID \in 1 .. ACK_WINDOW - 1

\* ack_id covers packet_id and the ACK_WINDOW - 1 ids before itself, modulo
\* the id space; the equal case of the code is diff = 0.
is_ack_covering(ack_id, packet_id) ==
    \/ ack_id = packet_id
    \/ (ack_id - packet_id + MAX_PACKET_ID) % MAX_PACKET_ID < ACK_WINDOW

\* How many entries on_ack_id pops: the longest covered prefix of the window.
CoveredPrefix(window, ack_id) ==
    CHOOSE k \in 0 .. Len(window) :
        /\ \A i \in 1 .. k : is_ack_covering(ack_id, window[i].packet_id)
        /\ k < Len(window) => ~ is_ack_covering(ack_id, window[k + 1].packet_id)

\* The window after an acknowledgement of ack_id.
on_ack_id(window, ack_id) ==
    SubSeq(window, CoveredPrefix(window, ack_id) + 1, Len(window))

\* How many queued payloads fit into the window (the while loop of
\* poll_outbound), and the in-flight entries they become.
Fits(window, queue) ==
    IF Len(queue) <= max_in_flight - Len(window)
    THEN Len(queue) ELSE max_in_flight - Len(window)

Numbered(next_send_id, queue, k) ==
    [i \in 1 .. k |-> [packet_id |-> (next_send_id + i - 1) % MAX_PACKET_ID,
                       payload   |-> queue[i]]]
=============================================================================
