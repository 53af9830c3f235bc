\* Ids wrap at 6; a datagram outlives up to three newer packets.
CONSTANTS
    MAX_PACKET_ID = 6
    ACK_WINDOW = 3
    max_in_flight = 2
    Lifetime = 3
    Payload = {p, q}
    Ping = Ping
    Lossy <- AllLossy
    Duplicates = TRUE
    MaxSent = 6
SPECIFICATION Spec
INVARIANTS TypeOK AckedWereDelivered WindowIsUnackedTail
PROPERTY ImplementsFifo
CHECK_DEADLOCK FALSE
