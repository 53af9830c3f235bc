\* Acknowledgements are lost as well.
CONSTANTS
    MAX_PACKET_ID = 6
    ACK_WINDOW = 3
    max_in_flight = 2
    Lifetime = 3
    Payload = {p}
    Ping = Ping
    Lossy <- AllLossy
    Duplicates = FALSE
    MaxSent = 3
SPECIFICATION FairSpec
PROPERTY EveryPacketAcknowledged
CHECK_DEADLOCK FALSE
