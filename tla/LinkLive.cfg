\* Data is lost and resent; every acknowledgement arrives.
CONSTANTS
    MAX_PACKET_ID = 6
    ACK_WINDOW = 3
    max_in_flight = 2
    Lifetime = 3
    Payload = {p}
    Ping = Ping
    Lossy <- DataLossy
    Duplicates = FALSE
    MaxSent = 4
SPECIFICATION FairSpec
PROPERTIES EverythingDelivered EveryPacketAcknowledged
CHECK_DEADLOCK FALSE
