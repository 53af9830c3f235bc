\* Names: 11 is coalesced by its first byte (PrgI), 12 by four bytes (AuxS), 13
\* by name (any unlisted one), 14 is never cached (Time), 15 is InCm.
CONSTANTS
    Name = {11, 12, 13, 14}
    InCm = 15
    FirstByte = {11}
    FourBytes = {12}
    NotCached = {14}
    Index = {0, 1}
    Datum = {0, 1}
    LongBody = 7
    LEN_BITS = 4
    MAX_PACKET_LEN = 14
    Cell = {0, 1, 2, 3, 4}
    MaxCmds = 3
    MaxCells = 6
SPECIFICATION Spec
INVARIANT DumpReplays
CHECK_DEADLOCK FALSE
