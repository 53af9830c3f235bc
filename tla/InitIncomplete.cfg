\* The first acknowledgement of a client arrives after the upstream session of
\* its HELLO was lost.
CONSTANTS
    Client = {a}
    Key = {p}
    Value = {v0, v1}
    v0 = v0
    Unset = Unset
    None = None
    EventCap = 2
    MaxChanges = 0
    MaxDrops = 1
SPECIFICATION MCSpec
INVARIANT InitIsComplete
