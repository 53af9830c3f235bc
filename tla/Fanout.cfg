CONSTANTS
    Client = {a}
    Key = {p, q}
    Value = {v0, v1}
    v0 = v0
    Unset = Unset
    None = None
    EventCap = 2
    MaxChanges = 2
    MaxDrops = 1
SPECIFICATION MCFairSpec
INVARIANTS TypeOK NothingMissed
PROPERTIES Converges
