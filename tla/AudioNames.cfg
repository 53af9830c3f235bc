\* Two names for one set of subscribers.
CONSTANTS
    Client = {a, b}
    Store = {s}
    None = None
    LockMode = "SingleOwner"
    MediaEnabled = TRUE
    AudioName = {"SALN", "FASP"}
    Cap = 1
    Silent = {}
    MaxCmds = 2
    MaxDrops = 0
SPECIFICATION Spec
INVARIANT AudioOnlyWhileWanted
