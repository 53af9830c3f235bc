\* A client says HELLO again while tick is taking it down.
CONSTANTS
    Client = {a, b}
    Store = {s}
    None = None
    LockMode = "SingleOwner"
    MediaEnabled = TRUE
    AudioName = {"SALN"}
    Cap = 1
    Silent = {a, b}
    MaxCmds = 2
    MaxDrops = 0
SPECIFICATION Spec
PROPERTY LockChangesHandsByRelease
