\* Clients that keep talking contend for a store.
CONSTANTS
    Client = {a, b}
    Store = {s}
    None = None
    LockMode = "SingleOwner"
    MediaEnabled = TRUE
    AudioName = {"SALN"}
    Cap = 1
    Silent = {}
    MaxCmds = 3
    MaxDrops = 0
SPECIFICATION Spec
PROPERTY LockChangesHandsByRelease
