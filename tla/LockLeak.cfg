\* A client times out before its lock is confirmed.
CONSTANTS
    Client = {a, b}
    Store = {s}
    None = None
    LockMode = "SingleOwner"
    MediaEnabled = TRUE
    AudioName = {"SALN"}
    Cap = 1
    Silent = {a, b}
    MaxCmds = 1
    MaxDrops = 0
SPECIFICATION FairSpec
PROPERTY DeadClientUnlocks
