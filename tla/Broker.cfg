\* Every order of events; a may fall silent, b keeps talking; two lost sessions.
CONSTANTS
    Client = {a, b}
    Store = {s}
    None = None
    LockMode = "SingleOwner"
    MediaEnabled = TRUE
    AudioName = {"SALN"}
    Cap = 1
    Silent = {a}
    MaxCmds = 2
    MaxDrops = 2
SPECIFICATION FairSpec
INVARIANTS TypeOK NoOrphanLock NoOrphanLane OwnerHoldsLock BrokerAgrees ReleaseIsUnderWay
PROPERTIES ImplementsLockService GoneClientUnlocks HandlersReturn
