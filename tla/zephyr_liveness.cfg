CONSTANTS
    Max = 3
    Clients = {c1}
    Queue = wq
    Owner = o
    ClientOps = {"start", "uninstall"}
    CbKinds = {"return", "uninstall"}
    DeinitWhen = "quiet"
SPECIFICATION FairSpec
PROPERTIES StartedFires CancelReturns
