CONSTANTS
    Max = 2
    Clients = {c1, c2}
    Queue = wq
    Owner = o
    ClientOps = {"start", "stop", "uninstall"}
    CbKinds = {"null", "return", "start", "stop", "uninstall"}
    DeinitWhen = "quiet"
SYMMETRY ClientSymmetry
SPECIFICATION Spec
INVARIANTS TypeOK SlotsAccounted UninstallQuiesces ActiveWillExpire RemovedOnce
PROPERTIES NoEarlyFire ImplementsTimer
