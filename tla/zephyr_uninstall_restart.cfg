CONSTANTS
    Max = 1
    Clients = {c1}
    Queue = wq
    Owner = o
    ClientOps = {"start", "uninstall"}
    CbKinds = {"restart"}
    DeinitWhen = "never"
SPECIFICATION Spec
INVARIANTS UninstallQuiesces
