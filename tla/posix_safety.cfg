CONSTANTS
    N = 3
    Clients = {c1, c2}
    Worker = w
    Fds = {f1, f2}
    EventFd = evfd
    CbKinds = {"return", "restart", "uninstall"}
    MaxTimers = 2
    Budget <- BudgetSafety
VIEW SafetyView
SYMMETRY FdSymmetry
SPECIFICATION Spec
INVARIANTS TypeOK FdsAccounted PollSetOwned TriggerOpen UninstallQuiesces
PROPERTIES NoEarlyFire ImplementsTimer
