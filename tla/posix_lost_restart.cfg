CONSTANTS
    N = 2
    Clients = {c1}
    Worker = w
    Fds = {f1, f2}
    EventFd = evfd
    CbKinds = {"return"}
    MaxTimers = 1
    Budget <- BudgetRestart
SPECIFICATION Spec
INVARIANT StartedIsActive
