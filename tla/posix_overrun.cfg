CONSTANTS
    N = 2
    Clients = {c1}
    Worker = w
    Fds = {f1, f2}
    EventFd = evfd
    CbKinds = {"return"}
    MaxTimers = 2
    Budget <- BudgetArmAll
SPECIFICATION Spec
INVARIANT PollSetFits
