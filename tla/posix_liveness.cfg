CONSTANTS
    N = 3
    Clients = {c1}
    Worker = w
    Fds = {f1, f2}
    EventFd = evfd
    CbKinds = {"return"}
    MaxTimers = 2
    Budget <- BudgetLiveness
SPECIFICATION FairSpec
PROPERTIES StartedFires DeinitTerminates UninstallReturns ZombieReclaimedOnTrigger
