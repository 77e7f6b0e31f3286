CONSTANTS
    Max = 2
    Wrap = 32
    Delays = {0, 2}
    Steps = {1, 2}
    MaxNested = 1
    Budget <- BudgetManual
SPECIFICATION Spec
INVARIANTS TypeOK SeqOrders NothingDueLeft
PROPERTIES ImplementsVirtualClock ImplementsTimer
