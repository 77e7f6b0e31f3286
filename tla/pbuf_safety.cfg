CONSTANTS
    Frags = {f1, f2, f3}
    Handles = {h1, h2, h3}
    Null = null
    Cap = 2
    PutSizes = {1, 3}
    PutsInViews = FALSE
    Budget <- BudgetPbuf
VIEW HeapView
SYMMETRY Symmetry
SPECIFICATION Spec
INVARIANTS TypeOK RefCounts InBounds InsertAgrees DetachAgrees RemoveAgrees
PROPERTIES ImplementsPacket PutAppends
CHECK_DEADLOCK FALSE
