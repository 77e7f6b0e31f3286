CONSTANTS
    Frags = {f1, f2, f3}
    Handles = {h1, h2}
    Null = null
    Cap = 2
    PutSizes = {1, 3}
    PutsInViews = TRUE
    Budget <- BudgetPbuf
VIEW HeapView
SYMMETRY Symmetry
SPECIFICATION Spec
PROPERTY ViewsReadOnly
CHECK_DEADLOCK FALSE
