CONSTANTS
    Threads = {t1, t2}
    Objects <- AllObjects
    MaxTimeout = 4
    Timeouts = {0, 1, 3, 4}
    Jumps <- SetBack
    MaxSets = 2
    Limit = 2
SPECIFICATION FairSpec
INVARIANTS TypeOK NotEarly StatusAsAsked
PROPERTIES TimedReturns
CHECK_DEADLOCK FALSE
