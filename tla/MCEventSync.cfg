CONSTANTS
    Senders = {s1, s2}
    Waiters = {w1, w2}
    Incs = {1, 2}
SPECIFICATION FairSpec
INVARIANTS TypeOK MutualExclusion
PROPERTIES EventSpec NoLostEvent
\* A waiter for which no event was ever sent sleeps for good.
CHECK_DEADLOCK FALSE
