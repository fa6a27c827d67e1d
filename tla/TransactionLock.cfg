\* Three threads of two processes, crashes and failing calls.
SPECIFICATION FairSpec
CONSTANTS
    w1 = w1
    w2 = w2
    t1 = t1
    t2 = t2
    t3 = t3
    None = None
    Instance = {w1, w2}
    Thread = {t1, t2, t3}
    Home <- MCHome
    MaxCalls = 4
    MaxCrashes = 2
    MaxFaults = 1
INVARIANT LockSound
PROPERTIES CallsServed
CHECK_DEADLOCK FALSE
