SPECIFICATION Spec
CONSTANTS
    Threads = {t1, t2}
    Keys = {k1, k2, k3}
    Payloads = {a, b}
    Capacity = 2
    TTL = 1
    MaxTime = 2
    Miss = Miss
INVARIANTS TypeOK Overshoot
PROPERTIES LiveEntriesLeaveOnlyWhenFull ExpiredGoFirst CacheSpec
CHECK_DEADLOCK FALSE
