SPECIFICATION Spec
CONSTANTS
    t1 = t1  t2 = t2  c1 = c1  c2 = c2  i5 = i5  s5 = s5  k5 = k5  sum1 = sum1
    None = None  Worker = Worker
    Threads = {t1, t2}
    Keys = {k5}
    Types = {sum1}
    FixedKey = k5
    MaxObjects = 3
    Subkeys = {i5, s5}
    Format <- SameKey
    MaxCalls = 4
    Callers = {c1, c2}
    Intervals = {3}
    DefaultInterval = 1
SYMMETRY ThreadSymmetry
INVARIANTS ValuesConserved ZeroForgets KeysPreparedOnce LastFoundIsLive WorkerFollowsInterval NoDeadlock
CHECK_DEADLOCK FALSE
