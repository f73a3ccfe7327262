SPECIFICATION Spec
CONSTANTS
    t1 = t1  t2 = t2  t3 = t3
    s1 = s1  s2 = s2 s3 = s3
    n1 = n1  n2 = n2
    u1 = u1  u2 = u2
    None = None
    Threads = {t1, t2, t3}
    Stats = {s1, s2, s3}
    Names = {n1, n2}
    Updates = {u1, u2}
    MaxCalls = 5
SYMMETRY RegistrySymmetry
INVARIANTS RegistryChecks ReachableAreLive UpdatesConserved LinkOutlivesUse
CHECK_DEADLOCK FALSE
