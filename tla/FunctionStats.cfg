SPECIFICATION Spec
CONSTANTS
    t1 = t1  t2 = t2  f1 = f1  f2 = f2  r1 = r1  r2 = r2  r3 = r3
    None = None  Scheduler = Scheduler  Owner = Owner
    Threads = {t1, t2}
    Functions = {f1, f2}
    Requests = {r1, r2, r3}
    FnOf <- TwoFunctions
    Outcomes <- Thrown
    MaxThreads = 2
    DesiredSamples = 1
    Scale = 2
SYMMETRY HandlerSymmetry
INVARIANTS CallsConserved StatsOutliveUse NoDeadlock
CHECK_DEADLOCK FALSE
