SPECIFICATION Spec
CONSTANTS
    t1 = t1  t2 = t2  t3 = t3  n1 = n1
    avg = avg  sum = sum  p50 = p50  p99 = p99
    None = None
    Threads = {t1, t2, t3}
    Names = {n1}
    Types = {avg, sum}
    DefaultTypes = {avg}
    Defs = {p50, p99}
    MaxCalls = 4
    MaxResets = 1
SYMMETRY ServiceSymmetry
INVARIANTS CountersShowUpdates QuantilesShared IncrementsKept NoDeadlock
CHECK_DEADLOCK FALSE
