SPECIFICATION Spec
CONSTANTS
    t1 = t1  t2 = t2  t3 = t3  a = a  b = b  None = None
    Threads = {t1, t2}
    Names = {a, b}
    NumShards = 1
    ShardOf <- OneShard
    ReadBy <- BReadsA
    MaxEntries = 2
    MaxReads = 1
    MaxClears = 1
INVARIANTS NoDeadlock
CHECK_DEADLOCK FALSE
