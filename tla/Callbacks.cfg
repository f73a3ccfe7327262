SPECIFICATION Spec
CONSTANTS
    t1 = t1  t2 = t2  t3 = t3  a = a  b = b  None = None
    Threads = {t1, t2, t3}
    Names = {a, b}
    NumShards = 2
    ShardOf <- OwnShard
    ReadBy <- BReadsA
    MaxEntries = 3
    MaxReads = 2
    MaxClears = 1
SYMMETRY ThreadSymmetry
INVARIANTS NoCallAfterRemoval SteadyNamesRead NoDeadlock
PROPERTIES KeptUnlessOverwritten
CHECK_DEADLOCK FALSE
