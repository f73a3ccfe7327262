SPECIFICATION Spec
CONSTANTS
    t1 = t1  t2 = t2  t3 = t3  h1 = h1  h2 = h2  None = None
    Threads = {t1, t2, t3}
    Names = {h1}
    MaxCalls = 5
    MaxHists = 2
SYMMETRY HistogramSymmetry
INVARIANTS NullHidden NoValueAside ExportsFollowMap WrapperHasHistogram
CHECK_DEADLOCK FALSE
