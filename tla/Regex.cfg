SPECIFICATION RegexSpec
CONSTANTS
    a1 = a1  a2 = a2  a3 = a3  foo = foo  bar = bar
    rFoo = rFoo  rAll = rAll  f1 = f1  f2 = f2
    NoKey = NoKey
    Addrs = {a1, a2, a3}
    Keys = {foo, bar}
    Regexes = {rFoo, rAll}
    Matches <- MCMatches
    Finders = {f1, f2}
SYMMETRY AddrSymmetry
INVARIANTS Lockstep CacheCorrect ScanSeesLive FindsExactly
