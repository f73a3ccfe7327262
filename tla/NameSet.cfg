SPECIFICATION NameSetSpec
CONSTANTS
    Users = {t1, t2, t3}
    StatNames = {n1, n2}
    Addrs = {a1, a2, a3, a4}
    Null = Null
SYMMETRY NameSetSymmetry
INVARIANTS KeysReadable Interned EntriesInUse
