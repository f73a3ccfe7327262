SPECIFICATION Spec
CONSTANTS
    t1 = t1  t2 = t2  w1 = w1  w2 = w2
    v = v  logmailer = logmailer  opt = opt
    x = x  bad = bad  info = info
    None = None  Empty = Empty  DefaultText = DefaultText
    Threads = {t1, t2}
    OptionNames = {v, logmailer, opt}
    FlagNames = {v}
    Whitelisted = {v}
    Blacklisted = {logmailer}
    Texts = {x, bad}
    Invalid = {bad}
    ExportedKeys = {info}
    Workers = {w1, w2}
    Keys = {1, 2}
    Patterns <- SomePatterns
    Limits = {None, 1}
    Initially <- SomeCounters
    MaxCalls = 3
SYMMETRY ServiceSymmetry
INVARIANTS AnsweredOnce CountersReported SettingsTakeEffect
CHECK_DEADLOCK FALSE
