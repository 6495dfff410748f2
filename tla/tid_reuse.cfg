SPECIFICATION Spec
CONSTANTS
    Main = main
    Tids = {main, t1}
    Cpus = {c1, c2}
    MaxCreates = 2
    MaxCalls = 0
    NoBinding = NoBinding
INVARIANT AllWritten
