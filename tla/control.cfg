SPECIFICATION Spec
CONSTANTS
    Main = main
    Tids = {main, t1, t2}
    Cpus = {c1, c2}
    MaxCreates = 1
    MaxCalls = 3
    NoBinding = NoBinding
SYMMETRY Symmetry
INVARIANTS BindingsAgree EventsFollowWindow LabelMatchesData
PROPERTY WindowSemantics
