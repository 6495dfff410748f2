CONSTANTS
    wp_capacity = 2
    Targets = {p1}
    OtherPcs = {q1}
    Vas = {a, b, c}
    BadVas = {c}
    callchain_mode = "DWARF"
    Chains = {c1}
    RD_WPCTL_MAX_CONTEXTS = 1
    RD_WPCTL_MAX_PAIR_HISTS = 1
    dwarf_event_capacity = 1
    Idle = Idle
    Width = 3
    MaxInstr = 4
    MaxIoctls = 3
SPECIFICATION Spec
INVARIANTS SeedsAccounted FirstReuse WatchesMatch OutputsAgree EventsMatch
SYMMETRY VaSymmetry
