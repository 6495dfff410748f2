CONSTANTS
    wp_capacity = 2
    Targets = {p1}
    OtherPcs = {q1}
    Vas = {a}
    BadVas = {}
    callchain_mode = "OFF"
    Chains = {c1}
    RD_WPCTL_MAX_CONTEXTS = 1
    RD_WPCTL_MAX_PAIR_HISTS = 1
    dwarf_event_capacity = 0
    Idle = Idle
    Width = 4
    MaxInstr = 4
    MaxIoctls = 3
SPECIFICATION Spec
INVARIANT EverySlotDraws
