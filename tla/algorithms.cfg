CONSTANTS
    Width = 8
    AddressBits = 6
    Unset = Unset
    FieldBits = 3
    DEFAULT_WP_CAPACITY = 4
    DEFAULT_BP_SAMPLE_PERIOD = 1024
    DEFAULT_DWARF_EVENT_CAPACITY = 6
    RD_WPCTL_MAX_DWARF_STACK_BYTES = 5
    RD_WPCTL_MAX_CALLCHAIN_DEPTH = 3
    Chunk = 48
    UnwindDepth = 3
    Unit = 300
SPECIFICATION Spec
INVARIANT LabelledRight
INVARIANT AddressExact
INVARIANT ConfiguredAsAsked
INVARIANT FpPathExact
INVARIANT UnwoundRight
INVARIANT RightEntry
PROPERTY WalkEnds
