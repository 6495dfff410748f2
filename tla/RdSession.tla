------------------------------ MODULE RdSession ------------------------------
(***************************************************************************)
(* How the controller and the kernel module set a session up: the          *)
(* environment variables as the constructor of TargetedRdProfiler checks   *)
(* and narrows them, CONFIG_SESSION and LOAD_TARGETS as the module checks  *)
(* them.                                                                   *)
(*                                                                         *)
(* An environment is a record of integers as strtol returns them, or       *)
(* Unset.  Capacities are narrowed to FieldBits bits (32 in the code); the *)
(* sample period keeps its 64 bits.                                        *)
(***************************************************************************)
EXTENDS EffectiveAddress

CONSTANTS
    Unset,                           \* the variable is not set
    FieldBits,                       \* bits of a uint32_t
    DEFAULT_WP_CAPACITY,
    DEFAULT_BP_SAMPLE_PERIOD,
    DEFAULT_DWARF_EVENT_CAPACITY,
    RD_WPCTL_MAX_DWARF_STACK_BYTES

ASSUME FieldAssumption ==
    /\ FieldBits \in Nat
    /\ {DEFAULT_WP_CAPACITY, DEFAULT_DWARF_EVENT_CAPACITY, RD_WPCTL_MAX_DWARF_STACK_BYTES}
          \subseteq 1 .. 2^FieldBits - 1
    /\ DEFAULT_BP_SAMPLE_PERIOD \in Nat \ {0}

Refused == [error |-> TRUE]

DEFAULT_DWARF_STACK_BYTES == RD_WPCTL_MAX_DWARF_STACK_BYTES

Narrow(v) == v % 2^FieldBits
Positive(v) == v = Unset \/ v > 0
OrDefault(v, default) == IF v = Unset THEN default ELSE v

\* Mutant: zero is let through.
MutZeroAccepted(env) ==
    /\ \A v \in {env.wp_capacity, env.sample_period, env.event_capacity} : v = Unset \/ v >= 0
    /\ env.mode \in {Unset, "off", "fp", "dwarf"}
    /\ Positive(env.stack_bytes)
    /\ env.stack_bytes = Unset \/ env.stack_bytes <= RD_WPCTL_MAX_DWARF_STACK_BYTES

\* The constructor does not throw.
EnvironmentAccepted(env) ==
    /\ \A v \in {env.wp_capacity, env.sample_period, env.event_capacity} : Positive(v)
    /\ env.mode \in {Unset, "off", "fp", "dwarf"}
    /\ Positive(env.stack_bytes)
    /\ env.stack_bytes = Unset \/ env.stack_bytes <= RD_WPCTL_MAX_DWARF_STACK_BYTES

\* The argument of CONFIG_SESSION.
configure_session(env) ==
    LET mode == OrDefault(env.mode, "off") IN
      [wp_capacity |-> Narrow(OrDefault(env.wp_capacity, DEFAULT_WP_CAPACITY)),
       bp_sample_period |-> OrDefault(env.sample_period, DEFAULT_BP_SAMPLE_PERIOD),
       callchain_mode |-> mode,
       dwarf_stack_bytes |->
         IF mode = "dwarf"
         THEN Narrow(OrDefault(env.stack_bytes, DEFAULT_DWARF_STACK_BYTES)) ELSE 0,
       dwarf_event_capacity |->
         IF mode = "dwarf"
         THEN Narrow(OrDefault(env.event_capacity, DEFAULT_DWARF_EVENT_CAPACITY)) ELSE 0]

NewSession == [configured |-> FALSE, targets_loaded |-> FALSE, cfg |-> <<>>, targets |-> <<>>]

rd_session_config_locked(session, cfg) ==
    IF \/ session.configured \/ session.targets_loaded
       \/ cfg.wp_capacity = 0 \/ cfg.bp_sample_period = 0
       \/ cfg.callchain_mode \notin {"off", "fp", "dwarf"}
       \/ cfg.dwarf_stack_bytes > RD_WPCTL_MAX_DWARF_STACK_BYTES
       \/ cfg.callchain_mode = "dwarf" /\ 0 \in {cfg.dwarf_stack_bytes, cfg.dwarf_event_capacity}
    THEN Refused
    ELSE [session EXCEPT !.cfg = cfg, !.configured = TRUE]

\* One target that is not valid refuses the batch.
rd_load_targets_locked(session, batch) ==
    IF \/ ~session.configured \/ session.targets_loaded
       \/ batch = <<>>
       \/ \E i \in DOMAIN batch : ~rd_validate_target(batch[i])
    THEN Refused
    ELSE [session EXCEPT !.targets = batch, !.targets_loaded = TRUE]

==============================================================================
