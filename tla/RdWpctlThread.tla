---------------------------- MODULE RdWpctlThread ----------------------------
(***************************************************************************)
(* The data plane of the kernel module rd_wpctl for one registered thread: *)
(* the handlers of its execute breakpoints (rd_handle_bp_hit) and of its   *)
(* watchpoints (rd_handle_wp_hit), which run on the profiled thread, and   *)
(* the window ioctls START, STOP, RESET and UNREGISTER, which another      *)
(* thread of the process issues at any moment.                             *)
(*                                                                         *)
(* Both sides change the watchpoint slots and the results under            *)
(* thread->lock, but a handler takes that lock two to four times, and      *)
(* between them it reads session->running, rewrites a hardware watchpoint  *)
(* or copies a stack without it: every such section is a step here.  The   *)
(* ioctl may run several of its own steps in between, because              *)
(* rd_read_mem_access sleeps when an ioctl holds the perf context.         *)
(*                                                                         *)
(* That the context exists while a handler runs is the subject of          *)
(* RdLiveThread; here it shows as the guard of rd_detach_count.            *)
(***************************************************************************)
EXTENDS Integers, FiniteSets, FiniteSetsExt

CONSTANTS
    wp_capacity,              \* watchpoint slots of the thread
    Targets,                  \* hot PCs (pc_offset and target_index in one)
    OtherPcs,                 \* PCs of further loads and stores
    Vas,                      \* virtual addresses that the program accesses
    BadVas,                   \* those the debug hardware cannot watch
    callchain_mode,           \* "OFF", "FP" or "DWARF"
    Chains,                   \* call chains that an FP unwind may return
    RD_WPCTL_MAX_CONTEXTS,
    RD_WPCTL_MAX_PAIR_HISTS,
    dwarf_event_capacity,
    Idle,                     \* the scratch address, a null pointer, a free entry
    Width,                    \* word width of the histogram buckets
    MaxInstr,                 \* bound: loads and stores the program executes
    MaxIoctls                 \* bound: window ioctls issued

ASSUME ConstantsAssumption ==
    /\ wp_capacity \in Nat \ {0}
    /\ BadVas \subseteq Vas
    /\ Idle \notin Vas \cup Targets \cup OtherPcs \cup Chains
    /\ callchain_mode \in {"OFF", "FP", "DWARF"}
    /\ RD_WPCTL_MAX_CONTEXTS \in Nat /\ RD_WPCTL_MAX_PAIR_HISTS \in Nat
    /\ dwarf_event_capacity \in Nat
    /\ MaxInstr \in Nat /\ MaxIoctls \in Nat

B == INSTANCE RdBuckets

Slots == 0 .. wp_capacity - 1
ContextIds == 1 .. RD_WPCTL_MAX_CONTEXTS
PairIds == 1 .. RD_WPCTL_MAX_PAIR_HISTS
EventIds == 1 .. dwarf_event_capacity

VARIABLES
    running,       \* session->running
    active,        \* thread->active
    ctl,           \* step of the ioctl in progress, or "none"
    slot,          \* the wp_* arrays, one record per slot
    hw,            \* the perf events wp_events[]: address, attr.disabled, enabled
    bp_on,         \* the breakpoints bp_events[] are enabled
    mem_on,        \* mem_event is enabled
    mem,           \* the value of mem_event
    count,         \* candidate_samples, reservoir_*, hits, evictions, dropped
    table,         \* log2_hist, pair_hist, contexts, and their counters
    dwarf,         \* the wp_*_dwarf_snapshots, dwarf_events, and its counters
    at,            \* where the profiled thread is: user code or a handler step
    loc,           \* locals of the handler, and the instruction being executed
    todo,          \* slots whose watchpoint the current access has not met yet
    instr, ioctls, \* how often the bounded actions have happened
    stale,         \* results counted after a RESET erased the seed they come from
    raced,         \* a handler was in flight when the last RESET rewrote the
                   \* slots, and when it cleared the results
    cut,           \* a window closed since the current instruction began
    seen           \* what the program did since a slot was armed

windowVars == <<running, active, ctl, ioctls>>
perfVars == <<hw, bp_on, mem_on>>
resultVars == <<count, table, dwarf>>
threadVars == <<at, loc, todo, instr>>
ghostVars == <<stale, raced, cut, seen>>
vars == <<windowVars, perfVars, slot, mem, resultVars, threadVars, ghostVars>>

HandlerSteps == {"bp", "bp_snap", "bp_flag", "bp_modify", "wp_snap", "wp_record",
                 "wp_fill", "wp_publish", "wp_clear", "idle_flag", "idle_modify"}

\* The thread is between rd_thread_live_get_rcu and rd_thread_live_put.
InHandler == at \in HandlerSteps

\* What rd_clear_slot_metadata leaves.  wp_generation and wp_access_size are
\* written and never read, and left out.
IdleSlot == [state |-> "IDLE", seed_va |-> Idle, seed_access |-> 0,
             target |-> Idle, context |-> 0, skip_first_hit |-> FALSE,
             samples |-> 1]

rd_clear_slot_metadata(i) ==
    /\ slot' = [slot EXCEPT ![i] = IdleSlot]
    /\ dwarf' = [dwarf EXCEPT !.seed[i] = Idle]

Armed == {i \in Slots : slot[i].state = "ARMED"}

\* The element that a scan of an array from the front finds, as a set.
First(S) == {i \in S : \A j \in S : i <= j}

NoLocals == [pc |-> Idle, va |-> Idle, slot |-> 0, target |-> Idle,
             seed_access |-> 0, context |-> 0, index |-> 0, enable |-> FALSE]

Unseen == [touched |-> 0, between |-> 0, whole |-> FALSE]

FreeEvent == [used |-> FALSE, target |-> Idle, reuse_pc |-> Idle,
              seed_snap |-> Idle, reuse_snap |-> Idle]

NoCount == [candidate_samples |-> 0, reservoir_seen |-> 0,
            reservoir_accepted |-> 0, reservoir_rejected |-> 0,
            hits |-> 0, evictions |-> 0, dropped |-> 0]

EmptyTable ==
    [log2_hist |-> [t \in Targets |-> [b \in B!Buckets |-> 0]],
     pair_hist |-> [i \in PairIds |-> Idle], pair_hist_used |-> 0,
     pair_hist_dropped |-> 0,
     contexts |-> [i \in ContextIds |-> Idle], context_used |-> 0,
     context_dropped |-> 0]

EmptyDwarf ==
    [seed |-> [i \in Slots |-> Idle], reuse |-> [i \in Slots |-> Idle],
     events |-> [i \in EventIds |-> FreeEvent], used |-> 0, dropped |-> 0]

\* rd_thread_setup_events and the end of rd_register_thread_locked, before a
\* window was opened or inside of one.
Init ==
    /\ running \in BOOLEAN
    /\ active = TRUE
    /\ ctl = "none"
    /\ slot = [i \in Slots |-> IdleSlot]
    /\ hw = [i \in Slots |-> [addr |-> Idle, disabled |-> TRUE, on |-> running]]
    /\ bp_on = running /\ mem_on = running
    /\ mem = 0
    /\ count = NoCount /\ table = EmptyTable /\ dwarf = EmptyDwarf
    /\ at = "user" /\ loc = NoLocals /\ todo = {}
    /\ instr = 0 /\ ioctls = 0
    /\ stale = 0 /\ raced = [slots |-> FALSE, results |-> FALSE] /\ cut = FALSE
    /\ seen = [i \in Slots |-> Unseen]

-----------------------------------------------------------------------------
(***************************************************************************)
(* The window ioctls.  session->lock admits one at a time.                 *)
(***************************************************************************)

Ioctl(step) ==
    /\ ctl = "none"
    /\ ioctls < MaxIoctls
    /\ ioctls' = ioctls + 1
    /\ ctl' = step

NextStep(from, to) == ctl = from /\ ctl' = to /\ UNCHANGED <<running, active, ioctls>>

\* From here on a slot that is armed does not see every access any more.
Interrupt ==
    /\ cut' = TRUE
    /\ seen' = [i \in Slots |-> [seen[i] EXCEPT !.whole = FALSE]]

\* START_WINDOW sets the flag first and then enables the events, the counter
\* before the breakpoints and these before the watchpoints.
rd_start_window ==
    /\ Ioctl(IF active THEN "start_mem" ELSE "none")
    /\ running' = TRUE
    /\ UNCHANGED <<active, perfVars, slot, mem, resultVars, threadVars, ghostVars>>

rd_enable_mem ==
    /\ NextStep("start_mem", "start_bp")
    /\ mem_on' = TRUE
    /\ UNCHANGED <<hw, bp_on, slot, mem, resultVars, threadVars, ghostVars>>

rd_enable_bps ==
    /\ NextStep("start_bp", "start_wp")
    /\ bp_on' = TRUE
    /\ UNCHANGED <<hw, mem_on, slot, mem, resultVars, threadVars, ghostVars>>

rd_enable_wps ==
    /\ NextStep("start_wp", "none")
    /\ hw' = [i \in Slots |-> [hw[i] EXCEPT !.on = TRUE]]
    /\ UNCHANGED <<bp_on, mem_on, slot, mem, resultVars, threadVars, ghostVars>>

\* STOP_WINDOW: the flag, then the watchpoints, the breakpoints, the counter.
rd_stop_window ==
    /\ Ioctl(IF active THEN "stop_wp" ELSE "none")
    /\ running' = FALSE
    /\ Interrupt
    /\ UNCHANGED <<active, perfVars, slot, mem, resultVars, threadVars, stale, raced>>

rd_disable_wps ==
    /\ NextStep("stop_wp", "stop_bp")
    /\ hw' = [i \in Slots |-> [hw[i] EXCEPT !.on = FALSE]]
    /\ UNCHANGED <<bp_on, mem_on, slot, mem, resultVars, threadVars, ghostVars>>

rd_disable_bps ==
    /\ NextStep("stop_bp", "stop_mem")
    /\ bp_on' = FALSE
    /\ UNCHANGED <<hw, mem_on, slot, mem, resultVars, threadVars, ghostVars>>

rd_disable_mem ==
    /\ NextStep("stop_mem", "none")
    /\ mem_on' = FALSE
    /\ UNCHANGED <<hw, bp_on, slot, mem, resultVars, threadVars, ghostVars>>

\* RESET_SESSION outside a window; a detached thread has no slots to rewrite.
rd_reset_session_locked ==
    /\ ~running
    /\ Ioctl(IF active THEN "reset_hw" ELSE "reset_zero")
    /\ UNCHANGED <<running, active, perfVars, slot, mem, resultVars, threadVars,
                   ghostVars>>

rd_reset_slots ==
    /\ NextStep("reset_hw", "reset_zero")
    /\ hw' = [i \in Slots |-> [addr |-> Idle, disabled |-> TRUE, on |-> FALSE]]
    /\ raced' = [raced EXCEPT !.slots = InHandler]
    /\ UNCHANGED <<bp_on, mem_on, slot, mem, resultVars, threadVars, stale, cut, seen>>

\* The section of rd_reset_thread_locked under thread->lock.
rd_reset_thread_locked ==
    /\ NextStep("reset_zero", "none")
    /\ count' = NoCount /\ table' = EmptyTable /\ dwarf' = EmptyDwarf
    /\ slot' = [i \in Slots |-> IdleSlot]
    /\ stale' = 0
    /\ raced' = [raced EXCEPT !.results = InHandler]
    /\ seen' = [i \in Slots |-> Unseen]
    /\ UNCHANGED <<perfVars, mem, threadVars, cut>>

\* UNREGISTER_THREAD: rd_thread_detach_live marks the context ...
rd_detach_mark ==
    /\ active
    /\ Ioctl("detach")
    /\ active' = FALSE
    /\ Interrupt
    /\ UNCHANGED <<running, perfVars, slot, mem, resultVars, threadVars, stale, raced>>

\* Mutant: the seeds that are still pending are forgotten.
MutDetachForgetsPending ==
    /\ ~InHandler
    /\ NextStep("detach", "none")
    /\ slot' = [i \in Slots |-> IdleSlot]
    /\ hw' = [i \in Slots |-> [addr |-> Idle, disabled |-> TRUE, on |-> FALSE]]
    /\ bp_on' = FALSE /\ mem_on' = FALSE
    /\ UNCHANGED <<mem, resultVars, threadVars, ghostVars>>

\* ... waits for the handler, counts the pending seeds and frees the events.
rd_detach_count ==
    /\ ~InHandler
    /\ NextStep("detach", "none")
    /\ count' = [count EXCEPT !.dropped = @ + Cardinality(Armed)]
    /\ slot' = [i \in Slots |-> IdleSlot]
    /\ hw' = [i \in Slots |-> [addr |-> Idle, disabled |-> TRUE, on |-> FALSE]]
    /\ bp_on' = FALSE /\ mem_on' = FALSE
    /\ UNCHANGED <<mem, table, dwarf, threadVars, ghostVars>>

-----------------------------------------------------------------------------
(***************************************************************************)
(* The profiled thread: one load or store at a time.  A breakpoint traps   *)
(* before the instruction, a watchpoint before its access.                 *)
(***************************************************************************)

Begin(p, va, step) ==
    /\ at = "user"
    /\ instr < MaxInstr
    /\ instr' = instr + 1
    /\ at' = step
    /\ loc' = [NoLocals EXCEPT !.pc = p, !.va = va]
    /\ todo' = Slots
    /\ cut' = FALSE
    /\ UNCHANGED <<windowVars, perfVars, slot, mem, resultVars, stale, raced, seen>>

\* No breakpoint, or one that did not exhaust its sample_period.
Execute(p, va) == Begin(p, va, "mem")

\* __perf_event_overflow; rd_handle_bp_hit passes its first check.
rd_perf_event_overflow_pre(p, va) ==
    /\ p \in Targets
    /\ bp_on /\ active /\ running
    /\ Begin(p, va, "bp")

\* No watchpoint is left that this access would hit: it happens.
Retire ==
    /\ at = "mem"
    /\ \A i \in todo : ~(hw[i].on /\ hw[i].addr = loc.va)
    /\ at' = "user" /\ loc' = NoLocals /\ todo' = {}
    /\ mem' = IF mem_on THEN mem + 1 ELSE mem
    /\ seen' = [i \in Slots |->
                  IF i \notin Armed THEN seen[i]
                  ELSE [seen[i] EXCEPT
                          !.touched = IF slot[i].seed_va = loc.va THEN @ + 1 ELSE @,
                          !.between = IF seen[i].touched = 0 THEN @ ELSE @ + 1]]
    /\ UNCHANGED <<windowVars, perfVars, slot, resultVars, instr, stale, raced, cut>>

-----------------------------------------------------------------------------
(***************************************************************************)
(* rd_modify_slot reads running and active, then calls                     *)
(* modify_user_hw_breakpoint: two steps.  A refused address leaves the old *)
(* one in place, enabled again unless its attr.disabled is set.            *)
(***************************************************************************)

rd_modify_flag(from, to) ==
    /\ at = from
    /\ at' = to
    /\ loc' = [loc EXCEPT !.enable = running /\ active]
    /\ UNCHANGED <<windowVars, perfVars, slot, mem, resultVars, todo, instr, ghostVars>>

modify_user_hw_breakpoint(i, addr) ==
    hw' = [hw EXCEPT ![i] =
             IF addr \in BadVas THEN [@ EXCEPT !.on = ~hw[i].disabled]
             ELSE [addr |-> addr, disabled |-> ~loc.enable, on |-> loc.enable]]

\* Mutant: the slot goes on watching the seed address.
MutKeepsWatching ==
    /\ at = "idle_modify"
    /\ at' = "mem"
    /\ loc' = [NoLocals EXCEPT !.pc = loc.pc, !.va = loc.va]
    /\ UNCHANGED <<windowVars, perfVars, slot, mem, resultVars, todo, instr, ghostVars>>

\* The last call of both handlers: the slot watches its scratch address again.
rd_modify_slot_idle ==
    /\ at = "idle_modify"
    /\ at' = "mem"
    /\ modify_user_hw_breakpoint(loc.slot, Idle)
    /\ loc' = [NoLocals EXCEPT !.pc = loc.pc, !.va = loc.va]
    /\ UNCHANGED <<windowVars, bp_on, mem_on, slot, mem, resultVars, todo, instr,
                   ghostVars>>

-----------------------------------------------------------------------------
(***************************************************************************)
(* rd_handle_bp_hit.                                                       *)
(***************************************************************************)

\* The slots whose draw rand % samples can be the first to say "replace": it
\* always does for samples = 1.  wp_capacity stands for "no slot".
Replaceable ==
    {i \in Slots : \A j \in Slots : j < i => slot[j].samples > 1}
    \cup {i \in {wp_capacity} : \A j \in Slots : slot[j].samples > 1}

rd_pick_wp_slot == IF Armed = Slots THEN Replaceable ELSE First(Slots \ Armed)

ContextsOf(chain) == {i \in ContextIds : table.contexts[i] = chain}

\* Mutant: a free entry is taken before the table is searched.
MutContextFreeFirst(chain) ==
    IF callchain_mode # "FP" THEN {0}
    ELSE IF ContextsOf(Idle) # {} THEN First(ContextsOf(Idle))
    ELSE IF ContextsOf(chain) # {} THEN First(ContextsOf(chain))
    ELSE {0}

\* The id (as a set) that rd_get_context_id_locked returns for a call chain ...
ContextId(chain) ==
    IF callchain_mode # "FP" THEN {0}
    ELSE IF ContextsOf(chain) # {} THEN First(ContextsOf(chain))
    ELSE IF ContextsOf(Idle) # {} THEN First(ContextsOf(Idle))
    ELSE {0}

\* ... and the table that it leaves.
rd_get_context_id_locked(chain, id) ==
    IF callchain_mode # "FP" THEN table
    ELSE IF id = 0 THEN [table EXCEPT !.context_dropped = @ + 1]
    ELSE IF table.contexts[id] = chain THEN table
    ELSE [table EXCEPT !.contexts[id] = chain, !.context_used = @ + 1]

\* Mutant: the seed's own access is not skipped.
MutArmedNoSkip(id) ==
    [state |-> "ARMED", seed_va |-> loc.va, seed_access |-> mem, target |-> loc.pc,
     context |-> id, skip_first_hit |-> FALSE, samples |-> 1]

\* The metadata of a slot that takes the candidate at hand.
ArmedSlot(id) ==
    [state |-> "ARMED", seed_va |-> loc.va, seed_access |-> mem, target |-> loc.pc,
     context |-> id, skip_first_hit |-> TRUE, samples |-> 1]

\* The first section under thread->lock: the candidate is given a slot or not.
rd_bp_accept(chain) ==
    /\ at = "bp"
    /\ \E pick \in rd_pick_wp_slot, id \in ContextId(chain) :
         /\ slot' = [i \in Slots |->
              IF i = pick
              THEN ArmedSlot(id)
              ELSE IF Armed = Slots /\ i < pick
              THEN [slot[i] EXCEPT !.samples = @ + 1]
              ELSE slot[i]]
         /\ IF pick = wp_capacity
            THEN /\ count' = [count EXCEPT !.candidate_samples = @ + 1,
                                           !.reservoir_seen = @ + 1,
                                           !.reservoir_rejected = @ + 1]
                 /\ at' = "mem"
                 /\ UNCHANGED <<table, loc, seen>>
            ELSE /\ count' = [count EXCEPT
                       !.candidate_samples = @ + 1,
                       !.reservoir_seen = @ + 1,
                       !.reservoir_accepted = @ + 1,
                       !.evictions = IF pick \in Armed THEN @ + 1 ELSE @]
                 /\ table' = rd_get_context_id_locked(chain, id)
                 /\ at' = IF callchain_mode = "DWARF" THEN "bp_snap" ELSE "bp_flag"
                 /\ loc' = [loc EXCEPT !.slot = pick]
                 /\ seen' = [seen EXCEPT ![pick] = [Unseen EXCEPT !.whole = ~cut]]
    /\ UNCHANGED <<windowVars, perfVars, mem, dwarf, todo, instr, stale, raced, cut>>

\* DWARF mode: registers and stack are saved without the lock.
rd_bp_snapshot ==
    /\ at = "bp_snap"
    /\ at' = "bp_flag"
    /\ dwarf' = [dwarf EXCEPT !.seed[loc.slot] = loc.pc]
    /\ UNCHANGED <<windowVars, perfVars, slot, mem, count, table, loc, todo, instr,
                   ghostVars>>

\* rd_modify_slot to the seed address; when it fails, the seed is dropped.
rd_bp_modify ==
    /\ at = "bp_modify"
    /\ modify_user_hw_breakpoint(loc.slot, loc.va)
    /\ IF loc.va \in BadVas
       THEN /\ at' = "idle_flag"
            /\ count' = [count EXCEPT !.dropped = @ + 1]
            /\ rd_clear_slot_metadata(loc.slot)
            /\ stale' = IF loc.slot \in Armed THEN stale ELSE stale + 1
            /\ UNCHANGED loc
       ELSE /\ at' = "mem"
            /\ loc' = [NoLocals EXCEPT !.pc = loc.pc, !.va = loc.va]
            /\ UNCHANGED <<count, slot, dwarf, stale>>
    /\ UNCHANGED <<windowVars, bp_on, mem_on, mem, table, todo, instr, raced, cut, seen>>

-----------------------------------------------------------------------------
(***************************************************************************)
(* rd_handle_wp_hit.  rd_read_mem_access cannot fail and a slot's target   *)
(* index is always valid here: those two error branches are left out.      *)
(***************************************************************************)

\* watchpoint_report for slot i, up to the end of the first locked section.
rd_watchpoint_report_pre(i) ==
    /\ at = "mem"
    /\ i \in todo /\ hw[i].on /\ hw[i].addr = loc.va
    /\ todo' = todo \ {i}
    /\ LET ours == active /\ running /\ i \in Armed
           skip == ours /\ slot[i].skip_first_hit
       IN  /\ slot' = IF skip THEN [slot EXCEPT ![i].skip_first_hit = FALSE] ELSE slot
           /\ IF ours /\ ~skip
              THEN /\ at' = IF callchain_mode = "DWARF" THEN "wp_snap" ELSE "wp_record"
                   /\ loc' = [loc EXCEPT !.slot = i, !.target = slot[i].target,
                                         !.seed_access = slot[i].seed_access,
                                         !.context = slot[i].context]
              ELSE UNCHANGED <<at, loc>>
    /\ UNCHANGED <<windowVars, perfVars, mem, resultVars, instr, ghostVars>>

\* Mutant: the reuse side is not captured.
MutNoReuseSnapshot ==
    /\ at = "wp_snap"
    /\ at' = "wp_record"
    /\ UNCHANGED <<windowVars, perfVars, slot, mem, resultVars, loc, todo, instr,
                   ghostVars>>

rd_wp_snapshot ==
    /\ at = "wp_snap"
    /\ at' = "wp_record"
    /\ dwarf' = [dwarf EXCEPT !.reuse[loc.slot] = loc.pc]
    /\ UNCHANGED <<windowVars, perfVars, slot, mem, count, table, loc, todo, instr,
                   ghostVars>>

Delta == IF mem > loc.seed_access THEN mem - loc.seed_access - 1 ELSE 0

\* Mutant: a hit that finds the table full is not counted.
MutPairDropNotCounted(t, key, bucket) ==
    LET same == {i \in PairIds : t.pair_hist[i] # Idle /\ t.pair_hist[i].key = key}
        free == {i \in PairIds : t.pair_hist[i] = Idle}
        one == [b \in B!Buckets |-> IF b = bucket THEN 1 ELSE 0]
    IN  IF same # {} THEN [t EXCEPT !.pair_hist[Min(same)].buckets[bucket] = @ + 1]
        ELSE IF free = {} THEN t
        ELSE [t EXCEPT !.pair_hist[Min(free)] = [key |-> key, buckets |-> one],
                       !.pair_hist_used = @ + 1]

\* The table t after the hit was filed under its pair.
rd_add_pair_hist_locked(t, key, bucket) ==
    LET same == {i \in PairIds : t.pair_hist[i] # Idle /\ t.pair_hist[i].key = key}
        free == {i \in PairIds : t.pair_hist[i] = Idle}
        one == [b \in B!Buckets |-> IF b = bucket THEN 1 ELSE 0]
    IN  IF same # {} THEN [t EXCEPT !.pair_hist[Min(same)].buckets[bucket] = @ + 1]
        ELSE IF free = {} THEN [t EXCEPT !.pair_hist_dropped = @ + 1]
        ELSE [t EXCEPT !.pair_hist[Min(free)] = [key |-> key, buckets |-> one],
                       !.pair_hist_used = @ + 1]

\* Whether rd_reserve_dwarf_event_locked finds a free event.
CanReserve == callchain_mode = "DWARF" /\ dwarf.used < dwarf_event_capacity

\* Mutant: an event that finds the buffer full is not counted.
MutEventDropNotCounted ==
    IF CanReserve THEN [dwarf EXCEPT !.used = @ + 1] ELSE dwarf

rd_reserve_dwarf_event_locked ==
    IF CanReserve THEN [dwarf EXCEPT !.used = @ + 1]
    ELSE IF callchain_mode = "DWARF" THEN [dwarf EXCEPT !.dropped = @ + 1]
    ELSE dwarf

\* The second section under thread->lock: the hit enters the results.
rd_wp_record(chain) ==
    /\ at = "wp_record"
    /\ \E id \in ContextId(chain) :
         LET bucket == B!rd_log2_bucket(Delta)
             key == <<loc.target, loc.context, loc.pc, id>>
             filed == [rd_get_context_id_locked(chain, id) EXCEPT
                         !.log2_hist[loc.target][bucket] = @ + 1]
         IN  table' = rd_add_pair_hist_locked(filed, key, bucket)
    /\ dwarf' = rd_reserve_dwarf_event_locked
    /\ count' = [count EXCEPT !.hits = @ + 1]
    /\ at' = IF CanReserve THEN "wp_fill" ELSE "wp_clear"
    /\ loc' = [loc EXCEPT !.index = IF CanReserve THEN dwarf.used + 1 ELSE 0]
    /\ stale' = IF loc.slot \in Armed THEN stale ELSE stale + 1
    /\ UNCHANGED <<windowVars, perfVars, slot, mem, todo, instr, raced, cut, seen>>

\* The reserved event is filled in without the lock ...
rd_wp_fill ==
    /\ at = "wp_fill"
    /\ at' = "wp_publish"
    /\ dwarf' = [dwarf EXCEPT !.events[loc.index] =
         [used |-> FALSE, target |-> loc.target, reuse_pc |-> loc.pc,
          seed_snap |-> dwarf.seed[loc.slot], reuse_snap |-> dwarf.reuse[loc.slot]]]
    /\ UNCHANGED <<windowVars, perfVars, slot, mem, count, table, loc, todo, instr,
                   ghostVars>>

\* ... and becomes visible to GET_DWARF_EVENT last (smp_wmb, used = 1).
rd_wp_publish ==
    /\ at = "wp_publish"
    /\ at' = "wp_clear"
    /\ dwarf' = [dwarf EXCEPT !.events[loc.index].used = TRUE]
    /\ UNCHANGED <<windowVars, perfVars, slot, mem, count, table, loc, todo, instr,
                   ghostVars>>

\* The last section under thread->lock: the slot is free again.
rd_wp_clear ==
    /\ at = "wp_clear"
    /\ at' = "idle_flag"
    /\ IF loc.slot \in Armed THEN rd_clear_slot_metadata(loc.slot)
                             ELSE UNCHANGED <<slot, dwarf>>
    /\ UNCHANGED <<windowVars, perfVars, mem, count, table, loc, todo, instr,
                   ghostVars>>

-----------------------------------------------------------------------------
\* Neither the program nor the controller has to go on.
Quiet == at = "user" /\ ctl = "none" /\ UNCHANGED vars

IoctlStep ==
    \/ rd_start_window \/ rd_enable_mem \/ rd_enable_bps \/ rd_enable_wps
    \/ rd_stop_window \/ rd_disable_wps \/ rd_disable_bps \/ rd_disable_mem
    \/ rd_reset_session_locked \/ rd_reset_slots \/ rd_reset_thread_locked
    \/ rd_detach_mark \/ rd_detach_count

ThreadStep ==
    \/ \E p \in Targets \cup OtherPcs, va \in Vas :
          Execute(p, va) \/ rd_perf_event_overflow_pre(p, va)
    \/ Retire
    \/ \E chain \in Chains : rd_bp_accept(chain) \/ rd_wp_record(chain)
    \/ rd_bp_snapshot
    \/ rd_modify_flag("bp_flag", "bp_modify")
    \/ rd_bp_modify
    \/ \E i \in Slots : rd_watchpoint_report_pre(i)
    \/ rd_wp_snapshot \/ rd_wp_fill \/ rd_wp_publish \/ rd_wp_clear
    \/ rd_modify_flag("idle_flag", "idle_modify")
    \/ rd_modify_slot_idle

Next == IoctlStep \/ ThreadStep \/ Quiet

Spec == Init /\ [][Next]_vars

-----------------------------------------------------------------------------
(***************************************************************************)
(* What the controller gets from the readers of the module and writes to   *)
(* the files of the thread.                                                *)
(***************************************************************************)

rd_get_thread_stats_locked ==
    [hits |-> count.hits, pair_hist_used |-> table.pair_hist_used,
     pair_hist_dropped |-> table.pair_hist_dropped, context_used |-> table.context_used,
     dwarf_event_used |-> dwarf.used, dwarf_event_dropped |-> dwarf.dropped]

rd_get_hist_locked(t) == table.log2_hist[t]
rd_get_pair_hist_locked(i) == table.pair_hist[i]
rd_get_context_locked(id) == table.contexts[id]
rd_get_dwarf_event_locked(e) == IF dwarf.events[e].used THEN dwarf.events[e] ELSE FreeEvent

\* Lines of the files; a bucket that is empty has none.
write_thread_histograms ==
    {line \in Targets \X B!Buckets : rd_get_hist_locked(line[1])[line[2]] > 0}

PairsUsed == {i \in PairIds : rd_get_pair_hist_locked(i) # Idle}

write_thread_pair_histograms ==
    {line \in PairsUsed \X B!Buckets : rd_get_pair_hist_locked(line[1]).buckets[line[2]] > 0}

write_thread_contexts == {id \in ContextIds : rd_get_context_locked(id) # Idle}

write_thread_dwarf_events ==
    {e \in 1 .. rd_get_thread_stats_locked.dwarf_event_used : rd_get_dwarf_event_locked(e).used}

-----------------------------------------------------------------------------
(***************************************************************************)
(* Properties.                                                             *)
(***************************************************************************)

SlotType == [state : {"IDLE", "ARMED"}, seed_va : Vas \cup {Idle},
             seed_access : Nat, target : Targets \cup {Idle},
             context : Nat, skip_first_hit : BOOLEAN,
             samples : Nat \ {0}]

Pcs == Targets \cup OtherPcs \cup {Idle}

LocalsType == [pc : Pcs, va : Vas \cup {Idle},
               slot : Slots, target : Targets \cup {Idle}, seed_access : Nat,
               context : Nat, index : Nat, enable : BOOLEAN]

DwarfType == [seed : [Slots -> Pcs], reuse : [Slots -> Pcs],
              events : [EventIds -> [used : BOOLEAN, target : Pcs, reuse_pc : Pcs,
                                     seed_snap : Pcs, reuse_snap : Pcs]],
              used : Nat, dropped : Nat]

CountType == [candidate_samples : Nat, reservoir_seen : Nat,
              reservoir_accepted : Nat, reservoir_rejected : Nat,
              hits : Nat, evictions : Nat, dropped : Nat]

\* A pair of seed and reuse, each with its context, and its histogram.
Keys == (Targets \cup {Idle}) \X Nat \X Pcs \X Nat
PairType == [key : Keys, buckets : [B!Buckets -> Nat]]

\* A free entry of pair_hist is told apart from one in use.
ASSUME FreePairAssumption == Idle \notin PairType

IoctlSteps == {"none", "start_mem", "start_bp", "start_wp", "stop_wp", "stop_bp",
               "stop_mem", "reset_hw", "reset_zero", "detach"}

(***************************************************************************)
(* The control state of both sides, the slots and the counters are well    *)
(* typed: in particular the slot that a handler works on exists.           *)
(***************************************************************************)
TypeOK ==
    /\ running \in BOOLEAN /\ active \in BOOLEAN /\ ctl \in IoctlSteps
    /\ slot \in [Slots -> SlotType]
    /\ mem \in Nat
    /\ count \in CountType /\ stale \in Nat
    /\ at \in HandlerSteps \cup {"user", "mem"}
    /\ loc \in LocalsType /\ dwarf \in DwarfType
    /\ todo \in SUBSET Slots

\* The hit is in the results, its slot not yet idle again.
HitPending ==
    at \in {"wp_fill", "wp_publish", "wp_clear"} /\ loc.slot \in Armed

(***************************************************************************)
(* No seed is lost or counted twice.  Every candidate of rd_handle_bp_hit  *)
(* is accepted or rejected, and every accepted one is still armed or ended *)
(* in exactly one of the counters hits, evictions and dropped, whatever    *)
(* STOP, RESET and UNREGISTER do in between; results that a handler adds   *)
(* after a RESET has erased their seed are exactly the excess.             *)
(***************************************************************************)
SeedsAccounted ==
    /\ count.reservoir_seen = count.candidate_samples
    /\ count.candidate_samples = count.reservoir_accepted + count.reservoir_rejected
    /\ count.reservoir_accepted + stale + (IF HitPending THEN 1 ELSE 0)
         = count.hits + count.evictions + count.dropped + Cardinality(Armed)

\* The event that a handler has reserved and not yet published.
Writing(e) == at \in {"wp_fill", "wp_publish"} /\ loc.index = e

(***************************************************************************)
(* The outputs agree on the number of hits: the lines of the histogram     *)
(* file add up to it, those of the pair file do with pair_hist_dropped,    *)
(* and in DWARF mode the lines of the event file do with                   *)
(* dwarf_event_dropped and the one that a handler is writing.  A full pair *)
(* table or event buffer costs only its own entries (README: it does not   *)
(* affect the basic histogram), and a RESET between the reservation of an  *)
(* event and its publication leaves no line that is not a hit.             *)
(***************************************************************************)
OutputsAgree ==
    LET stats == rd_get_thread_stats_locked IN
    /\ MapThenSumSet(LAMBDA line : rd_get_hist_locked(line[1])[line[2]],
                     write_thread_histograms) = stats.hits
    /\ MapThenSumSet(LAMBDA line : rd_get_pair_hist_locked(line[1]).buckets[line[2]],
                     write_thread_pair_histograms) + stats.pair_hist_dropped = stats.hits
    /\ callchain_mode = "DWARF" =>
         LET reserved == {e \in 1 .. stats.dwarf_event_used : Writing(e)}
         IN  Cardinality(write_thread_dwarf_events \cup reserved)
               + stats.dwarf_event_dropped = stats.hits

(***************************************************************************)
(* The lookup tables of rd_add_pair_hist_locked and                        *)
(* rd_get_context_id_locked fill up from the front, hold no key twice, and *)
(* pair_hist_used/context_used count them.  Every context id that a slot   *)
(* or a pair refers to is in the context table, unless its hit survived a  *)
(* RESET.                                                                  *)
(***************************************************************************)
TablesConsistent ==
    LET used == write_thread_contexts
        pair(i) == rd_get_pair_hist_locked(i).key
        stats == rd_get_thread_stats_locked
    IN  /\ PairsUsed = 1 .. stats.pair_hist_used
        /\ \A i, j \in PairsUsed : pair(i) = pair(j) => i = j
        /\ used = 1 .. stats.context_used
        /\ \A i, j \in used : rd_get_context_locked(i) = rd_get_context_locked(j) => i = j
        /\ \A i \in Armed : slot[i].context \in used \cup {0}
        /\ stale = 0 => \A i \in PairsUsed : {pair(i)[2], pair(i)[4]} \subseteq used \cup {0}

\* A handler is about to rewrite the watchpoint of the slot.
AtWork(i) == InHandler /\ loc.slot = i

\* Idle slots whose watchpoint is not at the scratch address.
Strays == {i \in Slots \ Armed : ~AtWork(i) /\ hw[i].addr # Idle}

(***************************************************************************)
(* What the hardware watches is what the metadata says, whenever no        *)
(* handler is at work on the slot.  An armed slot watches its seed address *)
(* (but for the moment in which RESET has moved the watchpoints and not    *)
(* yet taken the lock), so no reuse goes unseen.  An idle slot watches its *)
(* scratch address: no watchpoint is left behind by a failed               *)
(* rd_modify_slot, a hit or an eviction.  RESET can leave one, and only    *)
(* one, the watchpoint that a handler in flight wrote after RESET had      *)
(* rewritten it.                                                           *)
(***************************************************************************)
WatchesMatch ==
    /\ ctl # "reset_zero" => \A i \in Armed : AtWork(i) \/ hw[i].addr = slot[i].seed_va
    /\ \A i, j \in Strays : i = j
    /\ Strays # {} => raced.slots

(***************************************************************************)
(* delta = hit - seed - 1 is the reuse distance: within one window the hit *)
(* that rd_handle_wp_hit records is the first access to the seed address   *)
(* after the seed's own (which skip_first_hit absorbs), no reuse is        *)
(* missed, and delta is the number of accesses strictly between the two.   *)
(***************************************************************************)
FirstReuse ==
    \A i \in Armed : seen[i].whole =>
        /\ seen[i].touched <= 1
        /\ (at \in {"wp_snap", "wp_record"} /\ loc.slot = i) =>
              /\ slot[i].seed_va = loc.va
              /\ seen[i].touched = 1
              /\ Delta = seen[i].between

\* Events that the controller can fetch without the snapshots they should have.
Incomplete ==
    {e \in write_thread_dwarf_events : LET event == rd_get_dwarf_event_locked(e) IN
       \/ event.target = Idle
       \/ event.seed_snap # event.target
       \/ event.reuse_snap # event.reuse_pc}

(***************************************************************************)
(* Every DWARF event that the controller can fetch has the snapshots of    *)
(* its own seed and reuse, never those of another access, and below        *)
(* dwarf_event_used only the one that a handler is just writing is         *)
(* missing.  A RESET before the handler has published its event            *)
(* (rd_wpctl.c 1108 to 1135) erases the snapshots under it: that one event *)
(* may then lack them, and no other.                                       *)
(***************************************************************************)
EventsMatch ==
    /\ \A e \in write_thread_dwarf_events : LET event == rd_get_dwarf_event_locked(e) IN
         /\ event.seed_snap \in {event.target, Idle}
         /\ event.reuse_snap \in {event.reuse_pc, Idle}
    /\ \A e, f \in Incomplete : e = f
    /\ Incomplete # {} => raced.results
    /\ \A e \in (1 .. dwarf.used) \ write_thread_dwarf_events : Writing(e)

(***************************************************************************)
(* With every slot armed, each slot makes its own draw, so that each of    *)
(* them may be the one that gives way to the candidate (rd_wpctl.c 741:    *)
(* "每个 slot 用自己的 sample 计数执行 `1 / samples` 概率替换判定").       *)
(***************************************************************************)
EverySlotDraws == Armed = Slots => Slots \subseteq rd_pick_wp_slot

(***************************************************************************)
(* After a RESET the results come from seeds of the new window only        *)
(* (README.md: rd_start "清空自动窗口数据，然后以显式窗口为准").           *)
(***************************************************************************)
ResetStartsAfresh == count.hits + count.dropped <= count.reservoir_accepted

=============================================================================
