------------------------- MODULE RdWpctlReuseProofs --------------------------
(***************************************************************************)
(* What a hit says, proved for every number of slots, targets and          *)
(* addresses: the hardware watches what the slots say, and the recorded    *)
(* distance is the reuse distance.                                         *)
(***************************************************************************)
EXTENDS RdWpctlThreadProofs

(***************************************************************************)
(* How the steps of an ioctl and of the thread fit together: a window that *)
(* is being closed is not running, breakpoints are never on without the    *)
(* counter, and a breakpoint handler has all watchpoints still ahead.      *)
(***************************************************************************)
Closing == {"stop_wp", "stop_bp", "stop_mem", "reset_hw", "reset_zero"}

CtlInv ==
    /\ ctl \in Closing => ~running
    /\ ctl = "detach" => ~active
    /\ ctl = "start_bp" \/ bp_on => mem_on
    /\ ctl = "stop_mem" => ~bp_on
    /\ at = "bp" /\ ~cut => running /\ active /\ mem_on
    /\ at = "bp" \/ BpWork => todo = Slots

LEMMA CtlIoctl == IInv /\ CtlInv /\ IoctlStep => CtlInv'
<1> SUFFICES ASSUME IInv, CtlInv, IoctlStep PROVE CtlInv'
  BY Zenon
<1> USE DEF perfVars, threadVars, ghostVars, Ioctl, NextStep, Interrupt, Closing
<1>1. BpWork' = BpWork /\ at' = at /\ todo' = todo
  BY Zenon DEF IoctlStep, rd_start_window, rd_enable_mem, rd_enable_bps, rd_enable_wps,
     rd_stop_window, rd_disable_wps, rd_disable_bps, rd_disable_mem, rd_reset_slots,
     rd_reset_thread_locked, rd_reset_session_locked, rd_detach_mark, rd_detach_count, BpWork
<1>2. CASE rd_start_window \/ rd_enable_mem \/ rd_enable_bps \/ rd_enable_wps
  BY <1>1, <1>2 DEF CtlInv, rd_start_window, rd_enable_mem, rd_enable_bps, rd_enable_wps
<1>3. CASE rd_stop_window \/ rd_disable_wps \/ rd_disable_bps
  BY <1>1, <1>3 DEF CtlInv, rd_stop_window, rd_disable_wps, rd_disable_bps
<1>4. CASE rd_disable_mem
  BY <1>1, <1>4, Zenon DEF CtlInv, rd_disable_mem
<1>5. CASE rd_reset_session_locked \/ rd_reset_slots \/ rd_reset_thread_locked
  <2>1. /\ UNCHANGED <<running, active, bp_on, mem_on, cut>>
        /\ ctl' \in Closing \cup {"none"} /\ ctl' # "stop_mem"
    BY <1>5, Zenon DEF rd_reset_session_locked, rd_reset_slots, rd_reset_thread_locked
  <2>2. ~running
    BY <1>5, Zenon DEF CtlInv, rd_reset_session_locked, rd_reset_slots, rd_reset_thread_locked
  <2> QED BY <1>1, <2>1, <2>2, Zenon DEF CtlInv
<1>6. CASE rd_detach_mark
  BY <1>1, <1>6, Zenon DEF CtlInv, rd_detach_mark
<1>7. CASE rd_detach_count
  BY <1>1, <1>7, Zenon DEF CtlInv, rd_detach_count, InHandler, HandlerSteps
<1> QED BY <1>2, <1>3, <1>4, <1>5, <1>6, <1>7, Zenon DEF IoctlStep

LEMMA CtlThread == IInv /\ CtlInv /\ ThreadStep => CtlInv'
<1> SUFFICES ASSUME IInv, CtlInv, ThreadStep PROVE CtlInv'
  BY Zenon
<1> USE DEF perfVars, windowVars, ghostVars
<1>1. CASE \E p \in Targets \cup OtherPcs, va \in Vas :
             Execute(p, va) \/ rd_perf_event_overflow_pre(p, va)
  BY <1>1 DEF CtlInv, BpWork, Execute, rd_perf_event_overflow_pre, Begin
<1>2. CASE Retire
  BY <1>2, Zenon DEF CtlInv, BpWork, Retire
<1>3. CASE \E chain \in Chains : rd_bp_accept(chain)
  <2>1. /\ at = "bp" /\ at' \in {"mem", "bp_snap", "bp_flag"}
        /\ UNCHANGED <<ctl, running, active, bp_on, mem_on, todo>>
    BY <1>3, Zenon DEF rd_bp_accept
  <2> QED BY <2>1, Zenon DEF CtlInv, BpWork
<1>4. CASE \E i \in Slots : rd_watchpoint_report_pre(i)
  <2>1. at' \in {"mem", "wp_snap", "wp_record"}
        /\ UNCHANGED <<ctl, running, active, bp_on, mem_on>>
    BY <1>4, Zenon DEF rd_watchpoint_report_pre
  <2> QED BY <2>1, Zenon DEF CtlInv, BpWork
<1>5. CASE \/ rd_bp_snapshot \/ rd_bp_modify \/ rd_wp_snapshot \/ rd_wp_fill \/ rd_wp_publish
           \/ rd_wp_clear \/ rd_modify_slot_idle
           \/ \E chain \in Chains : rd_wp_record(chain)
           \/ rd_modify_flag("bp_flag", "bp_modify")
           \/ rd_modify_flag("idle_flag", "idle_modify")
  <2>1. /\ UNCHANGED <<ctl, running, active, bp_on, mem_on, todo>>
        /\ at' # "bp" /\ (BpWork' => BpWork)
    BY <1>5, Zenon DEF rd_bp_snapshot, rd_bp_modify, rd_wp_snapshot, rd_wp_fill, rd_wp_publish,
       rd_wp_clear, rd_modify_slot_idle, rd_wp_record, rd_modify_flag, BpWork
  <2> QED BY <2>1, Zenon DEF CtlInv
<1> QED BY <1>1, <1>2, <1>3, <1>4, <1>5, Zenon DEF ThreadStep

LEMMA CtlInductive == Spec => []CtlInv
<1>1. Init => CtlInv
  BY DEF Init, CtlInv, Closing, BpWork
<1>2. IInv /\ CtlInv /\ [Next]_vars => CtlInv'
  <2>1. CtlInv /\ UNCHANGED vars => CtlInv'
    BY DEF vars, perfVars, threadVars, windowVars, ghostVars, CtlInv, BpWork
  <2> QED BY <2>1, CtlIoctl, CtlThread, Zenon DEF Next, Quiet
<1> QED BY Inductive, <1>1, <1>2, PTL DEF Spec

-----------------------------------------------------------------------------
(***************************************************************************)
(* What the hardware watches.  WatchesMatch excuses the slot in the locals *)
(* of any handler; a breakpoint handler that has not picked its slot yet   *)
(* needs no excuse.  A RESET that meets a handler may leave a watchpoint   *)
(* at an idle slot.  It is at most one because no handler starts between   *)
(* the two halves of a RESET, so that all the watchpoints set since its    *)
(* first half are those of the handler it met.                             *)
(***************************************************************************)
Watches(i) == hw[i].addr = slot[i].seed_va
WorkOn(i) == (BpWork \/ WpWork \/ IdleWork) /\ loc.slot = i
Away(i) == hw[i].addr # Idle
Left == {i \in Slots \ Armed : ~WorkOn(i) /\ Away(i)}

\* The address of an armed slot.
WatchInv == ctl # "reset_zero" => \A i \in Armed : WorkOn(i) \/ Watches(i)

\* Between the halves of a RESET: what the handler that it met has set.
ResetInv ==
    ctl = "reset_zero" =>
        /\ InHandler => raced.slots /\ \A i \in Slots : Away(i) => WorkOn(i)
        /\ \A i, j \in Slots : Away(i) /\ Away(j) => i = j
        /\ \A i \in Slots : Away(i) => raced.slots

\* What a RESET has left behind, or the handler that it met will leave.
LeftInv ==
    /\ \A i, j \in Left : i = j
    /\ Left # {} => raced.slots
    /\ BpWork /\ loc.slot \notin Armed => Left = {} /\ raced.slots

\* A detached thread has no handler and no watchpoint.
GoneInv == ~active /\ ctl # "detach" => ~InHandler /\ \A i \in Slots : ~Away(i)

StrayInv == WatchInv /\ ResetInv /\ LeftInv /\ GoneInv

\* Steps that leave addresses and seeds alone, and begin or end no work.
LEMMA SameWatchInv ==
    ASSUME WatchInv, \A i \in Slots : hw'[i].addr = hw[i].addr,
           \A i \in Slots : slot'[i].seed_va = slot[i].seed_va, Armed' = Armed,
           \A i \in Slots : WorkOn(i) => WorkOn(i)',
           ctl' # "reset_zero" => ctl # "reset_zero"
    PROVE  WatchInv'
  BY Zenon DEF WatchInv, Watches, Armed

\* Steps that leave no watchpoint behind.
LEMMA LeftShrinks ==
    ASSUME LeftInv, Left' \subseteq Left, raced' = raced,
           BpWork' /\ loc'.slot \notin Armed' => BpWork /\ loc.slot \notin Armed
    PROVE  LeftInv'
  BY Zenon DEF LeftInv

\* Steps between the halves of a RESET that set no watchpoint.
LEMMA ResetKept ==
    ASSUME ResetInv, ctl' = ctl, raced' = raced,
           \A i \in Slots : Away(i)' => Away(i),
           ctl = "reset_zero" /\ InHandler' =>
             InHandler /\ \A i \in Slots : WorkOn(i) /\ Away(i)' => WorkOn(i)'
    PROVE  ResetInv'
  BY Zenon DEF ResetInv

LEMMA WorkingSame ==
    ASSUME UNCHANGED <<at, loc>>
    PROVE  /\ InHandler' = InHandler /\ BpWork' = BpWork /\ WpWork' = WpWork
           /\ \A i \in Slots : WorkOn(i)' = WorkOn(i)
  BY Zenon DEF InHandler, WorkOn, BpWork, WpWork, IdleWork

\* The ioctl steps other than those of RESET and the end of a detach.
LEMMA StrayOther ==
    ASSUME IInv, HandInv, StrayInv, IoctlStep, ~rd_reset_session_locked,
           ~rd_reset_slots, ~rd_reset_thread_locked, ~rd_detach_count
    PROVE  StrayInv'
<1> USE DEF perfVars, threadVars, ghostVars
<1>1. UNCHANGED <<slot, at, loc>>
  BY Zenon DEF IoctlStep, rd_start_window, rd_enable_mem, rd_enable_bps, rd_enable_wps,
     rd_stop_window, rd_disable_wps, rd_disable_bps, rd_disable_mem, rd_detach_mark
<1>2. /\ ctl # "reset_zero" /\ ctl' # "reset_zero"
      /\ ~active' /\ ctl' # "detach" => ~active /\ ctl # "detach"
  BY DEF IoctlStep, Ioctl, NextStep, rd_start_window, rd_enable_mem, rd_enable_bps,
     rd_enable_wps, rd_stop_window, rd_disable_wps, rd_disable_bps, rd_disable_mem,
     rd_detach_mark
<1>3. \A i \in Slots : hw'[i].addr = hw[i].addr
  <2>1. CASE rd_enable_wps \/ rd_disable_wps
    BY <2>1 DEF HandInv, HwType, rd_enable_wps, rd_disable_wps
  <2>2. CASE ~(rd_enable_wps \/ rd_disable_wps)
    <3>1. hw' = hw
      BY <2>2, Zenon DEF IoctlStep, rd_start_window, rd_enable_mem, rd_enable_bps,
         rd_stop_window, rd_disable_bps, rd_disable_mem, rd_detach_mark
    <3> QED BY <3>1, Zenon
  <2> QED BY <2>1, <2>2, Zenon
<1>4. Armed' = Armed /\ raced' = raced
  BY <1>1, RacedIoctl, Zenon DEF Armed
<1>5. /\ InHandler' = InHandler /\ BpWork' = BpWork
      /\ \A i \in Slots : WorkOn(i)' = WorkOn(i)
  BY <1>1, WorkingSame, Zenon
<1>6. Left' = Left /\ \A i \in Slots : Away(i)' = Away(i)
  BY <1>3, <1>4, <1>5, Zenon DEF Left, Away
<1>7. WatchInv'
  BY <1>1, <1>2, <1>3, <1>4, <1>5, SameWatchInv, Zenon DEF StrayInv
<1>8. LeftInv'
  BY <1>1, <1>4, <1>5, <1>6, LeftShrinks, Zenon DEF StrayInv
<1>9. ResetInv' /\ GoneInv'
  BY <1>2, <1>5, <1>6, Zenon DEF StrayInv, ResetInv, GoneInv
<1> QED BY <1>7, <1>8, <1>9, Zenon DEF StrayInv

LEMMA StrayReset ==
    ASSUME IInv, HandInv, RacedOK, StrayInv,
           rd_reset_session_locked \/ rd_reset_slots \/ rd_reset_thread_locked
           \/ rd_detach_count
    PROVE  StrayInv'
<1> USE DEF perfVars, threadVars, ghostVars
<1>1. /\ InHandler' = InHandler /\ BpWork' = BpWork
      /\ \A i \in Slots : WorkOn(i)' = WorkOn(i)
  BY WorkingSame, Zenon DEF rd_reset_session_locked, rd_reset_slots, rd_reset_thread_locked,
     rd_detach_count
<1>2. CASE rd_reset_session_locked
  <2>1. /\ UNCHANGED <<slot, hw, loc, active, raced>>
        /\ ctl = "none" /\ ctl' = IF active THEN "reset_hw" ELSE "reset_zero"
    BY <1>2, Zenon DEF rd_reset_session_locked, Ioctl
  <2>2. Armed' = Armed /\ \A i \in Slots : Away(i)' = Away(i) /\ Watches(i)' = Watches(i)
    BY <2>1, Zenon DEF Armed, Away, Watches
  <2>3. Left' = Left
    BY <1>1, <2>2, Zenon DEF Left
  <2>4. WatchInv'
    BY <1>1, <2>1, <2>2, Zenon DEF StrayInv, WatchInv, Armed
  <2>5. LeftInv'
    BY <1>1, <2>1, <2>2, <2>3, LeftShrinks, Zenon DEF StrayInv
  <2>6. ResetInv' /\ GoneInv'
    BY <1>1, <2>1, <2>2, Zenon DEF StrayInv, ResetInv, GoneInv
  <2> QED BY <2>4, <2>5, <2>6, Zenon DEF StrayInv
<1>3. CASE rd_reset_slots
  <2>1. /\ \A i \in Slots : hw'[i].addr = Idle
        /\ ctl = "reset_hw" /\ ctl' = "reset_zero" /\ UNCHANGED <<active, slot, loc>>
        /\ raced' = [raced EXCEPT !.slots = InHandler]
    BY <1>3, Zenon DEF rd_reset_slots, NextStep
  <2>2. raced'.slots = InHandler
    BY <2>1, Zenon DEF RacedOK
  <2>3. Left' = {} /\ \A i \in Slots : ~Away(i)'
    BY <2>1, Zenon DEF Left, Away
  <2>4. WatchInv'
    BY <2>1, Zenon DEF WatchInv
  <2>5. LeftInv'
    BY <1>1, <2>2, <2>3, WorkersHandle, Zenon DEF LeftInv
  <2>6. ResetInv' /\ GoneInv'
    BY <1>1, <2>1, <2>2, <2>3, Zenon DEF StrayInv, ResetInv, GoneInv
  <2> QED BY <2>4, <2>5, <2>6, Zenon DEF StrayInv
<1>4. CASE rd_reset_thread_locked
  <2>1. /\ slot' = [i \in Slots |-> IdleSlot] /\ UNCHANGED <<hw, loc, active>>
        /\ ctl = "reset_zero" /\ ctl' = "none"
        /\ raced' = [raced EXCEPT !.results = InHandler]
    BY <1>4, Zenon DEF rd_reset_thread_locked, NextStep
  <2>2. raced'.slots = raced.slots
    BY <2>1, Zenon DEF RacedOK
  <2>3. Armed' = {} /\ \A i \in Slots : Away(i)' = Away(i)
    BY <2>1, ArmedEmpty, Zenon DEF Away
  <2>4. Left' = {i \in Slots : ~WorkOn(i) /\ Away(i)}
    BY <1>1, <2>3, Zenon DEF Left
  <2>5. ResetInv /\ ctl = "reset_zero"
    BY <2>1, Zenon DEF StrayInv
  <2>6. /\ \A i, j \in Left' : i = j
        /\ Left' # {} => raced'.slots
    BY <2>2, <2>4, <2>5, Zenon DEF ResetInv
  <2>7. BpWork' => Left' = {} /\ raced'.slots
    BY <1>1, <2>2, <2>4, <2>5, WorkersHandle, Zenon DEF ResetInv
  <2>8. LeftInv'
    BY <2>6, <2>7, Zenon DEF LeftInv
  <2>9. WatchInv' /\ ResetInv' /\ GoneInv'
    BY <1>1, <2>1, <2>3, Zenon DEF StrayInv, WatchInv, ResetInv, GoneInv
  <2> QED BY <2>8, <2>9, Zenon DEF StrayInv
<1>5. CASE rd_detach_count
  <2>1. /\ slot' = [i \in Slots |-> IdleSlot] /\ \A i \in Slots : hw'[i].addr = Idle
        /\ ~InHandler /\ ctl' = "none"
    BY <1>5, Zenon DEF rd_detach_count, NextStep
  <2>2. Armed' = {} /\ Left' = {} /\ \A i \in Slots : ~Away(i)'
    BY <2>1, ArmedEmpty, Zenon DEF Away, Left
  <2> QED
    BY <1>1, <2>1, <2>2, WorkersHandle, Zenon
       DEF StrayInv, WatchInv, ResetInv, LeftInv, GoneInv
<1> QED BY <1>2, <1>3, <1>4, <1>5, Zenon

\* Instructions that begin and end outside a handler.
LEMMA StrayInstruction ==
    ASSUME CtlInv, StrayInv,
           \/ \E p \in Targets \cup OtherPcs, va \in Vas :
                Execute(p, va) \/ rd_perf_event_overflow_pre(p, va)
           \/ Retire
    PROVE  StrayInv'
<1>1. /\ at \in {"user", "mem"} /\ at' \in {"user", "mem", "bp"}
      /\ at' = "bp" => running /\ active
      /\ UNCHANGED <<hw, slot, ctl, active, raced>>
  BY Zenon DEF Execute, rd_perf_event_overflow_pre, Begin, Retire, perfVars, windowVars
<1>2. /\ \A i \in Slots : ~WorkOn(i) /\ ~WorkOn(i)'
      /\ ~BpWork' /\ (InHandler' => running /\ active)
  BY <1>1, Zenon DEF WorkOn, BpWork, WpWork, IdleWork, InHandler, HandlerSteps
<1>3. Armed' = Armed /\ \A i \in Slots : Away(i)' = Away(i)
  BY <1>1, Zenon DEF Armed, Away
<1>4. Left' = Left
  BY <1>2, <1>3, Zenon DEF Left
<1>5. ctl = "reset_zero" => ~InHandler'
  BY <1>2, Zenon DEF CtlInv, Closing
<1>6. WatchInv'
  BY <1>1, <1>2, <1>3, SameWatchInv, Zenon DEF StrayInv
<1>7. LeftInv'
  BY <1>1, <1>2, <1>4, LeftShrinks, Zenon DEF StrayInv
<1>8. ResetInv'
  BY <1>1, <1>3, <1>5, ResetKept, Zenon DEF StrayInv
<1>9. GoneInv'
  BY <1>1, <1>2, <1>3, Zenon DEF StrayInv, GoneInv
<1> QED BY <1>6, <1>7, <1>8, <1>9, Zenon DEF StrayInv

LEMMA StrayAccept ==
    ASSUME IInv, StrayInv, NEW chain \in Chains, rd_bp_accept(chain)
    PROVE  StrayInv'
<1>1. PICK pick \in Slots, id \in ContextId(chain) :
        /\ at = "bp"
        /\ \A i \in Slots \ {pick} : slot'[i] = slot[i]
        /\ Armed' = Armed \cup {pick}
        /\ at' = IF callchain_mode = "DWARF" THEN "bp_snap" ELSE "bp_flag"
        /\ loc'.slot = pick
        /\ UNCHANGED <<windowVars, perfVars, raced>>
  BY AcceptStep, Zenon
<1>2. UNCHANGED <<ctl, active, hw, raced>>
  BY <1>1, Zenon DEF windowVars, perfVars
<1>3. /\ \A i \in Slots : ~WorkOn(i) /\ (WorkOn(i)' <=> i = pick)
      /\ InHandler /\ InHandler'
  BY <1>1, Zenon DEF WorkOn, BpWork, WpWork, IdleWork, InHandler, HandlerSteps
<1>4. \A i \in Slots : Away(i)' = Away(i)
  BY <1>2, Zenon DEF Away
<1>5. Left' \subseteq Left
  BY <1>1, <1>3, <1>4, Zenon DEF Left
<1>6. WatchInv'
  BY <1>1, <1>2, <1>3, Zenon DEF StrayInv, WatchInv, Watches, Armed
<1>7. LeftInv'
  BY <1>1, <1>2, <1>5, LeftShrinks, Zenon DEF StrayInv
<1>8. ResetInv'
  BY <1>2, <1>3, <1>4, ResetKept, Zenon DEF StrayInv
<1>9. GoneInv'
  BY <1>2, <1>3, <1>4, Zenon DEF StrayInv, GoneInv
<1> QED BY <1>6, <1>7, <1>8, <1>9, Zenon DEF StrayInv

LEMMA StrayReport ==
    ASSUME IInv, CtlInv, StrayInv, NEW i \in Slots, rd_watchpoint_report_pre(i)
    PROVE  StrayInv'
<1>1. at = "mem" /\ Armed' = Armed /\ UNCHANGED <<ctl, active, hw, raced>>
  BY ReportStep, Zenon DEF windowVars, perfVars, ghostVars
<1>2. \A j \in Slots : slot'[j].seed_va = slot[j].seed_va
  <2> TAKE j \in Slots
  <2>1. CASE j = i
    BY <2>1, ReportStep, Zenon
  <2>2. CASE j # i
    BY <2>2, ReportStep, Zenon
  <2> QED BY <2>1, <2>2, Zenon
<1>3. /\ \A j \in Slots : ~WorkOn(j) /\ Away(j)' = Away(j)
      /\ ~InHandler
  BY <1>1, Zenon DEF WorkOn, BpWork, WpWork, IdleWork, Away, InHandler, HandlerSteps
<1>4. at' = at \/ (active /\ running /\ at' \in {"wp_snap", "wp_record"})
  BY ReportStep, Zenon
<1>5. ~BpWork' /\ (InHandler' => active /\ running)
  BY <1>1, <1>4, Zenon DEF BpWork, InHandler, HandlerSteps
<1>6. Left' \subseteq Left
  BY <1>1, <1>3, Zenon DEF Left
<1>7. WatchInv'
  BY <1>1, <1>2, <1>3, SameWatchInv, Zenon DEF StrayInv, Away
<1>8. LeftInv'
  BY <1>1, <1>5, <1>6, LeftShrinks, Zenon DEF StrayInv
<1>9. ctl = "reset_zero" => ~InHandler'
  BY <1>5, Zenon DEF CtlInv, Closing
<1>10. ResetInv'
  BY <1>1, <1>3, <1>9, ResetKept, Zenon DEF StrayInv
<1>11. GoneInv'
  BY <1>1, <1>3, <1>5, Zenon DEF StrayInv, GoneInv
<1> QED BY <1>7, <1>8, <1>10, <1>11, Zenon DEF StrayInv

\* The steps of a handler that touch neither a slot nor a watchpoint.
LEMMA StrayWithin ==
    ASSUME IInv, StrayInv,
           \/ rd_bp_snapshot \/ rd_wp_snapshot \/ rd_wp_fill \/ rd_wp_publish
           \/ \E chain \in Chains : rd_wp_record(chain)
           \/ rd_modify_flag("bp_flag", "bp_modify")
           \/ rd_modify_flag("idle_flag", "idle_modify")
    PROVE  StrayInv'
<1> USE DEF rd_bp_snapshot, rd_wp_snapshot, rd_wp_fill, rd_wp_publish, rd_wp_record,
            rd_modify_flag
<1>1. UNCHANGED <<ctl, active, hw, slot, raced>>
  BY Zenon DEF perfVars, windowVars, ghostVars
<1>2. loc'.slot = loc.slot
  BY Zenon DEF IInv, TypeOK, LocalsType
<1>3. /\ BpWork \/ WpWork \/ IdleWork
      /\ BpWork' \/ WpWork' \/ IdleWork'
      /\ BpWork' = BpWork
  BY DEF BpWork, WpWork, IdleWork
<1> HIDE DEF rd_bp_snapshot, rd_wp_snapshot, rd_wp_fill, rd_wp_publish, rd_wp_record,
             rd_modify_flag
<1>4. InHandler /\ InHandler' /\ \A i \in Slots : WorkOn(i)' = WorkOn(i)
  BY <1>2, <1>3, Zenon DEF WorkOn, BpWork, WpWork, IdleWork, InHandler, HandlerSteps
<1>5. Armed' = Armed /\ \A i \in Slots : Away(i)' = Away(i)
  BY <1>1, Zenon DEF Armed, Away
<1>6. Left' = Left
  BY <1>4, <1>5, Zenon DEF Left
<1>7. WatchInv'
  BY <1>1, <1>4, <1>5, SameWatchInv, Zenon DEF StrayInv
<1>8. LeftInv'
  BY <1>1, <1>2, <1>3, <1>5, <1>6, LeftShrinks, Zenon DEF StrayInv
<1>9. ResetInv'
  BY <1>1, <1>4, <1>5, ResetKept, Zenon DEF StrayInv
<1>10. GoneInv'
  BY <1>1, <1>4, Zenon DEF StrayInv, GoneInv
<1> QED BY <1>7, <1>8, <1>9, <1>10, Zenon DEF StrayInv

LEMMA StrayModify ==
    ASSUME IInv, HandInv, StrayInv, rd_bp_modify
    PROVE  StrayInv'
<1> DEFINE s == loc.slot
<1>1. /\ at = "bp_modify" /\ loc.va \in Vas /\ s \in Slots
      /\ UNCHANGED <<ctl, active, raced>>
      /\ modify_user_hw_breakpoint(loc.slot, loc.va)
  BY Zenon DEF rd_bp_modify, IInv, LocalsInv, TypeOK, LocalsType, windowVars
<1>2. /\ \A j \in Slots \ {s} : hw'[j] = hw[j]
      /\ loc.va \in BadVas => hw'[s].addr = hw[s].addr
      /\ loc.va \notin BadVas => hw'[s].addr = loc.va
  BY <1>1, HwModify, Zenon
<1>3. /\ BpWork /\ InHandler /\ \A i \in Slots : WorkOn(i) <=> i = s
      /\ Armed \subseteq Slots
  BY <1>1, Zenon DEF WorkOn, BpWork, InHandler, HandlerSteps, Armed
<1>4. CASE loc.va \in BadVas
  <2>1. at' = "idle_flag" /\ rd_clear_slot_metadata(loc.slot) /\ loc' = loc
    BY <1>4, Zenon DEF rd_bp_modify
  <2>2. Armed' = Armed \ {s} /\ \A j \in Slots \ {s} : slot'[j] = slot[j]
    BY <1>1, <2>1, ClearStep, Zenon
  <2>3. ~BpWork' /\ InHandler' /\ \A i \in Slots : WorkOn(i)' <=> i = s
    BY <2>1, Zenon DEF WorkOn, BpWork, IdleWork, InHandler, HandlerSteps
  <2>4. \A i \in Slots : Away(i)' = Away(i)
    BY <1>2, <1>4, Zenon DEF Away
  <2>5. Left' \subseteq Left
    BY <1>3, <2>2, <2>3, <2>4, Zenon DEF Left
  <2>6. WatchInv'
    BY <1>1, <1>2, <1>3, <2>2, <2>3, Zenon DEF StrayInv, WatchInv, Watches
  <2>7. LeftInv'
    BY <1>1, <2>3, <2>5, LeftShrinks, Zenon DEF StrayInv
  <2>8. ResetInv'
    BY <1>1, <1>3, <2>3, <2>4, ResetKept, Zenon DEF StrayInv
  <2>9. GoneInv'
    BY <1>1, <1>3, Zenon DEF StrayInv, GoneInv
  <2> QED BY <2>6, <2>7, <2>8, <2>9, Zenon DEF StrayInv
<1>5. CASE loc.va \notin BadVas
  <2>1. at' = "mem" /\ UNCHANGED slot
    BY <1>5, Zenon DEF rd_bp_modify
  <2>2. Armed' = Armed
    BY <2>1, Zenon DEF Armed
  <2>3. ~BpWork' /\ ~InHandler' /\ \A i \in Slots : ~WorkOn(i)'
    BY <2>1, Zenon DEF WorkOn, BpWork, WpWork, IdleWork, InHandler, HandlerSteps
  <2>4. \A i \in Slots \ {s} : Away(i)' = Away(i)
    BY <1>2, Zenon DEF Away
  <2>5. WatchInv'
    <3>1. s \in Armed => hw'[s].addr = slot'[s].seed_va
      BY <1>2, <1>3, <1>5, <2>1, Zenon DEF HandInv
    <3> QED BY <1>1, <1>2, <1>3, <2>1, <2>2, <3>1, Zenon DEF StrayInv, WatchInv, Watches
  <2>6. LeftInv'
    <3>1. CASE s \in Armed
      <4>1. Left' \subseteq Left
        BY <1>3, <2>2, <2>4, <3>1, Zenon DEF Left
      <4> QED BY <1>1, <2>3, <4>1, LeftShrinks, Zenon DEF StrayInv
    <3>2. CASE s \notin Armed
      <4>1. Left = {} /\ raced.slots
        BY <1>3, <3>2, Zenon DEF StrayInv, LeftInv
      <4>2. Left' \subseteq {s}
        BY <1>3, <2>2, <2>4, <4>1, Zenon DEF Left
      <4> QED BY <1>1, <2>3, <4>1, <4>2, Zenon DEF LeftInv
    <3> QED BY <3>1, <3>2, Zenon
  <2>7. ResetInv'
    <3> SUFFICES ASSUME ctl = "reset_zero"
                 PROVE  raced'.slots /\ \A i \in Slots : Away(i)' => i = s
      BY <1>1, <2>3, Zenon DEF ResetInv
    <3>1. raced.slots /\ \A i \in Slots : Away(i) => i = s
      BY <1>3, Zenon DEF StrayInv, ResetInv
    <3> QED BY <1>1, <2>4, <3>1, Zenon
  <2>8. GoneInv'
    BY <1>1, <1>3, Zenon DEF StrayInv, GoneInv
  <2> QED BY <2>5, <2>6, <2>7, <2>8, Zenon DEF StrayInv
<1> QED BY <1>4, <1>5, Zenon

LEMMA StrayClear ==
    ASSUME IInv, StrayInv, rd_wp_clear
    PROVE  StrayInv'
<1> DEFINE s == loc.slot
<1>1. /\ at = "wp_clear" /\ at' = "idle_flag" /\ UNCHANGED <<loc, ctl, active, raced, hw>>
      /\ s \in Slots
      /\ IF loc.slot \in Armed THEN rd_clear_slot_metadata(loc.slot)
                               ELSE UNCHANGED <<slot, dwarf>>
  BY Zenon DEF rd_wp_clear, IInv, TypeOK, LocalsType, windowVars, perfVars, ghostVars
<1>2. Armed' = Armed \ {s} /\ \A j \in Slots \ {s} : slot'[j] = slot[j]
  <2>1. CASE s \in Armed
    BY <1>1, <2>1, ClearStep, Zenon
  <2>2. CASE s \notin Armed
    BY <1>1, <2>2, Zenon DEF Armed
  <2> QED BY <2>1, <2>2, Zenon
<1>3. /\ ~BpWork' /\ InHandler /\ InHandler' /\ Armed \subseteq Slots
      /\ \A i \in Slots : (WorkOn(i) <=> i = s) /\ (WorkOn(i)' <=> i = s)
  BY <1>1, Zenon DEF WorkOn, BpWork, WpWork, IdleWork, InHandler, HandlerSteps, Armed
<1>4. \A i \in Slots : Away(i)' = Away(i)
  BY <1>1, Zenon DEF Away
<1>5. Left' \subseteq Left
  BY <1>2, <1>3, <1>4, Zenon DEF Left
<1>6. WatchInv'
  BY <1>1, <1>2, <1>3, Zenon DEF StrayInv, WatchInv, Watches
<1>7. LeftInv'
  BY <1>1, <1>3, <1>5, LeftShrinks, Zenon DEF StrayInv
<1>8. ResetInv'
  BY <1>1, <1>3, <1>4, ResetKept, Zenon DEF StrayInv
<1>9. GoneInv'
  BY <1>1, <1>3, Zenon DEF StrayInv, GoneInv
<1> QED BY <1>6, <1>7, <1>8, <1>9, Zenon DEF StrayInv

LEMMA StrayIdle ==
    ASSUME IInv, HandInv, StrayInv, rd_modify_slot_idle
    PROVE  StrayInv'
<1>1. /\ at = "idle_modify" /\ at' = "mem" /\ UNCHANGED <<ctl, active, raced, slot>>
      /\ loc.slot \in Slots
      /\ modify_user_hw_breakpoint(loc.slot, Idle)
  BY Zenon DEF rd_modify_slot_idle, IInv, TypeOK, LocalsType, windowVars, ghostVars
<1> PICK s \in Slots : s = loc.slot
  BY <1>1, Zenon
<1>2. \A j \in Slots \ {s} : hw'[j] = hw[j]
  BY <1>1, HwModify, Zenon
<1>3. hw'[s].addr = Idle
  BY <1>1, HwModify, ConstantsAssumption, Zenon
<1>4. /\ ~BpWork' /\ InHandler /\ ~InHandler' /\ Armed \subseteq Slots /\ Armed' = Armed
      /\ \A i \in Slots : (WorkOn(i) <=> i = s) /\ ~WorkOn(i)'
  BY <1>1, Zenon DEF WorkOn, BpWork, WpWork, IdleWork, InHandler, HandlerSteps, Armed
<1>5. ~Away(s)' /\ \A i \in Slots \ {s} : Away(i)' = Away(i)
  BY <1>2, <1>3, Zenon DEF Away
<1>6. s \notin Armed
  BY <1>1, Zenon DEF HandInv, IdleWork
<1>7. Left' \subseteq Left
  BY <1>4, <1>5, Zenon DEF Left
<1>8. WatchInv'
  BY <1>1, <1>2, <1>4, <1>6, Zenon DEF StrayInv, WatchInv, Watches
<1>9. LeftInv'
  BY <1>1, <1>4, <1>7, LeftShrinks, Zenon DEF StrayInv
<1>10. ResetInv'
  BY <1>1, <1>4, <1>5, ResetKept, Zenon DEF StrayInv
<1>11. GoneInv'
  BY <1>1, <1>4, Zenon DEF StrayInv, GoneInv
<1> QED BY <1>8, <1>9, <1>10, <1>11, Zenon DEF StrayInv

LEMMA StrayStutter == IInv /\ StrayInv /\ UNCHANGED vars => StrayInv'
<1> SUFFICES ASSUME IInv, StrayInv, UNCHANGED vars PROVE StrayInv'
  BY Zenon
<1>1. UNCHANGED <<hw, slot, ctl, active, raced, at, loc>>
  BY Zenon DEF vars, perfVars, threadVars, windowVars, ghostVars
<1>2. /\ InHandler' = InHandler /\ BpWork' = BpWork
      /\ \A i \in Slots : WorkOn(i)' = WorkOn(i)
  BY <1>1, WorkingSame, Zenon
<1>3. Armed' = Armed /\ \A i \in Slots : Away(i)' = Away(i)
  BY <1>1, Zenon DEF Armed, Away
<1>4. Left' = Left
  BY <1>2, <1>3, Zenon DEF Left
<1>5. WatchInv' /\ LeftInv'
  BY <1>1, <1>2, <1>3, <1>4, SameWatchInv, LeftShrinks, Zenon DEF StrayInv
<1>6. ResetInv' /\ GoneInv'
  BY <1>1, <1>2, <1>3, Zenon DEF StrayInv, ResetInv, GoneInv
<1> QED BY <1>5, <1>6, Zenon DEF StrayInv

(***************************************************************************)
(* For any number of slots, and also when modify_user_hw_breakpoint        *)
(* refuses an address: the hardware watches the seed of an armed slot and  *)
(* the scratch address for an idle one.  A RESET that meets a handler can  *)
(* leave one idle slot with another address, and never two.                *)
(***************************************************************************)
THEOREM HardwareFollowsSlots == Spec => []WatchesMatch
<1>1. Init => StrayInv
  <2> SUFFICES ASSUME Init PROVE StrayInv
    BY Zenon
  <2>1. /\ Armed = {} /\ \A i \in Slots : ~Away(i)
        /\ ~BpWork /\ active /\ ctl = "none"
    BY Zenon DEF Init, Armed, IdleSlot, Away, BpWork
  <2>2. Left = {}
    BY <2>1, Zenon DEF Left
  <2> QED BY <2>1, <2>2, Zenon DEF StrayInv, WatchInv, ResetInv, LeftInv, GoneInv
<1>2. IInv /\ HandInv /\ CtlInv /\ RacedOK /\ StrayInv /\ [Next]_vars => StrayInv'
  <2> SUFFICES ASSUME IInv, HandInv, CtlInv, RacedOK, StrayInv, Next PROVE StrayInv'
    BY StrayStutter, Zenon
  <2>1. CASE IoctlStep
    BY <2>1, StrayReset, StrayOther, Zenon
  <2>2. CASE ThreadStep
    BY <2>2, StrayInstruction, StrayAccept, StrayReport, StrayWithin, StrayModify, StrayClear,
       StrayIdle, Zenon DEF ThreadStep
  <2> QED BY <2>1, <2>2, StrayStutter, Zenon DEF Next, Quiet
<1>3. StrayInv => WatchesMatch
  <2> SUFFICES ASSUME StrayInv PROVE WatchesMatch
    BY Zenon
  <2>1. \A i \in Slots : WorkOn(i) => AtWork(i)
    BY WorkersHandle, Zenon DEF WorkOn, AtWork
  <2>2. Strays \subseteq Left
    BY <2>1, Zenon DEF Strays, Left, Away
  <2>3. \A i, j \in Left : i = j
    BY Zenon DEF StrayInv, LeftInv
  <2>4. Left # {} => raced.slots
    BY Zenon DEF StrayInv, LeftInv
  <2>5. ctl # "reset_zero" => \A i \in Armed : AtWork(i) \/ hw[i].addr = slot[i].seed_va
    BY <2>1, Zenon DEF StrayInv, WatchInv, Watches, Armed
  <2>6. \A i, j \in Strays : i = j
    BY <2>2, <2>3, Zenon
  <2>7. Strays # {} => raced.slots
    BY <2>2, <2>4, Zenon
  <2> QED BY <2>5, <2>6, <2>7, Zenon DEF WatchesMatch
<1> QED BY HandInductive, CtlInductive, RacedInductive, <1>1, <1>2, <1>3, PTL DEF Spec

-----------------------------------------------------------------------------
(***************************************************************************)
(* The reuse distance.  While the window of a seed stays open, its slot is *)
(* in one of two phases: the seed's own access is still ahead and the      *)
(* first hit will be skipped, or it has happened, every access since then  *)
(* was counted, and none of them went to the seed address unseen.          *)
(***************************************************************************)
Arming(i) == BpWork /\ loc.slot = i
Hitting(i) == WpWork /\ loc.slot = i

SeedAhead(i) ==
    /\ seen[i].touched = 0 /\ seen[i].between = 0
    /\ at # "user" /\ loc.va = slot[i].seed_va /\ mem = slot[i].seed_access
    /\ slot[i].skip_first_hit <=> i \in todo
    /\ ~Hitting(i)

SeedPassed(i) ==
    /\ seen[i].touched = 1 /\ ~slot[i].skip_first_hit
    /\ mem = slot[i].seed_access + 1 + seen[i].between
    /\ Hitting(i) => loc.va = slot[i].seed_va
    /\ at # "user" /\ loc.va = slot[i].seed_va => Hitting(i) \/ i \in todo

Reuse(i) ==
    /\ running /\ active /\ mem_on
    /\ Arming(i) => slot[i].skip_first_hit /\ (at = "bp_modify" => loc.enable)
    /\ Arming(i) \/ (hw[i].on /\ hw[i].addr = slot[i].seed_va)
    /\ SeedAhead(i) \/ SeedPassed(i)

ReuseInv == \A i \in Armed : seen[i].whole => Reuse(i)

\* A step inside an instruction that concerns another slot, or goes on with
\* the handler of this one.
LEMMA ReuseKept ==
    ASSUME NEW i \in Slots, Reuse(i),
           slot'[i] = slot[i], seen'[i] = seen[i], hw'[i] = hw[i],
           UNCHANGED <<running, active, mem_on, mem>>, loc'.va = loc.va,
           at # "user", at' # "user", i \in todo' <=> i \in todo,
           Hitting(i)' <=> Hitting(i), Arming(i)' <=> Arming(i),
           Arming(i) /\ at' = "bp_modify" => loc'.enable
    PROVE  Reuse(i)'
<1>1. SeedAhead(i) => SeedAhead(i)'
  BY Zenon DEF SeedAhead
<1>2. SeedPassed(i) => SeedPassed(i)'
  BY Zenon DEF SeedPassed
<1> QED BY <1>1, <1>2, Zenon DEF Reuse

LEMMA ReuseIoctl == IInv /\ HandInv /\ CtlInv /\ ReuseInv /\ IoctlStep => ReuseInv'
<1> SUFFICES ASSUME IInv, HandInv, CtlInv, ReuseInv, IoctlStep,
                    NEW i \in Armed', seen'[i].whole
             PROVE  Reuse(i)'
  BY Zenon DEF ReuseInv
<1> USE DEF perfVars, threadVars, ghostVars
<1>1. i \in Slots /\ hw \in [Slots -> HwType] /\ seen \in [Slots -> SeenType]
  BY Zenon DEF Armed, HandInv
<1>2. ~(rd_reset_thread_locked \/ rd_detach_count)
  BY ArmedEmpty, Zenon DEF rd_reset_thread_locked, rd_detach_count
<1>3. ~(rd_stop_window \/ rd_detach_mark)
  <2>1. Interrupt => seen'[i].whole = FALSE
    BY <1>1, Zenon DEF Interrupt, SeenType
  <2> QED BY <2>1, Zenon DEF rd_stop_window, rd_detach_mark
<1>4. UNCHANGED <<slot, seen, mem, at, loc, todo>>
  BY <1>2, <1>3, Zenon DEF IoctlStep, rd_start_window, rd_enable_mem, rd_enable_bps, rd_enable_wps,
     rd_disable_wps, rd_disable_bps, rd_disable_mem, rd_reset_session_locked, rd_reset_slots
<1>5. Reuse(i) /\ running
  <2>1. i \in Armed
    BY <1>4, Zenon DEF Armed
  <2> QED BY <1>4, <2>1, Zenon DEF ReuseInv, Reuse
<1>6. ~(rd_disable_wps \/ rd_disable_bps \/ rd_disable_mem \/ rd_reset_session_locked
        \/ rd_reset_slots)
  BY <1>5, Zenon DEF CtlInv, Closing, NextStep, rd_disable_wps, rd_disable_bps, rd_disable_mem,
     rd_reset_session_locked, rd_reset_slots
<1>7. (SeedAhead(i) => SeedAhead(i)') /\ (SeedPassed(i) => SeedPassed(i)')
  BY <1>4, Zenon DEF SeedAhead, SeedPassed, Hitting, WpWork
<1>8. running' /\ active' /\ mem_on' /\ hw'[i].addr = hw[i].addr /\ (hw[i].on => hw'[i].on)
  <2>1. CASE rd_start_window
    BY <1>5, <2>1, Zenon DEF rd_start_window, Reuse
  <2>2. CASE rd_enable_mem \/ rd_enable_bps
    BY <1>5, <2>2, Zenon DEF rd_enable_mem, rd_enable_bps, NextStep, Reuse
  <2>3. CASE rd_enable_wps
    <3>1. hw'[i] = [hw[i] EXCEPT !.on = TRUE] /\ hw[i] \in HwType
      BY <1>1, <2>3, Zenon DEF rd_enable_wps
    <3>2. hw'[i].addr = hw[i].addr /\ hw'[i].on = TRUE
      BY <3>1, Zenon DEF HwType
    <3> QED BY <1>5, <2>3, <3>2, Zenon DEF rd_enable_wps, NextStep, Reuse
  <2> QED BY <1>2, <1>3, <1>6, <2>1, <2>2, <2>3, Zenon DEF IoctlStep
<1> QED BY <1>4, <1>5, <1>7, <1>8, Zenon DEF Reuse, Arming, BpWork

LEMMA ReuseBegin ==
    ASSUME IInv, ReuseInv, NEW p \in Targets \cup OtherPcs, NEW va \in Vas,
           Execute(p, va) \/ rd_perf_event_overflow_pre(p, va)
    PROVE  ReuseInv'
<1> SUFFICES ASSUME NEW i \in Armed', seen'[i].whole PROVE Reuse(i)'
  BY Zenon DEF ReuseInv
<1>1. /\ at = "user" /\ at' \in {"mem", "bp"} /\ todo' = Slots
      /\ UNCHANGED <<running, active, mem_on, hw, slot, seen, mem>>
  BY Zenon DEF Execute, rd_perf_event_overflow_pre, Begin, windowVars, perfVars
<1>2. i \in Armed /\ i \in Slots /\ Reuse(i)
  BY <1>1, Zenon DEF ReuseInv, Armed
<1>3. /\ ~Arming(i) /\ ~Arming(i)' /\ ~Hitting(i)'
  BY <1>1, Zenon DEF Arming, Hitting, BpWork, WpWork
<1>4. SeedPassed(i)'
  BY <1>1, <1>2, <1>3, Zenon DEF Reuse, SeedAhead, SeedPassed
<1> QED BY <1>1, <1>2, <1>3, <1>4, Zenon DEF Reuse

LEMMA ReuseRetire == IInv /\ HandInv /\ ReuseInv /\ Retire => ReuseInv'
<1> SUFFICES ASSUME IInv, HandInv, ReuseInv, Retire, NEW i \in Armed', seen'[i].whole
             PROVE  Reuse(i)'
  BY Zenon DEF ReuseInv
<1>1. /\ at = "mem" /\ at' = "user"
      /\ UNCHANGED <<running, active, mem_on, hw, slot>>
      /\ mem' = IF mem_on THEN mem + 1 ELSE mem
  BY Zenon DEF Retire, windowVars, perfVars
<1>2. i \in Armed /\ i \in Slots
  BY <1>1, Zenon DEF Armed
<1>3. Reuse(i)
  BY <1>2, RetireStep, Zenon DEF ReuseInv
<1>4. ~Arming(i) /\ ~Arming(i)' /\ ~Hitting(i) /\ ~Hitting(i)'
  BY <1>1, Zenon DEF Arming, Hitting, BpWork, WpWork
<1>5. hw[i].on /\ hw[i].addr = slot[i].seed_va /\ mem' = mem + 1
  BY <1>1, <1>3, <1>4, Zenon DEF Reuse
<1>6. i \in todo => slot[i].seed_va # loc.va
  BY <1>5, Zenon DEF Retire
<1>7. SeedPassed(i)'
  <2>1. /\ slot[i].seed_access \in Nat /\ mem \in Nat
        /\ seen[i].touched \in Nat /\ seen[i].between \in Nat
    BY <1>2, Zenon DEF IInv, TypeOK, SlotType, HandInv, SeenType
  <2>2. /\ seen'[i].touched = IF slot[i].seed_va = loc.va THEN seen[i].touched + 1
                                                         ELSE seen[i].touched
        /\ seen'[i].between = IF seen[i].touched = 0 THEN seen[i].between
                                                     ELSE seen[i].between + 1
    BY <1>2, RetireStep, Zenon
  <2>3. ASSUME seen'[i].touched = 1, ~slot[i].skip_first_hit,
               mem + 1 = slot[i].seed_access + 1 + seen'[i].between
        PROVE  SeedPassed(i)'
    <3>1. mem' = slot'[i].seed_access + 1 + seen'[i].between /\ ~slot'[i].skip_first_hit
      BY <1>1, <1>5, <2>3, Zenon
    <3> QED BY <1>1, <1>4, <2>3, <3>1, Zenon DEF SeedPassed
  <2>4. CASE SeedAhead(i)
    <3>1. /\ seen[i].touched = 0 /\ seen[i].between = 0 /\ slot[i].seed_va = loc.va
          /\ ~slot[i].skip_first_hit /\ mem = slot[i].seed_access
      BY <1>6, <2>4, Zenon DEF SeedAhead
    <3>2. seen'[i].touched = 1 /\ seen'[i].between = 0
      BY <2>2, <3>1
    <3>3. mem + 1 = slot[i].seed_access + 1 + seen'[i].between
      BY <2>1, <3>1, <3>2
    <3> QED BY <2>3, <3>1, <3>2, <3>3, Zenon
  <2>5. CASE SeedPassed(i)
    <3>1. /\ seen[i].touched = 1 /\ ~slot[i].skip_first_hit
          /\ mem = slot[i].seed_access + 1 + seen[i].between
      BY <2>5, Zenon DEF SeedPassed
    <3>2. slot[i].seed_va # loc.va
      BY <1>1, <1>4, <1>6, <2>5, Zenon DEF SeedPassed
    <3>3. seen'[i].touched = 1 /\ seen'[i].between = seen[i].between + 1
      BY <2>2, <3>1, <3>2
    <3>4. mem + 1 = slot[i].seed_access + 1 + seen'[i].between
      BY <2>1, <3>1, <3>3
    <3> QED BY <2>3, <3>1, <3>3, <3>4, Zenon
  <2> QED BY <1>3, <2>4, <2>5, Zenon DEF Reuse
<1> QED BY <1>1, <1>3, <1>4, <1>5, <1>7, Zenon DEF Reuse

LEMMA ReuseAccept ==
    ASSUME IInv, HandInv, CtlInv, ReuseInv, NEW chain \in Chains, rd_bp_accept(chain)
    PROVE  ReuseInv'
<1> SUFFICES ASSUME NEW i \in Armed', seen'[i].whole PROVE Reuse(i)'
  BY Zenon DEF ReuseInv
<1>1. PICK pick \in Slots, id \in ContextId(chain) :
      /\ at = "bp"
      /\ slot'[pick] = ArmedSlot(id) /\ \A j \in Slots \ {pick} : slot'[j] = slot[j]
      /\ Armed' = Armed \cup {pick}
      /\ at' = IF callchain_mode = "DWARF" THEN "bp_snap" ELSE "bp_flag"
      /\ loc'.slot = pick /\ loc'.va = loc.va
      /\ seen' = [seen EXCEPT ![pick] = [Unseen EXCEPT !.whole = ~cut]]
      /\ UNCHANGED <<windowVars, perfVars, mem, todo>>
  BY AcceptStep, Zenon
<1>2. i \in Slots /\ seen \in [Slots -> SeenType]
  BY Zenon DEF Armed, HandInv
<1>3. at' \in {"bp_snap", "bp_flag"} /\ ~Hitting(i) /\ ~Hitting(i)'
  BY <1>1, Zenon DEF Hitting, WpWork
<1>4. UNCHANGED <<running, active, mem_on, hw>>
  BY <1>1, Zenon DEF windowVars, perfVars
<1>5. CASE i = pick
  <2>1. /\ seen'[i].touched = 0 /\ seen'[i].between = 0 /\ seen'[i].whole = ~cut
    BY <1>1, <1>2, <1>5, Zenon DEF Unseen
  <2>2. running /\ active /\ mem_on /\ todo = Slots
    BY <1>1, <2>1, Zenon DEF CtlInv
  <2>3. /\ slot'[i].seed_va = loc.va /\ slot'[i].seed_access = mem
        /\ slot'[i].skip_first_hit = TRUE
    BY <1>1, <1>5 DEF ArmedSlot
  <2>4. SeedAhead(i)'
    BY <1>1, <1>2, <1>3, <2>1, <2>2, <2>3, Zenon DEF SeedAhead
  <2>5. Arming(i)'
    BY <1>1, <1>3, <1>5, Zenon DEF Arming, BpWork
  <2> QED BY <1>3, <1>4, <2>2, <2>3, <2>4, <2>5, Zenon DEF Reuse
<1>6. CASE i # pick
  <2>1. slot'[i] = slot[i] /\ seen'[i] = seen[i] /\ i \in Armed
    BY <1>1, <1>2, <1>6, Zenon
  <2>2. ~Arming(i) /\ ~Arming(i)'
    BY <1>1, <1>6, Zenon DEF Arming, BpWork
  <2>3. Reuse(i)
    BY <2>1, Zenon DEF ReuseInv
  <2> QED BY <1>1, <1>2, <1>3, <1>4, <2>1, <2>2, <2>3, ReuseKept, Zenon
<1> QED BY <1>5, <1>6, Zenon

LEMMA ReuseReport ==
    ASSUME IInv, HandInv, ReuseInv, NEW j \in Slots, rd_watchpoint_report_pre(j)
    PROVE  ReuseInv'
<1> SUFFICES ASSUME NEW i \in Armed', seen'[i].whole PROVE Reuse(i)'
  BY Zenon DEF ReuseInv
<1>1. /\ at = "mem" /\ j \in todo /\ todo' = todo \ {j}
      /\ UNCHANGED <<running, active, mem_on, hw, mem, seen>>
      /\ hw[j].on /\ hw[j].addr = loc.va
  BY ReportStep, Zenon DEF windowVars, perfVars, ghostVars
<1>2. Reuse(i) /\ i \in Armed /\ i \in Slots
  BY <1>1, ReportStep, Zenon DEF ReuseInv, Armed
<1>3. loc'.va = loc.va /\ at' \in {"mem", "wp_snap", "wp_record"}
  BY <1>1, ReportStep, Zenon
<1>4. ~Arming(i) /\ ~Arming(i)' /\ ~Hitting(i)
  BY <1>1, <1>3, Zenon DEF Arming, Hitting, BpWork, WpWork
<1>5. CASE i # j
  <2>1. slot'[i] = slot[i]
    BY <1>2, <1>5, ReportStep, Zenon
  <2>2. ~Hitting(i)'
    BY <1>1, <1>5, ReportStep, Zenon DEF Hitting, WpWork
  <2> QED BY <1>1, <1>2, <1>3, <1>4, <1>5, <2>1, <2>2, ReuseKept, Zenon
<1>6. CASE i = j
  <2>1. running /\ active /\ hw[i].addr = slot[i].seed_va /\ loc.va = slot[i].seed_va
    BY <1>1, <1>2, <1>4, <1>6, Zenon DEF Reuse
  <2>2. /\ slot'[i].seed_va = slot[i].seed_va /\ slot'[i].seed_access = slot[i].seed_access
    BY <1>6, ReportStep, Zenon
  <2>3. CASE slot[i].skip_first_hit
    <3>1. slot'[i].skip_first_hit = FALSE /\ UNCHANGED <<at, loc>>
      BY <1>2, <1>6, <2>1, <2>3, ReportStep, Zenon
    <3>2. SeedAhead(i)
      BY <1>2, <2>3, Zenon DEF Reuse, SeedPassed
    <3>3. ~Hitting(i)'
      BY <1>1, <3>1, Zenon DEF Hitting, WpWork
    <3>4. SeedAhead(i)'
      BY <1>1, <1>6, <2>2, <3>1, <3>2, <3>3, Zenon DEF SeedAhead
    <3> QED BY <1>1, <1>2, <1>4, <2>2, <3>4, Zenon DEF Reuse
  <2>4. CASE ~slot[i].skip_first_hit
    <3>1. /\ slot' = slot /\ loc'.slot = i
          /\ at' = IF callchain_mode = "DWARF" THEN "wp_snap" ELSE "wp_record"
      BY <1>2, <1>6, <2>1, <2>4, ReportStep, Zenon
    <3>2. SeedPassed(i)
      BY <1>1, <1>2, <1>6, <2>4, Zenon DEF Reuse, SeedAhead
    <3>3. Hitting(i)'
      BY <3>1, Zenon DEF Hitting, WpWork
    <3>4. SeedPassed(i)'
      BY <1>1, <1>3, <2>1, <3>1, <3>2, <3>3, Zenon DEF SeedPassed
    <3> QED BY <1>1, <1>2, <1>4, <3>1, <3>4, Zenon DEF Reuse
  <2> QED BY <2>3, <2>4, Zenon
<1> QED BY <1>5, <1>6, Zenon

LEMMA ReuseBpModify == IInv /\ HandInv /\ ReuseInv /\ rd_bp_modify => ReuseInv'
<1> SUFFICES ASSUME IInv, HandInv, ReuseInv, rd_bp_modify, NEW i \in Armed', seen'[i].whole
             PROVE  Reuse(i)'
  BY Zenon DEF ReuseInv
<1>1. /\ at = "bp_modify" /\ loc.slot \in Slots /\ loc.va \in Vas
      /\ UNCHANGED <<running, active, mem_on, mem, seen, todo>>
      /\ modify_user_hw_breakpoint(loc.slot, loc.va)
  BY Zenon DEF rd_bp_modify, windowVars, IInv, TypeOK, LocalsInv, LocalsType
<1>2. /\ \A j \in Slots \ {loc.slot} : hw'[j] = hw[j]
      /\ loc.va \notin BadVas => hw'[loc.slot].addr = loc.va /\ hw'[loc.slot].on = loc.enable
  BY <1>1, HwModify, Zenon
<1>3. at' \in {"mem", "idle_flag"} /\ loc'.va = loc.va
  <2>1. CASE loc.va \in BadVas
    BY <2>1, Zenon DEF rd_bp_modify
  <2>2. CASE loc.va \notin BadVas
    <3>1. at' = "mem" /\ loc' = [NoLocals EXCEPT !.pc = loc.pc, !.va = loc.va]
      BY <2>2, Zenon DEF rd_bp_modify
    <3> QED BY <3>1, LocalsKept, Zenon
  <2> QED BY <2>1, <2>2, Zenon
<1>4. ~Arming(i)' /\ ~Hitting(i)' /\ ~Hitting(i) /\ i \in Slots
  BY <1>1, <1>3, Zenon DEF Arming, Hitting, BpWork, WpWork, Armed
<1>5. CASE loc.va \in BadVas
  <2>1. rd_clear_slot_metadata(loc.slot)
    BY <1>5, Zenon DEF rd_bp_modify
  <2>2. i # loc.slot /\ i \in Armed /\ slot'[i] = slot[i]
    BY <1>1, <1>4, <2>1, ClearStep, Zenon
  <2>3. ~Arming(i) /\ Reuse(i)
    BY <1>1, <2>2, Zenon DEF Arming, ReuseInv
  <2> QED BY <1>1, <1>2, <1>3, <1>4, <2>2, <2>3, ReuseKept, Zenon
<1>6. CASE loc.va \notin BadVas
  <2>1. slot' = slot
    BY <1>6, Zenon DEF rd_bp_modify
  <2>2. i \in Armed /\ Reuse(i)
    BY <1>1, <2>1, Zenon DEF Armed, ReuseInv
  <2>3. CASE i # loc.slot
    <3>1. ~Arming(i)
      BY <2>3, Zenon DEF Arming
    <3> QED BY <1>1, <1>2, <1>3, <1>4, <2>1, <2>2, <2>3, <3>1, ReuseKept, Zenon
  <2>4. CASE i = loc.slot
    <3>1. Arming(i)
      BY <1>1, <2>4, Zenon DEF Arming, BpWork
    <3>2. slot[i].skip_first_hit /\ loc.enable
      BY <1>1, <2>2, <3>1, Zenon DEF Reuse
    <3>3. slot[i].seed_va = loc.va
      BY <1>1, <2>2, <2>4, Zenon DEF HandInv, BpWork
    <3>4. hw'[i].on /\ hw'[i].addr = slot'[i].seed_va
      BY <1>2, <1>6, <2>1, <2>4, <3>2, <3>3, Zenon
    <3>5. SeedAhead(i)
      BY <2>2, <3>2, Zenon DEF Reuse, SeedPassed
    <3>6. SeedAhead(i)'
      BY <1>1, <1>3, <1>4, <2>1, <3>5, Zenon DEF SeedAhead
    <3> QED BY <1>1, <1>4, <2>2, <3>4, <3>6, Zenon DEF Reuse
  <2> QED BY <2>3, <2>4, Zenon
<1> QED BY <1>5, <1>6, Zenon

LEMMA ReuseWpClear == IInv /\ HandInv /\ ReuseInv /\ rd_wp_clear => ReuseInv'
<1> SUFFICES ASSUME IInv, HandInv, ReuseInv, rd_wp_clear, NEW i \in Armed', seen'[i].whole
             PROVE  Reuse(i)'
  BY Zenon DEF ReuseInv
<1>1. /\ at = "wp_clear" /\ at' = "idle_flag" /\ loc' = loc /\ loc.slot \in Slots
      /\ UNCHANGED <<running, active, mem_on, hw, mem, seen, todo>>
      /\ IF loc.slot \in Armed THEN rd_clear_slot_metadata(loc.slot)
                               ELSE UNCHANGED <<slot, dwarf>>
  BY Zenon DEF rd_wp_clear, perfVars, windowVars, ghostVars, IInv, TypeOK, LocalsType
<1>2. i \in Slots /\ i \in Armed /\ i # loc.slot /\ slot'[i] = slot[i]
  <2>1. CASE loc.slot \in Armed
    BY <1>1, <2>1, ClearStep DEF Armed
  <2>2. CASE loc.slot \notin Armed
    BY <1>1, <2>2, Zenon DEF Armed
  <2> QED BY <2>1, <2>2, Zenon
<1>3. Reuse(i) /\ ~Arming(i) /\ ~Hitting(i) /\ ~Arming(i)' /\ ~Hitting(i)'
  BY <1>1, <1>2, Zenon DEF Arming, Hitting, ReuseInv
<1> QED BY <1>1, <1>2, <1>3, ReuseKept, Zenon

\* The other steps of the handlers change no slot.
LEMMA ReuseHandler ==
    ASSUME IInv, HandInv, ReuseInv,
           \/ rd_bp_snapshot \/ rd_wp_snapshot \/ rd_wp_fill \/ rd_wp_publish
           \/ \E chain \in Chains : rd_wp_record(chain)
           \/ rd_modify_flag("bp_flag", "bp_modify")
           \/ rd_modify_flag("idle_flag", "idle_modify")
           \/ rd_modify_slot_idle
    PROVE  ReuseInv'
<1> SUFFICES ASSUME NEW i \in Armed', seen'[i].whole PROVE Reuse(i)'
  BY Zenon DEF ReuseInv
<1> USE DEF perfVars, windowVars, ghostVars
<1>1. loc \in LocalsType /\ loc.slot \in Slots
  BY Zenon DEF IInv, TypeOK, LocalsType
<1>2. UNCHANGED <<running, active, mem_on, slot, mem, seen, todo>>
  BY Zenon DEF rd_bp_snapshot, rd_wp_snapshot, rd_wp_fill, rd_wp_publish, rd_wp_record,
         rd_modify_flag, rd_modify_slot_idle
<1>3. i \in Slots /\ i \in Armed /\ Reuse(i)
  BY <1>2, Zenon DEF Armed, ReuseInv
<1>4. CASE rd_bp_snapshot \/ rd_modify_flag("bp_flag", "bp_modify")
  <2>1. /\ at \in {"bp_snap", "bp_flag"} /\ at' \in {"bp_flag", "bp_modify"} /\ hw' = hw
        /\ at' = "bp_modify" => loc' = [loc EXCEPT !.enable = running /\ active]
        /\ at' # "bp_modify" => loc' = loc
    BY <1>4, Zenon DEF rd_bp_snapshot, rd_modify_flag
  <2>2. loc'.va = loc.va /\ loc'.slot = loc.slot
    BY <1>1, <2>1, Zenon DEF LocalsType
  <2>3. at' = "bp_modify" => loc'.enable
    <3>1. at' = "bp_modify" => loc'.enable = (running /\ active)
      BY <1>1, <2>1, Zenon DEF LocalsType
    <3> QED BY <1>3, <3>1, Zenon DEF Reuse
  <2>4. (Arming(i)' <=> Arming(i)) /\ (Hitting(i)' <=> Hitting(i))
    BY <2>1, <2>2, Zenon DEF Arming, Hitting, BpWork, WpWork
  <2> QED BY <1>2, <1>3, <2>1, <2>2, <2>3, <2>4, ReuseKept, Zenon
<1>5. CASE rd_wp_snapshot \/ rd_wp_fill \/ rd_wp_publish
           \/ \E chain \in Chains : rd_wp_record(chain)
  <2>1. /\ at \in {"wp_snap", "wp_record", "wp_fill", "wp_publish"} /\ hw' = hw
        /\ at' \in {"wp_record", "wp_fill", "wp_publish", "wp_clear"}
        /\ \/ loc' = loc
           \/ loc' = [loc EXCEPT !.index = IF CanReserve THEN dwarf.used + 1 ELSE 0]
    BY <1>5, Zenon DEF rd_wp_snapshot, rd_wp_fill, rd_wp_publish, rd_wp_record
  <2>2. loc'.va = loc.va /\ loc'.slot = loc.slot
    BY <1>1, <2>1, Zenon DEF LocalsType
  <2>3. (Arming(i)' <=> Arming(i)) /\ (Hitting(i)' <=> Hitting(i)) /\ ~Arming(i)
    BY <2>1, <2>2, Zenon DEF Arming, Hitting, BpWork, WpWork
  <2> QED BY <1>2, <1>3, <2>1, <2>2, <2>3, ReuseKept, Zenon
<1>6. CASE rd_modify_flag("idle_flag", "idle_modify") \/ rd_modify_slot_idle
  <2>1. /\ at \in {"idle_flag", "idle_modify"} /\ at' \in {"idle_modify", "mem"}
        /\ \/ hw' = hw /\ loc' = [loc EXCEPT !.enable = running /\ active]
           \/ /\ modify_user_hw_breakpoint(loc.slot, Idle)
              /\ loc' = [NoLocals EXCEPT !.pc = loc.pc, !.va = loc.va]
    BY <1>6, Zenon DEF rd_modify_flag, rd_modify_slot_idle
  <2>2. i # loc.slot
    BY <1>3, <2>1, Zenon DEF HandInv, IdleWork
  <2>3. hw'[i] = hw[i]
    BY <1>3, <2>1, <2>2, HwModify, Zenon
  <2>4. loc'.va = loc.va
    BY <1>1, <2>1, LocalsKept, Zenon DEF LocalsType
  <2>5. ~Arming(i) /\ ~Arming(i)' /\ ~Hitting(i) /\ ~Hitting(i)'
    BY <2>1, Zenon DEF Arming, Hitting, BpWork, WpWork
  <2> QED BY <1>2, <1>3, <2>1, <2>3, <2>4, <2>5, ReuseKept, Zenon
<1> QED BY <1>4, <1>5, <1>6, Zenon

LEMMA ReuseThread == IInv /\ HandInv /\ CtlInv /\ ReuseInv /\ ThreadStep => ReuseInv'
  BY ReuseBegin, ReuseRetire, ReuseAccept, ReuseReport, ReuseBpModify, ReuseWpClear,
     ReuseHandler, Zenon DEF ThreadStep

(***************************************************************************)
(* Within a window the recorded delta is the reuse distance, and no reuse  *)
(* is missed, for any number of slots and any program: the central claim   *)
(* of rd_handle_wp_hit.                                                    *)
(***************************************************************************)
THEOREM DeltaIsReuseDistance == Spec => []FirstReuse
<1>1. Init => ReuseInv
  BY DEF Init, ReuseInv, Armed, IdleSlot
<1>2. IInv /\ HandInv /\ CtlInv /\ ReuseInv /\ [Next]_vars => ReuseInv'
  <2>1. ReuseInv /\ UNCHANGED vars => ReuseInv'
    <3> SUFFICES ASSUME ReuseInv, UNCHANGED vars PROVE ReuseInv'
      BY Zenon
    <3>1. UNCHANGED <<running, active, mem_on, hw, slot, mem, at, loc, todo, seen>>
      BY Zenon DEF vars, perfVars, threadVars, windowVars, ghostVars
    <3>2. Armed' = Armed
      BY <3>1, Zenon DEF Armed
    <3>3. ASSUME NEW i \in Armed, Reuse(i) PROVE Reuse(i)'
      <4>1. (Arming(i)' <=> Arming(i)) /\ (Hitting(i)' <=> Hitting(i))
        BY <3>1, Zenon DEF Arming, Hitting, BpWork, WpWork
      <4>2. SeedAhead(i) => SeedAhead(i)'
        BY <3>1, <4>1, Zenon DEF SeedAhead
      <4>3. SeedPassed(i) => SeedPassed(i)'
        BY <3>1, <4>1, Zenon DEF SeedPassed
      <4> QED BY <3>1, <3>3, <4>1, <4>2, <4>3, Zenon DEF Reuse
    <3> QED BY <3>1, <3>2, <3>3, Zenon DEF ReuseInv
  <2> QED BY <2>1, ReuseIoctl, ReuseThread, Zenon DEF Next, Quiet
<1>3. IInv /\ HandInv /\ ReuseInv => FirstReuse
  <2> SUFFICES ASSUME IInv, HandInv, ReuseInv, NEW i \in Armed, seen[i].whole
               PROVE  /\ seen[i].touched <= 1
                      /\ (at \in {"wp_snap", "wp_record"} /\ loc.slot = i) =>
                            /\ slot[i].seed_va = loc.va
                            /\ seen[i].touched = 1
                            /\ Delta = seen[i].between
    BY Zenon DEF FirstReuse
  <2>1. Reuse(i)
    BY Zenon DEF ReuseInv
  <2>2. seen[i].touched <= 1
    <3>1. seen[i].touched = 0 \/ seen[i].touched = 1
      BY <2>1, Zenon DEF Reuse, SeedAhead, SeedPassed
    <3> QED BY <3>1
  <2>3. ASSUME at \in {"wp_snap", "wp_record"}, loc.slot = i
        PROVE  slot[i].seed_va = loc.va /\ seen[i].touched = 1 /\ Delta = seen[i].between
    <3>1. Hitting(i) /\ loc.seed_access = slot[i].seed_access
      BY <2>3, Zenon DEF Hitting, WpWork, HandInv
    <3>2. SeedPassed(i)
      BY <2>1, <3>1, Zenon DEF Reuse, SeedAhead
    <3>3. i \in Slots /\ slot[i].seed_access \in Nat /\ mem \in Nat /\ seen[i].between \in Nat
      BY Zenon DEF IInv, TypeOK, SlotType, HandInv, SeenType, Armed
    <3>4. /\ seen[i].touched = 1 /\ slot[i].seed_va = loc.va
          /\ mem = slot[i].seed_access + 1 + seen[i].between
      BY <3>1, <3>2, Zenon DEF SeedPassed
    <3>5. Delta = seen[i].between
      BY <3>1, <3>3, <3>4 DEF Delta
    <3> QED BY <3>4, <3>5, Zenon
  <2> QED BY <2>2, <2>3, Zenon
<1> QED BY HandInductive, CtlInductive, <1>1, <1>2, <1>3, PTL DEF Spec

==============================================================================
