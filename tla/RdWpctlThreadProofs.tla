------------------------- MODULE RdWpctlThreadProofs -------------------------
(***************************************************************************)
(* Proofs about RdWpctlThread for every number of slots, targets,          *)
(* addresses and table sizes: the type invariant, the accounting of the    *)
(* seeds, the replacement policy, and at the end the facts about handlers  *)
(* that RdWpctlReuseProofs and RdWpctlTablesProofs share.                  *)
(***************************************************************************)
EXTENDS RdWpctlThread, FiniteSetTheorems, TLAPS

(***************************************************************************)
(* What the handler's locals are while it is at work.                      *)
(***************************************************************************)
LocalsInv ==
    /\ at # "user" => loc.va \in Vas
    /\ at \in {"bp", "bp_snap", "bp_flag", "bp_modify"} => loc.pc \in Targets
    /\ at \in {"wp_fill", "wp_publish"} => loc.index \in EventIds

\* Slot 0 never gets past the draw that replaces it with certainty.
FirstSlotInv == slot[0].samples = 1 /\ count.reservoir_rejected = 0

IInv == TypeOK /\ LocalsInv /\ FirstSlotInv /\ SeedsAccounted

-----------------------------------------------------------------------------
(***************************************************************************)
(* How many slots are armed.                                               *)
(***************************************************************************)

LEMMA ArmedFinite ==
    /\ IsFiniteSet(Armed)
    /\ Cardinality(Armed) \in Nat
<1>1. IsFiniteSet(Slots)
  BY FS_Interval, ConstantsAssumption DEF Slots
<1>2. Armed \subseteq Slots
  BY Zenon DEF Armed
<1> QED BY <1>1, <1>2, FS_Subset, FS_CardinalityType, Zenon

LEMMA ArmedJoin ==
    ASSUME NEW i \in Slots, i \notin Armed, Armed' = Armed \cup {i}
    PROVE  Cardinality(Armed') = Cardinality(Armed) + 1
  BY ArmedFinite, FS_AddElement, Zenon

LEMMA ArmedLeave ==
    ASSUME NEW i \in Armed, Armed' = Armed \ {i}
    PROVE  /\ Cardinality(Armed') = Cardinality(Armed) - 1
           /\ Cardinality(Armed') \in Nat
<1>1. Cardinality(Armed') = Cardinality(Armed) - 1
  BY ArmedFinite, FS_RemoveElement, Zenon
<1>2. IsFiniteSet(Armed')
  BY ArmedFinite, FS_RemoveElement, Zenon
<1> QED BY <1>1, <1>2, FS_CardinalityType, Zenon

LEMMA ArmedEmpty ==
    ASSUME slot' = [i \in Slots |-> IdleSlot]
    PROVE  Armed' = {} /\ Cardinality(Armed') = 0
<1>1. Armed' = {}
  BY Zenon DEF Armed, IdleSlot
<1> QED BY <1>1, FS_EmptySet, Zenon

LEMMA ZeroIsSlot == 0 \in Slots
  BY ConstantsAssumption DEF Slots

LEMMA IdleSlotTyped == IdleSlot \in SlotType
  BY DEF IdleSlot, SlotType

LEMMA NoLocalsTyped == NoLocals \in LocalsType
  BY ZeroIsSlot, Zenon DEF NoLocals, LocalsType, Pcs

LEMMA EmptyDwarfTyped == EmptyDwarf \in DwarfType
<1>1. FreeEvent \in [used : BOOLEAN, target : Pcs, reuse_pc : Pcs,
                     seed_snap : Pcs, reuse_snap : Pcs]
  BY Zenon DEF FreeEvent, Pcs
<1>2. [i \in EventIds |-> FreeEvent] \in
        [EventIds -> [used : BOOLEAN, target : Pcs, reuse_pc : Pcs,
                      seed_snap : Pcs, reuse_snap : Pcs]]
  BY <1>1, Zenon
<1>3. [i \in Slots |-> Idle] \in [Slots -> Pcs]
  BY Zenon DEF Pcs
<1> QED BY <1>2, <1>3, Zenon DEF EmptyDwarf, DwarfType

LEMMA NoCountTyped == NoCount \in CountType
  BY Zenon DEF NoCount, CountType

-----------------------------------------------------------------------------
LEMMA InitIInv == Init => IInv
<1> SUFFICES ASSUME Init PROVE IInv
  BY Zenon
<1>1. TypeOK
  <2>1. slot \in [Slots -> SlotType]
    BY IdleSlotTyped, Zenon DEF Init
  <2>2. loc \in LocalsType /\ dwarf \in DwarfType /\ count \in CountType
    BY NoLocalsTyped, EmptyDwarfTyped, NoCountTyped, Zenon DEF Init
  <2> QED BY <2>1, <2>2, Zenon DEF Init, TypeOK, IoctlSteps
<1>2. LocalsInv
  BY Zenon DEF Init, LocalsInv
<1>3. FirstSlotInv
  BY ZeroIsSlot, Zenon DEF Init, FirstSlotInv, IdleSlot, NoCount
<1>4. SeedsAccounted
  <2>1. Armed = {}
    BY Zenon DEF Init, Armed, IdleSlot
  <2>2. Cardinality(Armed) = 0
    BY <2>1, FS_EmptySet, Zenon
  <2>3. ~HitPending
    BY Zenon DEF Init, HitPending
  <2> QED BY <2>2, <2>3 DEF Init, SeedsAccounted, NoCount
<1> QED BY <1>1, <1>2, <1>3, <1>4, Zenon DEF IInv

(***************************************************************************)
(* Steps that change neither a slot nor a counter nor the handler: the     *)
(* window flags and the perf events only.                                  *)
(***************************************************************************)
LEMMA WindowIInv ==
    ASSUME IInv,
           UNCHANGED <<slot, mem, resultVars, threadVars, stale>>,
           running' \in BOOLEAN, active' \in BOOLEAN, ctl' \in IoctlSteps
    PROVE  IInv'
<1> USE DEF resultVars, threadVars
<1>1. Armed' = Armed
  BY Zenon DEF Armed
<1>2. TypeOK'
  BY Zenon DEF IInv, TypeOK
<1>3. LocalsInv' /\ FirstSlotInv'
  BY Zenon DEF IInv, LocalsInv, FirstSlotInv
<1>4. SeedsAccounted'
  BY <1>1, Zenon DEF IInv, SeedsAccounted, HitPending
<1> QED BY <1>2, <1>3, <1>4, Zenon DEF IInv

LEMMA ResetIInv == IInv /\ rd_reset_thread_locked => IInv'
<1> SUFFICES ASSUME IInv, rd_reset_thread_locked PROVE IInv'
  BY Zenon
<1> USE DEF rd_reset_thread_locked, NextStep, threadVars
<1>1. TypeOK'
  <2>1. slot' \in [Slots -> SlotType]
    BY IdleSlotTyped, Zenon
  <2>2. dwarf' \in DwarfType /\ count' \in CountType
    BY EmptyDwarfTyped, NoCountTyped, Zenon
  <2> QED BY <2>1, <2>2, Zenon DEF IInv, TypeOK, IoctlSteps
<1>2. LocalsInv'
  BY Zenon DEF IInv, LocalsInv
<1>3. FirstSlotInv'
  BY ZeroIsSlot, Zenon DEF FirstSlotInv, IdleSlot, NoCount
<1>4. SeedsAccounted'
  <2>1. Armed' = {} /\ Cardinality(Armed') = 0
    BY ArmedEmpty, Zenon
  <2>2. ~HitPending'
    BY <2>1, Zenon DEF HitPending
  <2> QED BY <2>1, <2>2 DEF SeedsAccounted, NoCount
<1> QED BY <1>1, <1>2, <1>3, <1>4, Zenon DEF IInv

LEMMA DetachIInv == IInv /\ rd_detach_count => IInv'
<1> SUFFICES ASSUME IInv, rd_detach_count PROVE IInv'
  BY Zenon
<1> USE DEF rd_detach_count, NextStep, threadVars, ghostVars
<1>1. count' \in CountType
  BY ArmedFinite DEF IInv, TypeOK, CountType
<1>2. TypeOK'
  <2>1. slot' \in [Slots -> SlotType]
    BY IdleSlotTyped, Zenon
  <2> QED BY <1>1, <2>1, Zenon DEF IInv, TypeOK, IoctlSteps
<1>3. LocalsInv'
  BY Zenon DEF IInv, LocalsInv
<1>4. FirstSlotInv'
  BY ZeroIsSlot, Zenon DEF IInv, TypeOK, CountType, FirstSlotInv, IdleSlot
<1>5. SeedsAccounted'
  <2>1. Armed' = {} /\ Cardinality(Armed') = 0
    BY ArmedEmpty, Zenon
  <2>2. ~HitPending /\ ~HitPending'
    BY Zenon DEF HitPending, InHandler, HandlerSteps
  <2> QED BY <2>1, <2>2, ArmedFinite DEF IInv, TypeOK, CountType, SeedsAccounted
<1> QED BY <1>2, <1>3, <1>4, <1>5, Zenon DEF IInv

-----------------------------------------------------------------------------
(***************************************************************************)
(* The steps of the profiled thread that leave slots and counters alone.   *)
(***************************************************************************)
LEMMA LocalStepIInv ==
    ASSUME IInv, UNCHANGED <<windowVars, slot, count, stale>>,
           mem' \in Nat, dwarf' \in DwarfType, loc' \in LocalsType,
           at' \in HandlerSteps \cup {"user", "mem"}, todo' \in SUBSET Slots,
           LocalsInv', HitPending' = HitPending
    PROVE  IInv'
<1>1. Armed' = Armed
  BY Zenon DEF Armed
<1>2. TypeOK'
  BY Zenon DEF IInv, TypeOK, windowVars
<1>3. FirstSlotInv'
  BY Zenon DEF IInv, FirstSlotInv
<1>4. SeedsAccounted'
  BY <1>1, Zenon DEF IInv, SeedsAccounted
<1> QED BY <1>2, <1>3, <1>4, Zenon DEF IInv

LEMMA BeginIInv ==
    ASSUME IInv, NEW p \in Targets \cup OtherPcs, NEW va \in Vas,
           Execute(p, va) \/ rd_perf_event_overflow_pre(p, va)
    PROVE  IInv'
<1> USE DEF Execute, rd_perf_event_overflow_pre, Begin, resultVars
<1>1. loc' \in LocalsType /\ loc'.va = va /\ loc'.pc = p
  BY NoLocalsTyped, Zenon DEF LocalsType, Pcs, NoLocals
<1>2. LocalsInv'
  BY <1>1, Zenon DEF LocalsInv
<1>3. HitPending' = HitPending
  BY Zenon DEF HitPending
<1> QED BY <1>1, <1>2, <1>3, LocalStepIInv, Zenon DEF IInv, TypeOK, HandlerSteps

LEMMA RetireIInv == IInv /\ Retire => IInv'
<1> SUFFICES ASSUME IInv, Retire PROVE IInv'
  BY Zenon
<1>1. LocalsInv'
  BY Zenon DEF Retire, LocalsInv
<1>2. HitPending' = HitPending
  BY Zenon DEF Retire, HitPending
<1>3. mem' \in Nat
  <2>1. mem' = mem + 1 \/ mem' = mem
    BY Zenon DEF Retire
  <2> QED BY <2>1 DEF IInv, TypeOK
<1> QED BY <1>1, <1>2, <1>3, NoLocalsTyped, LocalStepIInv, Zenon
        DEF Retire, resultVars, IInv, TypeOK

LEMMA ModifyFlagIInv ==
    ASSUME IInv, NEW from, NEW to, rd_modify_flag(from, to),
           <<from, to>> \in {<<"bp_flag", "bp_modify">>, <<"idle_flag", "idle_modify">>}
    PROVE  IInv'
<1> USE DEF rd_modify_flag, resultVars, ghostVars
<1>1. (running /\ active) \in BOOLEAN
  BY Zenon
<1>2. loc' \in LocalsType /\ loc'.va = loc.va /\ loc'.pc = loc.pc
  BY <1>1, Zenon DEF IInv, TypeOK, LocalsType
<1>3. LocalsInv'
  BY <1>2, Zenon DEF IInv, LocalsInv
<1>4. HitPending' = HitPending
  BY Zenon DEF HitPending
<1> QED BY <1>2, <1>3, <1>4, LocalStepIInv, Zenon DEF IInv, TypeOK, HandlerSteps

\* The locals at the end of a handler: the instruction goes on.
LEMMA BackToUser ==
    ASSUME IInv, at # "user", loc' = [NoLocals EXCEPT !.pc = loc.pc, !.va = loc.va]
    PROVE  loc' \in LocalsType /\ loc'.va \in Vas
  BY NoLocalsTyped, Zenon DEF IInv, TypeOK, LocalsInv, LocalsType, NoLocals

LEMMA ModifyIdleIInv == IInv /\ rd_modify_slot_idle => IInv'
<1> SUFFICES ASSUME IInv, rd_modify_slot_idle PROVE IInv'
  BY Zenon
<1> USE DEF rd_modify_slot_idle, resultVars, ghostVars
<1>1. loc' \in LocalsType /\ loc'.va \in Vas
  BY BackToUser, Zenon
<1>2. LocalsInv'
  BY <1>1, Zenon DEF LocalsInv
<1>3. HitPending' = HitPending
  BY Zenon DEF HitPending
<1> QED BY <1>1, <1>2, <1>3, LocalStepIInv, Zenon DEF IInv, TypeOK

LEMMA SnapshotIInv == IInv /\ (rd_bp_snapshot \/ rd_wp_snapshot) => IInv'
<1> SUFFICES ASSUME IInv, rd_bp_snapshot \/ rd_wp_snapshot PROVE IInv'
  BY Zenon
<1> USE DEF rd_bp_snapshot, rd_wp_snapshot, ghostVars
<1>1. dwarf' \in DwarfType
  BY DEF IInv, TypeOK, DwarfType, LocalsType
<1>2. LocalsInv'
  BY Zenon DEF IInv, LocalsInv
<1>3. HitPending' = HitPending
  BY Zenon DEF HitPending
<1> QED BY <1>1, <1>2, <1>3, LocalStepIInv, Zenon DEF IInv, TypeOK, HandlerSteps

LEMMA FillIInv == IInv /\ (rd_wp_fill \/ rd_wp_publish) => IInv'
<1> SUFFICES ASSUME IInv, rd_wp_fill \/ rd_wp_publish PROVE IInv'
  BY Zenon
<1> USE DEF rd_wp_fill, rd_wp_publish
<1>1. dwarf' \in DwarfType
  <2> DEFINE Event == [used : BOOLEAN, target : Pcs, reuse_pc : Pcs,
                       seed_snap : Pcs, reuse_snap : Pcs]
  <2>1. loc.index \in EventIds /\ dwarf.events \in [EventIds -> Event]
    BY Zenon DEF IInv, TypeOK, DwarfType, LocalsInv
  <2>2. CASE rd_wp_fill
    <3>1. [used |-> FALSE, target |-> loc.target, reuse_pc |-> loc.pc,
           seed_snap |-> dwarf.seed[loc.slot],
           reuse_snap |-> dwarf.reuse[loc.slot]] \in Event
      BY Zenon DEF IInv, TypeOK, DwarfType, LocalsType, Pcs
    <3> QED BY <2>1, <2>2, <3>1, Zenon DEF IInv, TypeOK, DwarfType
  <2>3. CASE rd_wp_publish
    <3>1. [dwarf.events[loc.index] EXCEPT !.used = TRUE] \in Event
      BY <2>1, Zenon
    <3> QED BY <2>1, <2>3, <3>1, Zenon DEF IInv, TypeOK, DwarfType
  <2> QED BY <2>2, <2>3, Zenon
<1>2. LocalsInv'
  BY Zenon DEF IInv, LocalsInv
<1>3. Armed' = Armed
  BY Zenon DEF Armed
<1>4. HitPending' = HitPending
  BY <1>3, Zenon DEF HitPending
<1>5. UNCHANGED <<windowVars, slot, count, stale, mem, loc, todo>>
  BY Zenon DEF ghostVars
<1>6. mem' \in Nat /\ loc' \in LocalsType /\ todo' \in SUBSET Slots
  BY <1>5, Zenon DEF IInv, TypeOK
<1>7. at' \in HandlerSteps \cup {"user", "mem"}
  BY Zenon DEF HandlerSteps
<1> QED BY <1>1, <1>2, <1>4, <1>5, <1>6, <1>7, LocalStepIInv, Zenon

-----------------------------------------------------------------------------
(***************************************************************************)
(* The sections under thread->lock.                                        *)
(***************************************************************************)

LEMMA WatchpointIInv ==
    ASSUME IInv, NEW i \in Slots, rd_watchpoint_report_pre(i)
    PROVE  IInv'
<1> DEFINE ours == active /\ running /\ i \in Armed
           skip == ours /\ slot[i].skip_first_hit
<1>1. /\ at = "mem"
      /\ todo' = todo \ {i}
      /\ slot' = IF skip THEN [slot EXCEPT ![i].skip_first_hit = FALSE] ELSE slot
      /\ IF ours /\ ~skip
         THEN /\ at' = IF callchain_mode = "DWARF" THEN "wp_snap" ELSE "wp_record"
              /\ loc' = [loc EXCEPT !.slot = i, !.target = slot[i].target,
                                    !.seed_access = slot[i].seed_access,
                                    !.context = slot[i].context]
         ELSE UNCHANGED <<at, loc>>
      /\ UNCHANGED <<windowVars, mem, resultVars, stale>>
  BY Zenon DEF rd_watchpoint_report_pre, ghostVars
<1> HIDE DEF ours, skip
<1>2. slot' \in [Slots -> SlotType]
  <2>1. slot \in [Slots -> SlotType]
    BY Zenon DEF IInv, TypeOK
  <2>2. [slot[i] EXCEPT !.skip_first_hit = FALSE] \in SlotType
    BY <2>1, Zenon DEF SlotType
  <2>3. QED
    BY <1>1, <2>1, <2>2, Zenon
<1>3. Armed' = Armed
  BY <1>1, Zenon DEF IInv, TypeOK, SlotType, Armed
<1>4. /\ loc' \in LocalsType
      /\ loc'.va = loc.va
      /\ at' \in {"mem", "wp_snap", "wp_record"}
  <2>1. slot[i] \in SlotType /\ loc \in LocalsType
    BY Zenon DEF IInv, TypeOK
  <2>2. CASE ours /\ ~skip
    <3>1. /\ at' = IF callchain_mode = "DWARF" THEN "wp_snap" ELSE "wp_record"
          /\ loc' = [loc EXCEPT !.slot = i, !.target = slot[i].target,
                                !.seed_access = slot[i].seed_access,
                                !.context = slot[i].context]
      BY <1>1, <2>2, Zenon
    <3> QED BY <2>1, <3>1, Zenon DEF SlotType, LocalsType
  <2>3. CASE ~(ours /\ ~skip)
    BY <1>1, <2>1, <2>3, Zenon
  <2> QED BY <2>2, <2>3, Zenon
<1>5. TypeOK'
  BY <1>1, <1>2, <1>4, Zenon DEF IInv, TypeOK, HandlerSteps, windowVars, resultVars
<1>6. LocalsInv'
  BY <1>1, <1>4, Zenon DEF IInv, LocalsInv
<1>7. FirstSlotInv'
  BY <1>1, ZeroIsSlot, Zenon DEF IInv, TypeOK, SlotType, FirstSlotInv, resultVars
<1>8. SeedsAccounted'
  <2>1. ~HitPending /\ ~HitPending'
    BY <1>1, <1>4, Zenon DEF HitPending
  <2> QED BY <1>1, <1>3, <2>1, Zenon DEF IInv, SeedsAccounted, resultVars
<1> QED BY <1>5, <1>6, <1>7, <1>8, Zenon DEF IInv

LEMMA ContextIdNat ==
    ASSUME NEW chain, NEW id \in ContextId(chain) PROVE id \in Nat
  BY ConstantsAssumption DEF ContextId, First, ContextsOf, ContextIds

LEMMA PickedSlot ==
    ASSUME IInv, NEW pick \in rd_pick_wp_slot
    PROVE  /\ pick \in Slots
           /\ pick \in Armed => Armed = Slots /\ pick = 0
<1>1. CASE Armed = Slots
  <2>1. pick \in Slots => pick = 0
    BY <1>1, ZeroIsSlot DEF IInv, FirstSlotInv, rd_pick_wp_slot, Replaceable, Slots
  <2>2. pick # wp_capacity
    BY <1>1, ZeroIsSlot, ConstantsAssumption
       DEF IInv, FirstSlotInv, rd_pick_wp_slot, Replaceable, Slots
  <2> QED BY <1>1, <2>1, <2>2, Zenon DEF rd_pick_wp_slot, Replaceable
<1>2. CASE Armed # Slots
  BY <1>2, Zenon DEF rd_pick_wp_slot, First
<1> QED BY <1>1, <1>2, Zenon

LEMMA CountUpdate ==
    ASSUME NEW c \in CountType, NEW k \in Nat, NEW l \in Nat, NEW m \in Nat,
           NEW n \in Nat
    PROVE  [c EXCEPT !.candidate_samples = k, !.reservoir_seen = l,
                     !.reservoir_accepted = m, !.evictions = n] \in CountType
  BY Zenon DEF CountType

\* What arming does to the slots and the counters.
LEMMA AcceptEffect ==
    ASSUME IInv, NEW chain \in Chains, rd_bp_accept(chain)
    PROVE  \E pick \in Slots, id \in ContextId(chain) :
      /\ pick \in Armed => pick = 0
      /\ ArmedSlot(id) \in SlotType /\ ArmedSlot(id).state = "ARMED"
                                   /\ ArmedSlot(id).samples = 1
      /\ slot' = [slot EXCEPT ![pick] = ArmedSlot(id)]
      /\ count' \in CountType
      /\ count'.candidate_samples = count.candidate_samples + 1
      /\ count'.reservoir_seen = count.reservoir_seen + 1
      /\ count'.reservoir_accepted = count.reservoir_accepted + 1
      /\ count'.reservoir_rejected = count.reservoir_rejected
      /\ count'.hits = count.hits
      /\ count'.evictions = count.evictions + (IF pick \in Armed THEN 1 ELSE 0)
      /\ count'.dropped = count.dropped
      /\ at' = IF callchain_mode = "DWARF" THEN "bp_snap" ELSE "bp_flag"
      /\ loc' = [loc EXCEPT !.slot = pick]
<1>1. PICK pick \in rd_pick_wp_slot, id \in ContextId(chain) :
        /\ slot' = [i \in Slots |->
             IF i = pick THEN ArmedSlot(id)
             ELSE IF Armed = Slots /\ i < pick
             THEN [slot[i] EXCEPT !.samples = @ + 1]
             ELSE slot[i]]
        /\ pick # wp_capacity =>
             /\ count' = [count EXCEPT
                  !.candidate_samples = @ + 1,
                  !.reservoir_seen = @ + 1,
                  !.reservoir_accepted = @ + 1,
                  !.evictions = IF pick \in Armed THEN @ + 1 ELSE @]
             /\ at' = IF callchain_mode = "DWARF" THEN "bp_snap" ELSE "bp_flag"
             /\ loc' = [loc EXCEPT !.slot = pick]
  BY Zenon DEF rd_bp_accept
<1>2. at = "bp" /\ UNCHANGED <<windowVars, mem, dwarf, todo, stale>>
  BY Zenon DEF rd_bp_accept
<1>3. /\ pick \in Slots
      /\ pick # wp_capacity
      /\ pick \in Armed => Armed = Slots /\ pick = 0
  BY PickedSlot, ConstantsAssumption DEF Slots
<1>4. ArmedSlot(id) \in SlotType /\ ArmedSlot(id).state = "ARMED"
                                 /\ ArmedSlot(id).samples = 1
  BY <1>2, ContextIdNat DEF ArmedSlot, SlotType, IInv, TypeOK, LocalsType, LocalsInv
<1>5. slot' = [slot EXCEPT ![pick] = ArmedSlot(id)]
  <2>1. Armed = Slots => pick = 0
    BY <1>3, Zenon
  <2>2. \A i \in Slots : ~(i < 0)
    BY DEF Slots
  <2>3. \A i \in Slots : ~(Armed = Slots /\ i < pick)
    BY <2>1, <2>2, Zenon
  <2> QED BY <1>1, <2>3, Zenon DEF IInv, TypeOK
<1>6. /\ count' \in CountType
       /\ count'.candidate_samples = count.candidate_samples + 1
       /\ count'.reservoir_seen = count.reservoir_seen + 1
       /\ count'.reservoir_accepted = count.reservoir_accepted + 1
       /\ count'.reservoir_rejected = count.reservoir_rejected
       /\ count'.hits = count.hits
       /\ count'.evictions = count.evictions + (IF pick \in Armed THEN 1 ELSE 0)
       /\ count'.dropped = count.dropped
  <2>1. count \in CountType
    BY Zenon DEF IInv, TypeOK
  <2>2. count' = [count EXCEPT
                    !.candidate_samples = @ + 1,
                    !.reservoir_seen = @ + 1,
                    !.reservoir_accepted = @ + 1,
                    !.evictions = IF pick \in Armed THEN @ + 1 ELSE @]
    BY <1>1, <1>3, Zenon
  <2> DEFINE ev == IF pick \in Armed THEN count.evictions + 1 ELSE count.evictions
  <2>3. count' = [count EXCEPT
                    !.candidate_samples = count.candidate_samples + 1,
                    !.reservoir_seen = count.reservoir_seen + 1,
                    !.reservoir_accepted = count.reservoir_accepted + 1,
                    !.evictions = ev]
    BY <2>2, Zenon
  <2>4. ev = count.evictions + (IF pick \in Armed THEN 1 ELSE 0) /\ ev \in Nat
    BY <2>1 DEF CountType
  <2> HIDE DEF ev
  <2>5. count' \in CountType
    <3>1. /\ count.candidate_samples + 1 \in Nat
          /\ count.reservoir_seen + 1 \in Nat
          /\ count.reservoir_accepted + 1 \in Nat
      BY <2>1 DEF CountType
    <3> QED BY <2>1, <2>3, <2>4, <3>1, CountUpdate, Zenon
  <2>6. /\ count'.candidate_samples = count.candidate_samples + 1
        /\ count'.reservoir_seen = count.reservoir_seen + 1
        /\ count'.reservoir_accepted = count.reservoir_accepted + 1
        /\ count'.reservoir_rejected = count.reservoir_rejected
        /\ count'.hits = count.hits
        /\ count'.evictions = ev
        /\ count'.dropped = count.dropped
    BY <2>1, <2>3, <2>4, Zenon DEF CountType
  <2> QED BY <2>4, <2>5, <2>6, Zenon
<1> QED BY <1>1, <1>3, <1>4, <1>5, <1>6, Zenon

LEMMA AcceptIInv ==
    ASSUME IInv, NEW chain \in Chains, rd_bp_accept(chain)
    PROVE  IInv'
<1>1. PICK pick \in Slots, id \in ContextId(chain) :
      /\ pick \in Armed => pick = 0
      /\ ArmedSlot(id) \in SlotType /\ ArmedSlot(id).state = "ARMED"
                                   /\ ArmedSlot(id).samples = 1
      /\ slot' = [slot EXCEPT ![pick] = ArmedSlot(id)]
      /\ count' \in CountType
      /\ count'.candidate_samples = count.candidate_samples + 1
      /\ count'.reservoir_seen = count.reservoir_seen + 1
      /\ count'.reservoir_accepted = count.reservoir_accepted + 1
      /\ count'.reservoir_rejected = count.reservoir_rejected
      /\ count'.hits = count.hits
      /\ count'.evictions = count.evictions + (IF pick \in Armed THEN 1 ELSE 0)
      /\ count'.dropped = count.dropped
      /\ at' = IF callchain_mode = "DWARF" THEN "bp_snap" ELSE "bp_flag"
      /\ loc' = [loc EXCEPT !.slot = pick]
  BY AcceptEffect, Zenon
<1>2. at = "bp" /\ UNCHANGED <<windowVars, mem, dwarf, todo, stale>>
  BY Zenon DEF rd_bp_accept
<1>3. TypeOK'
  <2>1. slot' \in [Slots -> SlotType]
    BY <1>1, Zenon DEF IInv, TypeOK
  <2>2. count' \in CountType
    BY <1>1, Zenon
  <2>3. loc' \in LocalsType
    BY <1>1, Zenon DEF IInv, TypeOK, LocalsType
  <2> QED BY <1>1, <1>2, <2>1, <2>2, <2>3, Zenon
          DEF IInv, TypeOK, windowVars, HandlerSteps
<1>4. LocalsInv'
  BY <1>1, <1>2, Zenon DEF IInv, TypeOK, LocalsType, LocalsInv
<1>5. FirstSlotInv'
  BY <1>1, ZeroIsSlot, Zenon DEF IInv, TypeOK, FirstSlotInv
<1>6. SeedsAccounted'
  <2>1. Armed' = Armed \cup {pick}
    BY <1>1, Zenon DEF IInv, TypeOK, Armed
  <2>2. Cardinality(Armed') = IF pick \in Armed THEN Cardinality(Armed)
                                               ELSE Cardinality(Armed) + 1
    <3>1. CASE pick \in Armed
      <4>1. Armed' = Armed
        BY <2>1, <3>1, Zenon
      <4> QED BY <3>1, <4>1, Zenon
    <3>2. CASE pick \notin Armed
      BY <1>1, <2>1, <3>2, ArmedJoin, Zenon
    <3> QED BY <3>1, <3>2, Zenon
  <2>3. ~HitPending /\ ~HitPending'
    BY <1>1, <1>2, Zenon DEF HitPending
  <2>4. CASE pick \in Armed
    BY <1>2, <1>1, <2>2, <2>3, <2>4, ArmedFinite
       DEF IInv, TypeOK, CountType, SeedsAccounted
  <2>5. CASE pick \notin Armed
    BY <1>2, <1>1, <2>2, <2>3, <2>5, ArmedFinite
       DEF IInv, TypeOK, CountType, SeedsAccounted
  <2> QED BY <2>4, <2>5, Zenon
<1> QED BY <1>3, <1>4, <1>5, <1>6, Zenon DEF IInv

\* Slot i loses its seed, or had lost it already.
LEMMA ClearedSlot ==
    ASSUME IInv, NEW i \in Slots, rd_clear_slot_metadata(i)
    PROVE  /\ slot' \in [Slots -> SlotType]
           /\ dwarf' \in DwarfType
           /\ slot'[0].samples = 1
           /\ Armed' = Armed \ {i}
<1>1. slot' = [slot EXCEPT ![i] = IdleSlot] /\ slot \in [Slots -> SlotType]
  BY Zenon DEF rd_clear_slot_metadata, IInv, TypeOK
<1>2. slot' \in [Slots -> SlotType]
  BY <1>1, IdleSlotTyped, Zenon
<1>3. dwarf' \in DwarfType
  BY Zenon DEF rd_clear_slot_metadata, IInv, TypeOK, DwarfType, Pcs
<1>4. slot'[0].samples = 1
  BY <1>1, ZeroIsSlot, Zenon DEF IInv, FirstSlotInv, IdleSlot
<1>5. Armed' = Armed \ {i}
  BY <1>1, Zenon DEF Armed, IdleSlot
<1> QED BY <1>2, <1>3, <1>4, <1>5, Zenon

LEMMA BpModifyIInv == IInv /\ rd_bp_modify => IInv'
<1> SUFFICES ASSUME IInv, rd_bp_modify PROVE IInv'
  BY Zenon
<1>1. /\ at = "bp_modify"
      /\ UNCHANGED <<windowVars, mem, todo>>
      /\ loc \in LocalsType /\ loc.va \in Vas /\ loc.slot \in Slots
      /\ count \in CountType /\ stale \in Nat
  BY Zenon DEF rd_bp_modify, IInv, TypeOK, LocalsInv, LocalsType
<1>2. CASE loc.va \in BadVas
  <2>1. /\ at' = "idle_flag"
        /\ count' = [count EXCEPT !.dropped = @ + 1]
        /\ rd_clear_slot_metadata(loc.slot)
        /\ stale' = IF loc.slot \in Armed THEN stale ELSE stale + 1
        /\ loc' = loc
    BY <1>2, Zenon DEF rd_bp_modify
  <2>2. /\ slot' \in [Slots -> SlotType]
        /\ dwarf' \in DwarfType
        /\ slot'[0].samples = 1
        /\ Armed' = Armed \ {loc.slot}
    BY <1>1, <2>1, ClearedSlot, Zenon
  <2>3. /\ count' \in CountType
        /\ count'.candidate_samples = count.candidate_samples
        /\ count'.reservoir_seen = count.reservoir_seen
        /\ count'.reservoir_accepted = count.reservoir_accepted
        /\ count'.reservoir_rejected = count.reservoir_rejected
        /\ count'.hits = count.hits
        /\ count'.evictions = count.evictions
        /\ count'.dropped = count.dropped + 1
    BY <1>1, <2>1 DEF CountType
  <2>4. TypeOK'
    BY <1>1, <2>1, <2>2, <2>3 DEF IInv, TypeOK, HandlerSteps, windowVars
  <2>5. LocalsInv'
    BY <1>1, <2>1, Zenon DEF LocalsInv
  <2>6. FirstSlotInv'
    BY <2>2, <2>3, Zenon DEF IInv, FirstSlotInv
  <2>7. SeedsAccounted'
    <3>1. ~HitPending /\ ~HitPending'
      BY <1>1, <2>1, Zenon DEF HitPending
    <3>2. CASE loc.slot \in Armed
      <4>1. /\ Cardinality(Armed') = Cardinality(Armed) - 1
            /\ Cardinality(Armed') \in Nat
        <5>1. PICK i \in Armed : i = loc.slot
          BY <3>2, Zenon
        <5> QED BY <2>2, <5>1, ArmedLeave, Zenon
      <4> QED BY <1>1, <2>1, <2>3, <3>1, <3>2, <4>1, ArmedFinite
              DEF IInv, CountType, SeedsAccounted
    <3>3. CASE loc.slot \notin Armed
      <4>1. Armed' = Armed
        BY <2>2, <3>3, Zenon
      <4>2. stale' = stale + 1 /\ Cardinality(Armed') = Cardinality(Armed)
        BY <2>1, <3>3, <4>1, Zenon
      <4> QED BY <1>1, <2>3, <3>1, <4>2, ArmedFinite
              DEF IInv, CountType, SeedsAccounted
    <3> QED BY <3>2, <3>3, Zenon
  <2> QED BY <2>4, <2>5, <2>6, <2>7, Zenon DEF IInv
<1>3. CASE loc.va \notin BadVas
  <2>1. /\ at' = "mem"
        /\ loc' = [NoLocals EXCEPT !.pc = loc.pc, !.va = loc.va]
        /\ UNCHANGED <<count, slot, dwarf, stale>>
    BY <1>3, Zenon DEF rd_bp_modify
  <2>2. loc' \in LocalsType /\ loc'.va \in Vas
    BY <1>1, <2>1, BackToUser, Zenon
  <2>3. LocalsInv'
    BY <2>1, <2>2, Zenon DEF LocalsInv
  <2>4. HitPending' = HitPending
    BY <1>1, <2>1, Zenon DEF HitPending
  <2> QED BY <1>1, <2>1, <2>2, <2>3, <2>4, LocalStepIInv, Zenon DEF IInv, TypeOK
<1> QED BY <1>2, <1>3, Zenon

LEMMA WpRecordIInv ==
    ASSUME IInv, NEW chain \in Chains, rd_wp_record(chain)
    PROVE  IInv'
<1>1. /\ at = "wp_record"
      /\ dwarf' = rd_reserve_dwarf_event_locked
      /\ count' = [count EXCEPT !.hits = @ + 1]
      /\ at' = IF CanReserve THEN "wp_fill" ELSE "wp_clear"
      /\ loc' = [loc EXCEPT !.index = IF CanReserve THEN dwarf.used + 1 ELSE 0]
      /\ stale' = IF loc.slot \in Armed THEN stale ELSE stale + 1
      /\ UNCHANGED <<windowVars, slot, mem, todo>>
  BY Zenon DEF rd_wp_record
<1>2. /\ count \in CountType /\ dwarf \in DwarfType /\ stale \in Nat
      /\ loc \in LocalsType /\ loc.va \in Vas
  BY <1>1, Zenon DEF IInv, TypeOK, LocalsInv
<1>3. /\ count' \in CountType
      /\ count'.candidate_samples = count.candidate_samples
      /\ count'.reservoir_seen = count.reservoir_seen
      /\ count'.reservoir_accepted = count.reservoir_accepted
      /\ count'.reservoir_rejected = count.reservoir_rejected
      /\ count'.hits = count.hits + 1
      /\ count'.evictions = count.evictions
      /\ count'.dropped = count.dropped
  BY <1>1, <1>2 DEF CountType
<1>4. dwarf' \in DwarfType
  BY <1>1, <1>2 DEF rd_reserve_dwarf_event_locked, DwarfType
<1>5. /\ loc' \in LocalsType
      /\ loc'.va = loc.va /\ loc'.slot = loc.slot
      /\ CanReserve => loc'.index \in EventIds
  <2>1. dwarf.used \in Nat
    BY <1>2, Zenon DEF DwarfType
  <2>2. CASE CanReserve
    BY <1>1, <1>2, <2>1, <2>2, ConstantsAssumption DEF LocalsType, CanReserve, EventIds
  <2>3. CASE ~CanReserve
    BY <1>1, <1>2, <2>3, Zenon DEF LocalsType
  <2> QED BY <2>2, <2>3, Zenon
<1>6. TypeOK'
  <2>1. stale' \in Nat
    BY <1>1, <1>2
  <2> QED BY <1>1, <1>3, <1>4, <1>5, <2>1, Zenon DEF IInv, TypeOK, windowVars, HandlerSteps
<1>7. LocalsInv'
  BY <1>1, <1>2, <1>5, Zenon DEF LocalsInv
<1>8. FirstSlotInv'
  BY <1>1, <1>3, Zenon DEF IInv, FirstSlotInv
<1>9. SeedsAccounted'
  <2>1. Armed' = Armed
    BY <1>1, Zenon DEF Armed
  <2>2. ~HitPending /\ (HitPending' <=> loc.slot \in Armed)
    BY <1>1, <1>5, <2>1 DEF HitPending
  <2>3. CASE loc.slot \in Armed
    <3>1. stale' = stale /\ HitPending'
      BY <1>1, <2>2, <2>3, Zenon
    <3> QED BY <1>2, <1>3, <2>1, <2>2, <3>1, ArmedFinite
            DEF IInv, CountType, SeedsAccounted
  <2>4. CASE loc.slot \notin Armed
    <3>1. stale' = stale + 1 /\ ~HitPending'
      BY <1>1, <2>2, <2>4, Zenon
    <3> QED BY <1>2, <1>3, <2>1, <2>2, <3>1, ArmedFinite
            DEF IInv, CountType, SeedsAccounted
  <2> QED BY <2>3, <2>4, Zenon
<1> QED BY <1>6, <1>7, <1>8, <1>9, Zenon DEF IInv

LEMMA WpClearIInv == IInv /\ rd_wp_clear => IInv'
<1> SUFFICES ASSUME IInv, rd_wp_clear PROVE IInv'
  BY Zenon
<1>1. /\ at = "wp_clear" /\ at' = "idle_flag"
      /\ IF loc.slot \in Armed THEN rd_clear_slot_metadata(loc.slot)
                               ELSE UNCHANGED <<slot, dwarf>>
      /\ UNCHANGED <<windowVars, mem, count, loc, todo, stale>>
  BY Zenon DEF rd_wp_clear, ghostVars
<1>2. loc.slot \in Slots /\ loc.va \in Vas /\ count \in CountType /\ stale \in Nat
  BY <1>1, Zenon DEF IInv, TypeOK, LocalsType, LocalsInv
<1>3. LocalsInv'
  BY <1>1, <1>2, Zenon DEF LocalsInv
<1>4. ~HitPending'
  BY <1>1, Zenon DEF HitPending
<1>5. CASE loc.slot \in Armed
  <2>1. /\ slot' \in [Slots -> SlotType]
        /\ dwarf' \in DwarfType
        /\ slot'[0].samples = 1
        /\ Armed' = Armed \ {loc.slot}
    BY <1>1, <1>2, <1>5, ClearedSlot, Zenon
  <2>2. TypeOK'
    BY <1>1, <2>1, Zenon DEF IInv, TypeOK, HandlerSteps, windowVars
  <2>3. FirstSlotInv'
    BY <1>1, <2>1, Zenon DEF IInv, FirstSlotInv
  <2>4. SeedsAccounted'
    <3>1. PICK i \in Armed : i = loc.slot
      BY <1>5, Zenon
    <3>2. /\ Cardinality(Armed') = Cardinality(Armed) - 1
          /\ Cardinality(Armed') \in Nat
      BY <2>1, <3>1, ArmedLeave, Zenon
    <3>3. HitPending
      BY <1>1, <1>5, Zenon DEF HitPending
    <3> QED BY <1>1, <1>2, <1>4, <3>2, <3>3, ArmedFinite
            DEF IInv, CountType, SeedsAccounted
  <2> QED BY <1>3, <2>2, <2>3, <2>4, Zenon DEF IInv
<1>6. CASE loc.slot \notin Armed
  <2>1. UNCHANGED <<slot, dwarf>>
    BY <1>1, <1>6, Zenon
  <2>2. HitPending' = HitPending
    BY <1>1, <1>6, Zenon DEF HitPending
  <2> QED BY <1>1, <1>3, <2>1, <2>2, LocalStepIInv, Zenon DEF IInv, TypeOK, HandlerSteps
<1> QED BY <1>5, <1>6, Zenon

-----------------------------------------------------------------------------
LEMMA IoctlIInv == IInv /\ IoctlStep => IInv'
<1> SUFFICES ASSUME IInv, IoctlStep PROVE IInv'
  BY Zenon
<1>1. running \in BOOLEAN /\ active \in BOOLEAN
  BY Zenon DEF IInv, TypeOK
<1> USE DEF Ioctl, NextStep, IoctlSteps, ghostVars
<1>2. CASE rd_start_window \/ rd_stop_window
  BY <1>1, <1>2, WindowIInv, Zenon DEF rd_start_window, rd_stop_window
<1>3. CASE rd_enable_mem \/ rd_enable_bps \/ rd_enable_wps
  BY <1>1, <1>3, WindowIInv, Zenon DEF rd_enable_mem, rd_enable_bps, rd_enable_wps
<1>4. CASE rd_disable_wps \/ rd_disable_bps \/ rd_disable_mem
  BY <1>1, <1>4, WindowIInv, Zenon DEF rd_disable_wps, rd_disable_bps, rd_disable_mem
<1>5. CASE rd_reset_session_locked \/ rd_reset_slots \/ rd_detach_mark
  BY <1>1, <1>5, WindowIInv, Zenon
     DEF rd_reset_session_locked, rd_reset_slots, rd_detach_mark
<1>6. CASE rd_reset_thread_locked \/ rd_detach_count
  BY <1>6, ResetIInv, DetachIInv, Zenon
<1> QED BY <1>2, <1>3, <1>4, <1>5, <1>6, Zenon DEF IoctlStep

LEMMA ThreadIInv == IInv /\ ThreadStep => IInv'
<1> SUFFICES ASSUME IInv, ThreadStep PROVE IInv'
  BY Zenon
<1>1. CASE \E p \in Targets \cup OtherPcs, va \in Vas :
             Execute(p, va) \/ rd_perf_event_overflow_pre(p, va)
  BY <1>1, BeginIInv, Zenon
<1>2. CASE \E chain \in Chains : rd_bp_accept(chain) \/ rd_wp_record(chain)
  BY <1>2, AcceptIInv, WpRecordIInv, Zenon
<1>3. CASE \E i \in Slots : rd_watchpoint_report_pre(i)
  BY <1>3, WatchpointIInv, Zenon
<1>4. CASE \/ rd_modify_flag("bp_flag", "bp_modify")
           \/ rd_modify_flag("idle_flag", "idle_modify")
  BY <1>4, ModifyFlagIInv, Zenon
<1>5. CASE \/ Retire \/ rd_bp_snapshot \/ rd_wp_snapshot \/ rd_bp_modify
           \/ rd_wp_fill \/ rd_wp_publish \/ rd_wp_clear \/ rd_modify_slot_idle
  BY <1>5, RetireIInv, SnapshotIInv, BpModifyIInv, FillIInv, WpClearIInv, ModifyIdleIInv, Zenon
<1> QED BY <1>1, <1>2, <1>3, <1>4, <1>5, Zenon DEF ThreadStep

LEMMA StutterIInv == IInv /\ UNCHANGED vars => IInv'
<1> SUFFICES ASSUME IInv, UNCHANGED vars PROVE IInv'
  BY Zenon
<1> QED BY WindowIInv, Zenon DEF vars, windowVars, ghostVars, IInv, TypeOK

(***************************************************************************)
(* The inductive invariant holds in every reachable state, for any number  *)
(* of watchpoint slots, hot PCs, addresses and call chains.                *)
(***************************************************************************)
THEOREM Inductive == Spec => []IInv
<1>1. IInv /\ [Next]_vars => IInv'
  BY IoctlIInv, ThreadIInv, StutterIInv, Zenon DEF Next, Quiet
<1> QED BY InitIInv, <1>1, PTL DEF Spec

(***************************************************************************)
(* Both sides of the data plane stay well typed.                           *)
(***************************************************************************)
THEOREM TypeCorrect == Spec => []TypeOK
<1>1. IInv => TypeOK
  BY Zenon DEF IInv
<1> QED BY Inductive, <1>1, PTL

(***************************************************************************)
(* No seed is lost or counted twice by the two handlers, STOP, RESET and   *)
(* UNREGISTER, however their sections interleave.                          *)
(***************************************************************************)
THEOREM Accounting == Spec => []SeedsAccounted
<1>1. IInv => SeedsAccounted
  BY Zenon DEF IInv
<1> QED BY Inductive, <1>1, PTL

\* A candidate that finds every slot armed takes the place of the seed in
\* slot 0, which counts as evicted; no other slot gives way.
FirstSlotGivesWay ==
    [][\A chain \in Chains : Armed = Slots /\ rd_bp_accept(chain) =>
          /\ slot'[0].state = "ARMED"
          /\ slot'[0].seed_va = loc.va /\ slot'[0].target = loc.pc
          /\ \A i \in Slots \ {0} : slot'[i] = slot[i]
          /\ count'.evictions = count.evictions + 1
          /\ count'.reservoir_rejected = count.reservoir_rejected]_vars

(***************************************************************************)
(* What rd_handle_bp_hit does when every slot is armed, whatever           *)
(* wp_capacity is: the draw of slot 0 always says "replace", so the        *)
(* candidate is never rejected, re-seeds slot 0 and raises evictions.  The *)
(* draws of the other slots, which the comment of rd_pick_wp_slot          *)
(* describes, are never made.                                              *)
(***************************************************************************)
THEOREM ReplacementPolicy ==
    Spec => [](Armed = Slots => rd_pick_wp_slot = {0}) /\ FirstSlotGivesWay
<1> DEFINE Step == \A chain \in Chains : Armed = Slots /\ rd_bp_accept(chain) =>
                      /\ slot'[0].state = "ARMED"
                      /\ slot'[0].seed_va = loc.va /\ slot'[0].target = loc.pc
                      /\ \A i \in Slots \ {0} : slot'[i] = slot[i]
                      /\ count'.evictions = count.evictions + 1
                      /\ count'.reservoir_rejected = count.reservoir_rejected
           Pick == Armed = Slots => rd_pick_wp_slot = {0}
<1>1. IInv => Pick
  <2> SUFFICES ASSUME IInv, Armed = Slots PROVE rd_pick_wp_slot = {0}
    BY Zenon
  <2>1. \A i \in rd_pick_wp_slot : i = 0
    BY PickedSlot, Zenon
  <2>2. 0 \in Replaceable
    BY ZeroIsSlot DEF Replaceable, Slots
  <2> QED BY <2>1, <2>2, Zenon DEF rd_pick_wp_slot
<1>2. IInv => Step
  <2> SUFFICES ASSUME IInv, NEW chain \in Chains, Armed = Slots, rd_bp_accept(chain)
               PROVE  /\ slot'[0].state = "ARMED"
                      /\ slot'[0].seed_va = loc.va /\ slot'[0].target = loc.pc
                      /\ \A i \in Slots \ {0} : slot'[i] = slot[i]
                      /\ count'.evictions = count.evictions + 1
                      /\ count'.reservoir_rejected = count.reservoir_rejected
    BY Zenon
  <2>1. PICK pick \in Slots, id \in ContextId(chain) :
          /\ pick \in Armed => pick = 0
          /\ slot' = [slot EXCEPT ![pick] = ArmedSlot(id)]
          /\ count'.reservoir_rejected = count.reservoir_rejected
          /\ count'.evictions = count.evictions + (IF pick \in Armed THEN 1 ELSE 0)
    BY AcceptEffect, Zenon
  <2>2. pick = 0 /\ pick \in Armed
    BY <2>1, Zenon
  <2>3. slot'[0] = ArmedSlot(id) /\ \A i \in Slots \ {0} : slot'[i] = slot[i]
    BY <2>1, <2>2, Zenon DEF IInv, TypeOK
  <2>4. /\ slot'[0].state = "ARMED"
        /\ slot'[0].seed_va = loc.va /\ slot'[0].target = loc.pc
    BY <2>3 DEF ArmedSlot
  <2> QED BY <2>1, <2>2, <2>3, <2>4, Zenon
<1>3. Spec => [][Step]_vars
  <2>1. IInv => [Step]_vars
    BY <1>2, Zenon
  <2> QED BY Inductive, <2>1, PTL
<1>4. [][Step]_vars => FirstSlotGivesWay
  BY Zenon DEF FirstSlotGivesWay
<1> QED BY Inductive, <1>1, <1>3, <1>4, PTL

-----------------------------------------------------------------------------
(***************************************************************************)
(* Lemmas that the modules on the reuse distance and on the tables share:  *)
(* what a handler at work on a slot has in its locals, and the effects of  *)
(* the steps that arm, rewrite and clear a slot.                           *)
(***************************************************************************)
HwType == [addr : Vas \cup {Idle}, disabled : BOOLEAN, on : BOOLEAN]
SeenType == [touched : Nat, between : Nat, whole : BOOLEAN]

BpWork == at \in {"bp_snap", "bp_flag", "bp_modify"}
WpWork == at \in {"wp_snap", "wp_record", "wp_fill", "wp_publish", "wp_clear"}
IdleWork == at \in {"idle_flag", "idle_modify"}

(***************************************************************************)
(* A handler at work on a slot that is still armed has the data of that    *)
(* slot in its locals; only a RESET or a detach can take the slot away.    *)
(***************************************************************************)
HandInv ==
    /\ hw \in [Slots -> HwType] /\ seen \in [Slots -> SeenType]
    /\ \A i \in Slots \ Armed : slot[i].seed_va = Idle
    /\ BpWork /\ loc.slot \in Armed =>
         slot[loc.slot].seed_va = loc.va /\ slot[loc.slot].target = loc.pc
    /\ WpWork /\ loc.slot \in Armed =>
         /\ slot[loc.slot].target = loc.target
         /\ slot[loc.slot].seed_access = loc.seed_access
         /\ slot[loc.slot].context = loc.context
    /\ IdleWork => loc.slot \notin Armed

\* Steps that change no slot and no local, and do not enter another section.
LEMMA SameHandInv ==
    ASSUME HandInv, UNCHANGED <<slot, at, loc>>,
           hw' \in [Slots -> HwType], seen' \in [Slots -> SeenType]
    PROVE  HandInv'
<1>1. Armed' = Armed
  BY Zenon DEF Armed
<1>2. BpWork' = BpWork /\ WpWork' = WpWork /\ IdleWork' = IdleWork
  BY Zenon DEF BpWork, WpWork, IdleWork
<1> QED BY <1>1, <1>2, Zenon DEF HandInv

\* RESET and detach leave no slot armed.
LEMMA NoneArmedHandInv ==
    ASSUME slot' = [i \in Slots |-> IdleSlot],
           hw' \in [Slots -> HwType], seen' \in [Slots -> SeenType]
    PROVE  HandInv'
<1>1. Armed' = {}
  BY ArmedEmpty, Zenon
<1>2. \A i \in Slots : slot'[i].seed_va = Idle
  BY Zenon DEF IdleSlot
<1> QED BY <1>1, <1>2, Zenon DEF HandInv

LEMMA InterruptTyped ==
    ASSUME HandInv, Interrupt PROVE seen' \in [Slots -> SeenType]
  BY Zenon DEF HandInv, Interrupt, SeenType

LEMMA AllIdleTyped ==
    [i \in Slots |-> [addr |-> Idle, disabled |-> TRUE, on |-> FALSE]] \in [Slots -> HwType]
  BY Zenon DEF HwType

LEMMA HandIoctl == IInv /\ HandInv /\ IoctlStep => HandInv'
<1> SUFFICES ASSUME IInv, HandInv, IoctlStep PROVE HandInv'
  BY Zenon
<1> USE DEF perfVars, threadVars, ghostVars
<1>1. hw \in [Slots -> HwType] /\ seen \in [Slots -> SeenType]
  BY Zenon DEF HandInv
<1>2. CASE rd_start_window \/ rd_enable_mem \/ rd_enable_bps \/ rd_disable_bps
           \/ rd_disable_mem \/ rd_reset_session_locked
  BY <1>1, <1>2, SameHandInv, Zenon DEF rd_start_window, rd_enable_mem, rd_enable_bps,
     rd_disable_bps, rd_disable_mem, rd_reset_session_locked
<1>3. CASE rd_enable_wps \/ rd_disable_wps
  <2>1. hw' \in [Slots -> HwType]
    <3>1. PICK b \in BOOLEAN : hw' = [i \in Slots |-> [hw[i] EXCEPT !.on = b]]
      BY <1>3, Zenon DEF rd_enable_wps, rd_disable_wps
    <3>2. ASSUME NEW i \in Slots PROVE [hw[i] EXCEPT !.on = b] \in HwType
      <4>1. hw[i] \in HwType
        BY <1>1, Zenon
      <4> QED BY <4>1, Zenon DEF HwType
    <3> QED BY <3>1, <3>2, Zenon
  <2> QED BY <1>1, <1>3, <2>1, SameHandInv, Zenon DEF rd_enable_wps, rd_disable_wps
<1>4. CASE rd_stop_window \/ rd_detach_mark
  <2>1. Interrupt /\ UNCHANGED <<hw, slot, at, loc>>
    BY <1>4, Zenon DEF rd_stop_window, rd_detach_mark
  <2>2. seen' \in [Slots -> SeenType]
    BY <2>1, InterruptTyped, Zenon
  <2> QED BY <1>1, <2>1, <2>2, SameHandInv, Zenon
<1>5. CASE rd_reset_slots
  BY <1>1, <1>5, AllIdleTyped, SameHandInv, Zenon DEF rd_reset_slots
<1>6. CASE rd_reset_thread_locked
  <2>1. seen' \in [Slots -> SeenType]
    BY <1>6, Zenon DEF rd_reset_thread_locked, Unseen, SeenType
  <2> QED BY <1>1, <1>6, <2>1, NoneArmedHandInv, Zenon DEF rd_reset_thread_locked
<1>7. CASE rd_detach_count
  BY <1>1, <1>7, AllIdleTyped, NoneArmedHandInv, Zenon DEF rd_detach_count
<1> QED BY <1>2, <1>3, <1>4, <1>5, <1>6, <1>7, Zenon DEF IoctlStep

-----------------------------------------------------------------------------
(***************************************************************************)
(* The effects of the steps that arm, rewrite and clear a slot.            *)
(***************************************************************************)

LEMMA AcceptStep ==
    ASSUME IInv, NEW chain \in Chains, rd_bp_accept(chain)
    PROVE  \E pick \in Slots, id \in ContextId(chain) :
      /\ at = "bp"
      /\ slot' = [slot EXCEPT ![pick] = ArmedSlot(id)]
      /\ slot'[pick] = ArmedSlot(id) /\ \A i \in Slots \ {pick} : slot'[i] = slot[i]
      /\ Armed' = Armed \cup {pick}
      /\ table' = rd_get_context_id_locked(chain, id)
      /\ at' = IF callchain_mode = "DWARF" THEN "bp_snap" ELSE "bp_flag"
      /\ loc' = [loc EXCEPT !.slot = pick] /\ loc'.slot = pick /\ loc'.va = loc.va
                                           /\ loc'.pc = loc.pc
      /\ seen' = [seen EXCEPT ![pick] = [Unseen EXCEPT !.whole = ~cut]]
      /\ UNCHANGED <<windowVars, perfVars, mem, dwarf, todo, instr, stale, raced, cut>>
<1>1. PICK pick \in rd_pick_wp_slot, id \in ContextId(chain) :
        /\ slot' = [i \in Slots |->
             IF i = pick THEN ArmedSlot(id)
             ELSE IF Armed = Slots /\ i < pick
             THEN [slot[i] EXCEPT !.samples = @ + 1]
             ELSE slot[i]]
        /\ pick # wp_capacity =>
             /\ table' = rd_get_context_id_locked(chain, id)
             /\ at' = IF callchain_mode = "DWARF" THEN "bp_snap" ELSE "bp_flag"
             /\ loc' = [loc EXCEPT !.slot = pick]
             /\ seen' = [seen EXCEPT ![pick] = [Unseen EXCEPT !.whole = ~cut]]
  BY Zenon DEF rd_bp_accept
<1>2. at = "bp" /\ UNCHANGED <<windowVars, perfVars, mem, dwarf, todo, instr, stale, raced, cut>>
  BY Zenon DEF rd_bp_accept
<1>3. /\ pick \in Slots
      /\ pick # wp_capacity
      /\ pick \in Armed => Armed = Slots /\ pick = 0
  BY PickedSlot, ConstantsAssumption DEF Slots
<1>4. slot' = [slot EXCEPT ![pick] = ArmedSlot(id)]
  <2>1. Armed = Slots => pick = 0
    BY <1>3, Zenon
  <2>2. \A i \in Slots : ~(i < 0)
    BY DEF Slots
  <2>3. \A i \in Slots : ~(Armed = Slots /\ i < pick)
    BY <2>1, <2>2, Zenon
  <2> QED BY <1>1, <2>3, Zenon DEF IInv, TypeOK
<1>5. /\ slot'[pick] = ArmedSlot(id)
      /\ \A i \in Slots \ {pick} : slot'[i] = slot[i]
  BY <1>3, <1>4, Zenon DEF IInv, TypeOK
<1>6. Armed' = Armed \cup {pick}
  <2>1. ArmedSlot(id).state = "ARMED"
    BY Zenon DEF ArmedSlot
  <2> QED BY <1>3, <1>5, <2>1, Zenon DEF Armed
<1>7. /\ table' = rd_get_context_id_locked(chain, id)
      /\ at' = IF callchain_mode = "DWARF" THEN "bp_snap" ELSE "bp_flag"
      /\ loc' = [loc EXCEPT !.slot = pick]
      /\ seen' = [seen EXCEPT ![pick] = [Unseen EXCEPT !.whole = ~cut]]
  BY <1>1, <1>3, Zenon
<1>8. loc'.slot = pick /\ loc'.va = loc.va /\ loc'.pc = loc.pc
  BY <1>7, Zenon DEF IInv, TypeOK, LocalsType
<1> QED BY <1>2, <1>3, <1>4, <1>5, <1>6, <1>7, <1>8, Zenon

LEMMA ReportStep ==
    ASSUME IInv, NEW i \in Slots, rd_watchpoint_report_pre(i)
    PROVE  /\ at = "mem"
           /\ i \in todo /\ todo' = todo \ {i}
           /\ hw[i].on /\ hw[i].addr = loc.va
           /\ Armed' = Armed
           /\ \A j \in Slots \ {i} : slot'[j] = slot[j]
           /\ slot'[i].seed_va = slot[i].seed_va /\ slot'[i].target = slot[i].target
           /\ slot'[i].seed_access = slot[i].seed_access
           /\ slot'[i].context = slot[i].context
           /\ UNCHANGED <<windowVars, perfVars, mem, resultVars, instr, ghostVars>>
           /\ \/ /\ UNCHANGED <<at, loc, slot>>
                 /\ ~(active /\ running /\ i \in Armed)
              \/ /\ UNCHANGED <<at, loc>>
                 /\ i \in Armed /\ slot[i].skip_first_hit /\ slot'[i].skip_first_hit = FALSE
              \/ /\ active /\ running
                 /\ i \in Armed /\ ~slot[i].skip_first_hit /\ slot' = slot
                 /\ at' = IF callchain_mode = "DWARF" THEN "wp_snap" ELSE "wp_record"
                 /\ loc'.slot = i /\ loc'.va = loc.va /\ loc'.pc = loc.pc
                 /\ loc'.target = slot[i].target
                 /\ loc'.seed_access = slot[i].seed_access
                 /\ loc'.context = slot[i].context
<1> DEFINE ours == active /\ running /\ i \in Armed
           skip == ours /\ slot[i].skip_first_hit
<1>1. /\ at = "mem"
      /\ i \in todo /\ hw[i].on /\ hw[i].addr = loc.va
      /\ todo' = todo \ {i}
      /\ slot' = IF skip THEN [slot EXCEPT ![i].skip_first_hit = FALSE] ELSE slot
      /\ IF ours /\ ~skip
         THEN /\ at' = IF callchain_mode = "DWARF" THEN "wp_snap" ELSE "wp_record"
              /\ loc' = [loc EXCEPT !.slot = i, !.target = slot[i].target,
                                    !.seed_access = slot[i].seed_access,
                                    !.context = slot[i].context]
         ELSE UNCHANGED <<at, loc>>
      /\ UNCHANGED <<windowVars, perfVars, mem, resultVars, instr, ghostVars>>
  BY Zenon DEF rd_watchpoint_report_pre
<1>2. slot \in [Slots -> SlotType] /\ loc \in LocalsType
  BY Zenon DEF IInv, TypeOK
<1>3. CASE skip
  <2>1. slot' = [slot EXCEPT ![i].skip_first_hit = FALSE] /\ UNCHANGED <<at, loc>>
    BY <1>1, <1>3, Zenon
  <2>2. /\ \A j \in Slots \ {i} : slot'[j] = slot[j]
        /\ slot'[i] = [slot[i] EXCEPT !.skip_first_hit = FALSE]
    BY <1>2, <2>1, Zenon
  <2>3. /\ slot'[i].seed_va = slot[i].seed_va /\ slot'[i].target = slot[i].target
        /\ slot'[i].seed_access = slot[i].seed_access
        /\ slot'[i].context = slot[i].context
        /\ slot'[i].state = slot[i].state
        /\ slot'[i].skip_first_hit = FALSE
    BY <1>2, <2>2 DEF SlotType
  <2>4. Armed' = Armed
    BY <2>2, <2>3, Zenon DEF Armed
  <2> QED BY <1>1, <1>3, <2>1, <2>2, <2>3, <2>4, Zenon
<1>4. CASE ~ours
  <2>1. UNCHANGED <<slot, at, loc>>
    BY <1>1, <1>4, Zenon
  <2> QED BY <1>1, <1>4, <2>1, Zenon DEF Armed
<1>5. CASE ours /\ ~skip
  <2>1. /\ slot' = slot
        /\ at' = IF callchain_mode = "DWARF" THEN "wp_snap" ELSE "wp_record"
        /\ loc' = [loc EXCEPT !.slot = i, !.target = slot[i].target,
                                    !.seed_access = slot[i].seed_access,
                                    !.context = slot[i].context]
    BY <1>1, <1>5, Zenon
  <2>2. /\ loc'.slot = i /\ loc'.va = loc.va /\ loc'.pc = loc.pc
        /\ loc'.target = slot[i].target
        /\ loc'.seed_access = slot[i].seed_access
        /\ loc'.context = slot[i].context
    BY <1>2, <2>1, Zenon DEF LocalsType
  <2> QED BY <1>1, <1>5, <2>1, <2>2, Zenon DEF Armed
<1> QED BY <1>3, <1>4, <1>5, Zenon

LEMMA ClearStep ==
    ASSUME IInv, NEW i \in Slots, rd_clear_slot_metadata(i)
    PROVE  /\ Armed' = Armed \ {i}
           /\ slot'[i] = IdleSlot /\ slot'[i].seed_va = Idle
           /\ \A j \in Slots \ {i} : slot'[j] = slot[j]
           /\ \A j \in Slots \ {i} : dwarf'.seed[j] = dwarf.seed[j]
           /\ dwarf'.reuse = dwarf.reuse /\ dwarf'.events = dwarf.events
           /\ dwarf'.used = dwarf.used
<1>1. slot' = [slot EXCEPT ![i] = IdleSlot] /\ slot \in [Slots -> SlotType]
  BY Zenon DEF rd_clear_slot_metadata, IInv, TypeOK
<1>2. slot'[i] = IdleSlot /\ \A j \in Slots \ {i} : slot'[j] = slot[j]
  BY <1>1, Zenon
<1>3. dwarf \in DwarfType /\ dwarf' = [dwarf EXCEPT !.seed[i] = Idle]
  BY Zenon DEF rd_clear_slot_metadata, IInv, TypeOK
<1>4. /\ \A j \in Slots \ {i} : dwarf'.seed[j] = dwarf.seed[j]
      /\ dwarf'.reuse = dwarf.reuse /\ dwarf'.events = dwarf.events
      /\ dwarf'.used = dwarf.used
  BY <1>3, Zenon DEF DwarfType
<1> QED BY <1>2, <1>4, ClearedSlot DEF IdleSlot

LEMMA HwModify ==
    ASSUME IInv, HandInv, NEW addr \in Vas \cup {Idle},
           modify_user_hw_breakpoint(loc.slot, addr)
    PROVE  /\ hw' \in [Slots -> HwType]
           /\ \A j \in Slots \ {loc.slot} : hw'[j] = hw[j]
           /\ addr \in BadVas => hw'[loc.slot].addr = hw[loc.slot].addr
           /\ addr \notin BadVas =>
                /\ hw'[loc.slot].addr = addr
                /\ hw'[loc.slot].on = loc.enable
<1>1. hw \in [Slots -> HwType] /\ loc \in LocalsType /\ loc.slot \in Slots
  BY Zenon DEF HandInv, IInv, TypeOK, LocalsType
<1>2. hw[loc.slot] \in HwType /\ loc.enable \in BOOLEAN
  BY <1>1, Zenon DEF LocalsType
<1>3. CASE addr \in BadVas
  <2>1. hw' = [hw EXCEPT ![loc.slot] = [hw[loc.slot] EXCEPT !.on = ~hw[loc.slot].disabled]]
    BY <1>3, Zenon DEF modify_user_hw_breakpoint
  <2>2. (~hw[loc.slot].disabled) \in BOOLEAN
    BY Zenon
  <2>3. [hw[loc.slot] EXCEPT !.on = ~hw[loc.slot].disabled] \in HwType
    BY <1>2, <2>2, Zenon DEF HwType
  <2>4. [hw[loc.slot] EXCEPT !.on = ~hw[loc.slot].disabled].addr = hw[loc.slot].addr
    BY <1>2, Zenon DEF HwType
  <2> QED BY <1>1, <1>3, <2>1, <2>3, <2>4, Zenon
<1>4. CASE addr \notin BadVas
  <2>1. hw' = [hw EXCEPT ![loc.slot] =
                 [addr |-> addr, disabled |-> ~loc.enable, on |-> loc.enable]]
    BY <1>4, Zenon DEF modify_user_hw_breakpoint
  <2>2. (~loc.enable) \in BOOLEAN
    BY Zenon
  <2>3. [addr |-> addr, disabled |-> ~loc.enable, on |-> loc.enable] \in HwType
    BY <1>2, <2>2, Zenon DEF HwType
  <2> QED BY <1>1, <1>4, <2>1, <2>3, Zenon
<1> QED BY <1>3, <1>4, Zenon

\* The locals at the end of a handler.
LEMMA LocalsKept ==
    ASSUME IInv, loc' = [NoLocals EXCEPT !.pc = loc.pc, !.va = loc.va]
    PROVE  loc'.va = loc.va /\ loc'.pc = loc.pc
  BY Zenon DEF NoLocals

LEMMA HandAccept ==
    ASSUME IInv, HandInv, NEW chain \in Chains, rd_bp_accept(chain)
    PROVE  HandInv'
<1>1. PICK pick \in Slots, id \in ContextId(chain) :
      /\ at = "bp"
      /\ slot'[pick] = ArmedSlot(id) /\ \A i \in Slots \ {pick} : slot'[i] = slot[i]
      /\ Armed' = Armed \cup {pick}
      /\ at' = IF callchain_mode = "DWARF" THEN "bp_snap" ELSE "bp_flag"
      /\ loc'.slot = pick /\ loc'.va = loc.va /\ loc'.pc = loc.pc
      /\ seen' = [seen EXCEPT ![pick] = [Unseen EXCEPT !.whole = ~cut]]
      /\ UNCHANGED <<perfVars, cut>>
  BY AcceptStep, Zenon
<1>2. hw' \in [Slots -> HwType] /\ seen \in [Slots -> SeenType]
  BY <1>1, Zenon DEF HandInv, perfVars
<1>3. (~cut) \in BOOLEAN
  BY Zenon
<1>4. [Unseen EXCEPT !.whole = ~cut] \in SeenType
  BY <1>3, Zenon DEF Unseen, SeenType
<1>5. seen' \in [Slots -> SeenType]
  BY <1>1, <1>2, <1>4, Zenon
<1>6. slot'[pick].seed_va = loc.va /\ slot'[pick].target = loc.pc
  BY <1>1 DEF ArmedSlot
<1>7. \A i \in Slots \ Armed' : slot'[i].seed_va = Idle
  BY <1>1 DEF HandInv
<1> QED BY <1>1, <1>2, <1>5, <1>6, <1>7, Zenon DEF HandInv, BpWork, WpWork, IdleWork

LEMMA HandReport ==
    ASSUME IInv, HandInv, NEW i \in Slots, rd_watchpoint_report_pre(i)
    PROVE  HandInv'
<1>1. /\ hw' \in [Slots -> HwType] /\ seen' \in [Slots -> SeenType]
      /\ at = "mem" /\ Armed' = Armed
  BY ReportStep, Zenon DEF HandInv, perfVars, ghostVars
<1>2. \A j \in Slots \ Armed' : slot'[j].seed_va = Idle
  <2> SUFFICES ASSUME NEW j \in Slots \ Armed' PROVE slot'[j].seed_va = Idle
    BY Zenon
  <2>1. slot[j].seed_va = Idle
    BY <1>1, Zenon DEF HandInv
  <2>2. slot'[j].seed_va = slot[j].seed_va
    <3>1. CASE j = i
      BY <3>1, ReportStep, Zenon
    <3>2. CASE j # i
      BY <3>2, ReportStep, Zenon
    <3> QED BY <3>1, <3>2, Zenon
  <2> QED BY <2>1, <2>2, Zenon
<1>3. CASE at' = at
  BY <1>1, <1>2, <1>3, Zenon DEF HandInv, BpWork, WpWork, IdleWork
<1>4. CASE at' # at
  <2>1. /\ at' = IF callchain_mode = "DWARF" THEN "wp_snap" ELSE "wp_record"
        /\ loc'.slot = i
        /\ loc'.target = slot[i].target
        /\ loc'.seed_access = slot[i].seed_access
        /\ loc'.context = slot[i].context
    BY <1>4, ReportStep, Zenon
  <2>2. /\ slot'[i].target = slot[i].target
        /\ slot'[i].seed_access = slot[i].seed_access
        /\ slot'[i].context = slot[i].context
    BY ReportStep, Zenon
  <2> QED BY <1>1, <1>2, <2>1, <2>2, Zenon DEF HandInv, BpWork, WpWork, IdleWork
<1> QED BY <1>3, <1>4, Zenon

LEMMA HandBpModify == IInv /\ HandInv /\ rd_bp_modify => HandInv'
<1> SUFFICES ASSUME IInv, HandInv, rd_bp_modify PROVE HandInv'
  BY Zenon
<1>1. at = "bp_modify" /\ loc.slot \in Slots /\ loc.va \in Vas /\ seen' = seen
  BY Zenon DEF rd_bp_modify, IInv, TypeOK, LocalsInv, LocalsType
<1>2. hw' \in [Slots -> HwType]
  BY <1>1, HwModify, Zenon DEF rd_bp_modify
<1>3. CASE loc.va \in BadVas
  <2>1. at' = "idle_flag" /\ rd_clear_slot_metadata(loc.slot) /\ loc' = loc
    BY <1>3, Zenon DEF rd_bp_modify
  <2>2. /\ Armed' = Armed \ {loc.slot}
        /\ slot'[loc.slot].seed_va = Idle
        /\ \A j \in Slots \ {loc.slot} : slot'[j] = slot[j]
    BY <1>1, <2>1, ClearStep, Zenon
  <2>3. \A j \in Slots \ Armed' : slot'[j].seed_va = Idle
    BY <2>2, Zenon DEF HandInv
  <2> QED BY <1>1, <1>2, <2>1, <2>2, <2>3, Zenon DEF HandInv, BpWork, WpWork, IdleWork
<1>4. CASE loc.va \notin BadVas
  <2>1. at' = "mem" /\ UNCHANGED slot
    BY <1>4, Zenon DEF rd_bp_modify
  <2>2. Armed' = Armed
    BY <2>1, Zenon DEF Armed
  <2> QED BY <1>1, <1>2, <2>1, <2>2, Zenon DEF HandInv, BpWork, WpWork, IdleWork
<1> QED BY <1>3, <1>4, Zenon

LEMMA HandWpClear == IInv /\ HandInv /\ rd_wp_clear => HandInv'
<1> SUFFICES ASSUME IInv, HandInv, rd_wp_clear PROVE HandInv'
  BY Zenon
<1>1. /\ at = "wp_clear" /\ at' = "idle_flag" /\ loc' = loc
      /\ loc.slot \in Slots /\ UNCHANGED <<hw, seen>>
      /\ IF loc.slot \in Armed THEN rd_clear_slot_metadata(loc.slot)
                               ELSE UNCHANGED <<slot, dwarf>>
  BY Zenon DEF rd_wp_clear, perfVars, ghostVars, IInv, TypeOK, LocalsType
<1>2. CASE loc.slot \in Armed
  <2>1. /\ Armed' = Armed \ {loc.slot}
        /\ slot'[loc.slot].seed_va = Idle
        /\ \A j \in Slots \ {loc.slot} : slot'[j] = slot[j]
    BY <1>1, <1>2, ClearStep, Zenon
  <2>2. \A j \in Slots \ Armed' : slot'[j].seed_va = Idle
    BY <2>1, Zenon DEF HandInv
  <2> QED BY <1>1, <2>1, <2>2, Zenon DEF HandInv, BpWork, WpWork, IdleWork
<1>3. CASE loc.slot \notin Armed
  <2>1. Armed' = Armed /\ slot' = slot
    BY <1>1, <1>3, Zenon DEF Armed
  <2> QED BY <1>1, <1>3, <2>1, Zenon DEF HandInv, BpWork, WpWork, IdleWork
<1> QED BY <1>2, <1>3, Zenon

LEMMA RetireStep ==
    ASSUME HandInv, Retire
    PROVE  /\ seen' \in [Slots -> SeenType]
           /\ \A i \in Armed :
                /\ seen'[i].whole = seen[i].whole
                /\ seen'[i].touched = IF slot[i].seed_va = loc.va THEN seen[i].touched + 1
                                                                ELSE seen[i].touched
                /\ seen'[i].between = IF seen[i].touched = 0 THEN seen[i].between
                                                             ELSE seen[i].between + 1
<1> DEFINE t(i) == IF slot[i].seed_va = loc.va THEN seen[i].touched + 1 ELSE seen[i].touched
           b(i) == IF seen[i].touched = 0 THEN seen[i].between ELSE seen[i].between + 1
           u(i) == [seen[i] EXCEPT !.touched = t(i), !.between = b(i)]
<1>1. seen \in [Slots -> SeenType]
  BY Zenon DEF HandInv
<1>2. seen' = [i \in Slots |-> IF i \notin Armed THEN seen[i] ELSE u(i)]
  BY Zenon DEF Retire
<1>3. \A i \in Slots : t(i) \in Nat /\ b(i) \in Nat
  BY <1>1 DEF SeenType
<1> HIDE DEF t, b
<1>4. \A i \in Slots : u(i) \in SeenType /\ u(i).touched = t(i) /\ u(i).between = b(i)
                                         /\ u(i).whole = seen[i].whole
  <2> TAKE i \in Slots
  <2>1. seen[i] \in SeenType /\ t(i) \in Nat /\ b(i) \in Nat
    BY <1>1, <1>3, Zenon
  <2> QED BY <2>1, Zenon DEF SeenType
<1> HIDE DEF u
<1>5. seen' \in [Slots -> SeenType]
  BY <1>1, <1>2, <1>4, Zenon
<1>6. \A i \in Armed : seen'[i] = u(i)
  BY <1>2, Zenon DEF Armed
<1>7. Armed \subseteq Slots
  BY Zenon DEF Armed
<1> QED BY <1>4, <1>5, <1>6, <1>7, Zenon DEF t, b

LEMMA HandThread == IInv /\ HandInv /\ ThreadStep => HandInv'
<1> SUFFICES ASSUME IInv, HandInv, ThreadStep PROVE HandInv'
  BY Zenon
<1> USE DEF perfVars, threadVars, ghostVars
<1>1. hw \in [Slots -> HwType] /\ seen \in [Slots -> SeenType] /\ loc \in LocalsType
  BY Zenon DEF HandInv, IInv, TypeOK
<1>2. CASE \E p \in Targets \cup OtherPcs, va \in Vas :
             Execute(p, va) \/ rd_perf_event_overflow_pre(p, va)
  <2>1. at' \in {"mem", "bp"} /\ UNCHANGED <<hw, seen, slot>>
    BY <1>2, Zenon DEF Execute, rd_perf_event_overflow_pre, Begin
  <2>2. Armed' = Armed
    BY <2>1, Zenon DEF Armed
  <2> QED BY <1>1, <2>1, <2>2, Zenon DEF HandInv, BpWork, WpWork, IdleWork
<1>3. CASE Retire
  <2>1. at' = "user" /\ UNCHANGED <<hw, slot>>
    BY <1>3, Zenon DEF Retire
  <2>2. Armed' = Armed
    BY <2>1, Zenon DEF Armed
  <2>3. seen' \in [Slots -> SeenType]
    BY <1>3, RetireStep, Zenon
  <2> QED BY <1>1, <2>1, <2>2, <2>3, Zenon DEF HandInv, BpWork, WpWork, IdleWork
<1>4. CASE \E chain \in Chains : rd_bp_accept(chain)
  BY <1>4, HandAccept, Zenon
<1>5. CASE \E i \in Slots : rd_watchpoint_report_pre(i)
  BY <1>5, HandReport, Zenon
<1>6. CASE rd_bp_modify \/ rd_wp_clear
  BY <1>6, HandBpModify, HandWpClear, Zenon
<1>7. CASE rd_bp_snapshot \/ rd_wp_snapshot \/ rd_wp_fill \/ rd_wp_publish
  <2>1. UNCHANGED <<hw, seen, slot, loc>>
    BY <1>7, Zenon DEF rd_bp_snapshot, rd_wp_snapshot, rd_wp_fill, rd_wp_publish
  <2>2. Armed' = Armed
    BY <2>1, Zenon DEF Armed
  <2>3. \/ at = "bp_snap" /\ at' = "bp_flag"
        \/ at \in {"wp_snap", "wp_fill", "wp_publish"}
             /\ at' \in {"wp_record", "wp_publish", "wp_clear"}
    BY <1>7, Zenon DEF rd_bp_snapshot, rd_wp_snapshot, rd_wp_fill, rd_wp_publish
  <2> QED BY <2>1, <2>2, <2>3, Zenon DEF HandInv, BpWork, WpWork, IdleWork
<1>8. CASE \E chain \in Chains : rd_wp_record(chain)
  <2>1. /\ at = "wp_record" /\ at' \in {"wp_fill", "wp_clear"}
        /\ UNCHANGED <<hw, seen, slot>>
        /\ loc' = [loc EXCEPT !.index = IF CanReserve THEN dwarf.used + 1 ELSE 0]
    BY <1>8, Zenon DEF rd_wp_record
  <2>2. Armed' = Armed
    BY <2>1, Zenon DEF Armed
  <2>3. /\ loc'.slot = loc.slot /\ loc'.target = loc.target
        /\ loc'.seed_access = loc.seed_access /\ loc'.context = loc.context
    BY <1>1, <2>1, Zenon DEF LocalsType
  <2> QED BY <2>1, <2>2, <2>3 DEF HandInv, BpWork, WpWork, IdleWork
<1>9. CASE \/ rd_modify_flag("bp_flag", "bp_modify")
           \/ rd_modify_flag("idle_flag", "idle_modify")
  <2>1. /\ \/ at = "bp_flag" /\ at' = "bp_modify"
           \/ at = "idle_flag" /\ at' = "idle_modify"
        /\ UNCHANGED <<hw, seen, slot>>
        /\ loc' = [loc EXCEPT !.enable = running /\ active]
    BY <1>9, Zenon DEF rd_modify_flag
  <2>2. Armed' = Armed
    BY <2>1, Zenon DEF Armed
  <2>3. loc'.slot = loc.slot /\ loc'.va = loc.va /\ loc'.pc = loc.pc
    BY <1>1, <2>1, Zenon DEF LocalsType
  <2> QED BY <2>1, <2>2, <2>3 DEF HandInv, BpWork, WpWork, IdleWork
<1>10. CASE rd_modify_slot_idle
  <2>1. at' = "mem" /\ UNCHANGED <<seen, slot>>
    BY <1>10, Zenon DEF rd_modify_slot_idle
  <2>2. hw' \in [Slots -> HwType]
    BY <1>10, HwModify, Zenon DEF rd_modify_slot_idle
  <2>3. Armed' = Armed
    BY <2>1, Zenon DEF Armed
  <2> QED BY <1>1, <2>1, <2>2, <2>3, Zenon DEF HandInv, BpWork, WpWork, IdleWork
<1> QED BY <1>2, <1>3, <1>4, <1>5, <1>6, <1>7, <1>8, <1>9, <1>10, Zenon DEF ThreadStep

LEMMA HandInit == Init => HandInv
<1> SUFFICES ASSUME Init PROVE HandInv
  BY Zenon
<1>1. hw \in [Slots -> HwType]
  BY Zenon DEF Init, HwType
<1>2. seen \in [Slots -> SeenType]
  BY Zenon DEF Init, Unseen, SeenType
<1>3. \A i \in Slots : slot[i].seed_va = Idle
  BY Zenon DEF Init, IdleSlot
<1> QED BY <1>1, <1>2, <1>3, Zenon DEF Init, HandInv, BpWork, WpWork, IdleWork

LEMMA HandStutter == HandInv /\ UNCHANGED vars => HandInv'
  BY SameHandInv, Zenon DEF vars, perfVars, threadVars, ghostVars, HandInv

LEMMA HandInductive == Spec => [](IInv /\ HandInv)
<1>1. IInv /\ HandInv /\ [Next]_vars => HandInv'
  BY HandIoctl, HandThread, HandStutter, Zenon DEF Next, Quiet
<1> QED BY Inductive, HandInit, <1>1, PTL DEF Spec

LEMMA WorkersHandle == (BpWork \/ WpWork \/ IdleWork) => InHandler /\ at # "bp"
  BY Zenon DEF BpWork, WpWork, IdleWork, InHandler, HandlerSteps

\* Whether the last RESET met a handler.
RacedOK == raced \in [slots : BOOLEAN, results : BOOLEAN]

LEMMA RacedThread == ThreadStep => raced' = raced
  BY Zenon DEF ThreadStep, ghostVars, Execute, rd_perf_event_overflow_pre, Begin, Retire,
     rd_bp_accept, rd_wp_record, rd_bp_snapshot, rd_modify_flag, rd_bp_modify,
     rd_watchpoint_report_pre, rd_wp_snapshot, rd_wp_fill, rd_wp_publish, rd_wp_clear,
     rd_modify_slot_idle

LEMMA RacedIoctl ==
    ASSUME IoctlStep, ~rd_reset_slots, ~rd_reset_thread_locked PROVE raced' = raced
  BY Zenon DEF IoctlStep, ghostVars, rd_start_window, rd_enable_mem, rd_enable_bps, rd_enable_wps,
     rd_stop_window, rd_disable_wps, rd_disable_bps, rd_disable_mem,
     rd_reset_session_locked, rd_detach_mark, rd_detach_count

LEMMA RacedInductive == Spec => []RacedOK
<1>1. Init => RacedOK
  BY DEF Init, RacedOK
<1>2. RacedOK /\ [Next]_vars => RacedOK'
  <2> SUFFICES ASSUME RacedOK, [Next]_vars PROVE RacedOK'
    BY Zenon
  <2>1. InHandler \in BOOLEAN
    BY DEF InHandler
  <2>2. CASE rd_reset_slots
    BY <2>1, <2>2, Zenon DEF rd_reset_slots, RacedOK
  <2>3. CASE rd_reset_thread_locked
    BY <2>1, <2>3, Zenon DEF rd_reset_thread_locked, RacedOK
  <2>4. CASE UNCHANGED vars
    BY <2>4, Zenon DEF vars, ghostVars, RacedOK
  <2>5. CASE ~rd_reset_slots /\ ~rd_reset_thread_locked /\ ~UNCHANGED vars
    <3>1. IoctlStep \/ ThreadStep
      BY <2>5, Zenon DEF Next, Quiet
    <3> QED BY <2>5, <3>1, RacedThread, RacedIoctl, Zenon DEF RacedOK
  <2> QED BY <2>2, <2>3, <2>4, <2>5, Zenon
<1> QED BY <1>1, <1>2, PTL DEF Spec

==============================================================================
