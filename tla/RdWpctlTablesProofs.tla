------------------------- MODULE RdWpctlTablesProofs -------------------------
(***************************************************************************)
(* The tables of call contexts and of pairs that the two locked sections   *)
(* of rd_handle_bp_hit and rd_handle_wp_hit fill: for every table size     *)
(* they fill up from the front, hold nothing twice, and every context id   *)
(* in use is in the table.  The buffer of DWARF events: every event has    *)
(* the snapshots of its own seed and reuse.                                *)
(***************************************************************************)
EXTENDS RdWpctlThreadProofs

TableType ==
    [log2_hist : [Targets -> [B!Buckets -> Nat]],
     pair_hist : [PairIds -> PairType \cup {Idle}], pair_hist_used : Nat,
     pair_hist_dropped : Nat,
     contexts : [ContextIds -> Chains \cup {Idle}], context_used : Nat,
     context_dropped : Nat]

ContextsOk(t) ==
    /\ \A id \in ContextIds : t.contexts[id] # Idle <=> id <= t.context_used
    /\ t.context_used <= RD_WPCTL_MAX_CONTEXTS
    /\ \A i, j \in ContextIds : t.contexts[i] = t.contexts[j] => i = j \/ t.contexts[i] = Idle

PairsOk(t) ==
    /\ \A i \in PairIds : t.pair_hist[i] # Idle <=> i <= t.pair_hist_used
    /\ t.pair_hist_used <= RD_WPCTL_MAX_PAIR_HISTS
    /\ \A i, j \in 1 .. t.pair_hist_used : t.pair_hist[i].key = t.pair_hist[j].key => i = j

\* The ids that a slot or a pair may refer to.
Known(t) == 0 .. t.context_used

-----------------------------------------------------------------------------
(***************************************************************************)
(* rd_get_context_id_locked.                                               *)
(***************************************************************************)
LEMMA ContextFiled ==
    ASSUME table \in TableType, ContextsOk(table),
           NEW chain \in Chains, NEW id \in ContextId(chain),
           NEW t, t = rd_get_context_id_locked(chain, id)
    PROVE  /\ t \in TableType /\ ContextsOk(t)
           /\ table.context_used <= t.context_used /\ id \in Known(t)
           /\ t.pair_hist = table.pair_hist /\ t.pair_hist_used = table.pair_hist_used
<1>1. chain # Idle /\ table.context_used \in Nat
  BY ConstantsAssumption, Zenon DEF TableType
<1>2. CASE callchain_mode # "FP"
  BY <1>1, <1>2 DEF ContextId, rd_get_context_id_locked, Known
<1>3. CASE callchain_mode = "FP" /\ ContextsOf(chain) # {}
  <2>1. id \in ContextIds /\ table.contexts[id] = chain
    BY <1>3, Zenon DEF ContextId, First, ContextsOf
  <2>2. t = table
    BY <1>3, <2>1 DEF rd_get_context_id_locked, ContextIds
  <2> QED BY <1>1, <2>1, <2>2 DEF ContextsOk, Known, ContextIds
<1>4. CASE callchain_mode = "FP" /\ ContextsOf(chain) = {} /\ ContextsOf(Idle) # {}
  <2>1. id \in ContextsOf(Idle) /\ \A j \in ContextsOf(Idle) : id <= j
    BY <1>4, Zenon DEF ContextId, First
  <2>2. id \in ContextIds /\ table.contexts[id] = Idle /\ id \in Nat /\ id # 0
    BY <2>1 DEF ContextsOf, ContextIds
  <2>3. id = table.context_used + 1
    <3>1. ~(id <= table.context_used)
      BY <2>2, Zenon DEF ContextsOk
    <3>2. table.context_used + 1 \in ContextIds
      BY <1>1, <2>2, <3>1, ConstantsAssumption DEF ContextIds
    <3>3. table.context_used + 1 \in ContextsOf(Idle)
      BY <1>1, <3>2 DEF ContextsOk, ContextsOf
    <3> QED BY <1>1, <2>1, <2>2, <3>1, <3>3
  <2>4. t = [table EXCEPT !.contexts[id] = chain, !.context_used = table.context_used + 1]
    BY <1>1, <1>4, <2>2, Zenon DEF rd_get_context_id_locked
  <2>5. /\ t \in TableType
        /\ t.contexts[id] = chain /\ \A j \in ContextIds \ {id} : t.contexts[j] = table.contexts[j]
        /\ t.context_used = table.context_used + 1
        /\ t.pair_hist = table.pair_hist /\ t.pair_hist_used = table.pair_hist_used
    <3> DEFINE c == [table.contexts EXCEPT ![id] = chain]
               n == table.context_used + 1
    <3>1. t = [table EXCEPT !.contexts = c, !.context_used = n]
      BY <2>4, Zenon
    <3>2. /\ c \in [ContextIds -> Chains \cup {Idle}] /\ n \in Nat /\ c[id] = chain
          /\ \A j \in ContextIds \ {id} : c[j] = table.contexts[j]
      BY <1>1, <2>2 DEF TableType
    <3> HIDE DEF c
    <3>3. t.contexts = c /\ t.context_used = n
      BY <3>1, Zenon DEF TableType
    <3> HIDE DEF n
    <3>4. t \in TableType
      BY <3>1, <3>2, Zenon DEF TableType
    <3>5. t.pair_hist = table.pair_hist /\ t.pair_hist_used = table.pair_hist_used
      BY <3>1, Zenon DEF TableType
    <3> QED BY <3>2, <3>3, <3>4, <3>5, Zenon DEF n
  <2>6. \A j \in ContextIds : table.contexts[j] # chain
    BY <1>4, Zenon DEF ContextsOf
  <2>7. ContextsOk(t)
    BY <1>1, <2>2, <2>3, <2>5, <2>6, ConstantsAssumption DEF ContextsOk, ContextIds
  <2> QED BY <1>1, <2>2, <2>3, <2>5, <2>7 DEF Known
<1>5. CASE callchain_mode = "FP" /\ ContextsOf(chain) = {} /\ ContextsOf(Idle) = {}
  <2>1. id = 0
    BY <1>5, Zenon DEF ContextId
  <2>2. t = [table EXCEPT !.context_dropped = table.context_dropped + 1]
    BY <1>5, <2>1, Zenon DEF rd_get_context_id_locked
  <2>3. /\ t \in TableType /\ t.contexts = table.contexts /\ t.context_used = table.context_used
        /\ t.pair_hist = table.pair_hist /\ t.pair_hist_used = table.pair_hist_used
    BY <2>2 DEF TableType
  <2> QED BY <1>1, <2>1, <2>3 DEF ContextsOk, Known
<1> QED BY <1>2, <1>3, <1>4, <1>5, Zenon

\* u is t with a hit filed under key, or dropped.
PairAdded(t, u, key) ==
    /\ u \in TableType /\ PairsOk(u)
    /\ u.contexts = t.contexts /\ u.context_used = t.context_used
    /\ \A i \in PairIds : u.pair_hist[i] # Idle =>
         \/ u.pair_hist[i].key = key
         \/ t.pair_hist[i] # Idle /\ u.pair_hist[i].key = t.pair_hist[i].key

(***************************************************************************)
(* rd_add_pair_hist_locked.                                                *)
(***************************************************************************)
LEMMA PairFiled ==
    ASSUME NEW t \in TableType, PairsOk(t), NEW key \in Keys, NEW bucket,
           NEW u, u = rd_add_pair_hist_locked(t, key, bucket)
    PROVE  PairAdded(t, u, key)
<1> USE DEF PairAdded
<1> DEFINE same == {i \in PairIds : t.pair_hist[i] # Idle /\ t.pair_hist[i].key = key}
           free == {i \in PairIds : t.pair_hist[i] = Idle}
           one == [b \in B!Buckets |-> IF b = bucket THEN 1 ELSE 0]
           entry == [key |-> key, buckets |-> one]
<1>1. u = IF same # {} THEN [t EXCEPT !.pair_hist[Min(same)].buckets[bucket] = @ + 1]
          ELSE IF free = {} THEN [t EXCEPT !.pair_hist_dropped = @ + 1]
          ELSE [t EXCEPT !.pair_hist[Min(free)] = entry, !.pair_hist_used = @ + 1]
  BY Zenon DEF rd_add_pair_hist_locked
<1>2. /\ t.pair_hist \in [PairIds -> PairType \cup {Idle}] /\ t.pair_hist_used \in Nat
      /\ t.pair_hist_dropped \in Nat
  BY Zenon DEF TableType
<1>3. CASE same # {}
  <2>1. Min(same) \in same
    <3>1. same \subseteq Nat
      BY DEF PairIds
    <3>2. \A x, y \in same : x = y
      BY <1>2, <3>1 DEF PairsOk, PairIds
    <3>3. \E x \in same : \A y \in same : x <= y
      BY <1>3, <3>1, <3>2
    <3> QED BY <3>3, Zenon DEF Min
  <2>2. PICK m : m = Min(same)
    BY Zenon
  <2>3. m \in PairIds /\ t.pair_hist[m] # Idle /\ t.pair_hist[m].key = key
    BY <2>1, <2>2, Zenon
  <2>4. t.pair_hist[m] \in PairType
    BY <1>2, <2>3, Zenon
  <2> DEFINE e == [t.pair_hist[m] EXCEPT !.buckets[bucket] = t.pair_hist[m].buckets[bucket] + 1]
             h == [t.pair_hist EXCEPT ![m] = e]
  <2>5. e \in PairType /\ e.key = key
    BY <2>3, <2>4 DEF PairType
  <2>6. u = [t EXCEPT !.pair_hist = h]
    BY <1>1, <1>3, <2>2, Zenon
  <2>7. h \in [PairIds -> PairType \cup {Idle}] /\ h[m] = e
        /\ \A i \in PairIds \ {m} : h[i] = t.pair_hist[i]
    BY <1>2, <2>3, <2>5, Zenon
  <2> HIDE DEF e, h
  <2>8. /\ u \in TableType /\ u.pair_hist = h /\ u.pair_hist_used = t.pair_hist_used
        /\ u.contexts = t.contexts /\ u.context_used = t.context_used
    BY <2>6, <2>7, Zenon DEF TableType
  <2>9. h[m] # Idle /\ \A i \in PairIds : h[i] # Idle <=> t.pair_hist[i] # Idle
    BY <2>3, <2>5, <2>7, FreePairAssumption, Zenon
  <2>10. \A i \in PairIds : h[i] # Idle => h[i].key = t.pair_hist[i].key
    BY <2>3, <2>5, <2>7, Zenon
  <2>11. 1 .. t.pair_hist_used \subseteq PairIds
    BY <1>2, ConstantsAssumption DEF PairsOk, PairIds
  <2>12. PairsOk(u)
    BY <2>8, <2>9, <2>10, <2>11 DEF PairsOk
  <2> QED BY <2>8, <2>9, <2>10, <2>12, Zenon
<1>4. CASE same = {} /\ free = {}
  <2>1. u = [t EXCEPT !.pair_hist_dropped = t.pair_hist_dropped + 1]
    BY <1>1, <1>4, Zenon
  <2>2. /\ u \in TableType /\ u.pair_hist = t.pair_hist /\ u.pair_hist_used = t.pair_hist_used
        /\ u.contexts = t.contexts /\ u.context_used = t.context_used
    BY <1>2, <2>1 DEF TableType
  <2> QED BY <2>2 DEF PairsOk
<1>5. CASE same = {} /\ free # {}
  <2>1. t.pair_hist_used + 1 \in free /\ \A y \in free : t.pair_hist_used + 1 <= y
    BY <1>2, <1>5, ConstantsAssumption DEF PairsOk, PairIds
  <2>2. Min(free) = t.pair_hist_used + 1
    <3>1. Min(free) \in free /\ \A y \in free : Min(free) <= y
      BY <2>1, Zenon DEF Min
    <3>2. free \subseteq Nat
      BY DEF PairIds
    <3>3. PICK m : m = Min(free)
      BY Zenon
    <3>4. m \in Nat /\ m <= t.pair_hist_used + 1 /\ t.pair_hist_used + 1 <= m
      BY <2>1, <3>1, <3>2, <3>3, Zenon
    <3>5. m = t.pair_hist_used + 1
      BY <1>2, <3>4
    <3> QED BY <3>3, <3>5, Zenon
  <2>3. PICK n : n = t.pair_hist_used + 1
    BY Zenon
  <2>4. n \in PairIds /\ n \in Nat /\ t.pair_hist[n] = Idle
    BY <1>2, <2>1, <2>3
  <2> DEFINE h == [t.pair_hist EXCEPT ![n] = entry]
  <2>5. entry \in PairType /\ entry.key = key
    BY Zenon DEF PairType
  <2>6. u = [t EXCEPT !.pair_hist = h, !.pair_hist_used = n]
    BY <1>1, <1>5, <2>2, <2>3, Zenon
  <2> HIDE DEF entry, same, free
  <2>7. h \in [PairIds -> PairType \cup {Idle}] /\ h[n] = entry
        /\ \A i \in PairIds \ {n} : h[i] = t.pair_hist[i]
    BY <1>2, <2>4, <2>5, Zenon
  <2> HIDE DEF h
  <2>8. /\ u \in TableType /\ u.pair_hist = h /\ u.pair_hist_used = n
        /\ u.contexts = t.contexts /\ u.context_used = t.context_used
    BY <2>4, <2>6, <2>7, Zenon DEF TableType
  <2>9. h[n] # Idle /\ h[n].key = key
    BY <2>5, <2>7, FreePairAssumption, Zenon
  <2>10. 1 .. n \subseteq PairIds
    <3>1. n <= RD_WPCTL_MAX_PAIR_HISTS /\ RD_WPCTL_MAX_PAIR_HISTS \in Nat
      BY <2>4, ConstantsAssumption DEF PairIds
    <3> QED BY <2>4, <3>1 DEF PairIds
  <2>11. \A i \in 1 .. t.pair_hist_used : t.pair_hist[i].key # key
    BY <1>2, <1>5, <2>3, <2>10 DEF PairsOk, same
  <2>12. PairsOk(u)
    <3>1. \A i \in PairIds : h[i] # Idle <=> i <= n
      BY <1>2, <2>3, <2>4, <2>7, <2>9 DEF PairsOk, PairIds
    <3>2. n <= RD_WPCTL_MAX_PAIR_HISTS
      BY <2>4, ConstantsAssumption DEF PairIds
    <3>3. \A i \in 1 .. n : i # n => i \in 1 .. t.pair_hist_used /\ h[i] = t.pair_hist[i]
      BY <1>2, <2>3, <2>7, <2>10
    <3>4. \A i, j \in 1 .. n : h[i].key = h[j].key => i = j
      BY <2>9, <2>11, <3>3, Zenon DEF PairsOk
    <3> QED BY <2>8, <3>1, <3>2, <3>4, Zenon DEF PairsOk
  <2> QED BY <2>7, <2>8, <2>9, <2>12, Zenon
<1> QED BY <1>3, <1>4, <1>5, Zenon

\* The table after the hit was filed under its target.
Counted(t, target, bucket) == [t EXCEPT !.log2_hist[target][bucket] = @ + 1]

SamePairs(t, u) ==
    /\ u \in TableType
    /\ u.contexts = t.contexts /\ u.context_used = t.context_used
    /\ u.pair_hist = t.pair_hist /\ u.pair_hist_used = t.pair_hist_used

LEMMA BucketFiled ==
    ASSUME NEW t \in TableType, NEW target, NEW bucket,
           NEW u, u = Counted(t, target, bucket)
    PROVE  SamePairs(t, u)
<1> DEFINE row == [t.log2_hist[target] EXCEPT ![bucket] = t.log2_hist[target][bucket] + 1]
           h == [t.log2_hist EXCEPT ![target] = row]
<1>1. u = [t EXCEPT !.log2_hist = h]
  BY Zenon DEF Counted
<1>2. h \in [Targets -> [B!Buckets -> Nat]]
  <2>1. t.log2_hist \in [Targets -> [B!Buckets -> Nat]]
    BY Zenon DEF TableType
  <2>2. target \in Targets => row \in [B!Buckets -> Nat]
    <3> SUFFICES ASSUME target \in Targets PROVE row \in [B!Buckets -> Nat]
      BY Zenon
    <3>1. PICK r : r = t.log2_hist[target]
      BY Zenon
    <3>2. r \in [B!Buckets -> Nat]
      BY <2>1, <3>1, Zenon
    <3>3. [r EXCEPT ![bucket] = r[bucket] + 1] \in [B!Buckets -> Nat]
      <4>1. PICK v : v = r[bucket] + 1
        BY Zenon
      <4>2. bucket \in B!Buckets => v \in Nat
        BY <3>2, <4>1
      <4>3. [r EXCEPT ![bucket] = v] \in [B!Buckets -> Nat]
        BY <3>2, <4>2, Zenon
      <4> QED BY <4>1, <4>3, Zenon
    <3> QED BY <3>1, <3>3, Zenon
  <2> HIDE DEF row
  <2> QED BY <2>1, <2>2, Zenon
<1> HIDE DEF h
<1> QED BY <1>1, <1>2, Zenon DEF TableType, SamePairs

-----------------------------------------------------------------------------
PairsKnown == \A i \in PairIds : table.pair_hist[i] # Idle =>
                 {table.pair_hist[i].key[2], table.pair_hist[i].key[4]} \subseteq Known(table)

TablesInv ==
    /\ table \in TableType /\ ContextsOk(table) /\ PairsOk(table)
    /\ \A i \in Armed : slot[i].context \in Known(table)
    /\ stale = 0 => PairsKnown

LEMMA TablesKept ==
    ASSUME TablesInv, table' = table, Armed' \subseteq Armed,
           \A i \in Armed' : slot'[i].context = slot[i].context, stale' = 0 => stale = 0
    PROVE  TablesInv'
  BY Zenon DEF TablesInv, PairsKnown

LEMMA TablesEmpty ==
    ASSUME NEW t, t = EmptyTable
    PROVE  /\ t \in TableType /\ ContextsOk(t) /\ PairsOk(t)
           /\ \A i \in PairIds : t.pair_hist[i] = Idle
<1>1. t.pair_hist = [i \in PairIds |-> Idle] /\ t.contexts = [i \in ContextIds |-> Idle]
      /\ t.pair_hist_used = 0 /\ t.context_used = 0
  BY Zenon DEF EmptyTable
<1>2. t \in TableType
  BY Zenon DEF EmptyTable, TableType
<1>3. ContextsOk(t)
  BY <1>1, ConstantsAssumption DEF ContextsOk, ContextIds
<1>4. PairsOk(t)
  BY <1>1, ConstantsAssumption DEF PairsOk, PairIds
<1> QED BY <1>1, <1>2, <1>3, <1>4, Zenon

LEMMA TablesIoctl == IInv /\ TablesInv /\ IoctlStep => TablesInv'
<1> SUFFICES ASSUME IInv, TablesInv, IoctlStep PROVE TablesInv'
  BY Zenon
<1> USE DEF perfVars, threadVars, ghostVars, resultVars
<1>1. CASE rd_reset_thread_locked
  <2>1. table' = EmptyTable /\ Armed' = {}
    BY <1>1, ArmedEmpty, Zenon DEF rd_reset_thread_locked
  <2>2. /\ table' \in TableType /\ ContextsOk(table') /\ PairsOk(table')
        /\ \A i \in PairIds : table'.pair_hist[i] = Idle
    BY <2>1, TablesEmpty, Zenon
  <2> QED BY <2>1, <2>2, Zenon DEF TablesInv, PairsKnown, ContextsOk, PairsOk
<1>2. CASE rd_detach_count
  BY <1>2, ArmedEmpty, TablesKept, Zenon DEF rd_detach_count
<1>3. CASE ~(rd_reset_thread_locked \/ rd_detach_count)
  <2>1. UNCHANGED <<slot, table, stale>>
    BY <1>3, Zenon DEF IoctlStep, rd_start_window, rd_enable_mem, rd_enable_bps, rd_enable_wps,
       rd_stop_window, rd_disable_wps, rd_disable_bps, rd_disable_mem,
       rd_reset_session_locked, rd_reset_slots, rd_detach_mark
  <2>2. Armed' = Armed
    BY <2>1, Zenon DEF Armed
  <2> QED BY <2>1, <2>2, TablesKept, Zenon
<1> QED BY <1>1, <1>2, <1>3, Zenon

LEMMA TablesAccept ==
    ASSUME IInv, TablesInv, NEW chain \in Chains, rd_bp_accept(chain)
    PROVE  TablesInv'
<1>1. PICK pick \in Slots, id \in ContextId(chain) :
      /\ slot'[pick] = ArmedSlot(id) /\ \A i \in Slots \ {pick} : slot'[i] = slot[i]
      /\ Armed' = Armed \cup {pick}
      /\ table' = rd_get_context_id_locked(chain, id)
      /\ UNCHANGED stale
  BY AcceptStep, Zenon
<1>2. table \in TableType /\ ContextsOk(table) /\ PairsOk(table)
  BY Zenon DEF TablesInv
<1>3. PICK t : t = rd_get_context_id_locked(chain, id)
  BY Zenon
<1>4. /\ t \in TableType /\ ContextsOk(t)
      /\ table.context_used <= t.context_used /\ id \in Known(t)
      /\ t.pair_hist = table.pair_hist /\ t.pair_hist_used = table.pair_hist_used
  BY <1>2, <1>3, ContextFiled, Zenon
<1>5. table' = t /\ PairsOk(t)
  BY <1>1, <1>2, <1>3, <1>4 DEF PairsOk
<1>6. Known(table) \subseteq Known(t)
  BY <1>2, <1>4 DEF Known, TableType
<1>7. slot'[pick].context = id /\ Armed \subseteq Slots
  BY <1>1 DEF ArmedSlot, Armed
<1>8. \A i \in Armed' : slot'[i].context \in Known(t)
  BY <1>1, <1>4, <1>6, <1>7, Zenon DEF TablesInv
<1>9. PairsKnown => PairsKnown'
  BY <1>4, <1>5, <1>6, Zenon DEF PairsKnown
<1> QED BY <1>1, <1>4, <1>5, <1>8, <1>9 DEF TablesInv, ContextsOk, PairsOk

LEMMA TablesRecord ==
    ASSUME IInv, HandInv, TablesInv, NEW chain \in Chains, rd_wp_record(chain)
    PROVE  TablesInv'
<1>1. PICK bucket : bucket = B!rd_log2_bucket(Delta)
  BY Zenon
<1>2. PICK id \in ContextId(chain) :
        table' = rd_add_pair_hist_locked(
                   Counted(rd_get_context_id_locked(chain, id), loc.target, bucket),
                   <<loc.target, loc.context, loc.pc, id>>, bucket)
  BY <1>1, Zenon DEF rd_wp_record, Counted
<1>3. /\ at = "wp_record" /\ UNCHANGED slot
      /\ stale' = IF loc.slot \in Armed THEN stale ELSE stale + 1
  BY Zenon DEF rd_wp_record
<1>4. table \in TableType /\ ContextsOk(table) /\ PairsOk(table)
  BY Zenon DEF TablesInv
<1>5. PICK t : t = rd_get_context_id_locked(chain, id)
  BY Zenon
<1>6. /\ t \in TableType /\ ContextsOk(t)
      /\ table.context_used <= t.context_used /\ id \in Known(t)
      /\ t.pair_hist = table.pair_hist /\ t.pair_hist_used = table.pair_hist_used
  BY <1>4, <1>5, ContextFiled, Zenon
<1>7. PICK u : u = Counted(t, loc.target, bucket)
  BY Zenon
<1>8. /\ u \in TableType
      /\ u.contexts = t.contexts /\ u.context_used = t.context_used
      /\ u.pair_hist = t.pair_hist /\ u.pair_hist_used = t.pair_hist_used
  <2>1. t \in TableType
    BY <1>6, Zenon
  <2>2. SamePairs(t, u)
    BY <1>7, <2>1, BucketFiled, Zenon
  <2> QED BY <2>2, Zenon DEF SamePairs
<1>9. PICK key : key = <<loc.target, loc.context, loc.pc, id>>
  BY Zenon
<1>10. key \in Keys /\ key[2] = loc.context /\ key[4] = id
  <2>1. id \in Nat
    BY <1>6 DEF Known, TableType
  <2>2. loc.target \in Targets \cup {Idle} /\ loc.context \in Nat /\ loc.pc \in Pcs
    BY Zenon DEF IInv, TypeOK, LocalsType
  <2> QED BY <1>9, <2>1, <2>2, Zenon DEF Keys
<1>11. table' = rd_add_pair_hist_locked(u, key, bucket)
  BY <1>2, <1>5, <1>7, <1>9, Zenon
<1>12. PairsOk(u)
  BY <1>4, <1>6, <1>8 DEF PairsOk
<1>13. PICK w : w = rd_add_pair_hist_locked(u, key, bucket)
  BY Zenon
<1>14. /\ w \in TableType /\ PairsOk(w)
       /\ w.contexts = u.contexts /\ w.context_used = u.context_used
       /\ \A i \in PairIds : w.pair_hist[i] # Idle =>
            \/ w.pair_hist[i].key = key
            \/ u.pair_hist[i] # Idle /\ w.pair_hist[i].key = u.pair_hist[i].key
  <2>1. u \in TableType /\ key \in Keys
    BY <1>8, <1>10, Zenon
  <2>2. PairAdded(u, w, key)
    BY <1>12, <1>13, <2>1, PairFiled, Zenon
  <2> QED BY <2>2, Zenon DEF PairAdded
<1>15. table' = w /\ ContextsOk(w)
  <2>1. w.contexts = t.contexts /\ w.context_used = t.context_used
    BY <1>8, <1>14, Zenon
  <2>2. ContextsOk(w)
    BY <1>6, <2>1, Zenon DEF ContextsOk
  <2> QED BY <1>11, <1>13, <2>2, Zenon
<1>16. Known(table) \subseteq Known(w) /\ id \in Known(w)
  BY <1>4, <1>6, <1>8, <1>14 DEF Known, TableType
<1>17. Armed' = Armed /\ \A i \in Armed' : slot'[i].context \in Known(w)
  BY <1>3, <1>16, Zenon DEF Armed, TablesInv
<1>18. ASSUME stale' = 0 PROVE PairsKnown'
  <2>1. loc.slot \in Armed /\ stale = 0
    BY <1>3, <1>18 DEF IInv, TypeOK
  <2>2. loc.context \in Known(w)
    BY <1>3, <1>16, <2>1, Zenon DEF HandInv, WpWork, TablesInv
  <2>3. \A i \in PairIds : u.pair_hist[i] # Idle =>
          {u.pair_hist[i].key[2], u.pair_hist[i].key[4]} \subseteq Known(w)
    BY <1>6, <1>8, <1>16, <2>1, Zenon DEF TablesInv, PairsKnown
  <2>4. \A i \in PairIds : w.pair_hist[i] # Idle =>
          {w.pair_hist[i].key[2], w.pair_hist[i].key[4]} \subseteq Known(w)
    BY <1>10, <1>14, <1>16, <2>2, <2>3
  <2> QED BY <1>15, <2>4, Zenon DEF PairsKnown
<1> QED BY <1>14, <1>15, <1>17, <1>18, Zenon DEF TablesInv, ContextsOk, PairsOk

LEMMA TablesThread == IInv /\ HandInv /\ TablesInv /\ ThreadStep => TablesInv'
<1> SUFFICES ASSUME IInv, HandInv, TablesInv, ThreadStep PROVE TablesInv'
  BY Zenon
<1> USE DEF ghostVars, resultVars
<1>1. CASE \/ \E p \in Targets \cup OtherPcs, va \in Vas :
                Execute(p, va) \/ rd_perf_event_overflow_pre(p, va)
           \/ Retire \/ rd_modify_slot_idle
           \/ rd_modify_flag("bp_flag", "bp_modify")
           \/ rd_modify_flag("idle_flag", "idle_modify")
           \/ rd_bp_snapshot \/ rd_wp_snapshot \/ rd_wp_fill \/ rd_wp_publish
  <2>1. UNCHANGED <<slot, table, stale>>
    BY <1>1, Zenon DEF Execute, rd_perf_event_overflow_pre, Begin, Retire, rd_modify_slot_idle,
       rd_modify_flag, rd_bp_snapshot, rd_wp_snapshot, rd_wp_fill, rd_wp_publish
  <2>2. Armed' = Armed
    BY <2>1, Zenon DEF Armed
  <2> QED BY <2>1, <2>2, TablesKept, Zenon
<1>2. CASE \E chain \in Chains : rd_bp_accept(chain) \/ rd_wp_record(chain)
  BY <1>2, TablesAccept, TablesRecord, Zenon
<1>3. CASE \E i \in Slots : rd_watchpoint_report_pre(i)
  <2>1. PICK i \in Slots : rd_watchpoint_report_pre(i)
    BY <1>3, Zenon
  <2>2. Armed' = Armed /\ UNCHANGED <<table, stale>>
    BY <2>1, ReportStep, Zenon
  <2>3. \A j \in Armed : slot'[j].context = slot[j].context
    <3> TAKE j \in Armed
    <3>1. j \in Slots
      BY Zenon DEF Armed
    <3>2. CASE j = i
      BY <2>1, <3>2, ReportStep, Zenon
    <3>3. CASE j # i
      BY <2>1, <3>1, <3>3, ReportStep, Zenon
    <3> QED BY <3>2, <3>3, Zenon
  <2> QED BY <2>2, <2>3, TablesKept, Zenon
<1>4. CASE rd_bp_modify \/ rd_wp_clear
  <2>1. /\ loc.slot \in Slots /\ UNCHANGED table
        /\ rd_clear_slot_metadata(loc.slot) \/ UNCHANGED <<slot, dwarf>>
        /\ stale' = stale \/ stale' = stale + 1
    BY <1>4, Zenon DEF rd_bp_modify, rd_wp_clear, IInv, TypeOK, LocalsType
  <2>2. stale' = 0 => stale = 0
    BY <2>1 DEF IInv, TypeOK
  <2>3. Armed' \subseteq Armed /\ \A i \in Armed' : slot'[i] = slot[i]
    <3>1. CASE rd_clear_slot_metadata(loc.slot)
      <4>1. Armed' = Armed \ {loc.slot} /\ \A j \in Slots \ {loc.slot} : slot'[j] = slot[j]
        BY <2>1, <3>1, ClearStep, Zenon
      <4>2. Armed \subseteq Slots
        BY Zenon DEF Armed
      <4> QED BY <4>1, <4>2, Zenon
    <3>2. CASE UNCHANGED <<slot, dwarf>>
      BY <3>2, Zenon DEF Armed
    <3> QED BY <2>1, <3>1, <3>2, Zenon
  <2> QED BY <2>1, <2>2, <2>3, TablesKept, Zenon
<1> QED BY <1>1, <1>2, <1>3, <1>4, Zenon DEF ThreadStep

(***************************************************************************)
(* The lookups of rd_get_context_id_locked and rd_add_pair_hist_locked     *)
(* keep their tables dense and free of duplicates, and no slot or pair     *)
(* refers to a context that is not there, for every table size.            *)
(***************************************************************************)
THEOREM TablesStayConsistent == Spec => []TablesConsistent
<1>1. Init => TablesInv
  <2> SUFFICES ASSUME Init PROVE TablesInv
    BY Zenon
  <2>1. table = EmptyTable /\ Armed = {}
    BY Zenon DEF Init, Armed, IdleSlot
  <2>2. /\ table \in TableType /\ ContextsOk(table) /\ PairsOk(table)
        /\ \A i \in PairIds : table.pair_hist[i] = Idle
    BY <2>1, TablesEmpty, Zenon
  <2> QED BY <2>1, <2>2, Zenon DEF TablesInv, PairsKnown
<1>2. IInv /\ HandInv /\ TablesInv /\ [Next]_vars => TablesInv'
  <2>1. TablesInv /\ UNCHANGED vars => TablesInv'
    <3> SUFFICES ASSUME TablesInv, UNCHANGED vars PROVE TablesInv'
      BY Zenon
    <3>1. UNCHANGED <<slot, table, stale>>
      BY Zenon DEF vars, resultVars, ghostVars
    <3>2. Armed' = Armed
      BY <3>1, Zenon DEF Armed
    <3> QED BY <3>1, <3>2, TablesKept, Zenon
  <2> QED BY <2>1, TablesIoctl, TablesThread, Zenon DEF Next, Quiet
<1>3. TablesInv => TablesConsistent
  <2> SUFFICES ASSUME TablesInv PROVE TablesConsistent
    BY Zenon
  <2> USE DEF rd_get_thread_stats_locked, rd_get_pair_hist_locked, rd_get_context_locked
  <2>1. table.context_used \in Nat /\ table.pair_hist_used \in Nat
    BY Zenon DEF TablesInv, TableType
  <2>2. write_thread_contexts = 1 .. table.context_used
    BY <2>1, ConstantsAssumption DEF TablesInv, ContextsOk, write_thread_contexts, ContextIds
  <2>3. PairsUsed = 1 .. table.pair_hist_used
    BY <2>1, ConstantsAssumption DEF TablesInv, PairsOk, PairsUsed, PairIds
  <2>4. Known(table) = write_thread_contexts \cup {0}
    BY <2>1, <2>2 DEF Known
  <2>5. \A i, j \in write_thread_contexts :
          table.contexts[i] = table.contexts[j] => i = j
    BY Zenon DEF TablesInv, ContextsOk, write_thread_contexts
  <2>6. \A i, j \in PairsUsed : table.pair_hist[i].key = table.pair_hist[j].key => i = j
    BY <2>3, Zenon DEF TablesInv, PairsOk
  <2>7. \A i \in Armed : slot[i].context \in write_thread_contexts \cup {0}
    BY <2>4, Zenon DEF TablesInv
  <2>8. stale = 0 => \A i \in PairsUsed :
          {table.pair_hist[i].key[2], table.pair_hist[i].key[4]}
             \subseteq write_thread_contexts \cup {0}
    BY <2>4, Zenon DEF TablesInv, PairsKnown, PairsUsed
  <2> QED BY <2>2, <2>3, <2>5, <2>6, <2>7, <2>8, Zenon DEF TablesConsistent
<1> QED BY HandInductive, <1>1, <1>2, <1>3, PTL DEF Spec

-----------------------------------------------------------------------------
(***************************************************************************)
(* The DWARF events.  An armed slot has the snapshot of its seed and a hit *)
(* at work on it the snapshot of its reuse, so that the event it publishes *)
(* has both.  A handler whose slot a RESET has taken finds the snapshots   *)
(* erased, never those of another access, and its event is the only one    *)
(* that lacks them.                                                        *)
(***************************************************************************)
Filling == at \in {"wp_fill", "wp_publish"}
Taken == WpWork /\ loc.slot \notin Armed

SnapshotInv ==
    /\ at \in {"bp_snap", "wp_snap"} \/ Filling => callchain_mode = "DWARF"
    /\ dwarf.used <= dwarf_event_capacity
    /\ \A i \in Armed : slot[i].target \in Targets
    /\ callchain_mode = "DWARF" =>
         \A i \in Armed : (at = "bp_snap" /\ loc.slot = i) \/ dwarf.seed[i] = slot[i].target
    /\ callchain_mode = "DWARF" /\ at \in {"wp_record", "wp_fill"} /\ loc.slot \in Armed =>
         dwarf.reuse[loc.slot] = loc.pc
    /\ Taken => dwarf.seed[loc.slot] = Idle /\ dwarf.reuse[loc.slot] \in {loc.pc, Idle}

OwnEvent(v) == v.seed_snap \in {v.target, Idle} /\ v.reuse_snap \in {v.reuse_pc, Idle}
FullEvent(v) == v.target # Idle /\ v.seed_snap = v.target /\ v.reuse_snap = v.reuse_pc

Bare == {e \in EventIds : dwarf.events[e].used /\ ~FullEvent(dwarf.events[e])}

BufferInv ==
    /\ \A e \in EventIds : OwnEvent(dwarf.events[e])
    /\ \A e \in 1 .. dwarf.used : dwarf.events[e].used \/ (Filling /\ loc.index = e)
    /\ Filling => loc.index = dwarf.used \/ dwarf.used = 0
    /\ at = "wp_publish" /\ loc.slot \in Armed => FullEvent(dwarf.events[loc.index])

BareInv ==
    /\ \A e, f \in Bare : e = f
    /\ Bare # {} => raced.results
    /\ Taken /\ at # "wp_clear" => Bare = {} /\ raced.results

EventsInv == SnapshotInv /\ BufferInv /\ BareInv

\* Steps that publish no event.
LEMMA BareShrinks ==
    ASSUME BareInv, Bare' \subseteq Bare, raced'.results = raced.results,
           Taken' /\ at' # "wp_clear" => Taken /\ at # "wp_clear"
    PROVE  BareInv'
  BY Zenon DEF BareInv

\* Steps of an ioctl that keep the buffer.
LEMMA EventsBeside ==
    ASSUME EventsInv, UNCHANGED <<at, loc, dwarf>>, Armed' \subseteq Armed,
           WpWork => Armed' = Armed, raced'.results = raced.results,
           \A i \in Armed' : slot'[i].target = slot[i].target
    PROVE  EventsInv'
<1>1. Taken' = Taken /\ Bare' = Bare /\ Filling' = Filling
  BY Zenon DEF Taken, WpWork, Bare, Filling
<1>2. SnapshotInv'
  BY <1>1, Zenon DEF EventsInv, SnapshotInv
<1>3. BufferInv'
  BY <1>1, Zenon DEF EventsInv, BufferInv
<1>4. BareInv'
  BY <1>1, BareShrinks, Zenon DEF EventsInv
<1> QED BY <1>2, <1>3, <1>4, Zenon DEF EventsInv

\* Steps of the thread that write neither an event nor a snapshot.
LEMMA EventsKept ==
    ASSUME EventsInv, at # "bp_snap", at' # "bp_snap", ~Filling, ~Filling',
           at' = "wp_snap" => callchain_mode = "DWARF",
           at' = "wp_record" => callchain_mode # "DWARF",
           dwarf'.used = dwarf.used, dwarf'.events = dwarf.events, Armed' \subseteq Armed,
           \A i \in Armed' : dwarf'.seed[i] = dwarf.seed[i] /\ slot'[i].target = slot[i].target,
           Taken' => /\ Taken /\ at' = "wp_clear" /\ loc'.slot = loc.slot /\ loc'.pc = loc.pc
                     /\ dwarf'.seed = dwarf.seed /\ dwarf'.reuse = dwarf.reuse,
           raced' = raced
    PROVE  EventsInv'
<1>1. Bare' = Bare
  BY Zenon DEF Bare
<1>2. SnapshotInv'
  <2>1. Taken' => dwarf'.seed[loc'.slot] = Idle /\ dwarf'.reuse[loc'.slot] \in {loc'.pc, Idle}
    BY Zenon DEF EventsInv, SnapshotInv
  <2>2. /\ at' \in {"bp_snap", "wp_snap"} \/ Filling' => callchain_mode = "DWARF"
        /\ ~(callchain_mode = "DWARF" /\ at' \in {"wp_record", "wp_fill"})
    BY Zenon DEF Filling
  <2>3. /\ dwarf'.used <= dwarf_event_capacity
        /\ \A i \in Armed' : slot'[i].target \in Targets
        /\ callchain_mode = "DWARF" => \A i \in Armed' : dwarf'.seed[i] = slot'[i].target
    BY Zenon DEF EventsInv, SnapshotInv
  <2> QED BY <2>1, <2>2, <2>3, Zenon DEF SnapshotInv
<1>3. BufferInv'
  BY Zenon DEF EventsInv, BufferInv, Filling
<1>4. BareInv'
  BY <1>1, BareShrinks, Zenon DEF EventsInv
<1> QED BY <1>2, <1>3, <1>4, Zenon DEF EventsInv

LEMMA EventsIoctl == IInv /\ RacedOK /\ EventsInv /\ IoctlStep => EventsInv'
<1> SUFFICES ASSUME IInv, RacedOK, EventsInv, IoctlStep PROVE EventsInv'
  BY Zenon
<1> USE DEF perfVars, threadVars, ghostVars, resultVars
<1>1. CASE rd_reset_thread_locked
  <2>1. /\ dwarf' = EmptyDwarf /\ Armed' = {} /\ UNCHANGED <<at, loc>>
        /\ raced' = [raced EXCEPT !.results = InHandler]
    BY <1>1, ArmedEmpty, Zenon DEF rd_reset_thread_locked
  <2>2. dwarf'.used = 0 /\ \A e \in EventIds : dwarf'.events[e] = FreeEvent
    BY <2>1, Zenon DEF EmptyDwarf
  <2>3. /\ FreeEvent.used = FALSE /\ OwnEvent(FreeEvent)
    BY Zenon DEF FreeEvent, OwnEvent
  <2>4. /\ Filling' = Filling /\ WpWork' = WpWork
        /\ raced'.results = InHandler /\ (WpWork => InHandler)
    BY <2>1, WorkersHandle, Zenon DEF Filling, WpWork, RacedOK
  <2>5. loc.slot \in Slots
    BY Zenon DEF IInv, TypeOK, LocalsType
  <2>6. dwarf'.seed[loc'.slot] = Idle /\ dwarf'.reuse[loc'.slot] = Idle
    BY <2>1, <2>5, Zenon DEF EmptyDwarf
  <2>7. SnapshotInv'
    <3>1. dwarf'.used <= dwarf_event_capacity
      BY <2>2, ConstantsAssumption
    <3> QED BY <2>1, <2>4, <2>6, <3>1, Zenon DEF EventsInv, SnapshotInv
  <2>8. BufferInv'
    <3>1. 1 .. dwarf'.used = {}
      BY <2>2
    <3> QED BY <2>1, <2>2, <2>3, <3>1, Zenon DEF BufferInv
  <2>9. BareInv'
    <3>1. Bare' = {}
      BY <2>2, <2>3, Zenon DEF Bare
    <3> QED BY <2>4, <3>1, Zenon DEF BareInv, Taken
  <2> QED BY <2>7, <2>8, <2>9, Zenon DEF EventsInv
<1>2. CASE rd_detach_count
  <2>1. ~InHandler /\ Armed' = {} /\ UNCHANGED <<at, loc, dwarf, raced>>
    BY <1>2, ArmedEmpty, Zenon DEF rd_detach_count
  <2>2. ~WpWork
    BY <2>1, WorkersHandle, Zenon
  <2> QED BY <2>1, <2>2, EventsBeside, Zenon
<1>3. CASE ~(rd_reset_thread_locked \/ rd_detach_count)
  <2>1. UNCHANGED <<slot, at, loc, dwarf>>
    BY <1>3, Zenon DEF IoctlStep, rd_start_window, rd_enable_mem, rd_enable_bps, rd_enable_wps,
       rd_stop_window, rd_disable_wps, rd_disable_bps, rd_disable_mem,
       rd_reset_session_locked, rd_reset_slots, rd_detach_mark
  <2>2. Armed' = Armed
    BY <2>1, Zenon DEF Armed
  <2>3. raced'.results = raced.results
    <3>1. CASE rd_reset_slots
      BY <3>1, Zenon DEF rd_reset_slots, RacedOK
    <3>2. CASE ~rd_reset_slots
      BY <1>3, <3>2, RacedIoctl, Zenon
    <3> QED BY <3>1, <3>2, Zenon
  <2> QED BY <2>1, <2>2, <2>3, EventsBeside, Zenon
<1> QED BY <1>1, <1>2, <1>3, Zenon

LEMMA EventsAccept ==
    ASSUME IInv, EventsInv, NEW chain \in Chains, rd_bp_accept(chain)
    PROVE  EventsInv'
<1>1. PICK pick \in Slots, id \in ContextId(chain) :
      /\ at = "bp"
      /\ slot'[pick] = ArmedSlot(id) /\ \A i \in Slots \ {pick} : slot'[i] = slot[i]
      /\ Armed' = Armed \cup {pick}
      /\ at' = IF callchain_mode = "DWARF" THEN "bp_snap" ELSE "bp_flag"
      /\ loc'.slot = pick
      /\ UNCHANGED <<dwarf, raced>>
  BY AcceptStep, Zenon
<1>2. Armed \subseteq Slots
  BY Zenon DEF Armed
<1>3. slot'[pick].target \in Targets
  <2>1. slot'[pick].target = loc.pc
    BY <1>1 DEF ArmedSlot
  <2>2. loc.pc \in Targets
    BY <1>1, Zenon DEF IInv, LocalsInv
  <2> QED BY <2>1, <2>2, Zenon
<1>4. ~Filling /\ ~Filling' /\ ~Taken' /\ Bare' = Bare
  BY <1>1, Zenon DEF Filling, Taken, WpWork, Bare
<1>5. SnapshotInv'
  BY <1>1, <1>2, <1>3, <1>4, Zenon DEF EventsInv, SnapshotInv
<1>6. BufferInv'
  BY <1>1, <1>4, Zenon DEF EventsInv, BufferInv
<1>7. BareInv'
  BY <1>1, <1>4, BareShrinks, Zenon DEF EventsInv
<1> QED BY <1>5, <1>6, <1>7, Zenon DEF EventsInv

LEMMA EventsReport ==
    ASSUME IInv, EventsInv, NEW i \in Slots, rd_watchpoint_report_pre(i)
    PROVE  EventsInv'
<1>1. at = "mem" /\ Armed' = Armed /\ UNCHANGED <<dwarf, raced>>
  BY ReportStep, Zenon DEF resultVars, ghostVars
<1>2. \/ at' = at
      \/ /\ at' = IF callchain_mode = "DWARF" THEN "wp_snap" ELSE "wp_record"
         /\ loc'.slot = i /\ i \in Armed
  BY ReportStep, Zenon
<1>3. \A j \in Armed : slot'[j].target = slot[j].target
  <2> TAKE j \in Armed
  <2>1. j \in Slots
    BY Zenon DEF Armed
  <2>2. CASE j = i
    BY <2>2, ReportStep, Zenon
  <2>3. CASE j # i
    BY <2>1, <2>3, ReportStep, Zenon
  <2> QED BY <2>2, <2>3, Zenon
<1>4. ~Taken' /\ ~Filling /\ ~Filling'
  BY <1>1, <1>2, Zenon DEF Taken, WpWork, Filling
<1> QED BY <1>1, <1>2, <1>3, <1>4, EventsKept, Zenon

LEMMA EventsBpSnapshot == IInv /\ HandInv /\ EventsInv /\ rd_bp_snapshot => EventsInv'
<1> SUFFICES ASSUME IInv, HandInv, EventsInv, rd_bp_snapshot PROVE EventsInv'
  BY Zenon
<1>1. /\ at = "bp_snap" /\ at' = "bp_flag" /\ UNCHANGED <<slot, loc, raced>>
      /\ dwarf' = [dwarf EXCEPT !.seed[loc.slot] = loc.pc]
  BY Zenon DEF rd_bp_snapshot, ghostVars
<1>2. dwarf \in DwarfType /\ loc.slot \in Slots
  BY Zenon DEF IInv, TypeOK, LocalsType
<1>3. /\ dwarf'.used = dwarf.used /\ dwarf'.events = dwarf.events
      /\ dwarf'.seed[loc.slot] = loc.pc
      /\ \A i \in Slots \ {loc.slot} : dwarf'.seed[i] = dwarf.seed[i]
  BY <1>1, <1>2, Zenon DEF DwarfType
<1>4. Armed' = Armed /\ Armed \subseteq Slots
  BY <1>1, Zenon DEF Armed
<1>5. loc.slot \in Armed => slot[loc.slot].target = loc.pc
  BY <1>1, Zenon DEF HandInv, BpWork
<1>6. ~Filling /\ ~Filling' /\ ~Taken' /\ Bare' = Bare
  BY <1>1, <1>3, Zenon DEF Filling, Taken, WpWork, Bare
<1>7. SnapshotInv'
  BY <1>1, <1>3, <1>4, <1>5, <1>6, Zenon DEF EventsInv, SnapshotInv
<1>8. BufferInv'
  BY <1>1, <1>3, <1>6, Zenon DEF EventsInv, BufferInv
<1>9. BareInv'
  BY <1>1, <1>6, BareShrinks, Zenon DEF EventsInv
<1> QED BY <1>7, <1>8, <1>9, Zenon DEF EventsInv

LEMMA EventsWpSnapshot == IInv /\ EventsInv /\ rd_wp_snapshot => EventsInv'
<1> SUFFICES ASSUME IInv, EventsInv, rd_wp_snapshot PROVE EventsInv'
  BY Zenon
<1>1. /\ at = "wp_snap" /\ at' = "wp_record" /\ UNCHANGED <<slot, loc, raced>>
      /\ dwarf' = [dwarf EXCEPT !.reuse[loc.slot] = loc.pc]
  BY Zenon DEF rd_wp_snapshot, ghostVars
<1>2. dwarf \in DwarfType /\ loc.slot \in Slots
  BY Zenon DEF IInv, TypeOK, LocalsType
<1>3. /\ dwarf'.used = dwarf.used /\ dwarf'.events = dwarf.events
      /\ dwarf'.reuse[loc.slot] = loc.pc /\ dwarf'.seed = dwarf.seed
  BY <1>1, <1>2, Zenon DEF DwarfType
<1>4. Armed' = Armed /\ Armed \subseteq Slots
  BY <1>1, Zenon DEF Armed
<1>5. ~Filling /\ ~Filling' /\ Taken' = Taken /\ Bare' = Bare
  BY <1>1, <1>3, <1>4, Zenon DEF Filling, Taken, WpWork, Bare
<1>6. SnapshotInv'
  BY <1>1, <1>3, <1>4, <1>5, Zenon DEF EventsInv, SnapshotInv
<1>7. BufferInv'
  BY <1>1, <1>3, <1>5, Zenon DEF EventsInv, BufferInv
<1>8. BareInv'
  BY <1>1, <1>5, BareShrinks, Zenon DEF EventsInv
<1> QED BY <1>6, <1>7, <1>8, Zenon DEF EventsInv

LEMMA EventsRecord ==
    ASSUME IInv, EventsInv, NEW chain \in Chains, rd_wp_record(chain)
    PROVE  EventsInv'
<1>1. /\ at = "wp_record" /\ UNCHANGED <<slot, raced>>
      /\ dwarf' = rd_reserve_dwarf_event_locked
      /\ at' = IF CanReserve THEN "wp_fill" ELSE "wp_clear"
      /\ loc' = [loc EXCEPT !.index = IF CanReserve THEN dwarf.used + 1 ELSE 0]
  BY Zenon DEF rd_wp_record
<1>2. dwarf \in DwarfType /\ loc \in LocalsType /\ dwarf.used \in Nat
  BY Zenon DEF IInv, TypeOK, DwarfType
<1>3. Armed' = Armed /\ Armed \subseteq Slots
  BY <1>1, Zenon DEF Armed
<1>4. loc'.slot = loc.slot /\ loc'.pc = loc.pc
  BY <1>1, <1>2, Zenon DEF LocalsType
<1>5. /\ dwarf'.events = dwarf.events /\ dwarf'.seed = dwarf.seed /\ dwarf'.reuse = dwarf.reuse
      /\ dwarf'.used = IF CanReserve THEN dwarf.used + 1 ELSE dwarf.used
  <2>1. CASE CanReserve
    BY <1>1, <1>2, <2>1, Zenon DEF rd_reserve_dwarf_event_locked, DwarfType
  <2>2. CASE ~CanReserve
    BY <1>1, <1>2, <2>2, Zenon DEF rd_reserve_dwarf_event_locked, DwarfType
  <2> QED BY <2>1, <2>2, Zenon
<1>6. ~Filling /\ Taken' = Taken /\ Bare' = Bare
  BY <1>1, <1>3, <1>4, <1>5 DEF Filling, Taken, WpWork, Bare
<1>7. CASE CanReserve
  <2>1. /\ at' = "wp_fill" /\ dwarf'.used = dwarf.used + 1 /\ callchain_mode = "DWARF"
        /\ dwarf.used < dwarf_event_capacity
    BY <1>1, <1>5, <1>7, Zenon DEF CanReserve
  <2>2. loc'.index = dwarf.used + 1 /\ Filling'
    BY <1>1, <1>2, <1>7, <2>1, Zenon DEF LocalsType, Filling
  <2>3. dwarf.used + 1 <= dwarf_event_capacity
    BY <1>2, <2>1, ConstantsAssumption
  <2>4. SnapshotInv'
    BY <1>1, <1>3, <1>4, <1>5, <1>6, <2>1, <2>3 DEF EventsInv, SnapshotInv
  <2>5. BufferInv'
    <3>1. \A e \in 1 .. dwarf.used : dwarf.events[e].used
      BY <1>6, Zenon DEF EventsInv, BufferInv
    <3>2. \A e \in 1 .. dwarf'.used : e \in 1 .. dwarf.used \/ e = dwarf.used + 1
      BY <1>2, <2>1
    <3>3. \A e \in 1 .. dwarf'.used : dwarf'.events[e].used \/ (Filling' /\ loc'.index = e)
      BY <1>5, <2>2, <3>1, <3>2, Zenon
    <3> QED BY <1>5, <2>1, <2>2, <3>3, Zenon DEF EventsInv, BufferInv
  <2>6. BareInv'
    BY <1>1, <1>6, BareShrinks, Zenon DEF EventsInv
  <2> QED BY <2>4, <2>5, <2>6, Zenon DEF EventsInv
<1>8. CASE ~CanReserve
  <2>1. at' = "wp_clear" /\ dwarf'.used = dwarf.used
    BY <1>1, <1>5, <1>8, Zenon
  <2> QED BY <1>1, <1>3, <1>4, <1>5, <1>6, <2>1, EventsKept, Zenon DEF Filling
<1> QED BY <1>7, <1>8, Zenon

LEMMA EventsFill == IInv /\ HandInv /\ EventsInv /\ rd_wp_fill => EventsInv'
<1> SUFFICES ASSUME IInv, HandInv, EventsInv, rd_wp_fill PROVE EventsInv'
  BY Zenon
<1> DEFINE new == [used |-> FALSE, target |-> loc.target, reuse_pc |-> loc.pc,
                   seed_snap |-> dwarf.seed[loc.slot], reuse_snap |-> dwarf.reuse[loc.slot]]
<1>1. /\ at = "wp_fill" /\ at' = "wp_publish" /\ UNCHANGED <<slot, loc, raced>>
      /\ dwarf' = [dwarf EXCEPT !.events[loc.index] = new]
  BY Zenon DEF rd_wp_fill, ghostVars
<1>2. dwarf \in DwarfType /\ loc.index \in EventIds
  BY <1>1, Zenon DEF IInv, TypeOK, LocalsInv
<1>3. new.used = FALSE /\ new.target = loc.target /\ new.reuse_pc = loc.pc
      /\ new.seed_snap = dwarf.seed[loc.slot] /\ new.reuse_snap = dwarf.reuse[loc.slot]
  BY Zenon
<1> HIDE DEF new
<1>4. /\ dwarf'.used = dwarf.used /\ dwarf'.seed = dwarf.seed /\ dwarf'.reuse = dwarf.reuse
      /\ dwarf'.events[loc.index] = new
      /\ \A e \in EventIds \ {loc.index} : dwarf'.events[e] = dwarf.events[e]
  BY <1>1, <1>2, Zenon DEF DwarfType
<1>5. Armed' = Armed
  BY <1>1, Zenon DEF Armed
<1>6. /\ Filling /\ Filling' /\ Taken' = Taken /\ callchain_mode = "DWARF"
      /\ loc.slot \notin Armed => Taken
  BY <1>1, <1>5, Zenon DEF Filling, Taken, WpWork, EventsInv, SnapshotInv
<1>7. SnapshotInv'
  BY <1>1, <1>4, <1>5, <1>6, Zenon DEF EventsInv, SnapshotInv
<1>8. loc.slot \in Armed => FullEvent(new)
  <2> SUFFICES ASSUME loc.slot \in Armed PROVE FullEvent(new)
    BY Zenon
  <2>1. slot[loc.slot].target = loc.target
    BY <1>1, Zenon DEF HandInv, WpWork
  <2>2. /\ dwarf.seed[loc.slot] = slot[loc.slot].target
        /\ dwarf.reuse[loc.slot] = loc.pc /\ slot[loc.slot].target \in Targets
    BY <1>1, <1>6, Zenon DEF EventsInv, SnapshotInv
  <2> QED BY <1>3, <2>1, <2>2, ConstantsAssumption, Zenon DEF FullEvent
<1>9. OwnEvent(new)
  <2>1. CASE loc.slot \in Armed
    BY <1>8, <2>1, Zenon DEF OwnEvent, FullEvent
  <2>2. CASE loc.slot \notin Armed
    <3>1. dwarf.seed[loc.slot] = Idle /\ dwarf.reuse[loc.slot] \in {loc.pc, Idle}
      BY <1>6, <2>2, Zenon DEF EventsInv, SnapshotInv
    <3> QED BY <1>3, <3>1, Zenon DEF OwnEvent
  <2> QED BY <2>1, <2>2, Zenon
<1>10. BufferInv'
  <2>1. 1 .. dwarf.used \subseteq EventIds
    BY <1>2, ConstantsAssumption DEF EventsInv, SnapshotInv, EventIds, DwarfType
  <2>2. \A e \in EventIds : OwnEvent(dwarf'.events[e])
    BY <1>4, <1>9, Zenon DEF EventsInv, BufferInv
  <2>3. \A e \in 1 .. dwarf'.used : dwarf'.events[e].used \/ (Filling' /\ loc'.index = e)
    BY <1>1, <1>4, <1>6, <2>1, Zenon DEF EventsInv, BufferInv
  <2>4. loc'.index = dwarf'.used \/ dwarf'.used = 0
    BY <1>1, <1>4, <1>6, Zenon DEF EventsInv, BufferInv
  <2>5. loc'.slot \in Armed' => FullEvent(dwarf'.events[loc'.index])
    BY <1>1, <1>4, <1>5, <1>8, Zenon
  <2> QED BY <2>2, <2>3, <2>4, <2>5, Zenon DEF BufferInv
<1>11. BareInv'
  <2>1. Bare' \subseteq Bare
    BY <1>2, <1>3, <1>4, Zenon DEF Bare
  <2> QED BY <1>1, <1>6, <2>1, BareShrinks, Zenon DEF EventsInv
<1> QED BY <1>7, <1>10, <1>11, Zenon DEF EventsInv

LEMMA EventsPublish == IInv /\ EventsInv /\ rd_wp_publish => EventsInv'
<1> SUFFICES ASSUME IInv, EventsInv, rd_wp_publish PROVE EventsInv'
  BY Zenon
<1>1. /\ at = "wp_publish" /\ at' = "wp_clear" /\ UNCHANGED <<slot, loc, raced>>
      /\ dwarf' = [dwarf EXCEPT !.events[loc.index].used = TRUE]
  BY Zenon DEF rd_wp_publish, ghostVars
<1>2. dwarf \in DwarfType /\ loc.index \in EventIds
  BY <1>1, Zenon DEF IInv, TypeOK, LocalsInv
<1>3. /\ dwarf'.used = dwarf.used /\ dwarf'.seed = dwarf.seed /\ dwarf'.reuse = dwarf.reuse
      /\ dwarf'.events[loc.index].used = TRUE
      /\ dwarf'.events[loc.index].target = dwarf.events[loc.index].target
      /\ dwarf'.events[loc.index].reuse_pc = dwarf.events[loc.index].reuse_pc
      /\ dwarf'.events[loc.index].seed_snap = dwarf.events[loc.index].seed_snap
      /\ dwarf'.events[loc.index].reuse_snap = dwarf.events[loc.index].reuse_snap
      /\ \A e \in EventIds \ {loc.index} : dwarf'.events[e] = dwarf.events[e]
  BY <1>1, <1>2, Zenon DEF DwarfType
<1>4. Armed' = Armed
  BY <1>1, Zenon DEF Armed
<1>5. /\ Filling /\ ~Filling' /\ Taken' = Taken
      /\ loc.slot \notin Armed => Taken
  BY <1>1, <1>4, Zenon DEF Filling, Taken, WpWork
<1>6. /\ OwnEvent(dwarf'.events[loc.index]) = OwnEvent(dwarf.events[loc.index])
      /\ FullEvent(dwarf'.events[loc.index]) = FullEvent(dwarf.events[loc.index])
  BY <1>3, Zenon DEF OwnEvent, FullEvent
<1>7. SnapshotInv'
  BY <1>1, <1>3, <1>4, <1>5 DEF EventsInv, SnapshotInv
<1>8. BufferInv'
  <2>1. 1 .. dwarf.used \subseteq EventIds
    BY <1>2, ConstantsAssumption DEF EventsInv, SnapshotInv, EventIds, DwarfType
  <2>2. \A e \in EventIds : OwnEvent(dwarf'.events[e])
    BY <1>3, <1>6, Zenon DEF EventsInv, BufferInv
  <2>3. \A e \in 1 .. dwarf'.used : dwarf'.events[e].used
    BY <1>3, <2>1, Zenon DEF EventsInv, BufferInv
  <2> QED BY <1>1, <1>5, <2>2, <2>3, Zenon DEF BufferInv
<1>9. BareInv'
  <2>1. CASE loc.slot \in Armed
    <3>1. FullEvent(dwarf.events[loc.index])
      BY <1>1, <2>1, Zenon DEF EventsInv, BufferInv
    <3>2. Bare' \subseteq Bare
      BY <1>3, <1>6, <3>1, Zenon DEF Bare
    <3> QED BY <1>1, <3>2, BareShrinks, Zenon DEF EventsInv
  <2>2. CASE loc.slot \notin Armed
    <3>1. Bare = {} /\ raced.results
      BY <1>1, <1>5, <2>2, Zenon DEF EventsInv, BareInv
    <3>2. Bare' \subseteq {loc.index}
      BY <1>3, <3>1, Zenon DEF Bare
    <3> QED BY <1>1, <3>1, <3>2, Zenon DEF BareInv
  <2> QED BY <2>1, <2>2, Zenon
<1> QED BY <1>7, <1>8, <1>9, Zenon DEF EventsInv

LEMMA EventsThread == IInv /\ HandInv /\ EventsInv /\ ThreadStep => EventsInv'
<1> SUFFICES ASSUME IInv, HandInv, EventsInv, ThreadStep PROVE EventsInv'
  BY Zenon
<1>1. CASE \/ \E p \in Targets \cup OtherPcs, va \in Vas :
                Execute(p, va) \/ rd_perf_event_overflow_pre(p, va)
           \/ Retire \/ rd_modify_slot_idle
           \/ rd_modify_flag("bp_flag", "bp_modify")
           \/ rd_modify_flag("idle_flag", "idle_modify")
  <2>1. /\ at \in {"user", "mem", "idle_flag", "idle_modify", "bp_flag"}
        /\ at' \in {"user", "mem", "bp", "idle_modify", "bp_modify"}
        /\ UNCHANGED <<slot, dwarf>>
    BY <1>1, Zenon DEF Execute, rd_perf_event_overflow_pre, Begin, Retire, rd_modify_slot_idle,
       rd_modify_flag, resultVars
  <2>2. Armed' = Armed /\ ~Filling /\ ~Filling' /\ ~Taken'
    BY <2>1, Zenon DEF Armed, Filling, Taken, WpWork
  <2> QED BY <2>1, <2>2, EventsKept, RacedThread, Zenon
<1>2. CASE \/ \E chain \in Chains : rd_bp_accept(chain) \/ rd_wp_record(chain)
           \/ \E i \in Slots : rd_watchpoint_report_pre(i)
  BY <1>2, EventsAccept, EventsRecord, EventsReport, Zenon
<1>3. CASE rd_bp_snapshot \/ rd_wp_snapshot \/ rd_wp_fill \/ rd_wp_publish
  BY <1>3, EventsBpSnapshot, EventsWpSnapshot, EventsFill, EventsPublish, Zenon
<1>4. CASE rd_bp_modify \/ rd_wp_clear
  <2>1. /\ at \in {"bp_modify", "wp_clear"} /\ at' \in {"mem", "idle_flag"}
        /\ loc.slot \in Slots
        /\ rd_clear_slot_metadata(loc.slot) \/ UNCHANGED <<slot, dwarf>>
    BY <1>4, Zenon DEF rd_bp_modify, rd_wp_clear, IInv, TypeOK, LocalsType
  <2>2. ~Filling /\ ~Filling' /\ ~Taken' /\ raced' = raced
    BY <2>1, RacedThread, Zenon DEF Filling, Taken, WpWork
  <2>3. CASE rd_clear_slot_metadata(loc.slot)
    <3>1. /\ Armed' = Armed \ {loc.slot}
          /\ \A j \in Slots \ {loc.slot} : slot'[j] = slot[j] /\ dwarf'.seed[j] = dwarf.seed[j]
          /\ dwarf'.events = dwarf.events /\ dwarf'.used = dwarf.used
      BY <2>1, <2>3, ClearStep, Zenon
    <3>2. Armed \subseteq Slots
      BY Zenon DEF Armed
    <3> QED BY <2>1, <2>2, <3>1, <3>2, EventsKept, Zenon
  <2>4. CASE UNCHANGED <<slot, dwarf>>
    <3>1. Armed' = Armed
      BY <2>4, Zenon DEF Armed
    <3> QED BY <2>1, <2>2, <2>4, <3>1, EventsKept, Zenon
  <2> QED BY <2>1, <2>3, <2>4, Zenon
<1> QED BY <1>1, <1>2, <1>3, <1>4, Zenon DEF ThreadStep

(***************************************************************************)
(* GET_DWARF_EVENT never hands out an event with the snapshot of another   *)
(* seed or reuse, for any number of slots and any event_capacity, RESETs   *)
(* in the middle of a handler included; at most one event, that of the     *)
(* handler which the last RESET met, lacks a snapshot.                     *)
(***************************************************************************)
THEOREM EventsHaveTheirSnapshots == Spec => []EventsMatch
<1>1. Init => EventsInv
  <2> SUFFICES ASSUME Init PROVE EventsInv
    BY Zenon
  <2>1. dwarf.used = 0 /\ Armed = {} /\ \A e \in EventIds : dwarf.events[e] = FreeEvent
    BY Zenon DEF Init, EmptyDwarf, Armed, IdleSlot
  <2>2. at = "user"
    BY Zenon DEF Init
  <2>3. FreeEvent.used = FALSE /\ OwnEvent(FreeEvent)
    BY Zenon DEF FreeEvent, OwnEvent
  <2>4. ~Filling /\ ~Taken /\ Bare = {} /\ 1 .. dwarf.used = {}
    BY <2>1, <2>2, <2>3 DEF Filling, Taken, WpWork, Bare
  <2>5. SnapshotInv
    BY <2>1, <2>2, <2>4, ConstantsAssumption DEF SnapshotInv
  <2>6. BufferInv /\ BareInv
    BY <2>1, <2>2, <2>3, <2>4, Zenon DEF BufferInv, BareInv
  <2> QED BY <2>5, <2>6, Zenon DEF EventsInv
<1>2. IInv /\ HandInv /\ RacedOK /\ EventsInv /\ [Next]_vars => EventsInv'
  <2>1. EventsInv /\ UNCHANGED vars => EventsInv'
    <3> SUFFICES ASSUME EventsInv, UNCHANGED vars PROVE EventsInv'
      BY Zenon
    <3>1. UNCHANGED <<slot, at, loc, dwarf, raced>>
      BY Zenon DEF vars, threadVars, resultVars, ghostVars
    <3>2. Armed' = Armed
      BY <3>1, Zenon DEF Armed
    <3> QED BY <3>1, <3>2, EventsBeside, Zenon
  <2> QED BY <2>1, EventsIoctl, EventsThread, Zenon DEF Next, Quiet
<1>3. IInv /\ EventsInv => EventsMatch
  <2> SUFFICES ASSUME IInv, EventsInv PROVE EventsMatch
    BY Zenon
  <2>1. 1 .. dwarf.used \subseteq EventIds
    BY ConstantsAssumption DEF EventsInv, SnapshotInv, EventIds, IInv, TypeOK, DwarfType
  <2>2. write_thread_dwarf_events = {e \in 1 .. dwarf.used : dwarf.events[e].used}
    BY Zenon DEF write_thread_dwarf_events, rd_get_dwarf_event_locked, rd_get_thread_stats_locked,
       FreeEvent
  <2>3. \A e \in write_thread_dwarf_events : rd_get_dwarf_event_locked(e) = dwarf.events[e]
    BY <2>2, Zenon DEF rd_get_dwarf_event_locked
  <2>4. \A e \in write_thread_dwarf_events : OwnEvent(dwarf.events[e])
    BY <2>1, <2>2, Zenon DEF EventsInv, BufferInv
  <2>5. Incomplete \subseteq Bare
    BY <2>1, <2>2, <2>3, Zenon DEF Incomplete, Bare, FullEvent
  <2>6. (\A e, f \in Bare : e = f) /\ (Bare # {} => raced.results)
    BY Zenon DEF EventsInv, BareInv
  <2>7. (\A e, f \in Incomplete : e = f) /\ (Incomplete # {} => raced.results)
    BY <2>5, <2>6, Zenon
  <2>8. \A e \in (1 .. dwarf.used) \ write_thread_dwarf_events : Writing(e)
    BY <2>2, Zenon DEF EventsInv, BufferInv, Filling, Writing
  <2> QED BY <2>3, <2>4, <2>7, <2>8, Zenon DEF EventsMatch, OwnEvent
<1> QED BY HandInductive, RacedInductive, <1>1, <1>2, <1>3, PTL DEF Spec

==============================================================================
