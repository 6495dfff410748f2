------------------------------- MODULE Hotspots -------------------------------
(***************************************************************************)
(* From samples to breakpoint targets, across two runs of the program.     *)
(* The first run takes down its mappings when a window starts, adds every  *)
(* sample to the statistics of its instruction (record_hotspot_sample) and *)
(* at the end writes the .hotpc manifest (write_hotspot_manifest).         *)
(* Two scripts may look at the output of that run: resolve_hotspots.py     *)
(* removes the instructions that belong to no source statement from the    *)
(* manifest, and analyze_hotspot_va.py goes through the sample files again *)
(* and looks for the samples of every hotspot.                             *)
(* The second run, whose mappings lie at other addresses, reads the        *)
(* manifest and picks the targets of the breakpoints (load_targets).       *)
(*                                                                         *)
(* A mapping is a record [path, vm_start, vm_end, file_offset].  objdump   *)
(* is modelled by its verdict on an offset: the template was decoded       *)
(* ("ok"), the instruction is of an unsupported kind ("filtered"), or the  *)
(* offset cannot be disassembled or resolved ("fatal").  It is given the   *)
(* file offset as an address, which is right for a binary linked so that   *)
(* the two agree; the model assumes such a binary.                         *)
(***************************************************************************)
EXTENDS HotspotStats, FiniteSetsExt, Functions

CONSTANTS
    Tids,        \* threads of the first run
    Layouts,     \* /proc/self/maps of the first run, one sequence after the other
    Reloc,       \* executable mappings of the second run, a sequence
    Main,        \* path of the main binary
    Pcs,         \* program counters that SPE may report
    Samples,     \* shapes of a sample
    TopKs,       \* values of RD_HOTSPOT_TOP_K
    Capacities,  \* values of RD_BP_CAPACITY
    MaxSamples   \* bound on the samples of the first run

ASSUME HotspotsAssumption == Pcs \subseteq Nat /\ MaxSamples \in Nat

\* What decode_target_via_objdump makes of an offset.
Verdicts == {"ok", "filtered", "fatal"}

is_filterable_hotspot_error(verdict) == verdict = "filtered"

VARIABLES
    layout,    \* index in Layouts of the mappings as they are now
    module_maps,  \* _module_maps: every executable mapping seen so far
    stats,     \* _thread_hotspots: [tid, key] -> statistics
    unmapped,  \* _hotspot_unmapped_samples
    files,     \* the sample files: how often a thread's file has a pc
    manifest,  \* the .hotpc file: [top_k, lists], or <<>> while not written
    filtered,  \* the .filtered.hotpc file, or <<>>
    loaded,    \* the outcome of load_targets, or <<>> before it
    history    \* history: how often a thread was sampled at an offset of Main

vars == <<layout, module_maps, stats, unmapped, files, manifest, filtered, loaded, history>>

\* remember_module_map for every mapping of a layout.
snapshot_module_maps(known, maps) ==
    FoldLeft(LAMBDA k, m : IF m \in Range(k) THEN k ELSE Append(k, m), known, maps)

\* The bytes of files that an address shows through some mappings.
Bytes(maps, pc) ==
    {<<maps[i].path, maps[i].file_offset + pc - maps[i].vm_start>> :
        i \in {j \in DOMAIN maps : maps[j].vm_start <= pc /\ pc < maps[j].vm_end}}

Offsets == {b[2] : b \in {x \in UNION {Bytes(Layouts[1], pc) : pc \in Pcs} : x[1] = Main}}

\* The first window has started.
Init ==
    /\ layout = 1
    /\ module_maps = snapshot_module_maps(<<>>, Layouts[1])
    /\ stats = [x \in {} |-> NoStats]
    /\ unmapped = 0
    /\ files = [x \in Tids \X Pcs |-> 0]
    /\ manifest = <<>>
    /\ filtered = <<>>
    /\ loaded = <<>>
    /\ history = [x \in Tids \X Offsets |-> 0]

-------------------------------------------------------------------------------
(* The first run *)

\* The program loads or unloads libraries.
Remap ==
    /\ manifest = <<>>
    /\ layout < Len(Layouts)
    /\ layout' = layout + 1
    /\ UNCHANGED <<module_maps, stats, unmapped, files, manifest, filtered, loaded, history>>

\* start() of another window takes the mappings down again.
start_window ==
    /\ manifest = <<>>
    /\ module_maps' = snapshot_module_maps(module_maps, Layouts[layout])
    /\ UNCHANGED <<layout, stats, unmapped, files, manifest, filtered, loaded, history>>

\* Index of the first known mapping that holds pc, 0 if there is none.
find_module_map(pc) ==
    LET hits == {i \in DOMAIN module_maps :
                    module_maps[i].vm_start <= pc /\ pc < module_maps[i].vm_end}
    IN  IF hits = {} THEN 0 ELSE Min(hits)

is_main_binary_module(entry) == entry.path = Main

HotspotKey(pc, i) ==
    <<i, pc - module_maps[i].vm_start + module_maps[i].file_offset>>

\* The sample's true place in the main binary, if it has one.
Noted(tid, pc) ==
    [x \in DOMAIN history |->
        history[x] + IF x[1] = tid /\ <<Main, x[2]>> \in Bytes(Layouts[layout], pc)
                     THEN 1 ELSE 0]

\* flush_pending_spe_sample_locked writes a sample with a pc to the file of
\* the thread and records it.
record_hotspot_sample(tid, pc, sample) ==
    /\ manifest = <<>>
    /\ SumFunction(files) < MaxSamples
    /\ files' = [files EXCEPT ![tid, pc] = @ + 1]
    /\ history' = Noted(tid, pc)
    /\ LET i == find_module_map(pc) IN
         \/ /\ pc # 0 /\ i = 0
            /\ unmapped' = unmapped + 1
            /\ UNCHANGED stats
         \/ /\ pc = 0 \/ (i # 0 /\ ~is_main_binary_module(module_maps[i]))
            /\ UNCHANGED <<stats, unmapped>>
         \/ /\ pc # 0 /\ i # 0 /\ is_main_binary_module(module_maps[i])
            /\ LET at == <<tid, HotspotKey(pc, i)>>
                   old == IF at \in DOMAIN stats THEN stats[at] ELSE NoStats
               IN  stats' = [x \in DOMAIN stats \cup {at} |->
                               IF x = at THEN AddSample(old, sample) ELSE stats[x]]
            /\ UNCHANGED unmapped
    /\ UNCHANGED <<layout, module_maps, manifest, filtered, loaded>>

Summaries(tid) == {Summary(x[2], stats[x]) : x \in {y \in DOMAIN stats : y[1] = tid}}

collect_hotspots_for_thread(tid, top_k) == RankHotspots(Summaries(tid), top_k)

write_hotspot_manifest(top_k) ==
    /\ manifest = <<>>
    /\ manifest' = [top_k |-> top_k,
                    lists |-> [tid \in Tids |-> collect_hotspots_for_thread(tid, top_k)]]
    /\ UNCHANGED <<layout, module_maps, stats, unmapped, files, filtered, loaded, history>>

-------------------------------------------------------------------------------
(* The scripts *)

\* Mutant: an address at the end of a mapping still belongs to it.
MutPcToKeyClosed(pc) ==
    LET hits == {i \in DOMAIN module_maps :
                    module_maps[i].vm_start <= pc /\ pc <= module_maps[i].vm_end}
        module == module_maps[Min(hits)]
    IN  IF hits = {} THEN <<>> ELSE <<Min(hits), pc - module.vm_start + module.file_offset>>

\* analyze_hotspot_va.py has the mappings from the .info file.
pc_to_key(pc) ==
    LET hits == {i \in DOMAIN module_maps :
                    module_maps[i].vm_start <= pc /\ pc < module_maps[i].vm_end}
        module == module_maps[Min(hits)]
    IN  IF hits = {} THEN <<>> ELSE <<Min(hits), pc - module.vm_start + module.file_offset>>

\* The samples in the file of a thread that match a hotspot of its list.
matched_samples(tid, hotspot) ==
    MapThenSumSet(LAMBDA pc : files[tid, pc],
                  {pc \in Pcs : pc_to_key(pc) = <<hotspot.module_id, hotspot.pc_offset>>})

\* The instructions of the manifest, each with its module.
aggregate_hotspots ==
    UNION {{<<h.module_id, h.pc_offset>> : h \in Range(manifest.lists[tid])} : tid \in Tids}

\* The keys that are left.  The instructions at the offsets in sourced come
\* from a source statement; the others save or restore registers in a
\* prologue or epilogue, have no source line, or one without a statement.
filtered_hotspot_keys(sourced) == {key \in aggregate_hotspots : key[2] \in sourced}

\* What is left of a thread's list keeps its order and is numbered afresh.
write_filtered_hotpc(keep) ==
    [manifest EXCEPT !.lists = [tid \in Tids |->
        SelectSeq(manifest.lists[tid], LAMBDA h : <<h.module_id, h.pc_offset>> \in keep)]]

\* main of resolve_hotspots.py
resolve_hotspots(sourced) ==
    /\ manifest # <<>> /\ filtered = <<>> /\ loaded = <<>>
    /\ aggregate_hotspots # {}
    /\ filtered' = write_filtered_hotpc(filtered_hotspot_keys(sourced))
    /\ UNCHANGED <<layout, module_maps, stats, unmapped, files, manifest, loaded, history>>

-------------------------------------------------------------------------------
(* The second run *)

\* RD_TARGET_FILE
TargetFile == IF filtered # <<>> THEN filtered ELSE manifest

\* The hotspot lines, each with its thread and rank.
Lines == UNION {{[tid |-> tid, rank |-> r, hotspot |-> TargetFile.lists[tid][r]] :
                    r \in DOMAIN TargetFile.lists[tid]} : tid \in Tids}

Candidates == {line.hotspot.pc_offset : line \in Lines}

LinesAt(offset) == {line \in Lines : line.hotspot.pc_offset = offset}

\* Mutant: a line of another thread replaces what was read before.
MutLastLine(offset) ==
    LET line == CHOOSE l \in LinesAt(offset) : TRUE
    IN  [pc_offset |-> offset,
         sample_count |-> line.hotspot.sample_count,
         candidate_score |-> line.hotspot.candidate_score]

Aggregated(offset) ==
    [pc_offset |-> offset,
     sample_count |-> MapThenSumSet(LAMBDA l : l.hotspot.sample_count, LinesAt(offset)),
     candidate_score |-> MapThenSumSet(LAMBDA l : l.hotspot.candidate_score, LinesAt(offset))]

TargetBefore(a, b) ==
    IF a.candidate_score # b.candidate_score
    THEN a.candidate_score > b.candidate_score
    ELSE IF a.sample_count # b.sample_count THEN a.sample_count > b.sample_count
    ELSE a.pc_offset < b.pc_offset

\* Mutant: the offset of the mapping in the file is forgotten.
MutNoFileOffset(offset) ==
    LET hits == {i \in DOMAIN Reloc :
                    /\ Reloc[i].path = Main
                    /\ Reloc[i].file_offset <= offset
                    /\ offset < Reloc[i].file_offset + Reloc[i].vm_end - Reloc[i].vm_start}
    IN  IF hits = {} THEN 0 ELSE Reloc[Min(hits)].vm_start + offset

\* Absolute address of a file offset in the second run, 0 if not mapped.
resolve_absolute_pc(offset) ==
    LET hits == {i \in DOMAIN Reloc :
                    /\ Reloc[i].path = Main
                    /\ Reloc[i].file_offset <= offset
                    /\ offset < Reloc[i].file_offset + Reloc[i].vm_end - Reloc[i].vm_start}
    IN  IF hits = {} THEN 0
        ELSE Reloc[Min(hits)].vm_start + (offset - Reloc[Min(hits)].file_offset)

Failed == [ok |-> FALSE, capacity |-> 0, targets |-> <<>>, rejected |-> {}, truncated |-> {}]

\* Mutant: rejected candidates use up the breakpoints too.
MutRejectedFill(order, capacity, verdict) ==
    {i \in DOMAIN order : i <= capacity}

\* The candidates that the loop looks at before the breakpoints are used up.
Visited(order, capacity, verdict) ==
    {i \in DOMAIN order :
        Cardinality({j \in 1 .. i - 1 : verdict[order[j].pc_offset] = "ok"}) < capacity}

\* The loop of load_targets over the ordered candidates.
PickTargets(order, capacity, verdict) ==
    LET visited == Visited(order, capacity, verdict)
        Ok(i) == verdict[order[i].pc_offset] = "ok"
        Fatal(i) == \/ ~Ok(i) /\ ~is_filterable_hotspot_error(verdict[order[i].pc_offset])
                    \/ Ok(i) /\ resolve_absolute_pc(order[i].pc_offset) = 0
        ok == {i \in visited : Ok(i)}
    IN  IF ok = {} \/ \E i \in visited : Fatal(i) THEN Failed
        ELSE [ok |-> TRUE, capacity |-> capacity,
              targets |-> [t \in 1 .. Cardinality(ok) |->
                  LET c == order[SetToSortSeq(ok, <)[t]]
                  IN  [pc_offset |-> c.pc_offset,
                       abs_pc |-> resolve_absolute_pc(c.pc_offset),
                       aggregated_samples |-> c.sample_count,
                       candidate_score |-> c.candidate_score]],
              rejected |-> {order[i].pc_offset : i \in visited \ ok},
              truncated |-> {order[i].pc_offset : i \in DOMAIN order \ visited}]

\* The manifest may have been made from another binary.
load_targets(capacity, same_binary, verdict) ==
    /\ manifest # <<>> /\ loaded = <<>>
    /\ loaded' =
         IF ~same_binary \/ Candidates = {} THEN Failed
         ELSE PickTargets(SetToSortSeq({Aggregated(o) : o \in Candidates}, TargetBefore),
                          capacity, verdict)
    /\ UNCHANGED <<layout, module_maps, stats, unmapped, files, manifest, filtered, history>>

Next ==
    \/ Remap
    \/ start_window
    \/ \E tid \in Tids, pc \in Pcs, sample \in Samples : record_hotspot_sample(tid, pc, sample)
    \/ \E top_k \in TopKs : write_hotspot_manifest(top_k)
    \/ manifest # <<>> /\ \E sourced \in SUBSET Candidates : resolve_hotspots(sourced)
    \/ /\ manifest # <<>>
       /\ \E capacity \in Capacities, same_binary \in BOOLEAN :
            \E verdict \in [Candidates -> Verdicts] :
                load_targets(capacity, same_binary, verdict)

Spec == Init /\ [][Next]_vars

-------------------------------------------------------------------------------
(* Properties *)

(***************************************************************************)
(* The Pareto policy of the manifest (hotspot_selection_policy), which is  *)
(* about the qualified hotspots, those that reach the two minima: if a     *)
(* thread's list holds a qualified hotspot that another qualified one of   *)
(* the thread dominates in sample count and average latency, then one that *)
(* dominates it is in the list too, with a better rank.  Cutting the list  *)
(* at RD_HOTSPOT_TOP_K never keeps the worse and drops the better.  The    *)
(* hotspots under the minima fill up the list by score and are not ranked  *)
(* by dominance.                                                           *)
(***************************************************************************)
DominatorsKept ==
    manifest # <<>> =>
        \A tid \in Tids : LET list == manifest.lists[tid] IN
            \A r \in DOMAIN list :
                (/\ Qualified(list[r])
                 /\ \E o \in Summaries(tid) : Qualified(o) /\ hotspot_dominates(o, list[r]))
                => \E q \in 1 .. r - 1 : hotspot_dominates(list[q], list[r])

(***************************************************************************)
(* load_targets accounts for every candidate of the manifest it is given,  *)
(* filtered or not, exactly once: it has a breakpoint, it is listed as     *)
(* rejected, or it is counted as truncated by the capacity.  Truncation    *)
(* happens only when the breakpoints are used up, and never to a candidate *)
(* with a higher score than a loaded one.                                  *)
(***************************************************************************)
TargetsAccounted ==
    loaded # <<>> /\ loaded.ok =>
        LET offsets == {loaded.targets[t].pc_offset : t \in DOMAIN loaded.targets} IN
        /\ Candidates = offsets \cup loaded.rejected \cup loaded.truncated
        /\ Cardinality(Candidates) = Len(loaded.targets) + Cardinality(loaded.rejected)
                                        + Cardinality(loaded.truncated)
        /\ loaded.truncated # {} => Len(loaded.targets) = loaded.capacity
        /\ \A o \in loaded.truncated, t \in DOMAIN loaded.targets :
                Aggregated(o).candidate_score <= loaded.targets[t].candidate_score

(***************************************************************************)
(* A breakpoint of the second run sits on an instruction that the first    *)
(* run sampled: its address shows the same byte of the main binary as some *)
(* sampled program counter did, although the mappings have moved           *)
(* (HotspotKey against resolve_absolute_pc).                               *)
(***************************************************************************)
SameInstruction ==
    loaded # <<>> =>
        \A t \in DOMAIN loaded.targets : LET target == loaded.targets[t] IN
            /\ \E tid \in Tids : <<tid, target.pc_offset>> \in DOMAIN history
                                /\ history[tid, target.pc_offset] > 0
            /\ <<Main, target.pc_offset>> \in Bytes(Reloc, target.abs_pc)

\* How often the instruction at an offset of the main binary was sampled.
Sampled(offset) == MapThenSumSet(LAMBDA tid : history[tid, offset], Tids)

(***************************************************************************)
(* The sample count that a target reports (aggregated_samples, summed over *)
(* the lists of the threads) never exceeds the samples the first run took  *)
(* of that instruction, and is equal to them unless a thread's list was    *)
(* cut at RD_HOTSPOT_TOP_K.  resolve_hotspots.py does not change this: it  *)
(* removes an instruction from the lists of all threads or of none.        *)
(***************************************************************************)
SamplesCarried ==
    loaded # <<>> =>
        \A t \in DOMAIN loaded.targets : LET target == loaded.targets[t] IN
            /\ target.aggregated_samples <= Sampled(target.pc_offset)
            /\ (\A tid \in Tids : Cardinality(Summaries(tid)) <= manifest.top_k)
                 => target.aggregated_samples = Sampled(target.pc_offset)

(***************************************************************************)
(* analyze_hotspot_va.py finds for every hotspot of the manifest exactly   *)
(* the samples that the profiler had counted for it, although the profiler *)
(* looked each one up when it was taken, among the mappings known by then, *)
(* and the script looks them up at the end among all mappings of the run.  *)
(* The mappings of the main binary are known from the first window on, and *)
(* later ones are added behind them.                                       *)
(***************************************************************************)
VaCountsAgree ==
    manifest # <<>> =>
        \A tid \in Tids : LET list == manifest.lists[tid] IN
            \A r \in DOMAIN list : matched_samples(tid, list[r]) = list[r].sample_count

===============================================================================
