------------------------------- MODULE PerfMatch -------------------------------
(***************************************************************************)
(* How join_pair_context_perf_cost.py finds the cost of a call path: the   *)
(* functions of a use or reuse, the innermost first, are compared with the *)
(* call paths of a perf report, which may name the frames of the OpenMP    *)
(* runtime differently or stop earlier.                                    *)
(*                                                                         *)
(* Names are normalized.  A perf entry is a record [symbol,                *)
(* callpath_frames, percent].  A confidence is a number of units, the      *)
(* code's 1.0 being Unit of them.                                          *)
(***************************************************************************)
EXTENDS Integers, Sequences, SequencesExt, FiniteSetsExt

CONSTANT Unit  \* a multiple of 100 and of the length of every path

ASSUME UnitAssumption == Unit \in Nat \ {0} /\ Unit % 100 = 0

OmpNames == {"omp_fn", "gomp_thread_start", "GOMP_parallel"}  \* they contain "omp"
MainNames == {"main", "GOMP_parallel"}
WorkerNames == {"start_thread", "thread_start"}

Percent(p) == p * (Unit \div 100)

common_prefix_len(left, right) == Len(LongestCommonPrefix({left, right}))

\* How many names of left are found one after the other in right.
ordered_overlap_count(left, right) ==
    FoldLeft(LAMBDA found, name :
                 LET later == {p \in found.pos .. Len(right) : right[p] = name} IN
                 IF later = {} THEN [found EXCEPT !.pos = Len(right) + 1]
                 ELSE [pos |-> Min(later) + 1, count |-> found.count + 1],
             [pos |-> 1, count |-> 0], left).count

Named(functions) == SelectSeq(functions, LAMBDA name : name # "??")

Frames(entry) ==
    IF entry.callpath_frames # <<>> /\ Head(entry.callpath_frames) = entry.symbol
    THEN entry.callpath_frames
    ELSE <<entry.symbol>> \o entry.callpath_frames

HasMain(path) == Range(path) \cap MainNames # {}
IsWorkerEntry(frames) == Range(frames) \cap WorkerNames # {}
IsWorkerPath(funcs) == ~HasMain(funcs) /\ Range(Tail(funcs)) \cap OmpNames # {}

\* Mutant: only the common beginning counts.
MutPrefixOnly(funcs, frames) ==
    (common_prefix_len(funcs, frames) * Unit) \div Len(funcs)

confidence(funcs, frames) ==
    LET prefix == common_prefix_len(funcs, frames)
        sameKind == \/ IsWorkerPath(funcs) /\ IsWorkerEntry(frames)
                    \/ HasMain(funcs) /\ HasMain(frames)
        inside == ordered_overlap_count(funcs, frames) = Len(funcs)
        best == Max({(prefix * Unit) \div Len(funcs)}
                    \cup (IF sameKind THEN {Percent(85)} ELSE {})
                    \cup (IF inside THEN {Percent(75)} ELSE {}))
        leafOnly == prefix = 1 /\ Len(funcs) > 1 /\ best < Percent(75)
    IN  IF leafOnly THEN Min({best, Percent(35)}) ELSE best

Unmatched == [confidence |-> 0, percent |-> 0, callpath_id |-> 0]

Beats(c, percent, best) ==
    c > best.confidence \/ (c = best.confidence /\ percent > best.percent)

\* The id of an entry is its place in the report.
best_perf_match(functions, perf_entries) ==
    LET funcs == Named(functions)
        Consider(best, id) ==
            LET frames == Frames(perf_entries[id])
                c == confidence(funcs, frames)
                percent == perf_entries[id].percent
            IN  IF funcs[1] = frames[1] /\ c > 0 /\ Beats(c, percent, best)
                THEN [confidence |-> c, percent |-> percent, callpath_id |-> id]
                ELSE best
    IN  IF funcs = <<>> THEN Unmatched
        ELSE FoldLeft(Consider, Unmatched, [id \in DOMAIN perf_entries |-> id])

===============================================================================
