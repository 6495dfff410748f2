----------------------------- MODULE HotspotStats -----------------------------
(***************************************************************************)
(* What the first stage keeps per sampled instruction and how it ranks the *)
(* instructions of one thread (Monitor in monitor.cc).                     *)
(*                                                                         *)
(* A sample is a record of the fields that record_hotspot_sample looks at: *)
(*   total  the total latency, or -1 if the SPE record had none            *)
(*   exec   total minus issue and translation, or -1 if not valid          *)
(* The issue and translation sums and the four event counters are added up *)
(* in the same way and only printed; they are left out.                    *)
(***************************************************************************)
EXTENDS Integers, Sequences, FiniteSets, SequencesExt

CONSTANTS
    MinSamples,  \* _hotspot_min_samples (RD_HOTPC_MIN_SAMPLES, default 1)
    MinLatency   \* _hotspot_min_latency_samples (default 1)

ASSUME MinimaAssumption == MinSamples \in Nat /\ MinLatency \in Nat

NoStats == [n |-> 0, ntotal |-> 0, total |-> 0, nexec |-> 0, exec |-> 0]

AddSample(stats, sample) ==
    [n      |-> stats.n + 1,
     ntotal |-> stats.ntotal + IF sample.total >= 0 THEN 1 ELSE 0,
     total  |-> stats.total + IF sample.total >= 0 THEN sample.total ELSE 0,
     nexec  |-> stats.nexec + IF sample.exec >= 0 THEN 1 ELSE 0,
     exec   |-> stats.exec + IF sample.exec >= 0 THEN sample.exec ELSE 0]

hotspot_latency_count(stats) ==
    IF stats.nexec > 0 THEN stats.nexec ELSE stats.ntotal

hotspot_candidate_score(stats) ==
    IF stats.nexec > 0 THEN stats.exec ELSE stats.total

\* hotspot_avg_mem_latency as a fraction <<sum, count>>; 0.0 without a latency.
hotspot_avg_mem_latency(stats) ==
    LET count == hotspot_latency_count(stats)
    IN  IF count > 0 THEN <<hotspot_candidate_score(stats), count>> ELSE <<0, 1>>

\* a >= b and a > b for two such fractions.
AvgGe(a, b) == a[1] * b[2] >= b[1] * a[2]
AvgGt(a, b) == a[1] * b[2] > b[1] * a[2]

Summary(key, stats) ==
    [module_id |-> key[1], pc_offset |-> key[2],
     sample_count |-> stats.n,
     candidate_score |-> hotspot_candidate_score(stats),
     avg |-> hotspot_avg_mem_latency(stats),
     latency_count |-> hotspot_latency_count(stats)]

hotspot_dominates(a, b) ==
    /\ a.sample_count >= b.sample_count
    /\ AvgGe(a.avg, b.avg)
    /\ a.sample_count > b.sample_count \/ AvgGt(a.avg, b.avg)

hotspot_score_before(a, b) ==
    IF a.candidate_score # b.candidate_score
    THEN a.candidate_score > b.candidate_score
    ELSE IF a.sample_count # b.sample_count THEN a.sample_count > b.sample_count
    ELSE IF a.module_id # b.module_id THEN a.module_id < b.module_id
    ELSE a.pc_offset < b.pc_offset

Qualified(s) == s.sample_count >= MinSamples /\ s.latency_count >= MinLatency

ParetoFront(S) == {s \in S : ~ \E o \in S : hotspot_dominates(o, s)}

ByScore(S) == SetToSortSeq(S, hotspot_score_before)

Cut(seq, top_k) == SubSeq(seq, 1, IF Len(seq) < top_k THEN Len(seq) ELSE top_k)

\* Mutant: the dominated hotspots are listed before the Pareto front.
MutNonFrontFirst(all, top_k) ==
    LET filtered == {s \in all : Qualified(s)}
        front == ParetoFront(filtered)
    IN  Cut(ByScore(filtered \ front) \o ByScore(front) \o ByScore(all \ filtered), top_k)

\* collect_hotspots_for_thread, from the summaries of the thread: the Pareto
\* front, then the dominated hotspots, then those under the minima.
RankHotspots(all, top_k) ==
    LET filtered == {s \in all : Qualified(s)}
        front == ParetoFront(filtered)
    IN  Cut(ByScore(front) \o ByScore(filtered \ front) \o ByScore(all \ filtered), top_k)

===============================================================================
