# A TLA+ model of RD_SPE_TOOL

RD_SPE_TOOL measures memory reuse distance on ARM servers in two stages. The
first stage samples loads and stores with ARM SPE and writes a manifest of hot
instructions. The second stage ("targeted_rd") puts hardware breakpoints on
those instructions, arms hardware watchpoints on the addresses they touch, and
counts the memory accesses until the next touch. This directory models
both stages and the way between them: the sampler `src/monitor.cc` with its
SPE decoder and hotspot manifest, the kernel module `kernel/rd_wpctl.c`, the
controller `src/targeted_rd.cc`, the preload library around them, and the parts
of the post-processing scripts that compute something.

## 1. Survey

| Part | State | Operations | Hard behaviours |
|---|---|---|---|
| Thread contexts of the module (`rd_wpctl.c` 790-908, 1399-1593, 2025-2064) | live list, `detached`, `live_refs`, completion, event arrays | REGISTER, UNREGISTER, release; kprobe handlers look contexts up under RCU | handlers on other CPUs hold contexts while they are detached and freed |
| Sampling of a thread (`rd_wpctl.c` 416-1221, 1905-1920) | slots, counters, histograms, context and pair tables, DWARF events | breakpoint hit, watchpoint hit, START, STOP, RESET, UNREGISTER | handlers drop the lock to sleep; debug hardware refuses addresses; tables fill up |
| Sessions and ioctls (`rd_wpctl.c` 1598-2018) | mode, targets, thread list, `running` | CONFIG, LOAD_TARGETS, START, STOP, RESET, readers | registration in a running window |
| Effective address (`rd_wpctl.c` 212-290, `targeted_rd.cc` 222-430) | none | decode an instruction, compute its address | modes, widths, negative offsets |
| Log2 buckets (`rd_wpctl.c` 346-356, `targeted_rd.cc` 539-558) | none | file a distance, label a bucket | zero, the last bucket |
| Controller (`targeted_rd.cc`) | window flags, `_cpu_owner`, `_threads`, scratch pages | construct, register, unregister, start, stop, destroy, write files | steps of a registration fail; tids are used again |
| Preload library and thread hook (`starter.cc`, `pthread_hook.cc`, `threads.cc`) | two atomic pointers | `lib_init`, `lib_deinit`, callbacks | callbacks race with construction and destruction |
| Monitor (`monitor.cc`) | per-thread perf fds and rings, sampler thread, eventfd, semaphore, windows, counters | register, unregister, start, stop, drain, decode SPE packets, write manifest | several threads, values that add up in an eventfd, ring wrap |
| PeriodicProfiler (`periodic_profiler.cc`) | interval thread, tag | interval loop, phases, destruction | races with Monitor's sampler |
| Call paths (`rd_wpctl.c` 361-465, `resolve_dwarf_pairs.py` 222-317) | none | walk frame pointers, copy a piece of the stack, unwind it later | memory that changes or ends, prologues, recursion |
| Post-processing (`postproc/*.py`) | files | filter the manifest, count samples of a hotspot again, group pairs, match call paths with a perf report | recomputes what the profilers computed, from less information |

What makes the first stage correct: no access is counted or filed twice or
lost between windows and threads; a sample is made of the packets of one SPE
record; the manifest keeps the hotspots that dominate others, and the second
stage puts its breakpoints on the very instructions that were sampled.

What makes the second stage correct: nobody touches freed memory and detaching
always ends; every seed is accounted for exactly once; a recorded distance is
the distance to the first reuse; the outputs (histogram, pair table, events)
agree; controller and module agree on who is profiled; the results belong to
the window that the info file names; a call path is the true one as far as it
goes; and what a script computes again agrees with what the profiler counted.

`PROJECT.json` lists the components, the hazards at their lines with the
properties that cover them, the runs, the mutants and the source lines of every
definition.

## 2. Modules

| Module | Models | Grain |
|---|---|---|
| `RdLiveThread` | life cycle of thread contexts | one step per atomic operation of the handlers and of detach |
| `RdWpctlThread` | one registered thread: slots, handlers, tables, window switches | one step per critical section and per call that sleeps or touches hardware |
| `RdBuckets` | bucket arithmetic of module, controller and DWARF report | operators |
| `TargetedRd` | preload library, program threads, controller, session | one step per critical section of `_state_mutex`; the callbacks' pointer load is a step of its own |
| `Monitor` | the first stage: Monitor, its sampler thread, PeriodicProfiler, program threads | one step per critical section of `_state_mutex`, per access outside it |
| `PerfRing` | the data and AUX rings between kernel and decoder | one step per record and per packet |
| `SpeSamples` | the decoder of the SPE stream: packets, pending fields, flush | one step per packet |
| `HotspotStats` | statistics of an instruction, ranking of hotspots | operators |
| `Hotspots` | from samples over the manifest and the scripts to targets, across two runs of the program | one step per sample, per window start, per file |
| `CallPath` | frame-pointer walk, stack snapshot, unwinder | operators; one round of the walk is a step |
| `CallStacks` | the reference for `CallPath`: stacks as compilers lay them out | operators |
| `PerfMatch` | matching of call paths with a perf report | operators |
| `EffectiveAddress` | operand parser of the controller, check and evaluation of the template in the module | operators |
| `RdSession` | environment of the controller, CONFIG_SESSION, LOAD_TARGETS | operators |
| `RdWindows` | what the window interface promises (README of the tool, "窗口语义") | abstract |
| `*Proofs` | theorems about the module they extend | |
| `MC*` | constants and symmetry for TLC; `MCAlgorithms` draws inputs for the modules of operators; a behaviour of `MCHotspots` is one of `PerfRing`, `SpeSamples` or `Hotspots`, which share no variable | |

`TargetedRd` contains the session of the kernel module at the grain of whole
ioctls; `RdWpctlThread` opens one thread of that session up, and `RdLiveThread`
what the other two take for granted: that a handler holds a context that exists.

### RdLiveThread

A context goes from free through live and detached to freed. Detach is five
steps (mark, unlink, grace period, drop the own reference, wait for the
completion), then the event arrays are freed. A handler is a lookup under RCU (one step per
list entry), `rd_thread_live_get_rcu` in its three atomic parts, the body, and
the put. The grace period is external: it ends when every RCU reader that was
active at its start has left. Two sessions compete for the list.

### RdWpctlThread

`count` holds the counters of `rd_thread_ctx`, `slot` the watchpoint slots, `hw`
what the debug registers watch, `loc` the locals of a handler in flight. A
breakpoint hit accepts a seed under the lock (`rd_bp_accept`), takes its stack
snapshot and moves the watchpoint without it (`rd_bp_snapshot`, `rd_bp_modify`);
a watchpoint hit checks under the lock, reads the memory counter and takes its
snapshot without it, then records, fills and publishes the DWARF event, clears
the slot and moves the watchpoint back. START and STOP switch counter,
breakpoints and watchpoints in separate steps, RESET moves the slots and then
clears. The thread executes accesses to a small set of addresses in between.
Draws of `rd_next_random` are nondeterministic. Distances are counted in
accesses, as the hardware counter does. The readers (`rd_get_*_locked`) and the
lines that the controller writes from them (`write_thread_*`) are operators; the
properties about outputs are stated on those lines.

`rd_pick_wp_slot` draws below the slot's own sample number, which is 1 for
every armed slot: the draw always succeeds on slot 0, so that slot 0 is the only
one that is ever replaced and `reservoir_rejected` stays 0. The comment above the
function promises a draw of every slot (`EverySlotDraws`, which the run `reservoir`
refutes); the theorem `ReplacementPolicy` states what the code does instead.

STOP and RESET do not wait for a handler in flight. What such a handler does
after a RESET is part of the model, and three history variables keep track of it:

* `stale` counts the results that were added after a RESET had erased the seed they
  come from (`SeedsAccounted` has them as a term; `reset_race` is the finding);
* `raced.slots` says that a handler was in flight when the last RESET rewrote the
  watchpoints, `raced.results` that one was when it cleared the results. They are set
  by RESET alone, from the place of the handler, and not by what the handler does
  next.

The properties do not stop at such a RESET but say how far its effect reaches.
`WatchesMatch`: an armed slot watches its seed (but for the moment between the two
halves of a RESET), and at most one idle slot is left with a watchpoint on user memory (it does no harm to the results: a hit on an
idle slot is ignored, and the next arming or RESET moves it). `EventsMatch`: at
most one event lacks its snapshots, and it never has those of another access.
`OutputsAgree` has no exception.

### TargetedRd

`construct` stands for everything the constructor does before it lists the
threads: environment, info file, device, `load_targets`, `configure_session`. Any
of it may throw, and an exception that leaves `lib_init` ends the process. `lib` is the progress of `lib_init` and `lib_deinit`, `pc` says where each
program thread is, `window` has the controller's three flags, `contexts` is the
session's list with one record per registration. `write_info` is one step that
succeeds; a file that cannot be opened (an exception in the destructor, after
which only `close` follows) is left out. Registration may fail at each
step; RESET_SESSION may fail after it cleared the results. A handler of the module
is two steps, the check of `running` (`rd_handle_hit`) and the record
(`rd_record_hit`), and rd_start may come between them: `hit` has the context it
works for and the kind of window that let it in. `late` marks a context that was
cleared under a handler; only there `LabelMatchesData` allows data of the automatic
window under the explicit label. UNREGISTER_THREAD waits for the handlers of its
context, START, STOP and RESET do not. A tid may be used
again after its thread ended. A callback that reaches the controller after
`lib_deinit` deleted it has undefined behaviour; the model has no step for the
thread then (a hazard without a property).

### Monitor

`pc` says where the constructor and destructor (`main`), the interval thread and
the sampler thread are; `kinfos` has one record per window. `start()` and `stop()`
are cut at every access to shared state that the mutex does not cover; a
`push_back` that needs new storage is two steps, because the sampler may add to
the old elements in between. Per thread there is one sampler fd with a counter
and a ring; a ring holds a number of samples, and an access (`Tick`) adds one to
both. Ring overflow is the kernel's affair and is left out. `RegisterFails` has
the three places where `open_thread_locked` throws. A thread that ends while the
library pointer is not set leaves fds of a dead thread behind (`gone`), and a new
thread with its tid then keeps these.

`Prompt` says that the constructor of PeriodicProfiler takes less than the first
period of one second. Then every `stop()` runs in nonstop mode and no DRAIN is ever
written. Without it, `stop()` may write DRAIN before `set_nonstop`; if the sampler
has not read it when the destructor writes STOP, the eventfd returns the sum 3, the
sampler drains and goes on waiting, and the destructor waits for ever. The run
`monitor` is about the first case, and `stop_sum` shows that in the second
`DestructorReturns` fails.

### PerfRing and SpeSamples

`PerfRing` has the two rings that `process_samples_locked` shares with the kernel.
Heads and tails are positions in streams that grow for ever, a cell remembers
which position was written to it last, and positions are reduced modulo the
size where the code does so. The decoder takes `data_head` once, moves a tail of
its own from record to record, reads the packets that an AUX record announces,
moves `aux_tail` by their size and publishes `data_tail` last. The kernel writes in
between wherever the tails leave room; a record without room is lost, and then
the bytes that it announced are never given back (`leaked`). Samples before the
first window are discarded.

`SpeSamples` has what the packets say. A record is a list of packets with their
real header bytes; headers are told apart by the masks of `monitor.cc`, which are
written with `%` and `\div` so that the proof can use the module. An overflow cuts a
record at any packet, and a packet that is cut reads as any value of `Garbage`. The
fields `pending_*` are not reset then, so that the next sample may carry values
of the cut record; `SampleOfOneRecord` states what still holds: a sample's field
is of its own record wherever that record has it, and mixes occur only after a
cut. `skew` compares how far the decoder moves with what the hardware wrote
(`InStep`). Left out: the masking of address payloads, extended headers
(0x20-0x3F), and counters of unknown packets. `PERF_RECORD_SAMPLE` is a record of
another type.

### HotspotStats and Hotspots

`record_hotspot_sample` finds the first known mapping that holds the pc and adds
to the statistics of <<module, offset>>. Mappings are taken down when a window
starts and never forgotten, while the program loads and unloads libraries
(`Remap`). `history` counts where a sample truly was. `collect_hotspots_for_thread`
filters, takes the Pareto front of samples and latency, ranks front, rest and
unqualified, and cuts. In the second run the mappings are others (`Reloc`);
`load_targets` sums lines with the same offset, sorts, and visits candidates
until RD_BP_CAPACITY targets are decoded. `objdump` is a verdict per offset: "ok",
"filtered" (an error that `is_filterable_hotspot_error` knows) or "fatal". It is
given a file offset as an address, so the model assumes a binary whose link
addresses are its file offsets. Between the runs `resolve_hotspots.py` may write a
filtered manifest (which instructions come from a source statement is an input),
and `analyze_hotspot_va.py` looks every sample of the files up again with the
mappings of the whole run. Manifests without the score column, which
`load_targets` also reads, are left out.

### EffectiveAddress and RdSession

An instruction is a class of destination register and a list of operand items.
The reference in `MCAlgorithms` is the instruction set's: base plus sign- or
zero-extended, shifted index, modulo the word. Words have 6 bits, `w` registers
3. In `RdSession` an environment variable is unset or the integer that `strtol`
returns; capacities are narrowed to a field of 3 bits so that wrap-around happens.

### CallPath, CallStacks and PerfMatch

User memory is a function from mapped words to contents. `WalkStep` is one round of
the loop of `rd_capture_callchain`; in the run it alternates with a thread that
overwrites words. `rd_copy_user_stack_snapshot` copies whole chunks until one cannot
be read, and `unwind` goes from function to function with the rows of the call
frame information, as `CfiUnwinder.unwind` does. The rows are those of a function
with a frame record: before it is set up nothing is saved, afterwards x29 and x30
lie at the bottom of the frame. `CallStacks` builds the stack of a call path with
leaf functions, prologues, dynamic allocation, recursion, calls at the very
end of a function and a library without call frame information. `FpPathExact` and
`UnwoundRight` compare what is found with the path. `CutShort` lists the reasons for
which an unwound path ends early; one of them is that `unwind` stops at a return
address equal to its predecessor, so a recursion through the same call is seen
once and everything above it is not. In fp mode (`VisibleToFp`) the caller of a
function without a frame is missing, as frame pointers do not show it.

`PerfMatch` is `best_perf_match` of `join_pair_context_perf_cost.py`. Confidences are
integers, with `Unit` for 1.0. The second half of `RightEntry` holds for paths of up to six functions:
with seven, six common names weigh 6/7, which is more than the 0.85 that the right
kind of thread weighs.

`pair_bucket` of `resolve_dwarf_pairs.py` labels the last bucket 2^62 to 2^63 - 1, the
controller labels it up to 2^64 - 1; `LabelledRight` states the agreement for all
others.

## 3. Runs

| Run | Bounds | Shows |
|---|---|---|
| `live_thread` | two sessions with a context each, two CPUs | no use after free, completion once, counts never rise from zero; every detach returns, every release frees |
| `slots` | two slots, three addresses of which the hardware refuses one, DWARF mode with one event, four instructions, three ioctls | accounting, exact first reuse, agreement of slots with the debug registers, events with their own seed and reuse, outputs that agree |
| `fp_tables` | frame-pointer mode, two contexts, one pair | full tables drop and count; outputs agree |
| `algorithms` | 8-bit distances, 6-bit registers, 3-bit fields, call paths of up to four frames, reports of two entries | filing and labels agree, ranges tile, the report agrees; the module computes the address of the instruction from a template it accepts; constructor and module accept the same environments; the frame-pointer walk always ends and is exact on compiled stacks; unwound paths are never wrong; the cost of a path comes from the right perf entry |
| `control` | three tids, two CPUs, one creation, three calls | agreement, events and labels; `TargetedRd` implements `RdWindows` |
| `monitor` | two tids, one creation, two accesses, one window boundary before exit | counters telescope, every sample is filed once, no gaps, the destructor returns if the constructor was prompt |
| `hotspots` | PerfRing: a data ring of seven words and an AUX ring of three bytes, four records, six bytes of packets; SpeSamples: three records, each may be cut; Hotspots: two threads, three samples, two layouts of mappings, lists of one or two hotspots | the decoder never reads what was overwritten, takes each record once, gives the AUX area back; samples of one record, no negative latency, packets in step; dominators survive the cut, candidates are accounted for, breakpoints sit on sampled instructions with their sample counts, also after the manifest was filtered; the scripts find the samples that were counted |
| `reset_race` (violation) | | a hit of the old window enters the cleared results |
| `reservoir` (violation) | two slots | with all slots armed only slot 0 can be replaced |
| `tid_reuse` (violation) | | the second file of a tid overwrites the first |
| `kinfo_race` (violation) | one tid | samples filed while `_kinfos` moves to new storage are missing from the windows |
| `stop_sum` (violation) | one tid, two windows, a constructor of any length | STOP is added to an unread DRAIN and the destructor hangs |

Why the bounds are enough: in `RdLiveThread` a race needs one context under
detach, one neighbour in the list and two handlers (one that holds a reference,
one that is about to take it); in `RdWpctlThread` one full slot and one free one, a table
with room and a full one, and a reset while a handler is in flight; in
`TargetedRd` a creator, a child with a reused tid, and one CPU too few. Counters are
bounded in the guards (`MaxCreates`, `MaxCalls` and the bounds named in
`RdWpctlThread`).

In `hotspots` three samples are enough for a dominated and a dominating hotspot, or a
qualified and an unqualified one, in a list of one or two, and a shared one in the
other thread; a cut record needs one before it, to leave the fields in a known state,
and one after it. The rings are smaller than two records and two packets, so both wrap
around several times and fill up, at every alignment. The inputs of `algorithms` are all values of the modelled widths, or all
values around the boundaries. Its stacks are cut by each of the reasons in
`CutShort`: with `Chunk` = 48 and copies of 20, 72 or 200 bytes a record lies before,
across and after the end of a copy; with a depth of three for keys and paths,
paths of four frames are truncated.

The accesses of `monitor` are enough to have one on each side of a
window boundary, a reading or the end of a thread; one creation is enough
to use a tid again while its old fds are still registered.

Fairness: `live_thread` has weak fairness of each handler step and each step of
a detach or a release. Handlers run to the end with
preemption disabled or on a running task, and an ioctl or close that was entered
continues; starting new lookups is not fair and never stops either.
`monitor` has weak fairness of the library's own threads (interval, sampler, and
the thread inside the constructor or the destructor): the scheduler runs them, and
`epoll_wait` returns the eventfd whenever it is ready. Nothing is asked of the
program's threads; calling `exit` is not fair either.
`algorithms` has weak fairness of `Walk`: a handler that walks the frame pointers runs
on. The thread that overwrites memory is not bounded. `stop_sum` has the fairness of
`monitor`, so that its counterexample is a hang and not a scheduler that stopped.

### Findings

`findings` in `PROJECT.json` has the five disagreements in full. In short: RESET
does not wait for handlers in flight; the documented replacement draw of every slot
is only ever made for slot 0; output files are named by tid only;
`start()` appends to `_kinfos` without the mutex under which samples are added
to it; a DRAIN and a STOP in the eventfd add up to a command that nobody knows.
Hazards that no property covers, or only in part, have a note there.

## 4. Proofs

All theorems hold for every value of the constants that satisfies the named
assumptions; TLC checks the same definitions on the bounds above.
Type correctness (`TypeCorrect`) is proved and is not a property of a run.

* `RdLiveThreadProofs`: `TypeCorrect`, `Safety` (NoUseAfterFree), `Completion`
  (CompletesOnce), `ZeroIsFinal` (NoResurrection). The inductive invariant ties
  `live_refs` of a context to the number of handlers that hold it plus one while it
  is not yet put by detach, and says which readers a grace period still waits for.
  NoUseAfterFree alone is not inductive: it says nothing of a handler that has
  just found the context.
* `RdWpctlThreadProofs`: `TypeCorrect`, `Accounting` (SeedsAccounted),
  and `ReplacementPolicy`: with all slots armed the pick is slot 0, which is seeded
  anew while no other slot changes and nothing is rejected. The invariant adds what a
  handler's locals say about the slot it works on (`LocalsInv`) and that slot 0 has one
  sample (`FirstSlotInv`). `HandInv`, which the next two modules use, says that a handler
  at work on an armed slot has its data in its locals.
* `RdWpctlReuseProofs`, on top of it: `HardwareFollowsSlots` (WatchesMatch) and
  `DeltaIsReuseDistance` (FirstReuse). `StrayInv` adds to WatchesMatch what holds
  between the two halves of a RESET (`ResetInv`), that the handler which a RESET met
  finds no watchpoint left behind before it leaves its own (`LeftInv`), and that a
  detached thread has none (`GoneInv`).
  `CtlInv` says how the steps of START and STOP relate to what is enabled: breakpoints are
  never on without the counter, and a window that is being closed is not running.
  `ReuseInv` then says of every armed slot whose window was whole that the counter
  has moved by exactly the accesses since the seed, which is what FirstReuse
  needs at the hit and does not say before it.
* `RdWpctlTablesProofs`, also on top of `RdWpctlThreadProofs`: `TablesStayConsistent`
  (TablesConsistent) and `EventsHaveTheirSnapshots` (EventsMatch).
  The lookups find what is in the table or append behind the last entry; a pair and
  a slot refer to contexts that are there (`PairsKnown`). `FreePairAssumption` says
  that the mark of a free entry is not a pair. `EventsInv` follows the two snapshots
  of an event from the slot to the buffer: a handler whose slot a RESET has taken
  finds them erased, and no event lacks them before it publishes its own (`BareInv`).
* `PerfRingProofs`, for rings, records and packets of every size:
  `RingNeverGarbled`, `RingEveryRecordOnce`, `RingAuxGivenBack`. The invariant says that
  the cells between tail and head hold their own positions (`DataInv`, `AuxInv`; two
  positions less than a ring apart have different cells), that the records lie one
  behind the other from tail to head (`RecordsInv`), where the decoder is among them
  (`DecoderInv`), that announced packets are whole and in the AUX ring
  (`AnnouncedInv`), and that running totals of what was announced and leaked exist
  (`SpaceInv`), since a sum over records cannot be proved about directly.
* `SpeSamplesProofs`: `SamplesDoNotMix` (SampleOfOneRecord), `LatenciesDoNotWrap`
  (ExecWithinTotal), `DecoderInStep` (InStep), for all records, values and any number
  of overflows. `PendingInv` says that the packets of the current record that were
  passed are pending, and nothing else is unless a record was cut.
* `MonitorProofs`: `Continuous` (NoGaps), under `Prompt`, for any finite set of threads
  and any number of windows. `NonstopInv`: while the
  constructor is at work the interval thread is before its first `stop()`, and from
  nonstop mode on the events stay enabled.
* `TargetedRdProofs`: `TypeCorrect`, `Agreement` (BindingsAgree),
  `EventsInWindow` (EventsFollowWindow), `Labels` (LabelMatchesData), and
  `Implements`: `Spec => WindowSemantics`, the refinement of `RdWindows`. The
  invariant adds `StartupInv`: the automatic window is open before a callback
  can reach the controller, and nothing is active after close; and `HitInv`: a handler
  in flight was let in by a window of the present label, or its context is late. The refinement
  maps `kernel_start` to FirstStart or Start (StartupInv tells them apart),
  `destroy_stop` to Exit, `rd_handle_hit` to Hit (which needs EventsFollowWindow),
  `rd_record_hit` to Collect, everything else to a stutter.

Assumptions: the named ASSUMEs of the modules, which say that bounds and sizes are
numbers, that the marks for "none" differ from real values and (`RingAssumption`) that
an AUX record has the four words that the decoder looks at. TLC evaluates each on a run.

Only model-checked: liveness (`DetachReturns`, `ReleaseFrees`, `DestructorReturns`,
`WalkEnds`), `OutputsAgree`, `CountersTelescope` and `SamplesFiled` (sums over finite sets,
which need induction), `Hotspots` (sums and orders over finite sets), call paths and
matching (folds over sequences), and the arithmetic of buckets and addresses
(exponentials are out of the provers' reach).

## 5. Not modelled

* Handlers that run after the controller was deleted (undefined behaviour).
* The wording and layout of output files, the environment variables of
  `lib_init`, ELF and `/proc` parsing, failing output files.
* In the scripts: reading and writing text, `addr2line` and the parse of source files
  that decides whether an instruction belongs to a statement (an input of
  `resolve_hotspots`), the parser of perf reports, and all plotting. They are sequential
  and keep no state; what they compute over several inputs is in `Hotspots`,
  `CallPath`, `PerfMatch` and `RdBuckets`.
* Test programs; the clock and the exception class, which have no state.
* Memory ordering weaker than interleaving, except where RCU is the mechanism.

## 6. Plan

1. Failing output files in `write_info` and in the manifest.
2. `SameInstruction` of `Hotspots` as a theorem.
3. Call frame information of functions that save other registers.
