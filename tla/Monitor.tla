------------------------------ MODULE Monitor --------------------------------
(***************************************************************************)
(* The first stage inside the profiled process: Monitor with its sampler   *)
(* thread, PeriodicProfiler with its interval thread, and the threads of   *)
(* the program that register and unregister.  A thread has one sampler,    *)
(* whose fd also counts the accesses that it samples.                      *)
(*                                                                         *)
(* What the code does under _state_mutex is one step.  start() and stop()  *)
(* work on _kinfos, _nonstop_mode, the semaphore and the eventfd without   *)
(* it, and there every access is a step.                                   *)
(***************************************************************************)
EXTENDS Integers, Sequences, FiniteSets, FiniteSetsExt

CONSTANTS
    Tids,        \* thread ids; the system uses them again
    Prompt,      \* the constructor of PeriodicProfiler takes less than a period
    MaxTicks,    \* bound: accesses counted and sampled
    MaxWindows,  \* bound: windows that the interval thread opens before it is stopped
    MaxStarts    \* bound: threads created

ASSUME MonitorAssumption ==
    IsFiniteSet(Tids) /\ Prompt \in BOOLEAN /\ {MaxTicks, MaxWindows, MaxStarts} \subseteq Nat

VARIABLES
    pc,              \* where "main", "interval" and "sampler" are
    copy,            \* what a push_back that reallocates has moved so far
    last,            \* the interval thread is in the stop() after its loop
    stop_thread,     \* _stop_thread
    nonstop,         \* _nonstop_mode
    events_enabled,
    kinfos,          \* the windows: samples filed and value counted
    efd,             \* the count of the eventfd
    sem,             \* _sampler_drain
    batch,           \* tokens that epoll_wait returned, not handled yet
    cmd,             \* efd_cmd
    thread,          \* where each program thread is
    gone,            \* tids whose fds belong to a thread that has ended
    slot,            \* slot id of each registered thread, 0 for the others
    next_slot_id,
    enabled,         \* tids whose fds are enabled
    value, ring,     \* per thread: what read(fd) returns, samples not read
    leaked,          \* open perf fds that _threads does not know
    retired, prev,   \* _retired_values, _prev_counters
    written,         \* _written_sample_bytes, in records
    ticks, starts    \* how often the bounded actions have happened

ctlVars == <<pc, copy, last, stop_thread, nonstop>>
cmdVars == <<efd, sem, batch, cmd>>
fdVars == <<slot, next_slot_id, enabled, value, leaked>>
progVars == <<thread, gone, ticks, starts>>
countVars == <<retired, prev>>
dataVars == <<kinfos, ring, written>>
vars == <<ctlVars, events_enabled, cmdVars, fdVars, progVars, countVars, dataVars>>

SAMPLER_DRAIN == 1
SAMPLER_STOP == 2
EVENTFD_TOKEN == 0  \* the token of a sampler is its slot id

Active == {t \in Tids : slot[t] # 0}
Sum(f, S) == MapThenSumSet(LAMBDA t : f[t], S)
SumOf(field(_)) == MapThenSumSet(LAMBDA i : field(kinfos[i]), DOMAIN kinfos)
At(p, from, to) == pc[p] = from /\ pc' = [pc EXCEPT ![p] = to]

\* The order in which get_threads lists the tids.
Order == CHOOSE f \in [Tids -> 1 .. Cardinality(Tids)] :
             \A t, u \in Tids : f[t] = f[u] => t = u

\* After the constructor of Monitor has attached the threads that it found.
Init ==
    /\ pc = [main |-> "push", interval |-> "loop", sampler |-> "wait"]
    /\ copy = <<>> /\ last = FALSE /\ stop_thread = FALSE
    /\ nonstop = FALSE /\ events_enabled = FALSE
    /\ kinfos = <<>> /\ efd = 0 /\ sem = 1 /\ batch = {} /\ cmd = 0
    /\ thread \in [Tids -> {"absent", "run"}]
    /\ gone = {} /\ enabled = {}
    /\ \E attached \in SUBSET {t \in Tids : thread[t] = "run"} :
         slot = [t \in Tids |-> IF t \in attached THEN Order[t] ELSE 0]
    /\ next_slot_id = Cardinality(Tids) + 1
    /\ value = [t \in Tids |-> 0] /\ ring = [t \in Tids |-> 0]
    /\ leaked = 0 /\ retired = 0 /\ prev = 0 /\ written = 0
    /\ ticks = 0 /\ starts = 0

-----------------------------------------------------------------------------
(***************************************************************************)
(* Reading the rings.                                                      *)
(***************************************************************************)

\* process_samples_locked for the slots of the threads in S: the samples go to
\* the files and to the newest window; without a window they are discarded.
process_samples_locked(S) ==
    LET n == IF kinfos = <<>> THEN 0 ELSE Sum(ring, S)
    IN  /\ ring' = [t \in Tids |-> IF t \in S THEN 0 ELSE ring[t]]
        /\ written' = written + n
        /\ kinfos' = IF kinfos = <<>> THEN kinfos
                     ELSE [kinfos EXCEPT ![Len(kinfos)].samples = @ + n]

-----------------------------------------------------------------------------
(***************************************************************************)
(* Windows: start() is called by the constructor ("main") and by the       *)
(* interval thread, stop() by the interval thread only.                    *)
(***************************************************************************)

\* push_back: in place, or into new storage when the capacity (which the standard
\* library chooses) is used up.
start_push(p) ==
    /\ At(p, "push", "wait")
    /\ kinfos' = Append(kinfos, [samples |-> 0, value |-> 0])
    /\ UNCHANGED <<copy, last, stop_thread, nonstop, events_enabled, cmdVars, fdVars, progVars,
                   countVars, ring, written>>

start_move(p) ==
    /\ At(p, "push", "install")
    /\ copy' = kinfos
    /\ UNCHANGED <<last, stop_thread, nonstop, events_enabled, cmdVars, fdVars, progVars,
                   countVars, dataVars>>

start_install(p) ==
    /\ At(p, "install", "wait")
    /\ kinfos' = Append(copy, [samples |-> 0, value |-> 0])
    /\ copy' = <<>>
    /\ UNCHANGED <<last, stop_thread, nonstop, events_enabled, cmdVars, fdVars, progVars,
                   countVars, ring, written>>

start_wait(p) ==
    /\ At(p, "wait", "enable")
    /\ IF nonstop THEN UNCHANGED sem ELSE sem > 0 /\ sem' = sem - 1
    /\ UNCHANGED <<copy, last, stop_thread, nonstop, events_enabled, efd, batch, cmd, fdVars,
                   progVars, countVars, dataVars>>

start_enable(p) ==
    /\ At(p, "enable", IF p = "main" THEN "nonstop" ELSE "loop")
    /\ enabled' = IF events_enabled THEN enabled ELSE Active
    /\ events_enabled' = TRUE
    /\ UNCHANGED <<copy, last, stop_thread, nonstop, cmdVars, slot, next_slot_id, value, leaked,
                   progVars, countVars, dataVars>>

start(p) ==
    start_push(p) \/ start_move(p) \/ start_install(p) \/ start_wait(p) \/ start_enable(p)

stop_disable ==
    /\ At("interval", "stop", "drain")
    /\ events_enabled' = (events_enabled /\ nonstop)
    /\ enabled' = IF ~nonstop /\ events_enabled THEN {} ELSE enabled
    /\ UNCHANGED <<copy, last, stop_thread, nonstop, cmdVars, slot, next_slot_id, value, leaked,
                   progVars, countVars, dataVars>>

\* Mutant: DRAIN is also written in nonstop mode.
MutStopDrain ==
    /\ At("interval", "drain", "read")
    /\ efd' = efd + SAMPLER_DRAIN
    /\ UNCHANGED <<copy, last, stop_thread, nonstop, events_enabled, sem, batch, cmd, fdVars,
                   progVars, countVars, dataVars>>

stop_drain ==
    /\ At("interval", "drain", "read")
    /\ efd' = IF nonstop THEN efd ELSE efd + SAMPLER_DRAIN
    /\ UNCHANGED <<copy, last, stop_thread, nonstop, events_enabled, sem, batch, cmd, fdVars,
                   progVars, countVars, dataVars>>

\* Mutant: _prev_counters keeps its first value.
MutReadCounters ==
    /\ At("interval", "read", IF last THEN "exited" ELSE "push")
    /\ LET now == retired + Sum(value, Active)
       IN  kinfos' = [kinfos EXCEPT ![Len(kinfos)].value = now - prev]
    /\ UNCHANGED <<copy, last, stop_thread, nonstop, events_enabled, cmdVars, fdVars, progVars,
                   countVars, ring, written>>

read_counters ==
    /\ At("interval", "read", IF last THEN "exited" ELSE "push")
    /\ LET now == retired + Sum(value, Active)
       IN  /\ kinfos' = [kinfos EXCEPT ![Len(kinfos)].value = now - prev]
           /\ prev' = now
    /\ UNCHANGED <<copy, last, stop_thread, nonstop, events_enabled, cmdVars, fdVars, progVars,
                   retired, ring, written>>

-----------------------------------------------------------------------------
(***************************************************************************)
(* The interval thread.                                                    *)
(***************************************************************************)

run_thread_loop ==
    /\ At("interval", "loop", IF stop_thread THEN "stop" ELSE "sleep")
    /\ stop_thread \/ Len(kinfos) < MaxWindows
    /\ last' = stop_thread
    /\ UNCHANGED <<copy, stop_thread, nonstop, events_enabled, cmdVars, fdVars, progVars,
                   countVars, dataVars>>

\* The second is over.  Before the constructor has pushed the first window, the
\* _kinfos.back() of stop() is undefined: the model has no such step.
run_thread_wake ==
    /\ At("interval", "sleep", "stop")
    /\ kinfos # <<>>
    /\ Prompt => pc["main"] \notin {"push", "install", "wait", "enable", "nonstop"}
    /\ UNCHANGED <<copy, last, stop_thread, nonstop, events_enabled, cmdVars, fdVars, progVars,
                   countVars, dataVars>>

run_thread ==
    run_thread_loop \/ run_thread_wake \/ stop_disable \/ stop_drain \/ read_counters
    \/ start("interval")

-----------------------------------------------------------------------------
(***************************************************************************)
(* The thread that runs lib_init and lib_deinit.                           *)
(***************************************************************************)

\* The library pointer lib_perp is set.
Up == pc["main"] = "up"

set_nonstop ==
    /\ At("main", "nonstop", "up")
    /\ nonstop' = TRUE
    /\ UNCHANGED <<copy, last, stop_thread, events_enabled, cmdVars, fdVars, progVars,
                   countVars, dataVars>>

lib_deinit ==
    /\ At("main", "up", "join")
    /\ stop_thread' = TRUE
    /\ UNCHANGED <<copy, last, nonstop, events_enabled, cmdVars, fdVars, progVars,
                   countVars, dataVars>>

deinit_join ==
    /\ At("main", "join", "signal")
    /\ pc["interval"] = "exited"
    /\ UNCHANGED <<copy, last, stop_thread, nonstop, events_enabled, cmdVars, fdVars, progVars,
                   countVars, dataVars>>

deinit_signal ==
    /\ At("main", "signal", "join_sampler")
    /\ efd' = efd + SAMPLER_STOP
    /\ UNCHANGED <<copy, last, stop_thread, nonstop, events_enabled, sem, batch, cmd, fdVars,
                   progVars, countVars, dataVars>>

\* The rest of ~Monitor: disable and close everything, then the output files.
deinit_close ==
    /\ At("main", "join_sampler", "done")
    /\ pc["sampler"] = "exited"
    /\ events_enabled' = FALSE /\ enabled' = {} /\ gone' = {}
    /\ slot' = [t \in Tids |-> 0] /\ value' = [t \in Tids |-> 0] /\ ring' = [t \in Tids |-> 0]
    /\ UNCHANGED <<copy, last, stop_thread, nonstop, cmdVars, next_slot_id, leaked, thread,
                   ticks, starts, countVars, kinfos, written>>

deinit == deinit_join \/ deinit_signal \/ deinit_close

-----------------------------------------------------------------------------
(***************************************************************************)
(* The sampler thread.                                                     *)
(***************************************************************************)

\* The eventfd is ready when its count is not 0, a ring when it has samples and
\* its wakeup threshold is reached.
epoll_wait ==
    /\ At("sampler", "wait", "batch")
    /\ \E S \in SUBSET {t \in Active : ring[t] > 0} :
         batch' = {slot[t] : t \in S} \cup (IF efd > 0 THEN {EVENTFD_TOKEN} ELSE {})
    /\ batch' # {}
    /\ UNCHANGED <<copy, last, stop_thread, nonstop, events_enabled, efd, sem, cmd, fdVars,
                   progVars, countVars, dataVars>>

\* A slot id that is not in _sampler_slots any more is skipped.
process_samples ==
    \E id \in batch \ {EVENTFD_TOKEN} :
      /\ At("sampler", "batch", IF batch = {id} THEN "wait" ELSE "batch")
      /\ batch' = batch \ {id}
      /\ process_samples_locked({t \in Active : slot[t] = id})
      /\ UNCHANGED <<copy, last, stop_thread, nonstop, events_enabled, efd, sem, cmd, fdVars,
                     progVars, countVars>>

\* "goto drain" leaves the rest of the batch.
read_eventfd ==
    /\ EVENTFD_TOKEN \in batch
    /\ At("sampler", "batch", "drain")
    /\ cmd' = efd /\ efd' = 0 /\ batch' = {}
    /\ UNCHANGED <<copy, last, stop_thread, nonstop, events_enabled, sem, fdVars, progVars,
                   countVars, dataVars>>

drain ==
    /\ At("sampler", "drain", IF cmd = SAMPLER_STOP THEN "exited" ELSE "wait")
    /\ process_samples_locked(Active)
    /\ sem' = IF cmd # SAMPLER_STOP \/ written' > written THEN sem + 1 ELSE sem
    /\ UNCHANGED <<copy, last, stop_thread, nonstop, events_enabled, efd, batch, cmd, fdVars,
                   progVars, countVars>>

run_sampler_thread == epoll_wait \/ process_samples \/ read_eventfd \/ drain

-----------------------------------------------------------------------------
(***************************************************************************)
(* The threads of the program.  A callback loads lib_perp and then calls   *)
(* Monitor: two steps.  A call after the end of ~Monitor is undefined, and *)
(* the model has no step for that thread then.                             *)
(***************************************************************************)

rd_on_thread_start(t) ==
    /\ thread[t] = "absent" /\ starts < MaxStarts
    /\ Up \/ \E u \in Tids : thread[u] = "run"
    /\ thread' = [thread EXCEPT ![t] = IF Up THEN "register" ELSE "run"]
    /\ starts' = starts + 1
    /\ UNCHANGED <<ctlVars, events_enabled, cmdVars, fdVars, gone, ticks, countVars, dataVars>>

\* Mutant: the fds of a thread that registers during a window stay disabled.
MutRegister(t) ==
    /\ thread[t] = "register" /\ pc["main"] # "done"
    /\ thread' = [thread EXCEPT ![t] = "run"]
    /\ IF t \in Active THEN UNCHANGED <<slot, next_slot_id>>
       ELSE slot' = [slot EXCEPT ![t] = next_slot_id] /\ next_slot_id' = next_slot_id + 1
    /\ UNCHANGED <<ctlVars, events_enabled, cmdVars, enabled, value, leaked, gone, ticks, starts,
                   countVars, dataVars>>

\* A tid that is active already keeps the fds that it has.
register_current_thread(t) ==
    /\ thread[t] = "register" /\ pc["main"] # "done"
    /\ thread' = [thread EXCEPT ![t] = "run"]
    /\ IF t \in Active THEN UNCHANGED <<slot, next_slot_id>>
       ELSE slot' = [slot EXCEPT ![t] = next_slot_id] /\ next_slot_id' = next_slot_id + 1
    /\ enabled' = IF events_enabled THEN enabled \cup {t} ELSE enabled
    /\ UNCHANGED <<ctlVars, events_enabled, cmdVars, value, leaked, gone, ticks, starts,
                   countVars, dataVars>>

\* open_thread_locked throws: no fd, no mapping of the ring, or not accepted by
\* epoll.  The fd of a slot that could not be mapped is in neither list.
RegisterFails(t) ==
    /\ thread[t] = "register" /\ pc["main"] # "done" /\ t \notin Active
    /\ thread' = [thread EXCEPT ![t] = "run"]
    /\ \E failed \in {"open", "mmap", "epoll_ctl"} :
         /\ next_slot_id' = IF failed = "open" THEN next_slot_id ELSE next_slot_id + 1
         /\ leaked' = IF failed = "mmap" THEN leaked + 1 ELSE leaked
    /\ UNCHANGED <<ctlVars, events_enabled, cmdVars, slot, enabled, value, gone, ticks, starts,
                   countVars, dataVars>>

\* One access of the thread is counted and sampled.
Tick(t) ==
    /\ thread[t] = "run" /\ t \in (Active \cap enabled) \ gone /\ ticks < MaxTicks
    /\ value' = [value EXCEPT ![t] = @ + 1]
    /\ ring' = [ring EXCEPT ![t] = @ + 1]
    /\ ticks' = ticks + 1
    /\ UNCHANGED <<ctlVars, events_enabled, cmdVars, slot, next_slot_id, enabled, leaked, thread,
                   gone, starts, countVars, kinfos, written>>

rd_on_thread_stop(t) ==
    /\ thread[t] = "run"
    /\ thread' = [thread EXCEPT ![t] = IF Up THEN "unregister" ELSE "absent"]
    /\ gone' = IF ~Up /\ t \in Active THEN gone \cup {t} ELSE gone
    /\ UNCHANGED <<ctlVars, events_enabled, cmdVars, fdVars, ticks, starts, countVars, dataVars>>

\* close_thread_locked
Closed(t) ==
    /\ slot' = [slot EXCEPT ![t] = 0]
    /\ value' = [value EXCEPT ![t] = 0]
    /\ enabled' = enabled \ {t}
    /\ gone' = gone \ {t}

\* Mutant: the fds are closed before the ring is read.
MutUnregister(t) ==
    /\ thread[t] = "unregister" /\ pc["main"] # "done"
    /\ thread' = [thread EXCEPT ![t] = "absent"]
    /\ retired' = retired + value[t]
    /\ Closed(t)
    /\ ring' = [ring EXCEPT ![t] = 0]
    /\ UNCHANGED <<ctlVars, events_enabled, cmdVars, next_slot_id, leaked, ticks, starts, prev,
                   kinfos, written>>

\* unregister_thread_locked; nothing when the tid is not active.
unregister_current_thread(t) ==
    /\ thread[t] = "unregister" /\ pc["main"] # "done"
    /\ thread' = [thread EXCEPT ![t] = "absent"]
    /\ process_samples_locked({t} \cap Active)
    /\ retired' = retired + value[t]
    /\ Closed(t)
    /\ UNCHANGED <<ctlVars, events_enabled, cmdVars, next_slot_id, leaked, ticks, starts, prev>>

ProgramThread(t) ==
    \/ rd_on_thread_start(t) \/ register_current_thread(t) \/ RegisterFails(t)
    \/ Tick(t)
    \/ rd_on_thread_stop(t) \/ unregister_current_thread(t)

-----------------------------------------------------------------------------
Next ==
    \/ start("main") \/ set_nonstop \/ lib_deinit \/ deinit
    \/ run_thread
    \/ run_sampler_thread
    \/ \E t \in Tids : ProgramThread(t)

Spec == Init /\ [][Next]_vars

\* The scheduler runs the library's own threads; nothing is asked of the program.
FairSpec ==
    /\ Spec
    /\ WF_vars(start("main") \/ set_nonstop) /\ WF_vars(deinit)
    /\ WF_vars(run_thread) /\ WF_vars(run_sampler_thread)

-----------------------------------------------------------------------------
(***************************************************************************)
(* The windows partition the counted accesses: their values add up to the  *)
(* last reading, no value is negative (it would wrap), and no access of a  *)
(* registered thread escapes the sum, also when threads retire, fail to    *)
(* register, or reuse a tid between two readings (read_counters and        *)
(* accumulate_retired_counts_locked).                                      *)
(***************************************************************************)
CountersTelescope ==
    /\ SumOf(LAMBDA k : k.value) = prev
    /\ \A i \in DOMAIN kinfos : kinfos[i].value >= 0
    /\ pc["main"] # "done" => /\ retired + Sum(value, Active) = ticks
                              /\ prev <= ticks

(***************************************************************************)
(* Every sample is in a ring that will be read or in a file, and in one    *)
(* place only, until ~Monitor closes the rings; the windows never claim    *)
(* more samples than the files hold.                                       *)
(***************************************************************************)
SamplesFiled ==
    /\ pc["main"] # "done" => written + Sum(ring, Active) = ticks
    /\ SumOf(LAMBDA k : k.samples) <= written

(***************************************************************************)
(* Between the constructor and the end there is no gap: every registered   *)
(* thread has enabled fds, across all window boundaries (monitor.hh on     *)
(* set_nonstop: events are not disabled between windows).                  *)
(***************************************************************************)
NoGaps == pc["main"] \in {"up", "join", "signal", "join_sampler"} => enabled = Active

(***************************************************************************)
(* exit() returns: once lib_deinit has started, the interval thread and    *)
(* the sampler thread end and ~Monitor finishes.                           *)
(***************************************************************************)
DestructorReturns == pc["main"] = "join" ~> pc["main"] = "done"

(***************************************************************************)
(* The check at the end of ~Monitor: the bytes written match the number of *)
(* samples that the windows claim.                                         *)
(***************************************************************************)
WrittenMatchesTotal == pc["main"] = "done" => SumOf(LAMBDA k : k.samples) = written

==============================================================================
