----------------------------- MODULE TargetedRd ------------------------------
(***************************************************************************)
(* The control plane of the second stage inside the profiled process: the  *)
(* preload library (lib_init, lib_deinit and the callbacks of starter.cc), *)
(* the threads of the program as the pthread_create hook sees them, the    *)
(* controller TargetedRdProfiler, and the session that it drives in the    *)
(* kernel module through ioctls.                                           *)
(*                                                                         *)
(* A method of the controller holds _state_mutex from its first to its     *)
(* last statement and is one step.  The callbacks of starter.cc load the   *)
(* pointer lib_targeted_rd and call the method after that: two steps.  So  *)
(* does a handler of the module: it checks the window, and records what it *)
(* found later, without a second check.                                    *)
(* What happens when the method runs after lib_deinit has deleted the      *)
(* controller is undefined, and the model ends there for that thread.      *)
(***************************************************************************)
EXTENDS Integers, Sequences, FiniteSets

CONSTANTS
    Tids,        \* thread ids; the system uses them again
    Main,        \* the thread that runs lib_init and exit()
    Cpus,
    MaxCreates,  \* bound: threads created
    MaxCalls,    \* bound: calls of rd_start and rd_stop
    NoBinding    \* _threads has no entry

ASSUME ConstantsAssumption ==
    /\ Main \in Tids
    /\ Cpus # {}
    /\ NoBinding \notin [cpu : Cpus, active : BOOLEAN]
    /\ MaxCreates \in Nat /\ MaxCalls \in Nat

VARIABLES
    pc,               \* where each thread is
    mask,             \* the CPUs that it may run on
    lib,              \* progress of lib_init and lib_deinit
    lib_targeted_rd,  \* the pointer is set
    initial,          \* what get_threads returned and is not registered yet
    window,           \* the window flags of the controller
    cpu_owner,        \* CPUs that _cpu_owner marks as taken
    threads,          \* _threads
    scratch,          \* tids whose scratch pages are mapped
    running,          \* session->running
    contexts,         \* session->threads, in list order
    hit,              \* the context that a handler works for (0: none), and the
                      \* kind of the window that it was let in by
    files,            \* which context the output file of a tid describes (0: none)
    creates, calls    \* how often the bounded actions have happened

progVars == <<pc, mask, hit, creates, calls>>
libVars == <<lib, lib_targeted_rd, initial, files>>
bindVars == <<cpu_owner, threads, scratch>>
sessVars == <<running, contexts>>
vars == <<progVars, libVars, window, bindVars, sessVars>>

Bound(t) == threads[t] # NoBinding /\ threads[t].active
BoundTids == {t \in Tids : Bound(t)}
ActiveContexts(t) == {i \in DOMAIN contexts : contexts[i].tid = t /\ contexts[i].active}

NoHit == [context |-> 0, kind |-> "auto"]

\* The threads in a handler of the module.
Handling == {t \in Tids : pc[t] = "hit"}

\* A handler works for the context.
Busy(i) == \E t \in Handling : hit[t].context = i

\* What window_mode of the info file says of the results.
Label == IF window.seen THEN "explicit" ELSE "auto"

\* The process when lib_init starts: constructors of other libraries may have
\* created threads already.
Init ==
    /\ pc \in {p \in [Tids -> {"absent", "user"}] : p[Main] = "user"}
    /\ mask = [t \in Tids |-> Cpus]
    /\ lib = "construct" /\ lib_targeted_rd = FALSE /\ initial = {}
    /\ window = [open |-> FALSE, auto |-> FALSE, seen |-> FALSE]
    /\ cpu_owner = {} /\ threads = [t \in Tids |-> NoBinding] /\ scratch = {}
    /\ running = FALSE /\ contexts = <<>> /\ hit = [t \in Tids |-> NoHit]
    /\ files = [t \in Tids |-> 0]
    /\ creates = 0 /\ calls = 0

\* The thread runs code of the program: Main is elsewhere during lib_init and
\* lib_deinit.
InUser(t) == pc[t] = "user" /\ (t = Main => lib = "up")

-----------------------------------------------------------------------------
(***************************************************************************)
(* The session in the kernel module.                                       *)
(***************************************************************************)

\* rd_enable_thread_events or rd_disable_thread_events for the active ones.
Switched(ctxs, on) ==
    [i \in DOMAIN ctxs |->
       IF ctxs[i].active THEN [ctxs[i] EXCEPT !.enabled = on] ELSE ctxs[i]]

\* Mutant: only the active contexts are cleared.
MutClearedActive(ctxs) ==
    [i \in DOMAIN ctxs |->
       IF ctxs[i].active THEN [ctxs[i] EXCEPT !.data = {}, !.late = Busy(i)] ELSE ctxs[i]]

\* rd_reset_session_locked clears every context, the detached ones included.
Cleared(ctxs) ==
    [i \in DOMAIN ctxs |-> [ctxs[i] EXCEPT !.data = {}, !.late = Busy(i)]]

\* rd_thread_detach_live for the contexts of the tids in S.
Detached(S) ==
    [i \in DOMAIN contexts |->
       IF contexts[i].tid \in S
       THEN [contexts[i] EXCEPT !.active = FALSE, !.enabled = FALSE]
       ELSE contexts[i]]

\* Mutant: a thread that is registered inside a window stays disabled.
MutNewContext(t, cpu) ==
    [tid |-> t, cpu |-> cpu, active |-> TRUE, enabled |-> FALSE, alive |-> TRUE,
     data |-> {}, late |-> FALSE]

\* rd_register_thread_locked; the events start at once inside a window.
NewContext(t, cpu) ==
    [tid |-> t, cpu |-> cpu, active |-> TRUE, enabled |-> running, alive |-> TRUE,
     data |-> {}, late |-> FALSE]

\* rd_handle_bp_hit or rd_handle_wp_hit for a live thread: the window is open.
rd_handle_hit(t) ==
    /\ InUser(t)
    /\ running
    /\ \E i \in ActiveContexts(t) :
         /\ contexts[i].enabled /\ contexts[i].alive
         /\ hit' = [hit EXCEPT ![t] = [context |-> i, kind |-> Label]]
    /\ pc' = [pc EXCEPT ![t] = "hit"]
    /\ UNCHANGED <<mask, creates, calls, libVars, window, bindVars, running, contexts>>

\* The seed or the hit enters the results, or the handler has nothing to record.
rd_record_hit(t) ==
    /\ t \in Handling
    /\ \/ contexts' = [contexts EXCEPT ![hit[t].context].data = @ \cup {hit[t].kind}]
       \/ UNCHANGED contexts
    /\ hit' = [hit EXCEPT ![t] = NoHit]
    /\ pc' = [pc EXCEPT ![t] = "user"]
    /\ UNCHANGED <<mask, creates, calls, libVars, window, bindVars, running>>

-----------------------------------------------------------------------------
(***************************************************************************)
(* The controller.                                                         *)
(***************************************************************************)

Erased(t) == IF Bound(t) THEN threads ELSE [threads EXCEPT ![t] = NoBinding]

\* Mutant: a registration that the module refuses keeps its CPU.
MutRegisterFails(t) ==
    /\ ~Bound(t)
    /\ threads' = Erased(t)
    /\ UNCHANGED <<scratch, sessVars>>
    /\ \/ UNCHANGED <<cpu_owner, mask>>
       \/ /\ pc[t] # "absent"
          /\ \E cpu \in Cpus \ cpu_owner :
               /\ mask' = [mask EXCEPT ![t] = {cpu}]
               /\ cpu_owner' = cpu_owner \cup {cpu}

\* register_thread_locked throws: no CPU is free, or the thread cannot be
\* pinned; or it is pinned and then mmap or the module fails.  The CPU and the
\* pages are released, the pinning stays.
RegisterFails(t) ==
    /\ ~Bound(t)
    /\ threads' = Erased(t)
    /\ UNCHANGED <<scratch, sessVars, cpu_owner>>
    /\ \/ UNCHANGED mask
       \/ /\ pc[t] # "absent"
          /\ \E cpu \in Cpus \ cpu_owner : mask' = [mask EXCEPT ![t] = {cpu}]

\* register_thread_locked returns: the thread was bound before, or gets a CPU,
\* scratch pages and a context in the module.
RegisterSucceeds(t) ==
    \/ Bound(t) /\ UNCHANGED <<mask, bindVars, sessVars>>
    \/ /\ ~Bound(t)
       /\ pc[t] # "absent" /\ ActiveContexts(t) = {}
       /\ \E cpu \in Cpus \ cpu_owner :
            /\ cpu_owner' = cpu_owner \cup {cpu}
            /\ mask' = [mask EXCEPT ![t] = {cpu}]
            /\ threads' = [threads EXCEPT ![t] = [cpu |-> cpu, active |-> TRUE]]
            /\ contexts' = Append(contexts, NewContext(t, cpu))
       /\ scratch' = scratch \cup {t}
       /\ UNCHANGED running

\* unregister_thread_locked for the tids in S that are bound.  The module knows
\* them (BindingsAgree), so that UNREGISTER_THREAD does not fail, and it waits
\* for their handlers.
Unregistered(S) ==
    LET gone == S \cap BoundTids
    IN  /\ gone \cap Handling = {}
        /\ contexts' = Detached(gone)
        /\ scratch' = scratch \ gone
        /\ cpu_owner' = cpu_owner \ {threads[t].cpu : t \in gone}
        /\ threads' = [t \in Tids |->
                         IF t \in gone THEN [threads[t] EXCEPT !.active = FALSE]
                         ELSE threads[t]]

-----------------------------------------------------------------------------
(***************************************************************************)
(* lib_init: the constructor of the controller, then the pointer.          *)
(***************************************************************************)

\* The environment, the info file, the device, load_targets, CONFIG_SESSION and
\* LOAD_TARGETS: each may throw, and the exception leaves lib_init.
construct ==
    /\ lib = "construct"
    /\ lib' \in {"enumerate", "aborted"}
    /\ UNCHANGED <<progVars, lib_targeted_rd, initial, files, window, bindVars, sessVars>>

get_threads ==
    /\ lib = "enumerate"
    /\ lib' = "register"
    /\ initial' = {t \in Tids : pc[t] # "absent"}
    /\ UNCHANGED <<progVars, lib_targeted_rd, files, window, bindVars, sessVars>>

\* One turn of register_initial_threads; an exception leaves lib_init.
register_initial_threads(t) ==
    /\ lib = "register" /\ t \in initial
    /\ initial' = initial \ {t}
    /\ \/ RegisterSucceeds(t) /\ UNCHANGED lib
       \/ RegisterFails(t) /\ lib' = "aborted"
    /\ UNCHANGED <<pc, hit, creates, calls, lib_targeted_rd, files, window>>

start_window_locked ==
    /\ lib = "register" /\ initial = {}
    /\ lib' = "store"
    /\ window' = [window EXCEPT !.open = TRUE, !.auto = TRUE]
    /\ running' = TRUE /\ contexts' = Switched(contexts, TRUE)
    /\ UNCHANGED <<progVars, lib_targeted_rd, initial, files, bindVars>>

lib_init ==
    /\ lib = "store"
    /\ lib' = "up" /\ lib_targeted_rd' = TRUE
    /\ UNCHANGED <<progVars, initial, files, window, bindVars, sessVars>>

-----------------------------------------------------------------------------
(***************************************************************************)
(* The program: pthread_create and the callbacks around a thread's life.   *)
(***************************************************************************)

Alive == lib \notin {"down", "aborted"}

\* The new thread inherits the affinity of its creator.
pthread_create(t, child) ==
    /\ InUser(t) /\ pc[child] = "absent" /\ Alive
    /\ creates < MaxCreates
    /\ creates' = creates + 1
    /\ pc' = [pc EXCEPT ![child] = "trampoline"]
    /\ mask' = [mask EXCEPT ![child] = mask[t]]
    /\ UNCHANGED <<hit, calls, libVars, window, bindVars, sessVars>>

\* rd_on_thread_start reads the pointer ...
rd_on_thread_start(t) ==
    /\ pc[t] = "trampoline" /\ Alive
    /\ pc' = [pc EXCEPT ![t] = IF lib_targeted_rd THEN "register" ELSE "user"]
    /\ UNCHANGED <<mask, hit, creates, calls, libVars, window, bindVars, sessVars>>

\* ... and calls the controller; an exception is only a warning.
register_current_thread(t) ==
    /\ pc[t] = "register" /\ Alive
    /\ pc' = [pc EXCEPT ![t] = "user"]
    /\ RegisterSucceeds(t) \/ RegisterFails(t)
    /\ UNCHANGED <<hit, creates, calls, libVars, window>>

\* The thread is gone; a context that it still has follows a dead task.
Ended(t) ==
    [i \in DOMAIN contexts |->
       IF contexts[i].tid = t THEN [contexts[i] EXCEPT !.alive = FALSE] ELSE contexts[i]]

\* rd_on_thread_stop reads the pointer; without it the thread ends.
rd_on_thread_stop(t) ==
    /\ pc[t] = "user" /\ t # Main /\ Alive
    /\ IF lib_targeted_rd
       THEN pc' = [pc EXCEPT ![t] = "unregister"] /\ UNCHANGED contexts
       ELSE pc' = [pc EXCEPT ![t] = "absent"] /\ contexts' = Ended(t)
    /\ UNCHANGED <<mask, hit, creates, calls, libVars, window, bindVars, running>>

unregister_current_thread(t) ==
    /\ pc[t] = "unregister" /\ Alive
    /\ pc' = [pc EXCEPT ![t] = "absent"]
    /\ Unregistered({t})
    /\ UNCHANGED <<mask, hit, creates, calls, libVars, window, running>>

\* rd_start and rd_stop read the pointer ...
rd_start_stop(t) ==
    /\ InUser(t) /\ lib_targeted_rd
    /\ calls < MaxCalls
    /\ calls' = calls + 1
    /\ \E call \in {"start", "stop"} : pc' = [pc EXCEPT ![t] = call]
    /\ UNCHANGED <<mask, hit, creates, libVars, window, bindVars, sessVars>>

\* ... and call the controller.  The first rd_start stops, resets and starts
\* again; RESET_SESSION may fail when a watchpoint cannot be moved, after it has
\* cleared the results, and then the exception leaves rd_start.
kernel_start(t) ==
    /\ pc[t] = "start" /\ Alive
    /\ pc' = [pc EXCEPT ![t] = "user"]
    /\ IF window.auto /\ ~window.seen
       THEN \/ /\ window' = [open |-> TRUE, auto |-> FALSE, seen |-> TRUE]
               /\ running' = TRUE
               /\ contexts' = Switched(Cleared(contexts), TRUE)
            \/ /\ \E u \in Tids : ActiveContexts(u) # {}
               /\ window' = [window EXCEPT !.open = FALSE]
               /\ running' = FALSE
               /\ contexts' = Switched(Cleared(contexts), FALSE)
       ELSE /\ window' = [open |-> TRUE, auto |-> FALSE, seen |-> TRUE]
            /\ IF window.open THEN UNCHANGED sessVars
               ELSE running' = TRUE /\ contexts' = Switched(contexts, TRUE)
    /\ UNCHANGED <<mask, hit, creates, calls, libVars, bindVars>>

\* Mutant: a lone rd_stop closes the automatic window.
MutStopClosesAuto(t) ==
    /\ pc[t] = "stop" /\ Alive
    /\ pc' = [pc EXCEPT ![t] = "user"]
    /\ window' = [window EXCEPT !.open = FALSE]
    /\ running' = FALSE /\ contexts' = Switched(contexts, FALSE)
    /\ UNCHANGED <<mask, hit, creates, calls, libVars, bindVars>>

kernel_stop(t) ==
    /\ pc[t] = "stop" /\ Alive
    /\ pc' = [pc EXCEPT ![t] = "user"]
    /\ IF window.open /\ ~(window.auto /\ ~window.seen)
       THEN /\ window' = [window EXCEPT !.open = FALSE]
            /\ running' = FALSE /\ contexts' = Switched(contexts, FALSE)
       ELSE UNCHANGED <<window, sessVars>>
    /\ UNCHANGED <<mask, hit, creates, calls, libVars, bindVars>>

-----------------------------------------------------------------------------
(***************************************************************************)
(* lib_deinit: the pointer, then the destructor of the controller, which   *)
(* takes _state_mutex twice.                                               *)
(***************************************************************************)

lib_deinit ==
    /\ lib = "up" /\ pc[Main] = "user"
    /\ lib' = "stop" /\ lib_targeted_rd' = FALSE
    /\ UNCHANGED <<progVars, initial, files, window, bindVars, sessVars>>

destroy_stop ==
    /\ lib = "stop"
    /\ lib' = "unregister"
    /\ window' = [window EXCEPT !.open = FALSE]
    /\ IF window.open
       THEN running' = FALSE /\ contexts' = Switched(contexts, FALSE)
       ELSE UNCHANGED sessVars
    /\ UNCHANGED <<progVars, lib_targeted_rd, initial, files, bindVars>>

destroy_unregister ==
    /\ lib = "unregister"
    /\ lib' = "write"
    /\ Unregistered(Tids)
    /\ UNCHANGED <<progVars, lib_targeted_rd, initial, files, window, running>>

\* The last context in list order with the tid.
LastContext(t) ==
    LET own == {i \in DOMAIN contexts : contexts[i].tid = t}
    IN  IF own = {} THEN 0 ELSE CHOOSE i \in own : \A j \in own : j <= i

\* write_info goes through the contexts in list order; a file is opened with
\* trunc, so that the last context of a tid has it.
write_info ==
    /\ lib = "write"
    /\ lib' = "close"
    /\ files' = [t \in Tids |-> LastContext(t)]
    /\ UNCHANGED <<progVars, lib_targeted_rd, initial, window, bindVars, sessVars>>

\* close: rd_wpctl_release detaches what is left.
destroy_close ==
    /\ lib = "close"
    /\ Handling = {}
    /\ lib' = "down"
    /\ contexts' = Detached(Tids)
    /\ UNCHANGED <<progVars, lib_targeted_rd, initial, files, window, bindVars, running>>

-----------------------------------------------------------------------------
\* The process ends, or the program goes on without the library's help.
Quiet == (~Alive \/ lib = "up") /\ UNCHANGED vars

LibStep ==
    \/ construct \/ get_threads \/ (\E t \in Tids : register_initial_threads(t))
    \/ start_window_locked \/ lib_init
    \/ lib_deinit \/ destroy_stop \/ destroy_unregister \/ write_info \/ destroy_close

ProgStep(t) ==
    \/ \E child \in Tids : pthread_create(t, child)
    \/ rd_on_thread_start(t) \/ register_current_thread(t)
    \/ rd_on_thread_stop(t) \/ unregister_current_thread(t)
    \/ rd_start_stop(t) \/ kernel_start(t) \/ kernel_stop(t)
    \/ rd_handle_hit(t) \/ rd_record_hit(t)

Next == LibStep \/ (\E t \in Tids : ProgStep(t)) \/ Quiet

Spec == Init /\ [][Next]_vars

-----------------------------------------------------------------------------
(***************************************************************************)
(* Properties.                                                             *)
(***************************************************************************)

Steps == {"absent", "user", "trampoline", "register", "unregister", "start", "stop", "hit"}

(***************************************************************************)
(* Bindings, contexts and output files are well formed: a file describes a *)
(* context that exists.                                                    *)
(***************************************************************************)
TypeOK ==
    /\ pc \in [Tids -> Steps]
    /\ mask \in [Tids -> SUBSET Cpus]
    /\ lib \in {"construct", "enumerate", "register", "store", "up", "stop", "unregister",
                "write", "close", "down", "aborted"}
    /\ lib_targeted_rd \in BOOLEAN /\ initial \subseteq Tids
    /\ window \in [open : BOOLEAN, auto : BOOLEAN, seen : BOOLEAN]
    /\ cpu_owner \subseteq Cpus /\ scratch \subseteq Tids
    /\ threads \in [Tids -> [cpu : Cpus, active : BOOLEAN] \cup {NoBinding}]
    /\ running \in BOOLEAN
    /\ contexts \in Seq([tid : Tids, cpu : Cpus, active : BOOLEAN, enabled : BOOLEAN,
                         alive : BOOLEAN, data : SUBSET {"auto", "explicit"},
                         late : BOOLEAN])
    /\ hit \in [Tids -> [context : 0 .. Len(contexts), kind : {"auto", "explicit"}]]
    /\ files \in [Tids -> 0 .. Len(contexts)]

(***************************************************************************)
(* The controller and the module agree on who is profiled, whatever step   *)
(* of a registration fails and however tids are used again: a binding is   *)
(* active exactly if the session has one active context for its tid, on    *)
(* the same CPU; the CPUs taken are those of the active bindings, no two   *)
(* on the same one; and the scratch pages that idle watchpoints point to   *)
(* are mapped exactly as long.  So UNREGISTER_THREAD finds its thread, and *)
(* the destructor reaches write_info.                                      *)
(***************************************************************************)
BindingsAgree ==
    lib # "down" =>
        /\ \A t \in Tids : Bound(t) <=> ActiveContexts(t) # {}
        /\ \A i, j \in DOMAIN contexts :
              (contexts[i].active /\ contexts[j].active) =>
                  (contexts[i].tid = contexts[j].tid => i = j)
        /\ \A i \in DOMAIN contexts :
              contexts[i].active => contexts[i].cpu = threads[contexts[i].tid].cpu
        /\ cpu_owner = {threads[t].cpu : t \in BoundTids}
        /\ \A t, u \in BoundTids : threads[t].cpu = threads[u].cpu => t = u
        /\ scratch = BoundTids

(***************************************************************************)
(* The window the controller believes in is the one the module has, and    *)
(* the perf events of every active context are on exactly in that window:  *)
(* a thread that registers inside a window is enabled, one that registers  *)
(* outside is not, a failed RESET_SESSION leaves none on.                  *)
(***************************************************************************)
EventsFollowWindow ==
    lib # "down" =>
        /\ running = window.open
        /\ \A i \in DOMAIN contexts :
              contexts[i].enabled = (contexts[i].active /\ running)

(***************************************************************************)
(* window_mode in the .rd2.info file is true of the results: "explicit"    *)
(* (explicit_window_seen) covers no data of the automatic window, not even *)
(* of a thread that has ended, and "auto_fallback" no other data.  The one *)
(* exception is a thread that was in a handler when rd_start cleared its   *)
(* results: what that handler records is of the automatic window.          *)
(***************************************************************************)
LabelMatchesData ==
    \A i \in DOMAIN contexts :
        contexts[i].data \subseteq {Label} \cup (IF contexts[i].late THEN {"auto"} ELSE {})

Phase ==
    CASE window.open /\ window.seen -> "open"
      [] window.open /\ ~window.seen -> "auto"
      [] ~window.open /\ window.seen -> "closed"
      [] ~window.open /\ ~window.seen /\ window.auto -> "halted"
      [] OTHER -> "none"

Kept == UNION {contexts[i].data : i \in DOMAIN contexts}

Exiting == lib \in {"unregister", "write", "close", "down"}

InFlight == {hit[t].kind : t \in Handling}

Windows == INSTANCE RdWindows
             WITH phase <- Phase, kept <- Kept, in_flight <- InFlight, exiting <- Exiting

(***************************************************************************)
(* The controller and the module implement the window semantics of the     *)
(* README as far as the code keeps it (RdWindows).                         *)
(***************************************************************************)
WindowSemantics == Windows!Spec

(***************************************************************************)
(* write_info writes the histograms of every thread (targeted_rd.hh:       *)
(* "为一个线程写出所有 target 的 log2 直方图"; README: one file per tid).  *)
(***************************************************************************)
AllWritten ==
    lib = "close" =>
        \A i \in DOMAIN contexts : contexts[i].data # {} => files[contexts[i].tid] = i

==============================================================================
