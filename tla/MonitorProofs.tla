---------------------------- MODULE MonitorProofs ----------------------------
(***************************************************************************)
(* What the nonstop mode of Monitor rests on, proved for any set of        *)
(* threads and without the bounds of the runs: if the constructor of       *)
(* PeriodicProfiler ends within the first period, no window boundary       *)
(* leaves a thread unobserved.                                             *)
(***************************************************************************)
EXTENDS Monitor, FiniteSetTheorems, TLAPS

\* The constructor of PeriodicProfiler is at work.
Early == pc["main"] \in {"push", "install", "wait", "enable", "nonstop"}

MainAt == {"push", "install", "wait", "enable", "nonstop", "up", "join", "signal",
           "join_sampler", "done"}
IntervalAt == {"loop", "sleep", "stop", "drain", "read", "push", "install", "wait", "enable",
               "exited"}
SamplerAt == {"wait", "batch", "drain", "exited"}

ControlType ==
    /\ pc \in [main : MainAt, interval : IntervalAt, sampler : SamplerAt]
    /\ slot = [t \in Tids |-> slot[t]]
    /\ next_slot_id \in Nat \ {0}
    /\ stop_thread \in BOOLEAN /\ nonstop \in BOOLEAN /\ events_enabled \in BOOLEAN

(***************************************************************************)
(* While the constructor is at work the interval thread sleeps, and no     *)
(* stop() runs before nonstop mode; from then on the events stay enabled.  *)
(***************************************************************************)
NonstopInv ==
    /\ Early => pc["interval"] \in {"loop", "sleep"}
    /\ Early \/ pc["main"] = "up" => ~stop_thread
    /\ nonstop <=> ~Early
    /\ pc["main"] \in {"push", "install", "wait", "enable"} => ~events_enabled
    /\ enabled \subseteq Active
    /\ pc["main"] \in {"nonstop", "up", "join", "signal", "join_sampler"} =>
         events_enabled /\ enabled = Active

IInv == ControlType /\ NonstopInv

LEMMA InitHolds == Init => IInv
<1> SUFFICES ASSUME Init PROVE IInv
    OBVIOUS
<1>1. next_slot_id \in Nat \ {0}
    BY FS_CardinalityType, MonitorAssumption DEF Init
<1>2. slot = [t \in Tids |-> slot[t]]
    BY Zenon DEF Init
<1>6. pc \in [main : MainAt, interval : IntervalAt, sampler : SamplerAt]
    BY DEF Init, MainAt, IntervalAt, SamplerAt
<1>7. stop_thread \in BOOLEAN /\ nonstop \in BOOLEAN /\ events_enabled \in BOOLEAN
    BY DEF Init
<1>3. ControlType
    BY <1>1, <1>2, <1>6, <1>7 DEF ControlType
<1>4. NonstopInv
    BY DEF Init, NonstopInv, Early
<1> QED
    BY <1>3, <1>4 DEF IInv

LEMMA MainMoves ==
    ASSUME ControlType, NEW from, NEW to \in MainAt, At("main", from, to)
    PROVE  /\ pc["main"] = from /\ pc'["main"] = to
           /\ pc'["interval"] = pc["interval"] /\ pc'["sampler"] = pc["sampler"]
           /\ pc' \in [main : MainAt, interval : IntervalAt, sampler : SamplerAt]
BY DEF ControlType, At

LEMMA IntervalMoves ==
    ASSUME ControlType, NEW from, NEW to \in IntervalAt, At("interval", from, to)
    PROVE  /\ pc["interval"] = from /\ pc'["interval"] = to
           /\ pc'["main"] = pc["main"] /\ pc'["sampler"] = pc["sampler"]
           /\ pc' \in [main : MainAt, interval : IntervalAt, sampler : SamplerAt]
BY DEF ControlType, At

LEMMA SamplerMoves ==
    ASSUME ControlType, NEW from, NEW to \in SamplerAt, At("sampler", from, to)
    PROVE  /\ pc["sampler"] = from /\ pc'["sampler"] = to
           /\ pc'["main"] = pc["main"] /\ pc'["interval"] = pc["interval"]
           /\ pc' \in [main : MainAt, interval : IntervalAt, sampler : SamplerAt]
BY DEF ControlType, At

-------------------------------------------------------------------------------
(* The thread of the constructor and the destructor *)

LEMMA MainSteps ==
    ASSUME Prompt, IInv, start("main") \/ set_nonstop \/ lib_deinit \/ deinit
    PROVE  IInv'
<1> USE DEF IInv
<1>1. CASE start_push("main")
    <2>1. /\ pc["main"] = "push" /\ pc'["main"] = "wait"
          /\ pc'["interval"] = pc["interval"] /\ pc'["sampler"] = pc["sampler"]
          /\ pc' \in [main : MainAt, interval : IntervalAt, sampler : SamplerAt]
        BY <1>1, MainMoves DEF start_push, MainAt
    <2>2. ControlType'
        BY <1>1, <2>1 DEF start_push, ControlType, fdVars
    <2>3. NonstopInv'
        BY <1>1, <2>1 DEF start_push, NonstopInv, ControlType, Early, Active, fdVars, MainAt
    <2> QED
        BY <2>2, <2>3 DEF IInv
<1>2. CASE start_move("main")
    <2>1. /\ pc["main"] = "push" /\ pc'["main"] = "install"
          /\ pc'["interval"] = pc["interval"] /\ pc'["sampler"] = pc["sampler"]
          /\ pc' \in [main : MainAt, interval : IntervalAt, sampler : SamplerAt]
        BY <1>2, MainMoves DEF start_move, MainAt
    <2>2. ControlType'
        BY <1>2, <2>1 DEF start_move, ControlType, fdVars
    <2>3. NonstopInv'
        BY <1>2, <2>1 DEF start_move, NonstopInv, ControlType, Early, Active, fdVars, MainAt
    <2> QED
        BY <2>2, <2>3 DEF IInv
<1>3. CASE start_install("main")
    <2>1. /\ pc["main"] = "install" /\ pc'["main"] = "wait"
          /\ pc'["interval"] = pc["interval"] /\ pc'["sampler"] = pc["sampler"]
          /\ pc' \in [main : MainAt, interval : IntervalAt, sampler : SamplerAt]
        BY <1>3, MainMoves DEF start_install, MainAt
    <2>2. ControlType'
        BY <1>3, <2>1 DEF start_install, ControlType, fdVars
    <2>3. NonstopInv'
        BY <1>3, <2>1 DEF start_install, NonstopInv, ControlType, Early, Active, fdVars, MainAt
    <2> QED
        BY <2>2, <2>3 DEF IInv
<1>4. CASE start_wait("main")
    <2>1. /\ pc["main"] = "wait" /\ pc'["main"] = "enable"
          /\ pc'["interval"] = pc["interval"] /\ pc'["sampler"] = pc["sampler"]
          /\ pc' \in [main : MainAt, interval : IntervalAt, sampler : SamplerAt]
        BY <1>4, MainMoves DEF start_wait, MainAt
    <2>2. ControlType'
        BY <1>4, <2>1 DEF start_wait, ControlType, fdVars
    <2>3. NonstopInv'
        BY <1>4, <2>1 DEF start_wait, NonstopInv, ControlType, Early, Active, fdVars, MainAt
    <2> QED
        BY <2>2, <2>3 DEF IInv
<1>5. CASE start_enable("main")
    <2>1. /\ pc["main"] = "enable" /\ pc'["main"] = "nonstop"
          /\ pc'["interval"] = pc["interval"] /\ pc'["sampler"] = pc["sampler"]
          /\ pc' \in [main : MainAt, interval : IntervalAt, sampler : SamplerAt]
        BY <1>5, MainMoves DEF start_enable, MainAt
    <2>2. ControlType'
        BY <1>5, <2>1 DEF start_enable, ControlType, fdVars
    <2>3. NonstopInv'
        BY <1>5, <2>1 DEF start_enable, NonstopInv, ControlType, Early, Active, fdVars, MainAt
    <2> QED
        BY <2>2, <2>3 DEF IInv
<1>6. CASE set_nonstop
    <2>1. /\ pc["main"] = "nonstop" /\ pc'["main"] = "up"
          /\ pc'["interval"] = pc["interval"] /\ pc'["sampler"] = pc["sampler"]
          /\ pc' \in [main : MainAt, interval : IntervalAt, sampler : SamplerAt]
        BY <1>6, MainMoves DEF set_nonstop, MainAt
    <2>2. ControlType'
        BY <1>6, <2>1 DEF set_nonstop, ControlType, fdVars
    <2>3. NonstopInv'
        BY <1>6, <2>1 DEF set_nonstop, NonstopInv, ControlType, Early, Active, fdVars, MainAt
    <2> QED
        BY <2>2, <2>3 DEF IInv
<1>7. CASE lib_deinit
    <2>1. /\ pc["main"] = "up" /\ pc'["main"] = "join"
          /\ pc'["interval"] = pc["interval"] /\ pc'["sampler"] = pc["sampler"]
          /\ pc' \in [main : MainAt, interval : IntervalAt, sampler : SamplerAt]
        BY <1>7, MainMoves DEF lib_deinit, MainAt
    <2>2. ControlType'
        BY <1>7, <2>1 DEF lib_deinit, ControlType, fdVars
    <2>3. NonstopInv'
        BY <1>7, <2>1 DEF lib_deinit, NonstopInv, ControlType, Early, Active, fdVars, MainAt
    <2> QED
        BY <2>2, <2>3 DEF IInv
<1>8. CASE deinit_join
    <2>1. /\ pc["main"] = "join" /\ pc'["main"] = "signal"
          /\ pc'["interval"] = pc["interval"] /\ pc'["sampler"] = pc["sampler"]
          /\ pc' \in [main : MainAt, interval : IntervalAt, sampler : SamplerAt]
        BY <1>8, MainMoves DEF deinit_join, MainAt
    <2>2. ControlType'
        BY <1>8, <2>1 DEF deinit_join, ControlType, fdVars
    <2>3. NonstopInv'
        BY <1>8, <2>1 DEF deinit_join, NonstopInv, ControlType, Early, Active, fdVars, MainAt
    <2> QED
        BY <2>2, <2>3 DEF IInv
<1>9. CASE deinit_signal
    <2>1. /\ pc["main"] = "signal" /\ pc'["main"] = "join_sampler"
          /\ pc'["interval"] = pc["interval"] /\ pc'["sampler"] = pc["sampler"]
          /\ pc' \in [main : MainAt, interval : IntervalAt, sampler : SamplerAt]
        BY <1>9, MainMoves DEF deinit_signal, MainAt
    <2>2. ControlType'
        BY <1>9, <2>1 DEF deinit_signal, ControlType, fdVars
    <2>3. NonstopInv'
        BY <1>9, <2>1 DEF deinit_signal, NonstopInv, ControlType, Early, Active, fdVars, MainAt
    <2> QED
        BY <2>2, <2>3 DEF IInv
<1>10. CASE deinit_close
    <2>1. /\ pc["main"] = "join_sampler" /\ pc'["main"] = "done"
          /\ pc'["interval"] = pc["interval"] /\ pc'["sampler"] = pc["sampler"]
          /\ pc' \in [main : MainAt, interval : IntervalAt, sampler : SamplerAt]
        BY <1>10, MainMoves DEF deinit_close, MainAt
    <2>2. ControlType'
        BY <1>10, <2>1 DEF deinit_close, ControlType, fdVars
    <2>3. NonstopInv'
        BY <1>10, <2>1 DEF deinit_close, NonstopInv, ControlType, Early, Active, fdVars, MainAt
    <2> QED
        BY <2>2, <2>3 DEF IInv
<1> QED
    BY <1>1, <1>2, <1>3, <1>4, <1>5, <1>6, <1>7, <1>8, <1>9, <1>10 DEF start, deinit

-------------------------------------------------------------------------------
(* The interval thread *)

LEMMA IntervalSteps ==
    ASSUME Prompt, IInv, run_thread
    PROVE  IInv'
<1> USE DEF IInv
<1>1. CASE run_thread_loop
    <2>1. /\ pc["interval"] = "loop" /\ pc'["interval"] = (IF stop_thread THEN "stop" ELSE "sleep")
          /\ pc'["main"] = pc["main"] /\ pc'["sampler"] = pc["sampler"]
          /\ pc' \in [main : MainAt, interval : IntervalAt, sampler : SamplerAt]
        BY <1>1, IntervalMoves DEF run_thread_loop, IntervalAt
    <2>2. ControlType'
        BY <1>1, <2>1 DEF run_thread_loop, ControlType, fdVars
    <2>3. NonstopInv'
        BY <1>1, <2>1 DEF run_thread_loop, NonstopInv, ControlType, Early, Active, fdVars, MainAt
    <2> QED
        BY <2>2, <2>3 DEF IInv
<1>2. CASE run_thread_wake
    <2>1. /\ pc["interval"] = "sleep" /\ pc'["interval"] = "stop"
          /\ pc'["main"] = pc["main"] /\ pc'["sampler"] = pc["sampler"]
          /\ pc' \in [main : MainAt, interval : IntervalAt, sampler : SamplerAt]
        BY <1>2, IntervalMoves DEF run_thread_wake, IntervalAt
    <2>2. ControlType'
        BY <1>2, <2>1 DEF run_thread_wake, ControlType, fdVars
    <2>3. NonstopInv'
        BY <1>2, <2>1 DEF run_thread_wake, NonstopInv, ControlType, Early, Active, fdVars, MainAt
    <2> QED
        BY <2>2, <2>3 DEF IInv
<1>3. CASE stop_disable
    <2>1. /\ pc["interval"] = "stop" /\ pc'["interval"] = "drain"
          /\ pc'["main"] = pc["main"] /\ pc'["sampler"] = pc["sampler"]
          /\ pc' \in [main : MainAt, interval : IntervalAt, sampler : SamplerAt]
        BY <1>3, IntervalMoves DEF stop_disable, IntervalAt
    <2>2. ControlType'
        BY <1>3, <2>1 DEF stop_disable, ControlType, fdVars
    <2>3. NonstopInv'
        BY <1>3, <2>1 DEF stop_disable, NonstopInv, ControlType, Early, Active, fdVars, MainAt
    <2> QED
        BY <2>2, <2>3 DEF IInv
<1>4. CASE stop_drain
    <2>1. /\ pc["interval"] = "drain" /\ pc'["interval"] = "read"
          /\ pc'["main"] = pc["main"] /\ pc'["sampler"] = pc["sampler"]
          /\ pc' \in [main : MainAt, interval : IntervalAt, sampler : SamplerAt]
        BY <1>4, IntervalMoves DEF stop_drain, IntervalAt
    <2>2. ControlType'
        BY <1>4, <2>1 DEF stop_drain, ControlType, fdVars
    <2>3. NonstopInv'
        BY <1>4, <2>1 DEF stop_drain, NonstopInv, ControlType, Early, Active, fdVars, MainAt
    <2> QED
        BY <2>2, <2>3 DEF IInv
<1>5. CASE read_counters
    <2>1. /\ pc["interval"] = "read" /\ pc'["interval"] \in {"exited", "push"}
          /\ pc'["main"] = pc["main"] /\ pc'["sampler"] = pc["sampler"]
          /\ pc' \in [main : MainAt, interval : IntervalAt, sampler : SamplerAt]
        BY <1>5, IntervalMoves DEF read_counters, IntervalAt
    <2>2. ControlType'
        BY <1>5, <2>1 DEF read_counters, ControlType, fdVars
    <2>3. NonstopInv'
        BY <1>5, <2>1 DEF read_counters, NonstopInv, ControlType, Early, Active, fdVars, MainAt
    <2> QED
        BY <2>2, <2>3 DEF IInv
<1>6. CASE start_push("interval")
    <2>1. /\ pc["interval"] = "push" /\ pc'["interval"] = "wait"
          /\ pc'["main"] = pc["main"] /\ pc'["sampler"] = pc["sampler"]
          /\ pc' \in [main : MainAt, interval : IntervalAt, sampler : SamplerAt]
        BY <1>6, IntervalMoves DEF start_push, IntervalAt
    <2>2. ControlType'
        BY <1>6, <2>1 DEF start_push, ControlType, fdVars
    <2>3. NonstopInv'
        BY <1>6, <2>1 DEF start_push, NonstopInv, ControlType, Early, Active, fdVars, MainAt
    <2> QED
        BY <2>2, <2>3 DEF IInv
<1>7. CASE start_move("interval")
    <2>1. /\ pc["interval"] = "push" /\ pc'["interval"] = "install"
          /\ pc'["main"] = pc["main"] /\ pc'["sampler"] = pc["sampler"]
          /\ pc' \in [main : MainAt, interval : IntervalAt, sampler : SamplerAt]
        BY <1>7, IntervalMoves DEF start_move, IntervalAt
    <2>2. ControlType'
        BY <1>7, <2>1 DEF start_move, ControlType, fdVars
    <2>3. NonstopInv'
        BY <1>7, <2>1 DEF start_move, NonstopInv, ControlType, Early, Active, fdVars, MainAt
    <2> QED
        BY <2>2, <2>3 DEF IInv
<1>8. CASE start_install("interval")
    <2>1. /\ pc["interval"] = "install" /\ pc'["interval"] = "wait"
          /\ pc'["main"] = pc["main"] /\ pc'["sampler"] = pc["sampler"]
          /\ pc' \in [main : MainAt, interval : IntervalAt, sampler : SamplerAt]
        BY <1>8, IntervalMoves DEF start_install, IntervalAt
    <2>2. ControlType'
        BY <1>8, <2>1 DEF start_install, ControlType, fdVars
    <2>3. NonstopInv'
        BY <1>8, <2>1 DEF start_install, NonstopInv, ControlType, Early, Active, fdVars, MainAt
    <2> QED
        BY <2>2, <2>3 DEF IInv
<1>9. CASE start_wait("interval")
    <2>1. /\ pc["interval"] = "wait" /\ pc'["interval"] = "enable"
          /\ pc'["main"] = pc["main"] /\ pc'["sampler"] = pc["sampler"]
          /\ pc' \in [main : MainAt, interval : IntervalAt, sampler : SamplerAt]
        BY <1>9, IntervalMoves DEF start_wait, IntervalAt
    <2>2. ControlType'
        BY <1>9, <2>1 DEF start_wait, ControlType, fdVars
    <2>3. NonstopInv'
        BY <1>9, <2>1 DEF start_wait, NonstopInv, ControlType, Early, Active, fdVars, MainAt
    <2> QED
        BY <2>2, <2>3 DEF IInv
<1>10. CASE start_enable("interval")
    <2>1. /\ pc["interval"] = "enable" /\ pc'["interval"] = "loop"
          /\ pc'["main"] = pc["main"] /\ pc'["sampler"] = pc["sampler"]
          /\ pc' \in [main : MainAt, interval : IntervalAt, sampler : SamplerAt]
        BY <1>10, IntervalMoves DEF start_enable, IntervalAt
    <2>2. ControlType'
        BY <1>10, <2>1 DEF start_enable, ControlType, fdVars
    <2>3. NonstopInv'
        BY <1>10, <2>1 DEF start_enable, NonstopInv, ControlType, Early, Active, fdVars, MainAt
    <2> QED
        BY <2>2, <2>3 DEF IInv
<1> QED
    BY <1>1, <1>2, <1>3, <1>4, <1>5, <1>6, <1>7, <1>8, <1>9, <1>10 DEF run_thread, start

-------------------------------------------------------------------------------
(* The sampler thread *)

LEMMA SamplerSteps ==
    ASSUME IInv, run_sampler_thread
    PROVE  IInv'
<1> USE DEF IInv
<1>1. CASE epoll_wait
    <2>1. /\ pc["sampler"] = "wait" /\ pc'["sampler"] = "batch"
          /\ pc'["main"] = pc["main"] /\ pc'["interval"] = pc["interval"]
          /\ pc' \in [main : MainAt, interval : IntervalAt, sampler : SamplerAt]
        BY <1>1, SamplerMoves DEF epoll_wait, SamplerAt
    <2>2. ControlType'
        BY <1>1, <2>1 DEF epoll_wait, ControlType, fdVars
    <2>3. NonstopInv'
        BY <1>1, <2>1 DEF epoll_wait, NonstopInv, ControlType, Early, Active, fdVars, MainAt
    <2> QED
        BY <2>2, <2>3 DEF IInv
<1>2. CASE process_samples
    <2>1. /\ pc["sampler"] = "batch" /\ pc'["sampler"] \in {"wait", "batch"}
          /\ pc'["main"] = pc["main"] /\ pc'["interval"] = pc["interval"]
          /\ pc' \in [main : MainAt, interval : IntervalAt, sampler : SamplerAt]
        BY <1>2, SamplerMoves DEF process_samples, SamplerAt
    <2>2. ControlType'
        BY <1>2, <2>1 DEF process_samples, ControlType, fdVars
    <2>3. NonstopInv'
        BY <1>2, <2>1 DEF process_samples, NonstopInv, ControlType, Early, Active, fdVars, MainAt
    <2> QED
        BY <2>2, <2>3 DEF IInv
<1>3. CASE read_eventfd
    <2>1. /\ pc["sampler"] = "batch" /\ pc'["sampler"] = "drain"
          /\ pc'["main"] = pc["main"] /\ pc'["interval"] = pc["interval"]
          /\ pc' \in [main : MainAt, interval : IntervalAt, sampler : SamplerAt]
        BY <1>3, SamplerMoves DEF read_eventfd, SamplerAt
    <2>2. ControlType'
        BY <1>3, <2>1 DEF read_eventfd, ControlType, fdVars
    <2>3. NonstopInv'
        BY <1>3, <2>1 DEF read_eventfd, NonstopInv, ControlType, Early, Active, fdVars, MainAt
    <2> QED
        BY <2>2, <2>3 DEF IInv
<1>4. CASE drain
    <2>1. /\ pc["sampler"] = "drain" /\ pc'["sampler"] = (IF cmd = SAMPLER_STOP THEN "exited" ELSE "wait")
          /\ pc'["main"] = pc["main"] /\ pc'["interval"] = pc["interval"]
          /\ pc' \in [main : MainAt, interval : IntervalAt, sampler : SamplerAt]
        BY <1>4, SamplerMoves DEF drain, SamplerAt
    <2>2. ControlType'
        BY <1>4, <2>1 DEF drain, ControlType, fdVars
    <2>3. NonstopInv'
        BY <1>4, <2>1 DEF drain, NonstopInv, ControlType, Early, Active, fdVars, MainAt
    <2> QED
        BY <2>2, <2>3 DEF IInv
<1> QED
    BY <1>1, <1>2, <1>3, <1>4 DEF run_sampler_thread

-------------------------------------------------------------------------------
(* The threads of the program *)

LEMMA ProgramSteps ==
    ASSUME IInv, NEW t \in Tids, ProgramThread(t)
    PROVE  IInv'
<1> USE DEF IInv
<1>1. CASE rd_on_thread_start(t)
    <2>1. ControlType'
        BY <1>1 DEF rd_on_thread_start, ControlType, ctlVars, fdVars
    <2>2. NonstopInv'
        BY <1>1 DEF rd_on_thread_start, NonstopInv, ControlType, Early, Active, ctlVars, fdVars
    <2> QED
        BY <2>1, <2>2
<1>2. CASE register_current_thread(t)
    <2>1. ControlType'
        BY <1>2 DEF register_current_thread, ControlType, ctlVars, fdVars
    <2>2. NonstopInv'
        BY <1>2 DEF register_current_thread, NonstopInv, ControlType, Early, Active, ctlVars, fdVars
    <2> QED
        BY <2>1, <2>2
<1>3. CASE RegisterFails(t)
    <2>1. ControlType'
        BY <1>3 DEF RegisterFails, ControlType, ctlVars, fdVars
    <2>2. NonstopInv'
        BY <1>3 DEF RegisterFails, NonstopInv, ControlType, Early, Active, ctlVars, fdVars
    <2> QED
        BY <2>1, <2>2
<1>4. CASE Tick(t)
    <2>1. ControlType'
        BY <1>4 DEF Tick, ControlType, ctlVars, fdVars
    <2>2. NonstopInv'
        BY <1>4 DEF Tick, NonstopInv, ControlType, Early, Active, ctlVars, fdVars
    <2> QED
        BY <2>1, <2>2
<1>5. CASE rd_on_thread_stop(t)
    <2>1. ControlType'
        BY <1>5 DEF rd_on_thread_stop, ControlType, ctlVars, fdVars
    <2>2. NonstopInv'
        BY <1>5 DEF rd_on_thread_stop, NonstopInv, ControlType, Early, Active, ctlVars, fdVars
    <2> QED
        BY <2>1, <2>2
<1>6. CASE unregister_current_thread(t)
    <2>1. ControlType'
        BY <1>6 DEF unregister_current_thread, Closed, ControlType, ctlVars, fdVars
    <2>2. NonstopInv'
        BY <1>6 DEF unregister_current_thread, Closed, NonstopInv, ControlType, Early, Active, ctlVars, fdVars
    <2> QED
        BY <2>1, <2>2
<1> QED
    BY <1>1, <1>2, <1>3, <1>4, <1>5, <1>6 DEF ProgramThread

-------------------------------------------------------------------------------
LEMMA Inductive ==
    ASSUME Prompt, IInv, [Next]_vars
    PROVE  IInv'
<1>1. CASE UNCHANGED vars
    BY <1>1 DEF IInv, ControlType, NonstopInv, Early, Active,
                vars, ctlVars, cmdVars, fdVars
<1>2. CASE Next
    BY <1>2, MainSteps, IntervalSteps, SamplerSteps, ProgramSteps DEF Next
<1> QED
    BY <1>1, <1>2

LEMMA Invariance ==
    ASSUME Prompt
    PROVE  Spec => []IInv
<1>1. Init => IInv
    BY InitHolds
<1>2. IInv /\ [Next]_vars => IInv'
    BY Inductive
<1> QED
    BY <1>1, <1>2, PTL DEF Spec

(***************************************************************************)
(* If the constructor ends within the first period, then for any number of *)
(* threads and windows, however they start, end and fail to register,      *)
(* every registered thread has enabled fds from then on until the end      *)
(* (stop() in nonstop mode).                                               *)
(***************************************************************************)
THEOREM Continuous ==
    ASSUME Prompt
    PROVE  Spec => []NoGaps
<1>1. IInv => NoGaps
    BY DEF IInv, NonstopInv, NoGaps
<1> QED
    BY <1>1, Invariance, PTL

===============================================================================
