----------------------------- MODULE MCAlgorithms -----------------------------
(***************************************************************************)
(* The pure algorithms of the second stage over bounded inputs.  A         *)
(* behaviour draws one input, a reuse distance, an instruction with the    *)
(* registers it finds, the environment of the controller, a user stack, or *)
(* a call path with the perf report it is looked up in, and computes what  *)
(* the code computes for it.                                               *)
(***************************************************************************)
EXTENDS RdBuckets, RdSession, CallStacks, PerfMatch, TLC

VARIABLES input, output

vars == <<input, output>>

Reg(name) == [kind |-> "reg", name |-> name]
Imm(imm) == [kind |-> "imm", imm |-> imm]
Ext(op, shift) == [kind |-> "ext", op |-> op, shift |-> shift]

Bases == {"x0", "x30", "sp"}

\* The operand lists that the instruction set has.
Operands ==
    {<<Reg(b)>> : b \in Bases}
    \cup {<<Reg(b), Imm(i)>> : b \in Bases, i \in {-3, -1, 0, 5}}
    \cup {<<Reg(b), Reg(x)>> : b \in Bases, x \in {"x1", "x30", "xzr"}}
    \cup {<<Reg(b), Reg(x), Ext(op, s)>> :
            b \in Bases, x \in {"x1", "x30", "xzr"}, op \in {"lsl", "sxtx"}, s \in {0, 2}}
    \cup {<<Reg(b), Reg(w), Ext(op, s)>> :
            b \in Bases, w \in {"w1", "w30", "wzr"}, op \in {"uxtw", "sxtw"}, s \in {0, 1}}

\* Registers with different values everywhere.
Registers(base, index) ==
    0 :> base @@ 1 :> index @@ 30 :> (base + index + 5) % Word @@ 31 :> (base + 9) % Word

\* Values around zero, the largest stack copy and the largest field.
Environments ==
    LET Top == 2^FieldBits - 1 IN
      [wp_capacity : {Unset, -1, 0, 1, Top, Top + 1, Top + 2},
       sample_period : {Unset, 0, 1, Top + 1},
       mode : {Unset, "off", "fp", "dwarf", "other"},
       stack_bytes : {Unset, 0, 1, RD_WPCTL_MAX_DWARF_STACK_BYTES,
                      RD_WPCTL_MAX_DWARF_STACK_BYTES + 1, Top + 2},
       event_capacity : {Unset, 0, 1, Top, Top + 1}]

\* Memory that no compiler has laid out, with unaligned and dangling pointers.
AnyMemory == [{64, 72, 80} -> {0, 9, 64, 67, 72}]
AnyRegisters == [pc : {0, 9}, x29 : {0, 64, 67, 72, 88}]

CallPaths == {<<hit>> \o calls : hit \in HitFrames, calls \in SeqOf(CallFrames, 3)}

\* The paths of a kernel f as the snapshots and as perf show them; g is another.
Functions == {<<"f">> \o callers :
                callers \in SeqOf({"??", "omp_fn", "gomp_thread_start", "main"}, 3)} \cup {<<"??">>}
PerfCallers == {<<>>, <<"main">>, <<"start_thread">>, <<"omp_fn">>, <<"omp_fn", "start_thread">>,
                <<"omp_fn", "main">>, <<"omp_fn", "GOMP_parallel", "main">>}
PerfEntries ==
    {[symbol |-> "f", callpath_frames |-> <<"f">> \o callers, percent |-> percent] :
        callers \in PerfCallers, percent \in {1, 2}}
    \cup {[symbol |-> symbol, callpath_frames |-> callers, percent |-> 2] :
             symbol \in {"f", "g"}, callers \in {<<>>, <<"omp_fn", "start_thread">>}}

Inputs ==
    {[kind |-> "distance", delta |-> delta] : delta \in Words}
    \cup {[kind |-> "instruction", dest |-> dest, items |-> items, regs |-> Registers(base, index)] :
            dest \in {"w", "q"}, items \in Operands, base \in {0, 5, Word - 1}, index \in 0 .. Word - 1}
    \cup {[kind |-> "environment", env |-> env] : env \in Environments}
    \cup [kind : {"memory"}, mem : AnyMemory, regs : AnyRegisters]
    \cup {[kind |-> "fp", mem |-> Stack(path, 0), regs |-> RegistersAt(path), path |-> path] :
            path \in CallPaths}
    \cup [kind : {"dwarf"}, path : CallPaths, above : {0, 3}, stack_bytes : {20, 72, 200}]
    \cup [kind : {"match"}, functions : Functions, report : TupleOf(PerfEntries, 2)]

Init == input \in Inputs /\ output = <<>>

File ==
    /\ output = <<>> /\ input.kind = "distance"
    /\ output' = <<rd_log2_bucket(input.delta)>>
    /\ UNCHANGED input

Hit ==
    /\ output = <<>> /\ input.kind = "instruction"
    /\ LET dec == decode_from_asm_operands(input.dest, input.items) IN
         output' = IF dec = Unsupported THEN <<dec>>
                   ELSE <<dec, rd_compute_effective_address(dec, input.regs)>>
    /\ UNCHANGED input

Configure ==
    /\ output = <<>> /\ input.kind = "environment"
    /\ output' = <<IF EnvironmentAccepted(input.env)
                   THEN rd_session_config_locked(NewSession, configure_session(input.env))
                   ELSE Refused>>
    /\ UNCHANGED input

rd_capture_callchain ==
    /\ output = <<>> /\ input.kind \in {"memory", "fp"}
    /\ output' = <<StartWalk(input.regs)>>
    /\ UNCHANGED input

Walking == input.kind \in {"memory", "fp"} /\ output # <<>> /\ output[1].status = "walking"

Walk ==
    /\ Walking
    /\ output' = <<WalkStep(output[1], input.mem)>>
    /\ UNCHANGED input

\* Another thread writes to the stack.
Scribble ==
    /\ Walking /\ input.kind = "memory"
    /\ \E a \in DOMAIN input.mem, v \in {0, 64} : input' = [input EXCEPT !.mem[a] = v]
    /\ UNCHANGED output

Unwind ==
    /\ output = <<>> /\ input.kind = "dwarf"
    /\ LET snap == rd_capture_dwarf_snapshot(RegistersAt(input.path),
                        Stack(input.path, input.above), input.stack_bytes)
       IN  output' = <<unwind(Fdes, snap)>>
    /\ UNCHANGED input

Match ==
    /\ output = <<>> /\ input.kind = "match"
    /\ output' = <<best_perf_match(input.functions, input.report)>>
    /\ UNCHANGED input

Done == output # <<>> /\ ~Walking /\ UNCHANGED vars

Next ==
    \/ File \/ Hit \/ Configure
    \/ rd_capture_callchain \/ Walk \/ Scribble
    \/ Unwind \/ Match
    \/ Done

\* The handler that captures a callchain keeps running.
Spec == Init /\ [][Next]_vars /\ WF_vars(Walk)

(***************************************************************************)
(* A reuse distance that rd_log2_bucket files is inside the range that the *)
(* output file prints for its bucket, and the bucket is inside the array.  *)
(* The printed ranges tile the words: each starts where the previous one   *)
(* ends, and the last one ends with the largest word.  The report of       *)
(* resolve_dwarf_pairs.py has the same ranges, except for the upper bound  *)
(* of the last bucket, and finds the bucket back from its range, so what   *)
(* it counts as a long distance is at least 2^(long_rd_min_bucket - 1).    *)
(***************************************************************************)
LabelledRight ==
    input.kind = "distance" /\ output # <<>> =>
        LET b == output[1]
            range == pair_bucket(b)
            index == bucket_index_from_bounds(range[1], range[2])
        IN  /\ b \in Buckets
            /\ bucket_lo(b) <= input.delta /\ input.delta <= bucket_hi(b)
            /\ bucket_lo(b) = IF b = 0 THEN 0 ELSE bucket_hi(b - 1) + 1
            /\ b = RD_WPCTL_LOG2_BUCKETS - 1 => bucket_hi(b) = 2^Width - 1
            /\ range[1] = bucket_lo(b)
            /\ b < RD_WPCTL_LOG2_BUCKETS - 1 => range[2] = bucket_hi(b)
            /\ \A long \in Buckets \ {0} : index >= long <=> input.delta >= 2^(long - 1)

\* The architecture's view of a register operand, and of the offset added
\* to the base, as integers.
Value(name, regs) ==
    CASE name = "sp" -> regs[31]
      [] name \in {"xzr", "wzr"} -> 0
      [] name \in {"x0", "x1", "x30"} -> regs[RegNumber[name]]
      [] name \in {"w0", "w1", "w30"} -> regs[RegNumber[name]] % Half
Signed(v, modulus) == IF 2 * v >= modulus THEN v - modulus ELSE v
Offset(items, regs) ==
    CASE Len(items) = 1 -> 0
      [] Len(items) = 2 /\ items[2].kind = "imm" -> items[2].imm
      [] Len(items) = 2 /\ items[2].kind = "reg" -> Value(items[2].name, regs)
      [] Len(items) = 3 ->
           LET v == Value(items[2].name, regs)
           IN  2^items[3].shift * (CASE items[3].op = "sxtw" -> Signed(v, Half)
                                     [] items[3].op = "sxtx" -> Signed(v, Word)
                                     [] OTHER -> v)

(***************************************************************************)
(* The address that the module watches is the address the instruction      *)
(* accesses, for every addressing mode the controller accepts: parsing,    *)
(* template and evaluation agree on sign, width, shift and wrap-around.    *)
(* And every template that the controller produces passes the check of the *)
(* module: LOAD_TARGETS refuses a whole batch for one bad target, so one   *)
(* that only the controller accepts would leave no breakpoint at all.      *)
(***************************************************************************)
AddressExact ==
    input.kind = "instruction" /\ Len(output) = 2 =>
        /\ output[2] = (Value(input.items[1].name, input.regs) + Offset(input.items, input.regs)) % Word
        /\ rd_load_targets_locked([NewSession EXCEPT !.configured = TRUE], <<output[1]>>) # Refused

\* The number in the environment fits the field that it is stored in.
Fits(env) ==
    \A v \in {env.wp_capacity, env.event_capacity} : v = Unset \/ v < 2^FieldBits

(***************************************************************************)
(* The checks of the constructor and of the module agree on numbers that   *)
(* fit their fields: what the constructor lets through the module accepts, *)
(* with the very capacities that were asked for.  Numbers that wrap never  *)
(* give a session without watchpoints or, in dwarf mode, without room for  *)
(* a stack or an event.                                                    *)
(***************************************************************************)
ConfiguredAsAsked ==
    input.kind = "environment" /\ output # <<>> =>
        LET env == input.env IN
        /\ EnvironmentAccepted(env) /\ Fits(env) =>
             /\ output[1] # Refused
             /\ output[1].cfg.wp_capacity = OrDefault(env.wp_capacity, DEFAULT_WP_CAPACITY)
             /\ env.mode = "dwarf" =>
                  output[1].cfg.dwarf_event_capacity =
                      OrDefault(env.event_capacity, DEFAULT_DWARF_EVENT_CAPACITY)
        /\ output[1] # Refused =>
             /\ output[1].cfg.wp_capacity > 0
             /\ env.mode = "dwarf" =>
                  output[1].cfg.dwarf_stack_bytes > 0 /\ output[1].cfg.dwarf_event_capacity > 0

(***************************************************************************)
(* rd_capture_callchain returns whatever it finds in user memory, even if  *)
(* another thread changes the frame records while it reads them: a record  *)
(* with the return address of the one before does not count towards the    *)
(* depth, and only the direction of the frame pointers bounds the loop.    *)
(***************************************************************************)
WalkEnds == Walking ~> ~Walking

(***************************************************************************)
(* On the stack of a compiled program the captured key holds the calls     *)
(* that frame pointers show, in order, with immediate recursion counted    *)
(* once.  It is cut only at RD_WPCTL_MAX_CALLCHAIN_DEPTH, and a key that   *)
(* lacks a call is counted in callchain_truncated.                         *)
(***************************************************************************)
FpPathExact ==
    input.kind = "fp" /\ output # <<>> /\ ~Walking =>
        LET walk == output[1]
            whole == Collapse(VisibleToFp(input.path))
        IN  /\ IsPrefix(walk.ips, whole)
            /\ walk.status = "truncated" => Len(walk.ips) = RD_WPCTL_MAX_CALLCHAIN_DEPTH
            /\ walk.ips # whole => walk.status = "truncated"

(***************************************************************************)
(* What resolve_dwarf_pairs.py unwinds from a snapshot of the module is a  *)
(* beginning of the true call path, through leaf functions, prologues,     *)
(* dynamic allocation and calls at the end of a function.  No caller is    *)
(* ever wrong or skipped, and the path is cut only for a known reason.     *)
(***************************************************************************)
UnwoundRight ==
    input.kind = "dwarf" /\ output # <<>> =>
        LET chain == output[1] IN
        /\ IsPrefix(chain, PcsOf(input.path))
        /\ Len(chain) < Len(input.path) =>
              CutShort(input.path, Len(chain), input.above, input.stack_bytes)

\* The entries of the report whose frames satisfy P.
Matching(P(_)) == {id \in DOMAIN input.report : P(Frames(input.report[id]))}

(***************************************************************************)
(* The cost of a call path comes from the right entry of the perf report,  *)
(* whatever the order of the report.  A path that the report holds in full *)
(* gets the cost of such an entry, the largest if there are several.       *)
(* Otherwise a worker thread never gets the cost of a path of the main     *)
(* thread, or the other way round, if the report has an entry of the right *)
(* kind for the function ("they should not merge distinct call paths").    *)
(* The latter is for paths of up to six functions: with seven, six common  *)
(* names already weigh more than the kind.                                 *)
(***************************************************************************)
RightEntry ==
    input.kind = "match" /\ output # <<>> =>
        LET funcs == Named(input.functions)
            found == output[1].callpath_id
            whole == Matching(LAMBDA frames : IsPrefix(funcs, frames))
            workers == Matching(LAMBDA frames : frames[1] = funcs[1] /\ IsWorkerEntry(frames))
            mains == Matching(LAMBDA frames : frames[1] = funcs[1] /\ HasMain(frames))
        IN  funcs # <<>> =>
              IF whole # {}
              THEN /\ found \in whole
                   /\ output[1].percent = Max({input.report[id].percent : id \in whole})
              ELSE /\ IsWorkerPath(funcs) /\ workers # {} => found \in workers
                   /\ HasMain(funcs) /\ mains # {} => found \in mains

===============================================================================
