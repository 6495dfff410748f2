------------------------------- MODULE CallPath -------------------------------
(***************************************************************************)
(* How the module and the post-processing find out by which calls the      *)
(* program came to a seed or a reuse.                                      *)
(*                                                                         *)
(* In fp mode rd_capture_callchain follows the frame pointers of the user  *)
(* stack; a walk is a record [ips, fp, status] and WalkStep one round of   *)
(* its loop.  In dwarf mode rd_capture_dwarf_snapshot copies registers and *)
(* a piece of the stack, and unwind of resolve_dwarf_pairs.py reads them   *)
(* later with the call frame information of the main binary.               *)
(*                                                                         *)
(* User memory is a function from the addresses of the mapped 8-byte words *)
(* to their contents; a copy fails when it touches any other address.      *)
(* Registers are a record [pc, x29, x30, sp]; pc is 0 where a handler has  *)
(* no registers of user mode.  stack_bytes does not exceed                 *)
(* RD_WPCTL_MAX_DWARF_STACK_BYTES, which CONFIG_SESSION sees to.           *)
(***************************************************************************)
EXTENDS Integers, Sequences, FiniteSets, SequencesExt

CONSTANTS
    RD_WPCTL_MAX_CALLCHAIN_DEPTH,
    Chunk,        \* bytes that the stack is copied by (256)
    UnwindDepth   \* max_depth of unwind (32)

ASSUME CallPathAssumption ==
    {RD_WPCTL_MAX_CALLCHAIN_DEPTH, Chunk, UnwindDepth} \subseteq Nat \ {0}

\* access_ok and copy_from_user_nofault let n bytes at an address through.
Readable(mem, addr, n) ==
    \A a \in addr .. addr + n - 1 : a - (a % 8) \in DOMAIN mem

-------------------------------------------------------------------------------
(* Frame pointers *)

\* "failed" and "truncated" are counted in the statistics of the thread.
StartWalk(regs) ==
    IF regs.pc = 0 THEN [ips |-> <<>>, fp |-> 0, status |-> "failed"]
    ELSE [ips |-> <<regs.pc>>, fp |-> regs.x29, status |-> "walking"]

FrameRecord(mem, fp) == [prev_fp |-> mem[fp], lr |-> mem[fp + 8]]

WithReturn(ips, lr) == IF lr # Last(ips) THEN Append(ips, lr) ELSE ips

NoFrame(mem, fp) ==
    fp = 0 \/ fp % 8 # 0 \/ ~Readable(mem, fp, 16) \/ FrameRecord(mem, fp).lr = 0

\* Mutant: the frame pointer may stay where it is or go back.
MutWalkAnywhere(walk, mem) ==
    IF Len(walk.ips) >= RD_WPCTL_MAX_CALLCHAIN_DEPTH
    THEN [walk EXCEPT !.status = IF walk.fp # 0 THEN "truncated" ELSE "ended"]
    ELSE IF NoFrame(mem, walk.fp) THEN [walk EXCEPT !.status = "ended"]
    ELSE LET frame == FrameRecord(mem, walk.fp)
             ips == WithReturn(walk.ips, frame.lr)
         IN  IF frame.prev_fp = 0
             THEN [walk EXCEPT !.ips = ips, !.status = "ended"]
             ELSE [walk EXCEPT !.ips = ips, !.fp = frame.prev_fp]

\* Mutant: one more call than the key has room for.
MutWalkTooDeep(walk, mem) ==
    IF Len(walk.ips) > RD_WPCTL_MAX_CALLCHAIN_DEPTH
    THEN [walk EXCEPT !.status = IF walk.fp # 0 THEN "truncated" ELSE "ended"]
    ELSE IF NoFrame(mem, walk.fp) THEN [walk EXCEPT !.status = "ended"]
    ELSE LET frame == FrameRecord(mem, walk.fp)
             ips == WithReturn(walk.ips, frame.lr)
         IN  IF frame.prev_fp = 0 \/ frame.prev_fp <= walk.fp
             THEN [walk EXCEPT !.ips = ips, !.status = "ended"]
             ELSE [walk EXCEPT !.ips = ips, !.fp = frame.prev_fp]

WalkStep(walk, mem) ==
    IF Len(walk.ips) >= RD_WPCTL_MAX_CALLCHAIN_DEPTH
    THEN [walk EXCEPT !.status = IF walk.fp # 0 THEN "truncated" ELSE "ended"]
    ELSE IF NoFrame(mem, walk.fp) THEN [walk EXCEPT !.status = "ended"]
    ELSE LET frame == FrameRecord(mem, walk.fp)
             ips == WithReturn(walk.ips, frame.lr)
         IN  IF frame.prev_fp = 0 \/ frame.prev_fp <= walk.fp
             THEN [walk EXCEPT !.ips = ips, !.status = "ended"]
             ELSE [walk EXCEPT !.ips = ips, !.fp = frame.prev_fp]

-------------------------------------------------------------------------------
(* Call frame information *)

\* The bytes that are copied: whole chunks until one cannot be read.
rd_copy_user_stack_snapshot(mem, sp, want) ==
    LET Copied[copied \in 0 .. want] ==
          LET chunk == IF want - copied < Chunk THEN want - copied ELSE Chunk
          IN  IF copied = want \/ ~Readable(mem, sp + copied, chunk) THEN copied
              ELSE Copied[copied + chunk]
    IN  IF sp = 0 THEN 0 ELSE Copied[0]

rd_capture_dwarf_snapshot(regs, mem, stack_bytes) ==
    LET size == rd_copy_user_stack_snapshot(mem, regs.sp, stack_bytes)
    IN  [regs |-> regs, stack_base |-> regs.sp, stack_size |-> size,
         stack |-> [a \in {w \in DOMAIN mem : regs.sp <= w /\ w + 8 <= regs.sp + size} |-> mem[a]]]

\* A word of the copied stack, or an empty sequence if it is not there.
read_word(snap, addr) ==
    IF addr < snap.stack_base \/ addr + 8 > snap.stack_base + snap.stack_size THEN <<>>
    ELSE <<snap.stack[addr]>>

\* The row that holds for an offset: the CFA is register cfa_reg plus cfa_off,
\* and x29 and x30 of the caller are saved bytes under it (0: not yet saved).
find_row(fdes, offset) ==
    LET fde == SelectInSeq(fdes, LAMBDA f : f.start <= offset /\ offset < f.end)
        row == SelectLastInSeq(fdes[fde].rows, LAMBDA r : r.pc <= offset)
    IN  IF fde = 0 THEN <<>> ELSE IF row = 0 THEN <<>> ELSE <<fdes[fde].rows[row]>>

\* Mutant: a return address is looked up itself, not the call before it.
MutLookupReturn(pc, depth) == pc

LookupOffset(pc, depth) == IF depth > 0 THEN pc - 4 ELSE pc

\* One round of the loop of unwind: from a function to its caller.
UnwindStep(fdes, snap, u, depth) ==
    IF u.done \/ u.regs.pc = 0 THEN [u EXCEPT !.done = TRUE]
    ELSE LET chain == Append(u.chain, u.regs.pc)
             found == find_row(fdes, LookupOffset(u.regs.pc, depth))
             row == found[1]
             cfa == (IF row.cfa_reg = "sp" THEN u.regs.sp ELSE u.regs.x29) + row.cfa_off
             fp == read_word(snap, cfa - row.saved)
             lr == read_word(snap, cfa - row.saved + 8)
             x29 == IF row.saved = 0 \/ fp = <<>> THEN u.regs.x29 ELSE fp[1]
             x30 == IF row.saved = 0 \/ lr = <<>> THEN u.regs.x30 ELSE lr[1]
             next_pc == IF row.saved = 0 THEN u.regs.x30 ELSE IF lr = <<>> THEN 0 ELSE lr[1]
         IN  IF found = <<>> \/ next_pc = u.regs.pc
             THEN [u EXCEPT !.chain = chain, !.done = TRUE]
             ELSE [chain |-> chain, done |-> FALSE,
                   regs |-> [pc |-> next_pc, x29 |-> x29, x30 |-> x30, sp |-> cfa]]

unwind(fdes, snap) ==
    FoldLeft(LAMBDA u, depth : UnwindStep(fdes, snap, u, depth),
             [chain |-> <<>>, done |-> FALSE, regs |-> snap.regs],
             [d \in 1 .. UnwindDepth |-> d - 1]).chain

===============================================================================
