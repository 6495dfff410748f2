------------------------------ MODULE CallStacks ------------------------------
(***************************************************************************)
(* User stacks as AArch64 compilers lay them out, and what a walk over one *)
(* of them should find.                                                    *)
(*                                                                         *)
(* A call path is a sequence of frames [fn, pc], the innermost first: pc   *)
(* is the current instruction of the first and the return address into     *)
(* each of the others, one instruction after its call.  A function that    *)
(* has passed its prologue keeps x29 and x30 of its caller in a record at  *)
(* the bottom of its frame, above what it allocated dynamically, and x29   *)
(* points to that record.  A leaf function never builds a frame.           *)
(***************************************************************************)
EXTENDS CallPath, FiniteSetsExt

\* name |-> [start, end, frame: bytes of the frame, dynamic: bytes allocated
\* later, cfa_reg, described: the call frame information is at hand]
Code == [
    leaf |-> [start |-> 100, end |-> 108, frame |-> 0, dynamic |-> 0, cfa_reg |-> "sp", described |-> TRUE],
    scan |-> [start |-> 108, end |-> 120, frame |-> 32, dynamic |-> 0, cfa_reg |-> "sp", described |-> TRUE],
    work |-> [start |-> 120, end |-> 132, frame |-> 16, dynamic |-> 16, cfa_reg |-> "x29", described |-> TRUE],
    gomp |-> [start |-> 200, end |-> 212, frame |-> 16, dynamic |-> 0, cfa_reg |-> "sp", described |-> FALSE]]

\* The call frame information of the main binary.
Fde(f) ==
    [start |-> f.start, end |-> f.end,
     rows |-> <<[pc |-> f.start, cfa_reg |-> "sp", cfa_off |-> 0, saved |-> 0]>>
              \o IF f.frame = 0 THEN <<>>
                 ELSE <<[pc |-> f.start + 4, cfa_reg |-> f.cfa_reg, cfa_off |-> f.frame, saved |-> f.frame]>>]
Fdes == <<Fde(Code.leaf), Fde(Code.scan), Fde(Code.work)>>

\* Current instructions, and return addresses after calls behind the prologue.
HitFrames == UNION {{[fn |-> n, pc |-> pc] : pc \in {Code[n].start, Code[n].start + 4}} :
                 n \in DOMAIN Code}
CallFrames == UNION {{[fn |-> n, pc |-> pc] : pc \in {Code[n].start + 8, Code[n].end}} :
                 n \in {m \in DOMAIN Code : Code[m].frame > 0}}

Framed(path, i) ==
    LET f == Code[path[i].fn] IN f.frame > 0 /\ (i > 1 \/ path[i].pc > f.start)

StackBase == 64

\* Bytes of frame i, the address under it and the record in it.
FrameSize(path, i) ==
    LET f == Code[path[i].fn] IN IF Framed(path, i) THEN f.frame + f.dynamic ELSE 0
Bottom(path, i) == StackBase + MapThenSumSet(LAMBDA j : FrameSize(path, j), 1 .. i - 1)
Record(path, i) == Bottom(path, i) + Code[path[i].fn].dynamic

\* What x29 and the return address are on entry of frame i.
CallerFp(path, i) == IF i = Len(path) THEN 0 ELSE Record(path, i + 1)
CallerPc(path, i) == IF i = Len(path) THEN 0 ELSE path[i + 1].pc

\* The stack, with some words above the outermost frame.
Stack(path, above) ==
    LET Records == {i \in DOMAIN path : Framed(path, i)} IN
    [a \in {StackBase + 8 * w : w \in 0 .. (Bottom(path, Len(path) + 1) - StackBase) \div 8 + above - 1} |->
        IF \E i \in Records : a = Record(path, i)
        THEN CallerFp(path, CHOOSE i \in Records : a = Record(path, i))
        ELSE IF \E i \in Records : a = Record(path, i) + 8
        THEN CallerPc(path, CHOOSE i \in Records : a = Record(path, i) + 8)
        ELSE 1]

RegistersAt(path) ==
    [pc |-> path[1].pc, sp |-> StackBase,
     x29 |-> IF Framed(path, 1) THEN Record(path, 1) ELSE CallerFp(path, 1),
     x30 |-> IF Framed(path, 1) THEN 1 ELSE CallerPc(path, 1)]

PcsOf(path) == [i \in DOMAIN path |-> path[i].pc]

\* A sequence without its immediate repetitions.
Collapse(s) ==
    LET kept == SetToSortSeq({i \in DOMAIN s : i = 1 \/ s[i] # s[i - 1]}, <)
    IN  [k \in DOMAIN kept |-> s[kept[k]]]

\* Frame pointers do not show who called a function without a frame.
VisibleToFp(path) ==
    IF Framed(path, 1) \/ Len(path) = 1 THEN PcsOf(path)
    ELSE <<path[1].pc>> \o PcsOf(SubSeq(path, 3, Len(path)))

\* What keeps unwind from going on from frame i to its caller: its bound, a
\* function without call frame information, a call that recurs, or a record
\* that is not in the copy, because fewer bytes were asked for or because the
\* stack ends within a chunk of it.
CutShort(path, i, above, stack_bytes) ==
    LET top == Bottom(path, Len(path) + 1) + 8 * above
        beyond == Record(path, i) + 16
    IN  \/ i = UnwindDepth
        \/ ~Code[path[i].fn].described
        \/ path[i].pc = path[i + 1].pc
        \/ Framed(path, i) /\ (beyond > StackBase + stack_bytes \/ beyond > top - Chunk)

===============================================================================
