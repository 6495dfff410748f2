--------------------------- MODULE EffectiveAddress ---------------------------
(***************************************************************************)
(* The effective address of a hotspot, across the ioctl interface: the     *)
(* controller turns the operands that objdump prints into a template       *)
(* (decode_from_asm_operands, to_uapi_decode), the module checks it        *)
(* (rd_validate_target) and evaluates it on the registers at every         *)
(* breakpoint hit (rd_compute_effective_address).                          *)
(*                                                                         *)
(* A printed instruction is a record: dest is the class of the transferred *)
(* register, items the list between the brackets, an item being            *)
(*   [kind |-> "reg", name |-> ...], [kind |-> "imm", imm |-> ...] or      *)
(*   [kind |-> "ext", op |-> ..., shift |-> ...].                          *)
(* What follows the closing bracket (! or a post-index immediate) does not *)
(* reach the parser.  Registers have AddressBits bits (64 in the code), w  *)
(* registers half of that.                                                 *)
(***************************************************************************)
EXTENDS Integers, Sequences

CONSTANT AddressBits

Word == 2^AddressBits
Half == 2^(AddressBits \div 2)

PERF_REG_ARM64_LR == 30
PERF_REG_ARM64_SP == 31
Unsupported == [access_size |-> 0]

\* The numbers of the registers that the operands of the model name.
RegNumber == [x0 |-> 0, w0 |-> 0, x1 |-> 1, w1 |-> 1, x30 |-> 30, w30 |-> 30]

parse_reg_name(name) ==
    CASE name = "sp" ->
           [ok |-> TRUE, reg |-> PERF_REG_ARM64_SP, sp |-> TRUE, is_32 |-> FALSE, zero |-> FALSE]
      [] name \in {"xzr", "wzr"} ->
           [ok |-> TRUE, reg |-> -1, sp |-> FALSE, is_32 |-> name = "wzr", zero |-> TRUE]
      [] name \in {"x0", "x1", "w0", "w1"} ->
           [ok |-> TRUE, reg |-> RegNumber[name], sp |-> FALSE,
            is_32 |-> name \in {"w0", "w1"}, zero |-> FALSE]
      [] name = "x30" ->
           [ok |-> TRUE, reg |-> PERF_REG_ARM64_LR, sp |-> FALSE, is_32 |-> FALSE, zero |-> FALSE]
      [] OTHER -> [ok |-> FALSE, reg |-> -1, sp |-> FALSE, is_32 |-> FALSE, zero |-> FALSE]

\* Access size by class of the destination, 0 for an unknown class.
parse_access_size_from_dest(dest) ==
    CASE dest = "b" -> 1 [] dest = "h" -> 2 [] dest \in {"w", "s"} -> 4
      [] dest \in {"x", "d"} -> 8 [] dest = "q" -> 16 [] OTHER -> 0

\* A template with the base register only.
BaseOnly(dest, base) ==
    [access_size |-> parse_access_size_from_dest(dest),
     base_reg |-> base.reg, base_is_sp |-> base.sp,
     has_imm |-> FALSE, imm |-> 0,
     has_index |-> FALSE, index_reg |-> -1, index_is_32 |-> FALSE, index_is_zero |-> FALSE,
     extend |-> "none", shift |-> 0]

Watchable(dest) == parse_access_size_from_dest(dest) \in 1 .. 8

decode_from_asm_operands(dest, items) ==
    LET base == parse_reg_name(items[1].name)
        dec == BaseOnly(dest, base)
        index == parse_reg_name(items[2].name)
        indexed == [dec EXCEPT !.has_index = TRUE, !.index_reg = index.reg,
                               !.index_is_32 = index.is_32, !.index_is_zero = index.zero]
    IN  CASE ~Watchable(dest) -> Unsupported
          [] Watchable(dest) /\ (~base.ok \/ base.zero) -> Unsupported
          [] OTHER ->
               IF Len(items) = 1 THEN dec
               ELSE IF items[2].kind = "imm" THEN [dec EXCEPT !.has_imm = TRUE, !.imm = items[2].imm]
               ELSE IF ~index.ok THEN Unsupported
               ELSE IF Len(items) = 2 THEN indexed
               ELSE IF items[3].op \notin {"lsl", "uxtw", "sxtw", "uxtx", "sxtx"} THEN Unsupported
               ELSE [indexed EXCEPT !.extend = items[3].op, !.shift = items[3].shift]

\* abs_pc is not zero: resolve_absolute_pc throws otherwise.
rd_validate_target(dec) ==
    /\ dec.access_size \in {1, 2, 4, 8}
    /\ dec.base_reg \in 0 .. PERF_REG_ARM64_SP
    /\ dec.has_index /\ ~dec.index_is_zero => dec.index_reg \in 0 .. PERF_REG_ARM64_LR
    /\ dec.extend \in {"none", "lsl", "uxtw", "sxtw", "uxtx", "sxtx"}

rd_read_perf_reg(regs, reg, is_sp) ==
    IF is_sp \/ reg = PERF_REG_ARM64_SP THEN regs[PERF_REG_ARM64_SP]
    ELSE IF reg \in DOMAIN regs THEN regs[reg] ELSE 0

SignExtend(half) == IF half >= Half \div 2 THEN Word - Half + half ELSE half

\* Mutant: sxtw is not sign-extended.
MutNoSignExtend(dec, raw) ==
    CASE dec.extend = "none" -> IF dec.index_is_32 THEN raw % Half ELSE raw
      [] dec.extend = "lsl" -> (IF dec.index_is_32 THEN raw % Half ELSE raw) * 2^dec.shift
      [] dec.extend \in {"uxtw", "sxtw"} -> (raw % Half) * 2^dec.shift
      [] dec.extend \in {"uxtx", "sxtx"} -> raw * 2^dec.shift

\* The index after extend and shift.
IndexValue(dec, raw) ==
    CASE dec.extend = "none" -> IF dec.index_is_32 THEN raw % Half ELSE raw
      [] dec.extend = "lsl" -> (IF dec.index_is_32 THEN raw % Half ELSE raw) * 2^dec.shift
      [] dec.extend = "uxtw" -> (raw % Half) * 2^dec.shift
      [] dec.extend = "sxtw" -> SignExtend(raw % Half) * 2^dec.shift
      [] dec.extend \in {"uxtx", "sxtx"} -> raw * 2^dec.shift

rd_compute_effective_address(dec, regs) ==
    LET base == rd_read_perf_reg(regs, dec.base_reg, dec.base_is_sp)
        raw == IF dec.index_is_zero THEN 0 ELSE rd_read_perf_reg(regs, dec.index_reg, FALSE)
    IN  (base + (IF dec.has_imm THEN dec.imm ELSE 0)
              + (IF dec.has_index THEN IndexValue(dec, raw) % Word ELSE 0)) % Word

===============================================================================
