------------------------------ MODULE RdBuckets ------------------------------
(***************************************************************************)
(* The log2 histogram buckets, from both sides of the ioctl interface:     *)
(* rd_log2_bucket of the kernel module files a reuse distance, bucket_lo   *)
(* and bucket_hi of the controller label the bucket in the output files.   *)
(* resolve_dwarf_pairs.py labels the buckets of raw events by itself.      *)
(* The word width is a parameter: the code has Width = 64 and              *)
(* RD_WPCTL_LOG2_BUCKETS = 64.                                             *)
(***************************************************************************)
EXTENDS Integers

CONSTANT Width  \* bits of an unsigned word, and number of buckets

ASSUME WidthAssumption == Width \in Nat /\ Width >= 2

RD_WPCTL_LOG2_BUCKETS == Width
Words == 0 .. 2^Width - 1
Buckets == 0 .. RD_WPCTL_LOG2_BUCKETS - 1

\* Position of the most significant bit set, counted from 1.
fls64(x) == CHOOSE b \in 1 .. Width : 2^(b - 1) <= x /\ x < 2^b

\* Mutant: the cap leaves room for one more bucket than the array has.
MutBucketCap(delta) == IF delta = 0 THEN 0 ELSE fls64(delta)

rd_log2_bucket(delta) ==
    IF delta = 0 THEN 0
    ELSE IF fls64(delta) >= RD_WPCTL_LOG2_BUCKETS THEN RD_WPCTL_LOG2_BUCKETS - 1
    ELSE fls64(delta)

bucket_lo(bucket) ==
    IF bucket = 0 THEN 0 ELSE IF bucket = 1 THEN 1 ELSE 2^(bucket - 1)

bucket_hi(bucket) ==
    IF bucket = 0 THEN 0
    ELSE IF bucket = 1 THEN 1
    ELSE IF bucket >= Width - 1 THEN 2^Width - 1
    ELSE 2^bucket - 1

\* The range that resolve_dwarf_pairs.py gives the bucket of an event, in
\* integers without a width.
pair_bucket(bucket) ==
    IF bucket = 1 THEN <<1, 1>>
    ELSE IF bucket = 0 THEN <<0, 0>>
    ELSE <<2^(bucket - 1), 2^bucket - 1>>

\* And the bucket it finds back from the range, to tell long distances.
bucket_index_from_bounds(lo, hi) ==
    IF lo = 0 /\ hi = 0 THEN 0 ELSE IF lo = 1 /\ hi = 1 THEN 1 ELSE fls64(lo)

==============================================================================
