------------------------------- MODULE PerfRing -------------------------------
(***************************************************************************)
(* The two rings between the kernel and Monitor::process_samples_locked:   *)
(* records in the data area, which announce runs of SPE packets in the AUX *)
(* area.  The heads and tails of perf_event_mmap_page are positions in     *)
(* streams that grow for ever; a position modulo the size of the area is   *)
(* where it is found.  The decoder takes the data head once, works with a  *)
(* tail of its own and publishes it last; it moves aux_tail after every    *)
(* record.  The kernel writes on meanwhile, wherever the tails allow it.   *)
(*                                                                         *)
(* A cell holds the position that was written there last.  The unit of the *)
(* data area is a word: records are multiples of eight bytes.              *)
(*                                                                         *)
(* What the packets say is in SpeSamples, in which window and file the     *)
(* samples are counted in Monitor.                                         *)
(***************************************************************************)
EXTENDS Integers, Sequences

CONSTANTS
    DataSize,     \* data_size, in words
    AuxSize,      \* aux_size, in bytes
    AuxWords,     \* the length of a PERF_RECORD_AUX
    OtherWords,   \* the lengths of records of other types
    PacketSizes,  \* the lengths of packets: a header byte and the payload
    MaxPosted,    \* bound: records written
    MaxAux        \* bound: bytes of packets written

\* A PERF_RECORD_AUX starts with four words that the decoder looks at.
ASSUME RingAssumption ==
    /\ DataSize \in Nat \ {0} /\ AuxSize \in Nat \ {0}
    /\ AuxWords \in Nat /\ AuxWords >= 4
    /\ OtherWords \subseteq Nat \ {0} /\ PacketSizes \subseteq Nat \ {0}
    /\ MaxPosted \in Nat /\ MaxAux \in Nat

VARIABLES
    data_head, data_tail, aux_tail,  \* of perf_event_mmap_page
    aux_head,   \* where the hardware writes the next packet
    announced,  \* the end of the packets that a record was made for
    data, aux,  \* the two areas
    posted,     \* the records that the data area has room for, in order
    got,        \* the numbers of the records that the decoder has taken up
    decoder,    \* where process_samples_locked is, with its locals
    window,     \* _kinfos is not empty
    leaked      \* bytes of packets that aux_tail will never be moved over

pageVars == <<data_head, data_tail, aux_tail>>
kernelVars == <<aux_head, announced, data, aux, posted>>
ringVars == <<pageVars, kernelVars, got, decoder, window, leaked>>

DataCells == 0 .. DataSize - 1
AuxCells == 0 .. AuxSize - 1

NoPacket == [pos |-> -1, len |-> 0]

RingInit ==
    /\ data_head = 0 /\ data_tail = 0 /\ aux_tail = 0 /\ aux_head = 0 /\ announced = 0
    /\ data = [i \in DataCells |-> -1] /\ aux = [i \in AuxCells |-> NoPacket]
    /\ posted = <<>> /\ got = <<>>
    /\ decoder = [at |-> "idle", head |-> 0, tail |-> 0, it |-> 0]
    /\ window = FALSE /\ leaked = 0

-------------------------------------------------------------------------------
(* The kernel.  The events are enabled after the first window is pushed.  A ring *)
(* belongs to one event, which makes AUX records or samples; here it may do both. *)

\* The hardware puts no packet across the end of the area; it pads.
WritePacket(len) ==
    /\ window /\ aux_head + len <= MaxAux
    /\ aux_head + len - aux_tail <= AuxSize
    /\ (aux_head % AuxSize) + len <= AuxSize
    /\ aux' = [i \in AuxCells |->
                 IF i - (aux_head % AuxSize) \in 0 .. len - 1
                 THEN [pos |-> aux_head + (i - (aux_head % AuxSize)),
                       len |-> IF i = aux_head % AuxSize THEN len ELSE 0]
                 ELSE aux[i]]
    /\ aux_head' = aux_head + len
    /\ UNCHANGED <<pageVars, announced, data, posted, got, decoder, window, leaked>>

HasRoom(words) == data_head + words - data_tail <= DataSize

\* perf_output_begin to perf_output_end.
Output(record) ==
    /\ HasRoom(record.words) /\ Len(posted) < MaxPosted
    /\ posted' = Append(posted, record)
    /\ data' = [i \in DataCells |->
                  LET k == (i - data_head) % DataSize
                  IN  IF k < record.words THEN data_head + k ELSE data[i]]
    /\ data_head' = data_head + record.words
    /\ UNCHANGED <<data_tail, aux_tail, aux_head, aux, got, decoder, window>>

\* Packets are announced; TRUNCATED alone is the flag that the decoder skips.
PostAux(flags) ==
    /\ window
    /\ Output([type |-> "AUX", start |-> data_head, words |-> AuxWords, flags |-> flags,
               aux_offset |-> announced, aux_size |-> aux_head - announced])
    /\ announced' = aux_head
    /\ UNCHANGED leaked

\* No room for the record: it is lost, the packets stay where they are.
LoseAux ==
    /\ window /\ ~HasRoom(AuxWords) /\ announced < aux_head
    /\ announced' = aux_head
    /\ leaked' = leaked + (aux_head - announced)
    /\ UNCHANGED <<pageVars, aux_head, data, aux, posted, got, decoder, window>>

\* A plain sampler's record: header, pid and tid, time, addr.
PostSample ==
    /\ window
    /\ Output([type |-> "SAMPLE", start |-> data_head, words |-> 4, flags |-> "none",
               aux_offset |-> announced, aux_size |-> 0])
    /\ UNCHANGED <<announced, leaked>>

PostOther(words) ==
    /\ window
    /\ Output([type |-> "OTHER", start |-> data_head, words |-> words, flags |-> "none",
               aux_offset |-> announced, aux_size |-> 0])
    /\ UNCHANGED <<announced, leaked>>

-------------------------------------------------------------------------------
(* process_samples_locked *)

\* Monitor::start pushes the first window.
OpenWindow ==
    /\ ~window /\ window' = TRUE
    /\ UNCHANGED <<pageVars, kernelVars, got, decoder, leaked>>

\* Without a window the records are discarded.
Discard ==
    /\ decoder.at = "idle" /\ ~window
    /\ data_tail' = data_head
    /\ UNCHANGED <<data_head, aux_tail, kernelVars, got, decoder, window, leaked>>

\* Mutant: the tail is published before the records are read.
MutTailFirst ==
    /\ decoder.at = "idle" /\ window /\ data_head # data_tail
    /\ decoder' = [at |-> "record", head |-> data_head, tail |-> data_tail, it |-> 0]
    /\ data_tail' = data_head
    /\ UNCHANGED <<data_head, aux_tail, kernelVars, got, window, leaked>>

\* data_head is read once.
BeginDrain ==
    /\ decoder.at = "idle" /\ window /\ data_head # data_tail
    /\ decoder' = [at |-> "record", head |-> data_head, tail |-> data_tail, it |-> 0]
    /\ UNCHANGED <<pageVars, kernelVars, got, window, leaked>>

\* The position of the word that a read at position p finds.
WordAt(p) == data[p % DataSize]

\* The words of a record that are used: the header; aux_offset, aux_size and flags
\* of an AUX record (sample_id is read and not used); time and addr of a sample.
WordsUsed(record) ==
    CASE record.type = "AUX" -> 0 .. 3
      [] record.type = "SAMPLE" -> {0, 2, 3}
      [] OTHER -> {0}

\* What the words at the tail say is a record, whole and not overwritten.
Whole(k) == \A w \in WordsUsed(posted[k]) : WordAt(decoder.tail + w) = posted[k].start + w

Garbled == decoder' = [decoder EXCEPT !.at = "garbled"]

NextRecord(record) ==
    decoder' = [decoder EXCEPT !.at = "record", !.tail = @ + record.words]

ReadRecord ==
    /\ decoder.at = "record" /\ decoder.tail < decoder.head
    /\ \/ \E k \in DOMAIN posted :
            /\ WordAt(decoder.tail) = posted[k].start
            /\ got' = Append(got, k)
            /\ IF ~Whole(k) THEN Garbled /\ UNCHANGED leaked
               ELSE IF posted[k].type = "AUX" /\ posted[k].flags # "TRUNCATED"
               THEN /\ decoder' = [decoder EXCEPT !.at = "packet", !.it = 0]
                    /\ UNCHANGED leaked
               ELSE /\ NextRecord(posted[k])
                    /\ leaked' = leaked + posted[k].aux_size
       \/ /\ \A k \in DOMAIN posted : WordAt(decoder.tail) # posted[k].start
          /\ Garbled
          /\ UNCHANGED <<got, leaked>>
    /\ UNCHANGED <<pageVars, kernelVars, window>>

\* The record whose packets are being decoded.
Current == posted[got[Len(got)]]

\* A packet that starts at position p: its header is found modulo the size of
\* the area, its payload is read straight on from there.
PacketWhole(p) ==
    LET i == p % AuxSize IN
    /\ aux[i].pos = p /\ aux[i].len > 0
    /\ \A j \in 1 .. aux[i].len - 1 : i + j \in AuxCells /\ aux[i + j].pos = p + j

ReadPacket ==
    /\ decoder.at = "packet" /\ decoder.it < Current.aux_size
    /\ LET p == Current.aux_offset + decoder.it IN
         IF PacketWhole(p)
         THEN decoder' = [decoder EXCEPT !.it = @ + aux[p % AuxSize].len]
         ELSE Garbled
    /\ UNCHANGED <<pageVars, kernelVars, got, window, leaked>>

\* Mutant: aux_tail stays where it is.
MutKeepsAux ==
    /\ decoder.at = "packet" /\ decoder.it >= Current.aux_size
    /\ NextRecord(Current)
    /\ UNCHANGED <<pageVars, kernelVars, got, window, leaked>>

\* All packets of the record are decoded: the space is the hardware's again.
EndAux ==
    /\ decoder.at = "packet" /\ decoder.it >= Current.aux_size
    /\ aux_tail' = aux_tail + Current.aux_size
    /\ NextRecord(Current)
    /\ UNCHANGED <<data_head, data_tail, kernelVars, got, window, leaked>>

\* Mutant: the tail is not published.
MutTailNotPublished ==
    /\ decoder.at = "record" /\ decoder.tail >= decoder.head
    /\ decoder' = [decoder EXCEPT !.at = "idle"]
    /\ UNCHANGED <<pageVars, kernelVars, got, window, leaked>>

\* The loop ends behind the last record, or the mapping is corrupted.
EndDrain ==
    /\ decoder.at = "record" /\ decoder.tail >= decoder.head
    /\ IF decoder.tail # decoder.head THEN Garbled /\ UNCHANGED data_tail
       ELSE /\ data_tail' = decoder.tail
            /\ decoder' = [decoder EXCEPT !.at = "idle"]
    /\ UNCHANGED <<data_head, aux_tail, kernelVars, got, window, leaked>>

process_samples_locked ==
    Discard \/ BeginDrain \/ ReadRecord \/ ReadPacket \/ EndAux \/ EndDrain

RingNext ==
    \/ \E len \in PacketSizes : WritePacket(len)
    \/ \E flags \in {"none", "TRUNCATED"} : PostAux(flags)
    \/ LoseAux
    \/ PostSample
    \/ \E words \in OtherWords : PostOther(words)
    \/ OpenWindow
    \/ process_samples_locked

RingSpec == RingInit /\ [][RingNext]_ringVars

-------------------------------------------------------------------------------
(* Properties *)

(***************************************************************************)
(* The decoder never works on words or packets that the kernel has         *)
(* overwritten, nor on half a record: the tails that it has published      *)
(* protect everything up to its own, across every wrap-around, and the     *)
(* exception "corrupted samples mapping" is never thrown.                  *)
(***************************************************************************)
NeverGarbled == decoder.at # "garbled"

(***************************************************************************)
(* The decoder takes up every record that the data area had room for, once *)
(* and in order, however the drains fall between the writes.               *)
(***************************************************************************)
EveryRecordOnce ==
    /\ \A n \in DOMAIN got : got[n] = n
    /\ decoder.at = "idle" /\ data_tail = data_head => Len(got) = Len(posted)

(***************************************************************************)
(* Draining gives the AUX area back to the hardware: when all records are  *)
(* read, what is not free belongs to packets without a record yet, or to   *)
(* records that were lost or only TRUNCATED, which aux_tail += aux_size    *)
(* never makes up for.                                                     *)
(***************************************************************************)
AuxGivenBack ==
    decoder.at = "idle" /\ data_tail = data_head => aux_tail + leaked = announced

===============================================================================
