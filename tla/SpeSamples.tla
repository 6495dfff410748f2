------------------------------ MODULE SpeSamples ------------------------------
(***************************************************************************)
(* The decoder of the Arm SPE stream in Monitor::process_samples_locked.   *)
(* The hardware writes one record per sampled instruction: a run of        *)
(* packets, closed by an END or a timestamp packet.  The decoder collects  *)
(* the packets in the pending_* fields of the slot and flushes them as one *)
(* sample at the closing packet.                                           *)
(*                                                                         *)
(* The pending fields outlive the AUX record that they came from.  When    *)
(* the buffer overflows, the hardware loses the rest of a record (the AUX  *)
(* record is flagged PARTIAL, which the decoder does not look at), and the *)
(* last packet may have been written without its payload; the decoder then *)
(* goes on with the first packet of the next record.                       *)
(***************************************************************************)
EXTENDS HotspotStats

CONSTANTS
    Records,    \* the records hardware may write: [Fields -> Nat \cup {None}]
    Garbage,    \* what the payload of a half-written packet may read as
    WordSize,   \* 2^64 in the code
    MaxRecords  \* bound on the records written

None == -1  \* the packet is missing / the flag of pending_flags is not set

-------------------------------------------------------------------------------
(* Packet headers *)

SPE_PACKET_TS_HEADER == 113       \* 0x71
SPE_PACKET_PADDING_HEADER == 0
SPE_PACKET_END_HEADER == 1

\* header & 0xF8, header & 0x30 and header & 0xCF, for a header of eight bits.
MaskF8(header) == header - (header % 8)
Mask30(header) == 16 * ((header \div 16) % 4)
MaskCF(header) == header - Mask30(header)

is_arm_spe_address_packet(header) == MaskF8(header) = 176  \* 0xB0
is_arm_spe_counter_packet(header) == MaskF8(header) = 152  \* 0x98
is_arm_spe_events_packet(header) == MaskCF(header) = 66    \* 0x42
arm_spe_short_index(header) == header % 8
arm_spe_payload_size(header) == 2 ^ (Mask30(header) \div 16)

\* The pending field that a packet sets, "" if it sets none.
FieldOf(header) ==
    LET index == arm_spe_short_index(header) IN
    CASE is_arm_spe_address_packet(header) /\ index = 0 -> "pc"
      [] is_arm_spe_address_packet(header) /\ index = 2 -> "data_va"
      [] is_arm_spe_counter_packet(header) /\ index = 0 -> "lat_total"
      [] is_arm_spe_counter_packet(header) /\ index = 1 -> "lat_issue"
      [] is_arm_spe_counter_packet(header) /\ index = 2 -> "lat_xlat"
      [] is_arm_spe_events_packet(header) -> "event_bits"
      [] OTHER -> ""

\* Mutant: unknown packets are taken to have one byte of payload.
MutUnknownOneByte(header) ==
    CASE is_arm_spe_address_packet(header) -> 8
      [] is_arm_spe_counter_packet(header) -> arm_spe_payload_size(header)
      [] is_arm_spe_events_packet(header) -> arm_spe_payload_size(header)
      [] header \in {SPE_PACKET_PADDING_HEADER, SPE_PACKET_END_HEADER} -> 0
      [] header = SPE_PACKET_TS_HEADER -> 8
      [] OTHER -> 1

\* How far `it` moves over the payload of a packet.
PayloadSize(header) ==
    CASE is_arm_spe_address_packet(header) -> 8
      [] is_arm_spe_counter_packet(header) -> arm_spe_payload_size(header)
      [] is_arm_spe_events_packet(header) -> arm_spe_payload_size(header)
      [] header = SPE_PACKET_PADDING_HEADER -> 0
      [] header = SPE_PACKET_END_HEADER -> 0
      [] header = SPE_PACKET_TS_HEADER -> 8
      [] OTHER -> CASE Mask30(header) = 0 -> 1
                    [] Mask30(header) = 16 -> 2
                    [] Mask30(header) = 32 -> 4
                    [] Mask30(header) = 48 -> 8

-------------------------------------------------------------------------------
(* The stream *)

\* The packets of a record in the order the hardware writes them: program
\* counter, what the decoder does not know (operation type 0x49, data source
\* 0x53, context 0x65, padding), issue and total latency, data address,
\* translation latency, events in one to eight bytes.
Layout == <<{176}, {73, 83, 101, 0}, {153}, {152}, {178}, {154}, {66, 82, 98, 114}>>
FieldAt(i) == FieldOf(CHOOSE header \in Layout[i] : TRUE)
Fields == {FieldAt(i) : i \in DOMAIN Layout} \ {""}

\* The bytes of payload that the architecture gives a packet.
Written(header) == IF header \in {0, 1} THEN 0 ELSE 2 ^ ((header \div 16) % 4)

ASSUME StreamAssumption ==
    /\ Records \subseteq [Fields -> Nat \cup {None}] /\ Garbage \subseteq Nat
    /\ WordSize \in Nat \ {0} /\ MaxRecords \in Nat

VARIABLES
    pending,  \* pending_* of the slot
    record,   \* the record that the hardware is writing
    at,       \* how many packets of Layout it has got past; 0 between records
    started,  \* number of records begun
    skew,     \* how far the decoder is beyond the packet that comes next
    lost,     \* history: a record was cut since the last flush
    written,  \* history: the last sample written, with the record it closes
    totals    \* the statistics of the samples written

speVars == <<pending, record, at, started, skew, lost, written, totals>>

Empty == [f \in Fields |-> None]

\* Mutant: the reset after a flush forgets the data address.
MutResetKeepsVa(p) == [Empty EXCEPT !.data_va = p.data_va]

reset_pending_spe_sample(p) == Empty

SpeInit ==
    /\ pending = Empty /\ record = Empty /\ at = 0
    /\ started = 0 /\ skew = 0 /\ lost = FALSE /\ written = <<>> /\ totals = NoStats

\* The sampling hardware picks an instruction.
BeginRecord(r) ==
    /\ at = 0 /\ started < MaxRecords
    /\ record' = r /\ at' = 1 /\ started' = started + 1
    /\ UNCHANGED <<pending, skew, lost, written, totals>>

Advance(header) == skew' = skew + PayloadSize(header) - Written(header)

\* A packet of the record, or nothing where the record has no such packet.
DecodePacket ==
    /\ at \in DOMAIN Layout
    /\ at' = at + 1
    /\ LET field == FieldAt(at) IN
         \/ /\ field # "" /\ record[field] = None
            /\ UNCHANGED <<pending, skew>>
         \/ /\ field # "" /\ record[field] # None
            /\ pending' = [pending EXCEPT ![field] = record[field]]
            /\ \E header \in Layout[at] : Advance(header)
         \/ /\ field = ""
            /\ UNCHANGED pending
            /\ \E header \in Layout[at] : Advance(header)
    /\ UNCHANGED <<record, started, lost, written, totals>>

\* The buffer is full: the rest of the record is lost.
CutRecord ==
    /\ at # 0
    /\ \/ UNCHANGED pending
       \/ /\ at \in DOMAIN Layout /\ FieldAt(at) # ""
          /\ record[FieldAt(at)] # None
          /\ \E value \in Garbage : pending' = [pending EXCEPT ![FieldAt(at)] = value]
    /\ record' = Empty /\ at' = 0 /\ lost' = TRUE
    /\ UNCHANGED <<started, skew, written, totals>>

\* Mutant: the difference is taken whatever the latencies are.
MutExecUnchecked(p) ==
    /\ p.lat_total # None /\ p.lat_issue # None /\ p.lat_xlat # None

LatExecValid(p) ==
    /\ p.lat_total # None /\ p.lat_issue # None /\ p.lat_xlat # None
    /\ p.lat_total >= p.lat_issue + p.lat_xlat

\* What record_hotspot_sample sees of a flushed sample.
HotspotSample(p) ==
    [total |-> p.lat_total,
     exec |-> IF LatExecValid(p)
              THEN (p.lat_total - (p.lat_issue + p.lat_xlat)) % WordSize ELSE -1]

\* An END packet or a timestamp closes the record.
flush_pending_spe_sample_locked ==
    /\ at = Len(Layout) + 1
    /\ \E header \in {SPE_PACKET_END_HEADER, SPE_PACKET_TS_HEADER} : Advance(header)
    /\ IF pending.pc = None THEN UNCHANGED <<written, totals>>
       ELSE /\ written' = [sample |-> pending, record |-> record, lost |-> lost]
            /\ totals' = AddSample(totals, HotspotSample(pending))
    /\ pending' = reset_pending_spe_sample(pending)
    /\ record' = Empty /\ at' = 0 /\ lost' = FALSE
    /\ UNCHANGED started

SpeNext ==
    \/ \E r \in Records : BeginRecord(r)
    \/ DecodePacket
    \/ CutRecord
    \/ flush_pending_spe_sample_locked

SpeSpec == SpeInit /\ [][SpeNext]_speVars

-------------------------------------------------------------------------------
(* Properties *)

(***************************************************************************)
(* A sample written to the file describes one instruction: it has exactly  *)
(* the fields of the record it closes.  After an overflow cut a record     *)
(* short, the next sample may have fields of the cut record where its own  *)
(* has none, but every packet of its own record wins, and the sample after *)
(* it is clean again (reset_pending_spe_sample).                           *)
(***************************************************************************)
SampleOfOneRecord ==
    written # <<>> =>
        /\ ~written.lost => written.sample = written.record
        /\ \A f \in Fields :
             written.record[f] # None => written.sample[f] = written.record[f]

(***************************************************************************)
(* The execution latencies that rank the hotspots never exceed the total   *)
(* latencies they are part of, in spite of stale or garbled fields after   *)
(* an overflow: the unsigned difference in record_hotspot_sample does not  *)
(* wrap around (SPE_SAMPLE_FLAG_LAT_EXEC_VALID).                           *)
(***************************************************************************)
ExecWithinTotal ==
    /\ totals.exec <= totals.total
    /\ totals.nexec <= totals.ntotal /\ totals.ntotal <= totals.n

(***************************************************************************)
(* The decoder stays in step with the stream: it moves over every packet   *)
(* by the payload that the hardware wrote (bits 5:4 of a short header; END *)
(* and padding have none), whichever of its branches handles the packet.   *)
(* A wrong step would take payload bytes for headers.                      *)
(***************************************************************************)
InStep == skew = 0

===============================================================================
