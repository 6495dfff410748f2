--------------------------- MODULE SpeSamplesProofs ---------------------------
(***************************************************************************)
(* Proofs about SpeSamples for every set of records, every payload that a  *)
(* half-written packet may read as, and any number of records.             *)
(***************************************************************************)
EXTENDS SpeSamples, TLAPS

(***************************************************************************)
(* Headers                                                                 *)
(***************************************************************************)

\* 1 << n for the sizes that a header can state.
LEMMA Powers == 2 ^ 0 = 1 /\ 2 ^ 1 = 2 /\ 2 ^ 2 = 4 /\ 2 ^ 3 = 8
  OBVIOUS

\* The headers of each kind.
LEMMA Kinds ==
    ASSUME NEW header \in 0 .. 255
    PROVE  /\ is_arm_spe_address_packet(header) <=> header \in 176 .. 183
           /\ is_arm_spe_counter_packet(header) <=> header \in 152 .. 159
           /\ is_arm_spe_events_packet(header) <=> header \in {66, 82, 98, 114}
<1>1. is_arm_spe_address_packet(header) <=> header \in 176 .. 183
  BY DEF is_arm_spe_address_packet, MaskF8
<1>2. is_arm_spe_counter_packet(header) <=> header \in 152 .. 159
  BY DEF is_arm_spe_counter_packet, MaskF8
<1>3. is_arm_spe_events_packet(header) <=> header \in {66, 82, 98, 114}
  BY DEF is_arm_spe_events_packet, MaskCF, Mask30
<1> QED BY <1>1, <1>2, <1>3

\* The decoder moves over every packet by the payload that was written.
LEMMA SizesAgree ==
    ASSUME NEW header \in 0 .. 255
    PROVE  PayloadSize(header) = Written(header) /\ Written(header) \in Nat
<1> DEFINE n == (header \div 16) % 4
           power == IF n = 0 THEN 1 ELSE IF n = 1 THEN 2 ELSE IF n = 2 THEN 4 ELSE 8
<1>1. n \in 0 .. 3 /\ Mask30(header) = 16 * n /\ Mask30(header) \div 16 = n
  BY DEF Mask30
<1>2. header \in 176 .. 183 \/ header = 113 => n = 3
  OBVIOUS
<1>3. arm_spe_payload_size(header) = 2 ^ n
  BY <1>1 DEF arm_spe_payload_size
<1>4. Written(header) = IF header \in {0, 1} THEN 0 ELSE 2 ^ n
  BY DEF Written
<1> HIDE DEF n
<1>5. 2 ^ n = power
  <2>1. n = 0 \/ n = 1 \/ n = 2 \/ n = 3
    BY <1>1
  <2>2. n = 0 => 2 ^ n = 1
    BY Zenon, Powers
  <2>3. n = 1 => 2 ^ n = 2
    BY Zenon, Powers
  <2>4. n = 2 => 2 ^ n = 4
    BY Zenon, Powers
  <2>5. n = 3 => 2 ^ n = 8
    BY Zenon, Powers
  <2> QED BY <2>1, <2>2, <2>3, <2>4, <2>5
<1>6. PayloadSize(header) = IF header \in {0, 1} THEN 0 ELSE power
  <2> USE DEF SPE_PACKET_PADDING_HEADER, SPE_PACKET_END_HEADER, SPE_PACKET_TS_HEADER
  <2>1. CASE header \in 176 .. 183 \cup 152 .. 159 \cup {66, 82, 98, 114}
    BY <1>2, <1>3, <1>5, <2>1, Kinds DEF PayloadSize
  <2>2. CASE header \in {0, 1, 113}
    BY <1>2, <2>2, Kinds DEF PayloadSize
  <2>3. CASE header \notin 176 .. 183 \cup 152 .. 159 \cup {66, 82, 98, 114} \cup {0, 1, 113}
    BY <1>1, <2>3, Kinds DEF PayloadSize
  <2> QED BY <2>1, <2>2, <2>3
<1> QED BY <1>4, <1>5, <1>6

LEMMA LayoutHeaders ==
    /\ DOMAIN Layout = 1 .. 7 /\ Len(Layout) = 7
    /\ \A i \in 1 .. 7 : Layout[i] \subseteq 0 .. 255
  BY DEF Layout

LEMMA AdvanceInStep ==
    ASSUME NEW header \in 0 .. 255, skew = 0, Advance(header)
    PROVE  skew' = 0
  BY SizesAgree DEF Advance

LEMMA LatencyFields ==
    "lat_total" \in Fields /\ "lat_issue" \in Fields /\ "lat_xlat" \in Fields
<1>1. FieldOf(152) = "lat_total" /\ FieldOf(153) = "lat_issue" /\ FieldOf(154) = "lat_xlat"
  BY Kinds DEF FieldOf, arm_spe_short_index
<1>2. FieldAt(4) = FieldOf(152) /\ FieldAt(3) = FieldOf(153) /\ FieldAt(6) = FieldOf(154)
  <2>1. Layout[4] = {152} /\ Layout[3] = {153} /\ Layout[6] = {154}
    BY DEF Layout
  <2> QED BY <2>1 DEF FieldAt
<1> QED BY <1>1, <1>2, LayoutHeaders DEF Fields

-------------------------------------------------------------------------------
(***************************************************************************)
(* The inductive invariant: the packets of the record so far are in        *)
(* pending, and unless a record was cut nothing else is.                   *)
(***************************************************************************)

Sample == [Fields -> Nat \cup {None}]

\* The packet that sets f has been decoded, if the record has it.
Past(f) == \E i \in 1 .. 7 : i < at /\ FieldAt(i) = f

TypeInv ==
    /\ pending \in Sample /\ record \in Sample
    /\ at \in 0 .. 8 /\ skew = 0
    /\ totals.n \in Nat /\ totals.ntotal \in Nat /\ totals.nexec \in Nat
    /\ totals.total \in Nat /\ totals.exec \in Nat

PendingInv ==
    /\ \A f \in Fields : Past(f) /\ record[f] # None => pending[f] = record[f]
    /\ ~lost => \A f \in Fields : pending[f] = IF Past(f) THEN record[f] ELSE None

SInv == TypeInv /\ PendingInv /\ SampleOfOneRecord /\ ExecWithinTotal

LEMMA EmptySample == Empty \in Sample /\ \A f \in Fields : Empty[f] = None
  BY DEF Empty, Sample, None

LEMMA InitSInv == SpeInit => SInv
<1> SUFFICES ASSUME SpeInit PROVE SInv
  OBVIOUS
<1>1. TypeInv
  BY EmptySample DEF SpeInit, TypeInv, NoStats
<1>2. PendingInv
  BY EmptySample DEF SpeInit, PendingInv, Past
<1>3. SampleOfOneRecord /\ ExecWithinTotal
  BY DEF SpeInit, SampleOfOneRecord, ExecWithinTotal, NoStats
<1> QED BY <1>1, <1>2, <1>3 DEF SInv

LEMMA BeginRecordStep ==
    ASSUME SInv, NEW r \in Records, BeginRecord(r)
    PROVE  SInv'
<1>1. /\ record' = r /\ at' = 1 /\ at = 0
      /\ UNCHANGED <<pending, skew, lost, written, totals>>
  BY DEF BeginRecord
<1>2. TypeInv'
  BY <1>1, StreamAssumption DEF SInv, TypeInv, Sample
<1>3. \A f : ~Past(f) /\ ~Past(f)'
  BY <1>1 DEF Past
<1>4. PendingInv'
  BY <1>1, <1>3 DEF SInv, PendingInv
<1>5. SampleOfOneRecord' /\ ExecWithinTotal'
  BY <1>1 DEF SInv, SampleOfOneRecord, ExecWithinTotal
<1> QED BY <1>2, <1>4, <1>5 DEF SInv

LEMMA DecodePacketStep ==
    ASSUME SInv, DecodePacket
    PROVE  SInv'
<1>1. /\ at \in 1 .. 7 /\ at' = at + 1
      /\ UNCHANGED <<record, lost, written, totals>>
  <2>1. at \in DOMAIN Layout /\ at' = at + 1 /\ UNCHANGED <<record, lost, written, totals>>
    BY Zenon DEF DecodePacket
  <2>2. DOMAIN Layout = 1 .. 7
    BY LayoutHeaders
  <2> QED BY <2>1, <2>2
<1> DEFINE field == FieldAt(at)
<1>2. field # "" => field \in Fields
  BY <1>1, LayoutHeaders DEF Fields
<1>3. TypeInv
  BY DEF SInv
<1>4. skew' = 0
  <2>1. skew' = skew \/ \E header \in Layout[at] : Advance(header)
    BY DEF DecodePacket
  <2>2. \A header \in Layout[at] : header \in 0 .. 255
    BY <1>1, LayoutHeaders
  <2> QED BY <1>3, <2>1, <2>2, AdvanceInStep DEF TypeInv
<1>5. \/ /\ field # "" /\ record[field] = None /\ pending' = pending
      \/ /\ field # "" /\ record[field] # None
         /\ pending' = [pending EXCEPT ![field] = record[field]]
      \/ field = "" /\ pending' = pending
  BY DEF DecodePacket
<1>6. pending' \in Sample
  BY <1>2, <1>3, <1>5 DEF TypeInv, Sample
<1>7. TypeInv'
  BY <1>1, <1>3, <1>4, <1>6 DEF TypeInv
<1>8. \A f : Past(f)' <=> Past(f) \/ f = field
  BY <1>1 DEF Past
<1>9. \A f \in Fields : f # ""
  BY DEF Fields
<1>10. \A f \in Fields : pending'[f] = IF f = field /\ record[f] # None THEN record[f] ELSE pending[f]
  BY <1>2, <1>3, <1>5, <1>9 DEF TypeInv, Sample
<1> HIDE DEF field
<1>11. PendingInv'
  <2>1. ASSUME NEW f \in Fields, Past(f)', record'[f] # None PROVE pending'[f] = record'[f]
    BY <1>1, <1>8, <1>10, <2>1 DEF SInv, PendingInv
  <2>2. ASSUME ~lost', NEW f \in Fields
        PROVE  pending'[f] = IF Past(f)' THEN record'[f] ELSE None
    <3>1. pending[f] = IF Past(f) THEN record[f] ELSE None
      BY <1>1, <2>2 DEF SInv, PendingInv
    <3> QED BY <1>1, <1>8, <1>10, <3>1
  <2> QED BY <2>1, <2>2 DEF PendingInv
<1>12. SampleOfOneRecord' /\ ExecWithinTotal'
  BY <1>1 DEF SInv, SampleOfOneRecord, ExecWithinTotal
<1> QED BY <1>7, <1>11, <1>12 DEF SInv

LEMMA CutRecordStep ==
    ASSUME SInv, CutRecord
    PROVE  SInv'
<1>1. /\ record' = Empty /\ at' = 0 /\ lost' = TRUE
      /\ UNCHANGED <<skew, written, totals>>
  BY DEF CutRecord
<1>2. pending' \in Sample
  BY StreamAssumption DEF CutRecord, SInv, TypeInv, Sample
<1>3. TypeInv'
  BY <1>1, <1>2, EmptySample DEF SInv, TypeInv
<1>4. PendingInv'
  <2>1. \A f : ~Past(f)'
    BY <1>1 DEF Past
  <2> QED BY <1>1, <2>1 DEF PendingInv
<1>5. SampleOfOneRecord' /\ ExecWithinTotal'
  BY <1>1 DEF SInv, SampleOfOneRecord, ExecWithinTotal
<1> QED BY <1>3, <1>4, <1>5 DEF SInv

\* What is added to the statistics: the unsigned difference does not wrap around.
LEMMA ExecOfSample ==
    ASSUME NEW p \in Sample
    PROVE  LET h == HotspotSample(p)
           IN  /\ h.total \in Nat \cup {-1} /\ h.exec \in Nat \cup {-1}
               /\ h.exec >= 0 => h.total >= 0 /\ h.exec <= h.total
<1> DEFINE t == p.lat_total
           i == p.lat_issue
           x == p.lat_xlat
           d == t - (i + x)
           e == d % WordSize
<1>1. t \in Nat \cup {-1} /\ i \in Nat \cup {-1} /\ x \in Nat \cup {-1}
  BY LatencyFields DEF Sample, None
<1>2. ASSUME LatExecValid(p) PROVE t \in Nat /\ e \in Nat /\ e <= t
  <2>1. t \in Nat /\ d \in Nat /\ d <= t
    BY <1>1, <1>2 DEF LatExecValid, None
  <2> HIDE DEF d
  <2>2. e \in Nat /\ e <= d
    BY <2>1, StreamAssumption
  <2> HIDE DEF e
  <2> QED BY <2>1, <2>2
<1>3. HotspotSample(p) = [total |-> t, exec |-> IF LatExecValid(p) THEN e ELSE -1]
  BY DEF HotspotSample
<1> HIDE DEF t, e
<1> QED BY <1>1, <1>2, <1>3

LEMMA FlushStep ==
    ASSUME SInv, flush_pending_spe_sample_locked
    PROVE  SInv'
<1>1. /\ at = 8 /\ pending' = Empty /\ record' = Empty /\ at' = 0 /\ lost' = FALSE
      /\ \/ written' = written /\ totals' = totals
         \/ /\ written' = [sample |-> pending, record |-> record, lost |-> lost]
            /\ totals' = AddSample(totals, HotspotSample(pending))
  BY LayoutHeaders DEF flush_pending_spe_sample_locked, reset_pending_spe_sample
<1>2. TypeInv /\ PendingInv /\ SampleOfOneRecord /\ ExecWithinTotal
  BY DEF SInv
<1>3. skew' = 0
  <2>1. \E header \in {1, 113} : Advance(header)
    BY DEF flush_pending_spe_sample_locked, SPE_PACKET_END_HEADER, SPE_PACKET_TS_HEADER
  <2> QED BY <1>2, <2>1, AdvanceInStep DEF TypeInv
<1>4. \A f \in Fields : Past(f)
  <2> TAKE f \in Fields
  <2>1. PICK i \in DOMAIN Layout : f = FieldAt(i)
    BY DEF Fields
  <2>2. i \in 1 .. 7 /\ i < at
    BY <1>1, LayoutHeaders
  <2> QED BY <2>1, <2>2 DEF Past
<1>5. /\ ~lost => pending = record
      /\ \A f \in Fields : record[f] # None => pending[f] = record[f]
  <2>1. ASSUME ~lost PROVE pending = record
    <3>1. \A f \in Fields : pending[f] = record[f]
      BY <1>2, <1>4, <2>1 DEF PendingInv
    <3>2. pending \in [Fields -> Nat \cup {None}] /\ record \in [Fields -> Nat \cup {None}]
      BY <1>2 DEF TypeInv, Sample
    <3> QED BY <3>1, <3>2
  <2> QED BY <1>2, <1>4, <2>1 DEF PendingInv
<1>6. SampleOfOneRecord'
  <2>1. CASE written' = written
    BY <1>2, <2>1 DEF SampleOfOneRecord
  <2>2. CASE written' = [sample |-> pending, record |-> record, lost |-> lost]
    <3>1. written'.sample = pending /\ written'.record = record /\ (written'.lost <=> lost)
      BY <2>2
    <3> QED BY <1>5, <3>1 DEF SampleOfOneRecord
  <2> QED BY <1>1, <2>1, <2>2
<1>7. /\ ExecWithinTotal'
      /\ totals'.n \in Nat /\ totals'.ntotal \in Nat /\ totals'.nexec \in Nat
      /\ totals'.total \in Nat /\ totals'.exec \in Nat
  <2>1. CASE totals' = totals
    BY <1>2, <2>1 DEF ExecWithinTotal, TypeInv
  <2>2. CASE totals' = AddSample(totals, HotspotSample(pending))
    <3> DEFINE h == HotspotSample(pending)
    <3>1. /\ h.total \in Nat \cup {-1} /\ h.exec \in Nat \cup {-1}
          /\ h.exec >= 0 => h.total >= 0 /\ h.exec <= h.total
      BY <1>2, ExecOfSample DEF TypeInv
    <3> HIDE DEF h
    <3>2. totals' = AddSample(totals, h)
      BY <2>2 DEF h
    <3>3. /\ totals'.n = totals.n + 1
          /\ totals'.ntotal = totals.ntotal + IF h.total >= 0 THEN 1 ELSE 0
          /\ totals'.total = totals.total + IF h.total >= 0 THEN h.total ELSE 0
          /\ totals'.nexec = totals.nexec + IF h.exec >= 0 THEN 1 ELSE 0
          /\ totals'.exec = totals.exec + IF h.exec >= 0 THEN h.exec ELSE 0
      BY <3>2 DEF AddSample
    <3> QED BY <1>2, <3>1, <3>3 DEF ExecWithinTotal, TypeInv
  <2> QED BY <1>1, <2>1, <2>2
<1>8. TypeInv'
  BY <1>1, <1>3, <1>7, EmptySample DEF TypeInv
<1>9. PendingInv'
  <2>1. \A f : ~Past(f)'
    BY <1>1 DEF Past
  <2> QED BY <1>1, <2>1, EmptySample DEF PendingInv
<1> QED BY <1>6, <1>7, <1>8, <1>9 DEF SInv

LEMMA SInvariant == SpeSpec => []SInv
<1>1. SInv /\ [SpeNext]_speVars => SInv'
  <2> SUFFICES ASSUME SInv, [SpeNext]_speVars PROVE SInv'
    OBVIOUS
  <2>1. CASE \E r \in Records : BeginRecord(r)
    BY <2>1, BeginRecordStep
  <2>2. CASE DecodePacket
    BY <2>2, DecodePacketStep
  <2>3. CASE CutRecord
    BY <2>3, CutRecordStep
  <2>4. CASE flush_pending_spe_sample_locked
    BY <2>4, FlushStep
  <2>5. CASE UNCHANGED speVars
    BY <2>5 DEF speVars, SInv, TypeInv, PendingInv, Past, SampleOfOneRecord, ExecWithinTotal
  <2> QED BY <2>1, <2>2, <2>3, <2>4, <2>5 DEF SpeNext
<1> QED BY <1>1, InitSInv, PTL DEF SpeSpec

-------------------------------------------------------------------------------
(* The theorems *)

(***************************************************************************)
(* For all records and any number of overflows: a sample that              *)
(* flush_pending_spe_sample_locked writes has the fields of the record it  *)
(* closes, and other ones only after a record was cut.                     *)
(***************************************************************************)
THEOREM SamplesDoNotMix == SpeSpec => []SampleOfOneRecord
<1>1. SInv => SampleOfOneRecord
  BY DEF SInv
<1> QED BY <1>1, SInvariant, PTL

(***************************************************************************)
(* For all latencies and whatever a half-written packet reads as: the      *)
(* execution latencies that record_hotspot_sample adds up stay within the  *)
(* total latencies.                                                        *)
(***************************************************************************)
THEOREM LatenciesDoNotWrap == SpeSpec => []ExecWithinTotal
<1>1. SInv => ExecWithinTotal
  BY DEF SInv
<1> QED BY <1>1, SInvariant, PTL

(***************************************************************************)
(* The decoder moves over every packet of the stream by the payload that   *)
(* was written.                                                            *)
(***************************************************************************)
THEOREM DecoderInStep == SpeSpec => []InStep
<1>1. SInv => InStep
  BY DEF SInv, TypeInv, InStep
<1> QED BY <1>1, SInvariant, PTL

===============================================================================
