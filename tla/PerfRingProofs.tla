---------------------------- MODULE PerfRingProofs ----------------------------
(***************************************************************************)
(* Proofs about PerfRing for rings, records and packets of every size: the *)
(* decoder never works on overwritten memory, it takes up every record     *)
(* once and in order, and it gives the AUX area back.                      *)
(***************************************************************************)
EXTENDS PerfRing, TLAPS

(***************************************************************************)
(* Positions and the cells of an area of n cells.                          *)
(***************************************************************************)

LEMMA ModRange ==
    ASSUME NEW n \in Nat \ {0}, NEW a \in Int
    PROVE  a % n \in 0 .. n - 1
  OBVIOUS

LEMMA DivMod ==
    ASSUME NEW n \in Nat \ {0}, NEW a \in Int
    PROVE  a = n * (a \div n) + (a % n) /\ a \div n \in Int
  OBVIOUS

LEMMA SmallMultiple ==
    ASSUME NEW n \in Nat \ {0}, NEW q \in Int, n * q < n, -n < n * q
    PROVE  q = 0
  OBVIOUS

\* Two positions that share a cell are a whole lap apart.
LEMMA OneLap ==
    ASSUME NEW n \in Nat \ {0}, NEW a \in Int, NEW b \in Int,
           a % n = b % n, a - b < n, b - a < n
    PROVE  a = b
<1> DEFINE q == (a \div n) - (b \div n)
<1>1. a - b = n * (a \div n) - n * (b \div n)
  BY DivMod
<1>2. n * (a \div n) - n * (b \div n) = n * ((a \div n) - (b \div n))
  BY DivMod
<1>3. q \in Int /\ a - b = n * q
  BY <1>1, <1>2, DivMod
<1> HIDE DEF q
<1>4. q = 0
  BY <1>3, SmallMultiple
<1> QED BY <1>3, <1>4

LEMMA Remainder ==
    ASSUME NEW n \in Nat \ {0}, NEW a \in Int, NEW q \in Int, NEW r \in 0 .. n - 1,
           a = n * q + r
    PROVE  a % n = r
<1> DEFINE d == (a \div n) - q
<1>1. a = n * (a \div n) + (a % n) /\ a \div n \in Int /\ a % n \in 0 .. n - 1
  BY DivMod, ModRange
<1>2. d \in Int /\ n * d = r - (a % n)
  BY <1>1
<1> HIDE DEF d
<1>3. d = 0
  BY <1>1, <1>2, SmallMultiple
<1> QED BY <1>1, <1>2, <1>3

\* Straight on from a cell, short of the end of the area.
LEMMA StraightOn ==
    ASSUME NEW n \in Nat \ {0}, NEW a \in Int, NEW j \in Nat, (a % n) + j < n
    PROVE  (a + j) % n = (a % n) + j
<1> DEFINE q == a \div n
           r == (a % n) + j
           c == a + j
<1>1. a = n * q + (a % n) /\ q \in Int /\ a % n \in 0 .. n - 1
  BY DivMod, ModRange
<1>2. c \in Int /\ r \in 0 .. n - 1 /\ c = n * q + r
  BY <1>1
<1> HIDE DEF q, r, c
<1>3. c % n = r
  BY <1>1, <1>2, Remainder
<1> QED BY <1>3 DEF r, c

\* How far the cell of position b is from the cell of position a.
LEMMA Distance ==
    ASSUME NEW n \in Nat \ {0}, NEW a \in Int, NEW b \in Int, b - a \in 0 .. n - 1
    PROVE  ((b % n) - a) % n = b - a
<1> DEFINE q == -(b \div n)
           c == (b % n) - a
<1>1. b = n * (b \div n) + (b % n) /\ b \div n \in Int /\ b % n \in 0 .. n - 1
  BY DivMod, ModRange
<1>2. n * q = -(n * (b \div n))
  BY <1>1
<1>3. q \in Int /\ c \in Int /\ c = n * q + (b - a)
  BY <1>1, <1>2
<1> HIDE DEF q, c
<1>4. c % n = b - a
  BY <1>3, Remainder
<1> QED BY <1>4 DEF c

\* The position that a cell i gets from a run that starts at position a.
LEMMA PositionOf ==
    ASSUME NEW n \in Nat \ {0}, NEW a \in Int, NEW i \in 0 .. n - 1
    PROVE  /\ (i - a) % n \in 0 .. n - 1
           /\ (a + ((i - a) % n)) % n = i
<1> DEFINE d == i - a
           k == d % n
           c == a + k
           q == -(d \div n)
<1>1. d \in Int
  OBVIOUS
<1>2. d = n * (d \div n) + k /\ d \div n \in Int /\ k \in 0 .. n - 1
  <2> HIDE DEF d
  <2> QED BY <1>1, DivMod, ModRange
<1>3. n * q = -(n * (d \div n)) /\ q \in Int
  <2> HIDE DEF d
  <2> QED BY <1>2
<1>4. c \in Int /\ c = n * q + i
  <2> HIDE DEF q, k
  <2> QED BY <1>2, <1>3
<1>5. c % n = i
  <2> HIDE DEF q, c
  <2> QED BY <1>3, <1>4, Remainder
<1> QED BY <1>2, <1>5

-------------------------------------------------------------------------------
(***************************************************************************)
(* The inductive invariant.                                                *)
(***************************************************************************)

RecordType == [type : {"AUX", "SAMPLE", "OTHER"}, start : Nat, words : Nat \ {0},
               flags : {"none", "TRUNCATED"}, aux_offset : Nat, aux_size : Nat]

PacketType == [pos : Int, len : Nat]

RingTypeOK ==
    /\ data_head \in Nat /\ data_tail \in Nat /\ aux_tail \in Nat /\ aux_head \in Nat
    /\ announced \in Nat /\ leaked \in Nat
    /\ data \in [DataCells -> Int] /\ aux \in [AuxCells -> PacketType]
    /\ posted \in Seq(RecordType) /\ got \in Seq(Nat)
    /\ decoder \in [at : {"idle", "record", "packet"}, head : Nat, tail : Nat, it : Nat]

\* The data area: from the published tail on nothing is overwritten.
DataInv ==
    /\ data_tail <= data_head /\ data_head - data_tail <= DataSize
    /\ \A p \in data_tail .. data_head - 1 : data[p % DataSize] = p

\* Where the m-th record starts, or will start.
Pos(m) == IF m <= Len(posted) THEN posted[m].start ELSE data_head

\* The records follow each other without a gap.
RecordsInv ==
    /\ \A k \in 1 .. Len(posted) :
         /\ Pos(k + 1) = posted[k].start + posted[k].words
         /\ posted[k].type # "OTHER" => posted[k].words >= 4
    /\ \A j, k \in 1 .. Len(posted) + 1 : j < k => Pos(j) < Pos(k)

\* The decoder is at the start of a record, and its head is one, too.
DecoderInv ==
    /\ Len(got) <= Len(posted)
    /\ \A n \in 1 .. Len(got) : got[n] = n
    /\ decoder.at = "idle" => data_tail = Pos(Len(got) + 1)
    /\ decoder.at = "record" => decoder.tail = Pos(Len(got) + 1)
    /\ decoder.at = "packet" => Len(got) > 0 /\ decoder.tail = Pos(Len(got))
    /\ decoder.at # "idle" =>
         /\ data_tail <= decoder.tail
         /\ \E m \in Len(got) + 1 .. Len(posted) + 1 : decoder.head = Pos(m)

Header(p) == aux[p % AuxSize].len > 0

\* A position where no packet is cut in two.
Boundary(e) == e \in aux_tail .. aux_head /\ (e = aux_head \/ Header(e))

\* The AUX area: from aux_tail on nothing is overwritten, and packet follows
\* packet.
AuxInv ==
    /\ aux_tail <= announced /\ aux_head - aux_tail <= AuxSize
    /\ Boundary(announced)
    /\ \A p \in aux_tail .. aux_head - 1 : aux[p % AuxSize].pos = p
    /\ \A p \in aux_tail .. aux_head - 1 : Header(p) =>
         /\ (p % AuxSize) + aux[p % AuxSize].len <= AuxSize
         /\ p + aux[p % AuxSize].len <= aux_head
         /\ \A q \in p + 1 .. p + aux[p % AuxSize].len - 1 : ~Header(q)
         /\ p + aux[p % AuxSize].len = aux_head \/ Header(p + aux[p % AuxSize].len)

\* The first record whose packets are not given back.
Unread == IF decoder.at = "packet" THEN Len(got) ELSE Len(got) + 1

\* The records that are not given back announce whole packets, in order.
AnnouncedInv ==
    /\ \A k \in Unread .. Len(posted) :
         /\ Boundary(posted[k].aux_offset)
         /\ Boundary(posted[k].aux_offset + posted[k].aux_size)
         /\ posted[k].aux_offset + posted[k].aux_size <= announced
    /\ \A j, k \in Unread .. Len(posted) :
         j < k => posted[j].aux_offset + posted[j].aux_size <= posted[k].aux_offset
    /\ decoder.at = "packet" =>
         /\ decoder.it <= posted[Len(got)].aux_size
         /\ Boundary(posted[Len(got)].aux_offset + decoder.it)

\* aux_tail with what was leaked, the records that are not given back and
\* announced add up: total[k] is where aux_tail would be without leaks when
\* record k is next.
Totals(total) ==
    /\ total[Unread] = aux_tail + leaked
    /\ total[Len(posted) + 1] = announced
    /\ \A k \in Unread .. Len(posted) : total[k + 1] = total[k] + posted[k].aux_size

SpaceInv == \E total \in [1 .. Len(posted) + 1 -> Int] : Totals(total)

IInv == /\ RingTypeOK /\ DataInv /\ RecordsInv /\ DecoderInv
        /\ AuxInv /\ AnnouncedInv /\ SpaceInv

LEMMA InitIInv == RingInit => IInv
<1> SUFFICES ASSUME RingInit PROVE IInv
  OBVIOUS
<1> USE RingAssumption DEF RingInit
<1>1. RingTypeOK
  <2>1. data \in [DataCells -> Int] /\ aux \in [AuxCells -> PacketType]
    BY DEF PacketType, NoPacket
  <2>2. posted \in Seq(RecordType) /\ got \in Seq(Nat)
    OBVIOUS
  <2> QED BY <2>1, <2>2 DEF RingTypeOK
<1>2. DataInv /\ RecordsInv /\ DecoderInv
  BY DEF DataInv, RecordsInv, DecoderInv, Pos
<1>3. AuxInv /\ AnnouncedInv
  BY DEF AuxInv, AnnouncedInv, Boundary, Unread
<1>4. SpaceInv
  <2> DEFINE total == [k \in 1 .. Len(posted) + 1 |-> 0]
  <2>1. Totals(total)
    BY DEF Totals, Unread
  <2> QED BY <2>1 DEF SpaceInv
<1> QED BY <1>1, <1>2, <1>3, <1>4 DEF IInv

\* The types of the parts, for later use.
LEMMA Facts ==
    ASSUME IInv
    PROVE  /\ data_head \in Nat /\ data_tail \in Nat /\ aux_tail \in Nat /\ aux_head \in Nat
           /\ announced \in Nat /\ leaked \in Nat
           /\ Len(posted) \in Nat /\ Len(got) \in Nat /\ Len(got) <= Len(posted)
           /\ decoder.at \in {"idle", "record", "packet"}
           /\ decoder.head \in Nat /\ decoder.tail \in Nat /\ decoder.it \in Nat
           /\ \A k \in 1 .. Len(posted) :
                /\ posted[k].start \in Nat /\ posted[k].words \in Nat \ {0}
                /\ posted[k].aux_offset \in Nat /\ posted[k].aux_size \in Nat
                /\ posted[k].type \in {"AUX", "SAMPLE", "OTHER"}
           /\ \A m \in 1 .. Len(posted) + 1 : Pos(m) \in Nat
           /\ Pos(Len(posted) + 1) = data_head
<1>1. RingTypeOK /\ DecoderInv
  BY DEF IInv
<1>2. /\ data_head \in Nat /\ data_tail \in Nat /\ aux_tail \in Nat /\ aux_head \in Nat
      /\ announced \in Nat /\ leaked \in Nat
      /\ Len(posted) \in Nat /\ Len(got) \in Nat /\ Len(got) <= Len(posted)
  <2>1. posted \in Seq(RecordType) /\ got \in Seq(Nat)
    BY <1>1 DEF RingTypeOK
  <2>2. Len(posted) \in Nat /\ Len(got) \in Nat
    BY <2>1
  <2> QED BY <1>1, <2>2 DEF RingTypeOK, DecoderInv
<1>3. /\ decoder.at \in {"idle", "record", "packet"}
      /\ decoder.head \in Nat /\ decoder.tail \in Nat /\ decoder.it \in Nat
  <2>1. decoder \in [at : {"idle", "record", "packet"}, head : Nat, tail : Nat, it : Nat]
    BY <1>1 DEF RingTypeOK
  <2> QED BY <2>1
<1>4. ASSUME NEW k \in 1 .. Len(posted)
      PROVE  /\ posted[k].start \in Nat /\ posted[k].words \in Nat \ {0}
             /\ posted[k].aux_offset \in Nat /\ posted[k].aux_size \in Nat
             /\ posted[k].type \in {"AUX", "SAMPLE", "OTHER"}
  <2>1. posted[k] \in RecordType
    BY <1>1 DEF RingTypeOK
  <2> QED BY <2>1 DEF RecordType
<1>5. \A m \in 1 .. Len(posted) + 1 : Pos(m) \in Nat
  BY <1>2, <1>4 DEF Pos
<1>6. Pos(Len(posted) + 1) = data_head
  BY <1>2 DEF Pos
<1> QED BY <1>2, <1>3, <1>4, <1>5, <1>6

-------------------------------------------------------------------------------
(* The kernel's steps *)

LEMMA OutputData ==
    ASSUME RingTypeOK, DataInv, NEW record \in RecordType, Output(record)
    PROVE  data' \in [DataCells -> Int] /\ DataInv'
<1> DEFINE k(i) == (i - data_head) % DataSize
           h == data_head
           w == record.words
<1>0. h \in Nat /\ data_tail \in Nat /\ DataSize \in Nat \ {0} /\ data \in [DataCells -> Int]
  BY RingAssumption DEF RingTypeOK
<1>1. w \in Nat \ {0} /\ data_head' = h + w
      /\ data_tail' = data_tail /\ h + w - data_tail <= DataSize
  BY DEF Output, HasRoom, RecordType
<1>2. /\ data_tail <= h
      /\ \A p \in data_tail .. h - 1 : data[p % DataSize] = p
  BY DEF DataInv
<1>3. \A i \in DataCells : k(i) \in 0 .. DataSize - 1 /\ (h + k(i)) % DataSize = i
  <2> TAKE i \in DataCells
  <2>1. i \in 0 .. DataSize - 1 /\ h \in Int
    BY <1>0 DEF DataCells
  <2> HIDE DEF h
  <2> QED BY <1>0, <2>1, PositionOf DEF h
<1>4. data' = [i \in DataCells |-> IF k(i) < w THEN h + k(i) ELSE data[i]]
  BY DEF Output
<1>5. ASSUME NEW p \in Int, data_tail <= p, p < h + w PROVE data'[p % DataSize] = p
  <2> DEFINE i == p % DataSize
  <2>0. i \in DataCells
    BY <1>0, ModRange DEF DataCells
  <2>1. CASE p >= h
    <3>1. p - h \in 0 .. DataSize - 1
      <4> HIDE DEF h, w
      <4> QED BY <1>0, <1>1, <1>2, <1>5, <2>1
    <3>2. k(i) = p - h
      <4>1. k(i) = ((p % DataSize) - h) % DataSize /\ h \in Int
        BY <1>0
      <4> HIDE DEF h, k, i
      <4> QED BY <1>0, <3>1, <4>1, Distance
    <3>3. k(i) < w /\ h + k(i) = p
      <4> HIDE DEF i, k, h, w
      <4> QED BY <1>0, <1>1, <1>5, <2>1, <3>2
    <3>4. data'[i] = p
      <4> HIDE DEF i, k, h, w
      <4> QED BY <1>4, <2>0, <3>3
    <3> QED BY <3>4
  <2>2. CASE p < h
    <3>1. data[i] = p
      <4>1. p \in data_tail .. h - 1
        <5> HIDE DEF h
        <5> QED BY <1>0, <1>5, <2>2
      <4> HIDE DEF h
      <4> QED BY <1>2, <4>1
    <3>2. k(i) \in 0 .. DataSize - 1
      BY <1>3, <2>0
    <3>3. (h + k(i)) % DataSize = p % DataSize
      BY <1>3, <2>0
    <3>4. ASSUME k(i) < w PROVE FALSE
      <4> DEFINE b == h + k(i)
      <4>1. b \in Int /\ b - p < DataSize /\ p - b < DataSize /\ b # p
        <5> HIDE DEF k, i, h, w
        <5>1. data_tail <= h
          BY <1>2
        <5> QED BY <1>0, <1>1, <5>1, <1>5, <2>2, <3>2, <3>4
      <4>2. b % DataSize = p % DataSize
        <5> HIDE DEF k, h
        <5> QED BY <3>3
      <4> HIDE DEF b
      <4> QED BY <1>0, <4>1, <4>2, OneLap
    <3>5. data'[i] = p
      <4> HIDE DEF k, i, h, w
      <4> QED BY <1>4, <2>0, <3>1, <3>4
    <3> QED BY <3>5
  <2> HIDE DEF h
  <2> QED BY <1>0, <1>5, <2>1, <2>2
<1>6. data' \in [DataCells -> Int]
  <2> HIDE DEF k, h
  <2> QED BY <1>0, <1>3, <1>4
<1>7. \A p \in data_tail' .. data_head' - 1 : data'[p % DataSize] = p
  <2> HIDE DEF h, w
  <2> QED BY <1>0, <1>1, <1>5
<1> HIDE DEF h, w, k
<1> QED BY <1>0, <1>1, <1>2, <1>6, <1>7 DEF DataInv

\* What a record that is written says of the ring.
Writes(record) ==
    /\ record \in RecordType /\ Output(record) /\ leaked' = leaked
    /\ record.start = data_head
    /\ record.type # "OTHER" => record.words >= 4
    /\ record.aux_offset = announced /\ announced' = announced + record.aux_size
    /\ Boundary(record.aux_offset + record.aux_size)

LEMMA OutputStep ==
    ASSUME IInv, NEW record, Writes(record)
    PROVE  IInv'
<1>0. RingTypeOK /\ DataInv /\ RecordsInv /\ DecoderInv /\ AuxInv /\ AnnouncedInv /\ SpaceInv
  BY DEF IInv
<1>n. PICK n \in Nat : Len(posted) = n
  BY <1>0 DEF RingTypeOK
<1>1. /\ data_head \in Nat /\ data_tail \in Nat /\ aux_tail \in Nat /\ aux_head \in Nat
      /\ announced \in Nat /\ leaked \in Nat /\ Len(got) \in Nat
  BY <1>0 DEF RingTypeOK
<1>2. /\ data_head' = data_head + record.words /\ record.words \in Nat \ {0}
      /\ announced' = announced + record.aux_size /\ record.aux_size \in Nat
      /\ record.start = data_head /\ record.aux_offset = announced
      /\ record.type # "OTHER" => record.words >= 4
      /\ UNCHANGED <<data_tail, aux_tail, aux_head, aux, got, decoder, leaked>>
  BY DEF Writes, Output, RecordType
<1>3. data' \in [DataCells -> Int] /\ DataInv'
  BY <1>0, OutputData DEF Writes
<1>4. /\ Len(posted') = n + 1 /\ posted' \in Seq(RecordType)
      /\ \A k \in 1 .. n : posted'[k] = posted[k]
      /\ posted'[n + 1] = record
  <2>1. posted' = Append(posted, record) /\ posted \in Seq(RecordType) /\ record \in RecordType
    BY <1>0 DEF RingTypeOK, Writes, Output
  <2> QED BY <1>n, <2>1
<1>5. \A k \in 1 .. n : posted[k].start \in Nat /\ posted[k].aux_offset \in Nat
                        /\ posted[k].aux_size \in Nat
  <2>1. \A k \in 1 .. n : posted[k] \in RecordType
    BY <1>0, <1>n DEF RingTypeOK
  <2> QED BY <2>1 DEF RecordType
<1>6. RingTypeOK'
  <2>1. /\ data_head' \in Nat /\ announced' \in Nat /\ leaked' \in Nat
        /\ aux_tail' \in Nat /\ aux_head' \in Nat /\ data_tail' \in Nat
    BY <1>1, <1>2
  <2>2. got' \in Seq(Nat) /\ aux' \in [AuxCells -> PacketType]
    BY <1>0, <1>2 DEF RingTypeOK
  <2>3. decoder' \in [at : {"idle", "record", "packet"}, head : Nat, tail : Nat, it : Nat]
    BY <1>0, <1>2 DEF RingTypeOK
  <2> QED BY <1>3, <1>4, <2>1, <2>2, <2>3 DEF RingTypeOK
<1>7. /\ Len(posted) = n /\ Len(posted') = n + 1 /\ posted'[n + 1] = record
      /\ \A k \in 1 .. n : posted'[k] = posted[k]
  BY <1>4, <1>n
<1>8. /\ \A m \in 1 .. n + 1 : Pos(m)' = Pos(m)
      /\ Pos(n + 1) = data_head /\ Pos(n + 2)' = data_head + record.words
  <2>1. \A m \in 1 .. n : Pos(m)' = Pos(m)
    BY <1>1, <1>7 DEF Pos
  <2>2. Pos(n + 1) = data_head /\ Pos(n + 1)' = data_head
    BY <1>1, <1>2, <1>7 DEF Pos
  <2>3. Pos(n + 2)' = data_head + record.words
    BY <1>1, <1>2, <1>7 DEF Pos
  <2> QED BY <1>1, <2>1, <2>2, <2>3
<1>9. RecordsInv'
  <2>0. /\ \A k \in 1 .. n :
             /\ Pos(k + 1) = posted[k].start + posted[k].words
             /\ posted[k].type # "OTHER" => posted[k].words >= 4
        /\ \A j, k \in 1 .. n + 1 : j < k => Pos(j) < Pos(k)
        /\ \A k \in 1 .. n : Pos(k) \in Nat
    BY <1>0, <1>1, <1>5, <1>7 DEF RecordsInv, Pos
  <2>1. ASSUME NEW k \in 1 .. n + 1
        PROVE  /\ Pos(k + 1)' = posted'[k].start + posted'[k].words
               /\ posted'[k].type # "OTHER" => posted'[k].words >= 4
    <3>1. CASE k \in 1 .. n
      <4>1. Pos(k + 1)' = Pos(k + 1) /\ posted'[k] = posted[k]
        BY <1>1, <1>7, <1>8, <3>1
      <4> QED BY <2>0, <3>1, <4>1
    <3>2. CASE k = n + 1
      <4>1. posted'[k] = record /\ Pos(k + 1)' = data_head + record.words
        BY <1>1, <1>7, <1>8, <3>2
      <4> QED BY <1>2, <4>1
    <3> QED BY <1>1, <3>1, <3>2
  <2>2. ASSUME NEW j \in 1 .. n + 2, NEW k \in 1 .. n + 2, j < k
        PROVE  Pos(j)' < Pos(k)'
    <3>1. CASE k \in 1 .. n + 1
      <4>1. j \in 1 .. n + 1 /\ Pos(j) < Pos(k)
        BY <1>1, <2>0, <2>2, <3>1
      <4> QED BY <1>8, <3>1, <4>1
    <3>2. CASE k = n + 2 /\ j = n + 1
      <4>1. Pos(j)' = data_head /\ Pos(k)' = data_head + record.words
        BY <1>1, <1>8, <3>2
      <4> QED BY <1>1, <1>2, <4>1
    <3>3. CASE k = n + 2 /\ j \in 1 .. n
      <4>1. Pos(j) < data_head /\ Pos(j) \in Nat
        BY <1>1, <1>8, <2>0, <3>3
      <4>2. Pos(j)' = Pos(j) /\ Pos(k)' = data_head + record.words
        BY <1>1, <1>8, <3>3
      <4> QED BY <1>1, <1>2, <4>1, <4>2
    <3> QED BY <1>1, <2>2, <3>1, <3>2, <3>3
  <2> QED BY <1>1, <1>7, <2>1, <2>2 DEF RecordsInv
<1>10. DecoderInv'
  <2>1. Len(got') = Len(got) /\ Len(got) <= n /\ decoder' = decoder /\ data_tail' = data_tail
    BY <1>0, <1>2, <1>7 DEF DecoderInv
  <2>2. /\ Pos(Len(got) + 1)' = Pos(Len(got) + 1)
        /\ Len(got) > 0 => Pos(Len(got))' = Pos(Len(got))
    BY <1>1, <1>8, <2>1
  <2>3. ASSUME NEW m \in Len(got) + 1 .. n + 1
        PROVE  m \in Len(got) + 1 .. n + 2 /\ Pos(m)' = Pos(m)
    BY <1>1, <1>8
  <2> QED BY <1>0, <1>1, <1>2, <1>7, <2>1, <2>2, <2>3 DEF DecoderInv
<1>11. /\ \A e : Header(e)' <=> Header(e)
       /\ \A e : Boundary(e)' <=> Boundary(e)
  BY <1>2 DEF Boundary, Header
<1>12. AuxInv'
  <2>1. Boundary(announced)' /\ aux_tail' <= announced'
    BY <1>0, <1>1, <1>2 DEF AuxInv, Boundary, Header, Writes
  <2> QED BY <1>0, <1>2, <1>11, <2>1 DEF AuxInv
<1>13. Unread' = Unread /\ Unread \in Nat /\ Unread <= n + 1 /\ Unread > 0
  BY <1>0, <1>1, <1>2, <1>7 DEF Unread, DecoderInv
<1>14. AnnouncedInv'
  <2>1. /\ Boundary(record.aux_offset) /\ Boundary(record.aux_offset + record.aux_size)
        /\ record.aux_offset + record.aux_size = announced'
    BY <1>0, <1>2 DEF AuxInv, Writes
  <2>2. ASSUME NEW k \in Unread .. n
        PROVE  /\ posted'[k] = posted[k]
               /\ Boundary(posted[k].aux_offset)
               /\ Boundary(posted[k].aux_offset + posted[k].aux_size)
               /\ posted[k].aux_offset \in Nat /\ posted[k].aux_size \in Nat
               /\ posted[k].aux_offset + posted[k].aux_size <= announced
    BY <1>0, <1>1, <1>5, <1>7, <1>13 DEF AnnouncedInv
  <2>3. ASSUME NEW k \in Unread .. n + 1
        PROVE  /\ Boundary(posted[k].aux_offset)'
               /\ Boundary(posted[k].aux_offset + posted[k].aux_size)'
               /\ posted'[k].aux_offset + posted'[k].aux_size <= announced'
    <3>1. k = n + 1 \/ k \in Unread .. n
      BY <1>1, <1>13
    <3>2. PICK e, f : e = posted'[k].aux_offset /\ f = posted'[k].aux_offset + posted'[k].aux_size
      OBVIOUS
    <3>3. Boundary(e) /\ Boundary(f) /\ f <= announced'
      <4>1. CASE k = n + 1
        BY <1>1, <1>2, <1>7, <2>1, <3>2, <4>1
      <4>2. CASE k \in Unread .. n
        <5>1. e = posted[k].aux_offset /\ f = posted[k].aux_offset + posted[k].aux_size
          BY <2>2, <3>2, <4>2
        <5>2. Boundary(e) /\ Boundary(f) /\ f <= announced /\ f \in Nat
          BY <2>2, <4>2, <5>1
        <5>3. announced \in Nat /\ announced' \in Nat /\ announced <= announced'
          BY <1>1, <1>2
        <5> QED BY <5>2, <5>3
      <4> QED BY <3>1, <4>1, <4>2
    <3>4. Boundary(e)' /\ Boundary(f)'
      BY <1>11, <3>3
    <3> QED BY <3>2, <3>3, <3>4 DEF Boundary, Header
  <2>4. ASSUME NEW j \in Unread .. n + 1, NEW k \in Unread .. n + 1, j < k
        PROVE  posted'[j].aux_offset + posted'[j].aux_size <= posted'[k].aux_offset
    <3>1. j \in Unread .. n /\ (k = n + 1 \/ k \in Unread .. n)
      BY <1>1, <1>13, <2>4
    <3>2. CASE k = n + 1
      BY <1>1, <1>2, <1>7, <2>2, <3>1, <3>2
    <3>3. CASE k \in Unread .. n
      BY <1>0, <1>7, <2>2, <2>4, <3>1, <3>3 DEF AnnouncedInv
    <3> QED BY <3>1, <3>2, <3>3
  <2>5. decoder.at = "packet" => posted'[Len(got)] = posted[Len(got)]
    BY <1>0, <1>1, <1>7 DEF DecoderInv
  <2>6. decoder'.at = "packet" =>
          /\ decoder'.it <= posted'[Len(got')].aux_size
          /\ Boundary(posted[Len(got)].aux_offset + decoder.it)'
    BY <1>0, <1>2, <2>5 DEF AnnouncedInv, Boundary, Header
  <2> QED BY <1>7, <1>13, <2>3, <2>4, <2>6 DEF AnnouncedInv
<1>15. SpaceInv'
  <2>1. PICK total \in [1 .. n + 1 -> Int] : Totals(total)
    BY <1>0, <1>7 DEF SpaceInv
  <2>0. PICK last \in Nat : last = announced'
    BY <1>1, <1>2
  <2> DEFINE next == [k \in 1 .. n + 2 |-> IF k <= n + 1 THEN total[k] ELSE last]
  <2>2. next \in [1 .. Len(posted') + 1 -> Int] /\ next[n + 2] = announced'
    BY <1>7, <2>0
  <2>3. \A k \in 1 .. n + 1 : next[k] = total[k]
    BY <1>1
  <2> HIDE DEF next
  <2>4. Totals(next)'
    <3>1. next[Unread'] = aux_tail' + leaked' /\ next[Len(posted') + 1] = announced'
      BY <1>1, <1>2, <1>7, <1>13, <2>1, <2>2, <2>3 DEF Totals
    <3>2. ASSUME NEW k \in Unread .. n PROVE next[k + 1] = next[k] + posted'[k].aux_size
      <4>1. k \in 1 .. n /\ k \in 1 .. n + 1 /\ k + 1 \in 1 .. n + 1
        BY <1>1, <1>7, <1>13
      <4>2. total[k + 1] = total[k] + posted[k].aux_size
        BY <1>7, <2>1 DEF Totals
      <4>3. posted'[k] = posted[k]
        BY <1>7, <4>1
      <4> QED BY <2>3, <4>1, <4>2, <4>3
    <3>3. next[n + 2] = next[n + 1] + posted'[n + 1].aux_size
      BY <1>1, <1>2, <1>7, <2>1, <2>2, <2>3 DEF Totals
    <3>4. ASSUME NEW k \in Unread' .. Len(posted')
          PROVE  next[k + 1] = next[k] + posted'[k].aux_size
      <4>1. k = n + 1 \/ k \in Unread .. n
        BY <1>1, <1>7, <1>13
      <4>2. CASE k = n + 1
        <5>1. k + 1 = n + 2
          BY <1>1, <1>7, <4>2
        <5> QED BY <3>3, <4>2, <5>1
      <4> QED BY <3>2, <4>1, <4>2
    <3> QED BY <3>1, <3>4 DEF Totals
  <2> QED BY <2>2, <2>4 DEF SpaceInv
<1> QED BY <1>3, <1>6, <1>9, <1>10, <1>12, <1>14, <1>15 DEF IInv

LEMMA PostAuxStep ==
    ASSUME IInv, NEW flags \in {"none", "TRUNCATED"}, PostAux(flags)
    PROVE  IInv'
<1> DEFINE record ==
      [type |-> "AUX", start |-> data_head, words |-> AuxWords, flags |-> flags,
       aux_offset |-> announced, aux_size |-> aux_head - announced]
<1>1. /\ data_head \in Nat /\ announced \in Nat /\ aux_head \in Nat /\ aux_tail \in Nat
      /\ aux_tail <= announced /\ announced <= aux_head
  BY DEF IInv, RingTypeOK, AuxInv, Boundary
<1>2. record \in RecordType
  BY <1>1, RingAssumption DEF RecordType
<1>3. Boundary(aux_head)
  BY <1>1 DEF Boundary
<1>4. announced + (aux_head - announced) = aux_head
  BY <1>1
<1>5. Output(record) /\ announced' = aux_head /\ leaked' = leaked
  BY DEF PostAux
<1>6. Writes(record)
  BY <1>2, <1>3, <1>4, <1>5, RingAssumption DEF Writes
<1> HIDE DEF record
<1> QED BY <1>6, OutputStep

LEMMA PostSampleStep ==
    ASSUME IInv, PostSample
    PROVE  IInv'
<1> DEFINE record ==
      [type |-> "SAMPLE", start |-> data_head, words |-> 4, flags |-> "none",
       aux_offset |-> announced, aux_size |-> 0]
<1>1. data_head \in Nat /\ announced \in Nat /\ Boundary(announced)
  BY DEF IInv, RingTypeOK, AuxInv
<1>2. record \in RecordType
  BY <1>1, RingAssumption DEF RecordType
<1>3. announced + 0 = announced
  BY <1>1
<1>4. Output(record) /\ announced' = announced /\ leaked' = leaked
  BY DEF PostSample
<1>5. Writes(record)
  BY <1>1, <1>2, <1>3, <1>4 DEF Writes
<1> HIDE DEF record
<1> QED BY <1>5, OutputStep

LEMMA PostOtherStep ==
    ASSUME IInv, NEW words \in OtherWords, PostOther(words)
    PROVE  IInv'
<1> DEFINE record ==
      [type |-> "OTHER", start |-> data_head, words |-> words, flags |-> "none",
       aux_offset |-> announced, aux_size |-> 0]
<1>1. data_head \in Nat /\ announced \in Nat /\ Boundary(announced)
  BY DEF IInv, RingTypeOK, AuxInv
<1>2. record \in RecordType
  BY <1>1, RingAssumption DEF RecordType
<1>3. announced + 0 = announced
  BY <1>1
<1>4. Output(record) /\ announced' = announced /\ leaked' = leaked
  BY DEF PostOther
<1>5. Writes(record)
  BY <1>1, <1>2, <1>3, <1>4 DEF Writes
<1> HIDE DEF record
<1> QED BY <1>5, OutputStep

\* The packet fills cells that nobody needs any more.
LEMMA WritePacketCells ==
    ASSUME RingTypeOK, AuxInv, NEW len \in PacketSizes, WritePacket(len)
    PROVE  /\ aux' \in [AuxCells -> PacketType]
           /\ \A p \in aux_tail .. aux_head - 1 : aux'[p % AuxSize] = aux[p % AuxSize]
           /\ \A j \in 0 .. len - 1 : aux'[(aux_head + j) % AuxSize]
                                        = [pos |-> aux_head + j, len |-> IF j = 0 THEN len ELSE 0]
<1> DEFINE h == aux_head
           c == aux_head % AuxSize
<1>1. h \in Nat /\ aux_tail \in Nat /\ AuxSize \in Nat \ {0} /\ len \in Nat \ {0}
      /\ aux \in [AuxCells -> PacketType]
  BY RingAssumption DEF RingTypeOK
<1>2. c \in 0 .. AuxSize - 1 /\ c + len <= AuxSize /\ h + len - aux_tail <= AuxSize
  BY <1>1, ModRange DEF WritePacket
<1>3. aux' = [i \in AuxCells |->
                IF i - c \in 0 .. len - 1
                THEN [pos |-> h + (i - c), len |-> IF i = c THEN len ELSE 0]
                ELSE aux[i]]
  BY DEF WritePacket
<1>4. ASSUME NEW j \in 0 .. len - 1 PROVE (h + j) % AuxSize = c + j /\ c + j \in AuxCells
  <2>1. c + j < AuxSize
    <3> HIDE DEF c, h
    <3> QED BY <1>1, <1>2
  <2>2. (h + j) % AuxSize = c + j
    <3>1. h \in Int /\ j \in Nat /\ AuxSize \in Nat \ {0} /\ (h % AuxSize) + j < AuxSize
      BY <1>1, <2>1
    <3>2. c = h % AuxSize
      OBVIOUS
    <3> HIDE DEF h, c
    <3> QED BY <3>1, <3>2, StraightOn
  <2> HIDE DEF c, h
  <2> QED BY <1>1, <1>2, <2>1, <2>2 DEF AuxCells
<1>5. ASSUME NEW p \in aux_tail .. aux_head - 1 PROVE aux'[p % AuxSize] = aux[p % AuxSize]
  <2>1. p \in Int /\ aux_tail <= p /\ p < h /\ p % AuxSize \in AuxCells
    <3>1. p \in Int /\ aux_tail <= p /\ p < h
      BY <1>1
    <3>2. p % AuxSize \in AuxCells
      BY <1>1, <3>1, ModRange DEF AuxCells
    <3> QED BY <3>1, <3>2
  <2>2. ASSUME (p % AuxSize) - c \in 0 .. len - 1 PROVE FALSE
    <3> DEFINE r == p % AuxSize
               j == r - c
               b == h + j
    <3>1. r = c + j
      <4>1. r \in Int /\ c \in Int
        BY <1>2, <2>1 DEF AuxCells
      <4> HIDE DEF r, c
      <4> QED BY <4>1
    <3>2. j \in 0 .. len - 1
      BY <2>2
    <3>3. b % AuxSize = r
      <4> HIDE DEF c, h, j, r
      <4> QED BY <1>4, <3>1, <3>2
    <3>4. b \in Int /\ b # p /\ b - p < AuxSize /\ p - b < AuxSize
      <4>1. p \in Int /\ aux_tail <= p /\ p < h
        BY <2>1
      <4>2. h + len - aux_tail <= AuxSize
        BY <1>2
      <4> HIDE DEF j, h
      <4> QED BY <1>1, <3>2, <4>1, <4>2
    <3> HIDE DEF b
    <3> QED BY <1>1, <2>1, <3>3, <3>4, OneLap
  <2> DEFINE r == p % AuxSize
  <2>3. r \in AuxCells /\ r - c \notin 0 .. len - 1
    BY <2>1, <2>2
  <2> HIDE DEF r, c, h
  <2>4. aux'[r] = aux[r]
    BY <1>3, <2>3
  <2> QED BY <2>4 DEF r
<1>6. ASSUME NEW j \in 0 .. len - 1
      PROVE  aux'[(aux_head + j) % AuxSize]
               = [pos |-> aux_head + j, len |-> IF j = 0 THEN len ELSE 0]
  <2>1. (c + j) - c = j /\ (c + j = c <=> j = 0)
    <3> HIDE DEF c
    <3> QED BY <1>1, <1>2
  <2>2. aux'[c + j] = [pos |-> h + j, len |-> IF j = 0 THEN len ELSE 0]
    <3> HIDE DEF c, h
    <3> QED BY <1>3, <1>4, <2>1
  <2> QED BY <1>4, <2>2
<1>7. aux' \in [AuxCells -> PacketType]
  <2>1. AuxCells \subseteq Int
    BY <1>1 DEF AuxCells
  <2> HIDE DEF c, h
  <2> QED BY <1>1, <1>2, <1>3, <2>1 DEF PacketType
<1> QED BY <1>5, <1>6, <1>7

\* Steps that leave the data area, the records and the decoder alone.
LEMMA DataFrame ==
    ASSUME IInv, UNCHANGED <<data_head, data_tail, data, posted, got, decoder>>
    PROVE  DataInv' /\ RecordsInv' /\ DecoderInv' /\ Unread' = Unread
<1>1. DataInv /\ RecordsInv /\ DecoderInv
  BY DEF IInv
<1>2. DataInv'
  BY <1>1 DEF DataInv
<1>3. \A m : Pos(m)' = Pos(m)
  BY DEF Pos
<1>4. RecordsInv'
  BY <1>1, <1>3 DEF RecordsInv, Pos
<1>5. DecoderInv'
  BY <1>1, <1>3 DEF DecoderInv, Pos
<1>6. Unread' = Unread
  BY DEF Unread
<1> QED BY <1>2, <1>4, <1>5, <1>6

\* Boundaries that stay boundaries keep the announcements.
LEMMA AnnouncedFrame ==
    ASSUME IInv, UNCHANGED <<posted, got, decoder>>, announced \in Nat, announced' \in Nat,
           announced <= announced', \A e : Boundary(e) => Boundary(e)'
    PROVE  AnnouncedInv'
<1>1. AnnouncedInv /\ DecoderInv
  BY DEF IInv
<1>2. Unread' = Unread
  BY DEF Unread
<1>3. PICK n \in Nat : n = Len(posted) /\ n = Len(posted')
  BY DEF IInv, RingTypeOK
<1>4. Unread \in Nat /\ Unread > 0
  BY DEF Unread, IInv, DecoderInv, RingTypeOK
<1>5. ASSUME NEW k \in Unread .. n
      PROVE  /\ Boundary(posted[k].aux_offset)'
             /\ Boundary(posted[k].aux_offset + posted[k].aux_size)'
             /\ posted[k].aux_offset + posted[k].aux_size <= announced'
  <2>1. PICK e, f : e = posted[k].aux_offset /\ f = posted[k].aux_offset + posted[k].aux_size
    OBVIOUS
  <2>2. Boundary(e) /\ Boundary(f) /\ f <= announced
    BY <1>1, <1>3, <2>1 DEF AnnouncedInv
  <2>3. f \in Nat
    <3>1. posted[k] \in RecordType
      BY <1>3, <1>4 DEF IInv, RingTypeOK
    <3> QED BY <2>1, <3>1 DEF RecordType
  <2>4. Boundary(e)' /\ Boundary(f)' /\ f <= announced'
    BY <2>2, <2>3
  <2> QED BY <2>1, <2>4 DEF Boundary, Header
<1>6. decoder.at = "packet" => Boundary(posted[Len(got)].aux_offset + decoder.it)'
  <2>1. PICK e : e = posted[Len(got)].aux_offset + decoder.it
    OBVIOUS
  <2>2. decoder.at = "packet" => Boundary(e)'
    BY <1>1, <2>1 DEF AnnouncedInv
  <2> QED BY <2>1, <2>2 DEF Boundary, Header
<1>7. \A k \in Unread' .. Len(posted') :
        /\ Boundary(posted[k].aux_offset)'
        /\ Boundary(posted[k].aux_offset + posted[k].aux_size)'
        /\ posted'[k].aux_offset + posted'[k].aux_size <= announced'
  BY <1>2, <1>3, <1>5
<1>8. \A j, k \in Unread' .. Len(posted') :
        j < k => posted'[j].aux_offset + posted'[j].aux_size <= posted'[k].aux_offset
  BY <1>1, <1>2 DEF AnnouncedInv
<1>9. decoder'.at = "packet" => decoder'.it <= posted'[Len(got')].aux_size
  BY <1>1 DEF AnnouncedInv
<1> QED BY <1>6, <1>7, <1>8, <1>9 DEF AnnouncedInv

LEMMA WritePacketStep ==
    ASSUME IInv, NEW len \in PacketSizes, WritePacket(len)
    PROVE  IInv'
<1>0. RingTypeOK /\ AuxInv /\ SpaceInv
  BY DEF IInv
<1>1. /\ UNCHANGED <<data_head, data_tail, data, posted, got, decoder>>
      /\ UNCHANGED <<aux_tail, announced, leaked>>
      /\ aux_head' = aux_head + len /\ aux_head + len - aux_tail <= AuxSize
      /\ (aux_head % AuxSize) + len <= AuxSize
  BY DEF WritePacket, pageVars
<1>2. /\ aux_head \in Nat /\ aux_tail \in Nat /\ announced \in Nat /\ len \in Nat \ {0}
      /\ AuxSize \in Nat \ {0}
  BY <1>0, RingAssumption DEF RingTypeOK
<1>3. /\ aux' \in [AuxCells -> PacketType]
      /\ \A p \in aux_tail .. aux_head - 1 : aux'[p % AuxSize] = aux[p % AuxSize]
      /\ \A j \in 0 .. len - 1 : aux'[(aux_head + j) % AuxSize]
                                   = [pos |-> aux_head + j, len |-> IF j = 0 THEN len ELSE 0]
  BY <1>0, WritePacketCells
<1>4. RingTypeOK'
  <2>1. /\ data_head' \in Nat /\ announced' \in Nat /\ leaked' \in Nat
        /\ aux_tail' \in Nat /\ aux_head' \in Nat /\ data_tail' \in Nat
    BY <1>0, <1>1, <1>2 DEF RingTypeOK
  <2>2. data' \in [DataCells -> Int] /\ posted' \in Seq(RecordType) /\ got' \in Seq(Nat)
    BY <1>0, <1>1 DEF RingTypeOK
  <2>3. decoder' \in [at : {"idle", "record", "packet"}, head : Nat, tail : Nat, it : Nat]
    BY <1>0, <1>1 DEF RingTypeOK
  <2> QED BY <1>3, <2>1, <2>2, <2>3 DEF RingTypeOK
<1>5. DataInv' /\ RecordsInv' /\ DecoderInv' /\ Unread' = Unread
  BY <1>1, DataFrame
<1> DEFINE size(p) == aux[p % AuxSize].len
           size1(p) == aux'[p % AuxSize].len
<1>6. \A p \in aux_tail .. aux_head - 1 : size1(p) = size(p) /\ aux'[p % AuxSize].pos = aux[p % AuxSize].pos
  BY <1>3
<1>7. ASSUME NEW p \in aux_head .. aux_head' - 1
      PROVE  /\ size1(p) = (IF p = aux_head THEN len ELSE 0) /\ aux'[p % AuxSize].pos = p
  <2>1. p - aux_head \in 0 .. len - 1 /\ aux_head + (p - aux_head) = p
        /\ (p - aux_head = 0 <=> p = aux_head)
    BY <1>1, <1>2
  <2>2. aux'[p % AuxSize]
          = [pos |-> p, len |-> IF p - aux_head = 0 THEN len ELSE 0]
    BY <1>3, <2>1
  <2> QED BY <2>1, <2>2
<1>8. /\ \A p : Header(p) <=> size(p) > 0
      /\ \A p : Header(p)' <=> size1(p) > 0
  BY DEF Header
<1>9. \A e : Boundary(e) => Boundary(e)'
  <2> SUFFICES ASSUME NEW e, Boundary(e) PROVE Boundary(e)'
    OBVIOUS
  <2>1. e \in aux_tail .. aux_head /\ (e = aux_head \/ size(e) > 0)
    BY <1>8 DEF Boundary
  <2>2. e \in aux_tail' .. aux_head' /\ size1(e) > 0
    <3> HIDE DEF size, size1
    <3>1. CASE e = aux_head
      <4>1. e \in aux_head .. aux_head' - 1
        BY <1>1, <1>2, <3>1
      <4> QED BY <1>1, <1>2, <1>7, <2>1, <3>1, <4>1
    <3>2. CASE e \in aux_tail .. aux_head - 1
      BY <1>1, <1>2, <1>6, <2>1, <3>2
    <3> QED BY <1>2, <2>1, <3>1, <3>2
  <2> QED BY <1>8, <2>2 DEF Boundary
<1>10. AuxInv'
  <2> HIDE DEF size, size1
  <2>1. aux_tail' <= announced' /\ aux_head' - aux_tail' <= AuxSize
    <3>1. aux_tail <= announced
      BY <1>0 DEF AuxInv
    <3>2. aux_head' = aux_head + len /\ aux_tail' = aux_tail /\ announced' = announced
          /\ aux_head + len - aux_tail <= AuxSize
      BY <1>1
    <3> QED BY <1>2, <3>1, <3>2
  <2>2. Boundary(announced)'
    BY <1>0, <1>1, <1>9 DEF AuxInv, Boundary, Header
  <2>3. \A p \in aux_tail' .. aux_head' - 1 : aux'[p % AuxSize].pos = p
    <3>1. ASSUME NEW p \in aux_tail' .. aux_head' - 1 PROVE aux'[p % AuxSize].pos = p
      <4>1. p \in aux_tail .. aux_head - 1 \/ p \in aux_head .. aux_head' - 1
        BY <1>1, <1>2
      <4> QED BY <1>0, <1>6, <1>7, <4>1 DEF AuxInv
    <3> QED BY <3>1
  <2>4. ASSUME NEW p \in aux_tail' .. aux_head' - 1, size1(p) > 0
        PROVE  /\ (p % AuxSize) + size1(p) <= AuxSize
               /\ p + size1(p) <= aux_head'
               /\ \A q \in p + 1 .. p + size1(p) - 1 : ~(size1(q) > 0)
               /\ p + size1(p) = aux_head' \/ size1(p + size1(p)) > 0
    <3>1. CASE p \in aux_head .. aux_head' - 1
      <4>1. p = aux_head /\ size1(p) = len
        BY <1>7, <2>4, <3>1
      <4>2. \A q \in p + 1 .. p + size1(p) - 1 : ~(size1(q) > 0)
        BY <1>1, <1>2, <1>7, <4>1
      <4> QED BY <1>1, <4>1, <4>2
    <3>2. CASE p \in aux_tail .. aux_head - 1
      <4>1. size1(p) = size(p) /\ size(p) > 0
        BY <1>6, <2>4, <3>2
      <4>2. /\ (p % AuxSize) + size(p) <= AuxSize /\ p + size(p) <= aux_head
            /\ \A q \in p + 1 .. p + size(p) - 1 : ~(size(q) > 0)
            /\ p + size(p) = aux_head \/ size(p + size(p)) > 0
        BY <1>0, <1>8, <3>2, <4>1 DEF AuxInv, size
      <4>3. size(p) \in Nat
        <5>1. p % AuxSize \in AuxCells
          BY <1>2, <3>2, ModRange DEF AuxCells
        <5> QED BY <1>0, <5>1 DEF RingTypeOK, PacketType, size
      <4>4. \A q \in p + 1 .. p + size(p) - 1 : q \in aux_tail .. aux_head - 1
        BY <1>2, <3>2, <4>2, <4>3
      <4>5. \A q \in p + 1 .. p + size(p) - 1 : ~(size1(q) > 0)
        BY <1>6, <4>2, <4>4
      <4>6. size1(p + size(p)) > 0
        <5>1. CASE p + size(p) = aux_head
          BY <1>1, <1>2, <1>7, <5>1
        <5>2. CASE p + size(p) \in aux_tail .. aux_head - 1
          BY <1>2, <1>6, <4>2, <5>2
        <5> QED BY <1>2, <3>2, <4>2, <4>3, <5>1, <5>2
      <4>7. p + size(p) <= aux_head'
        BY <1>1, <1>2, <3>2, <4>2, <4>3
      <4> QED BY <4>1, <4>2, <4>5, <4>6, <4>7
    <3> QED BY <1>1, <1>2, <3>1, <3>2
  <2> QED BY <1>8, <2>1, <2>2, <2>3, <2>4 DEF AuxInv, size1
<1>11. AnnouncedInv'
  BY <1>1, <1>2, <1>9, AnnouncedFrame
<1>12. SpaceInv'
  BY <1>0, <1>1, <1>5 DEF SpaceInv, Totals
<1> QED BY <1>4, <1>5, <1>10, <1>11, <1>12 DEF IInv

LEMMA LoseAuxStep ==
    ASSUME IInv, LoseAux
    PROVE  IInv'
<1>0. RingTypeOK /\ AuxInv /\ SpaceInv /\ DecoderInv
  BY DEF IInv
<1>1. /\ UNCHANGED <<data_head, data_tail, data, posted, got, decoder>>
      /\ UNCHANGED <<aux_tail, aux_head, aux>>
      /\ announced' = aux_head /\ leaked' = leaked + (aux_head - announced)
      /\ announced < aux_head
  BY DEF LoseAux, pageVars
<1>2. aux_head \in Nat /\ aux_tail \in Nat /\ announced \in Nat /\ leaked \in Nat
  BY <1>0 DEF RingTypeOK
<1>3. RingTypeOK'
  <2>1. /\ data_head' \in Nat /\ announced' \in Nat /\ leaked' \in Nat
        /\ aux_tail' \in Nat /\ aux_head' \in Nat /\ data_tail' \in Nat
    BY <1>0, <1>1, <1>2 DEF RingTypeOK
  <2>2. data' \in [DataCells -> Int] /\ posted' \in Seq(RecordType) /\ got' \in Seq(Nat)
        /\ aux' \in [AuxCells -> PacketType]
    BY <1>0, <1>1 DEF RingTypeOK
  <2>3. decoder' \in [at : {"idle", "record", "packet"}, head : Nat, tail : Nat, it : Nat]
    BY <1>0, <1>1 DEF RingTypeOK
  <2> QED BY <2>1, <2>2, <2>3 DEF RingTypeOK
<1>4. DataInv' /\ RecordsInv' /\ DecoderInv' /\ Unread' = Unread
  BY <1>1, DataFrame
<1>5. /\ \A e : Header(e)' <=> Header(e)
      /\ \A e : Boundary(e)' <=> Boundary(e)
  BY <1>1 DEF Boundary, Header
<1>6. AuxInv'
  <2>1. aux_tail <= announced /\ aux_head - aux_tail <= AuxSize
    BY <1>0 DEF AuxInv
  <2>2. aux_tail' <= announced' /\ Boundary(announced)'
    BY <1>1, <1>2, <2>1 DEF Boundary, Header
  <2> QED BY <1>0, <1>1, <1>5, <2>2 DEF AuxInv
<1>7. AnnouncedInv'
  BY <1>1, <1>2, <1>5, AnnouncedFrame
<1>8. SpaceInv'
  <2>1. PICK n \in Nat : n = Len(posted) /\ n = Len(posted')
    BY <1>0, <1>1 DEF RingTypeOK
  <2>2. PICK total \in [1 .. n + 1 -> Int] : Totals(total)
    BY <1>0, <2>1 DEF SpaceInv
  <2>3. PICK d \in Int : d = aux_head - announced
    BY <1>2
  <2>4. Unread \in 1 .. n + 1
    BY <1>0, <2>1 DEF Unread, DecoderInv, RingTypeOK
  <2> DEFINE next == [k \in 1 .. n + 1 |-> total[k] + d]
  <2>5. next \in [1 .. n + 1 -> Int] /\ \A k \in 1 .. n + 1 : next[k] = total[k] + d
    OBVIOUS
  <2> HIDE DEF next
  <2>6. next[Unread'] = aux_tail' + leaked' /\ next[Len(posted') + 1] = announced'
    BY <1>1, <1>2, <1>4, <2>1, <2>2, <2>3, <2>4, <2>5 DEF Totals
  <2>7. ASSUME NEW k \in Unread' .. Len(posted')
        PROVE  next[k + 1] = next[k] + posted'[k].aux_size
    <3>1. k \in 1 .. n + 1 /\ k + 1 \in 1 .. n + 1 /\ k \in Unread .. n
      BY <1>4, <2>1, <2>4
    <3>2. posted[k].aux_size \in Nat /\ posted'[k] = posted[k]
      BY <1>1, <2>1, <2>4, <3>1, Facts
    <3>3. total[k + 1] = total[k] + posted[k].aux_size
      BY <2>1, <2>2, <3>1 DEF Totals
    <3>4. next[k] = total[k] + d /\ next[k + 1] = total[k + 1] + d /\ total[k] \in Int
      BY <2>2, <2>5, <3>1
    <3> QED BY <2>3, <3>2, <3>3, <3>4
  <2>8. Totals(next)'
    BY <2>6, <2>7 DEF Totals
  <2> QED BY <2>1, <2>5, <2>8 DEF SpaceInv
<1> QED BY <1>3, <1>4, <1>6, <1>7, <1>8 DEF IInv

-------------------------------------------------------------------------------
(* The steps of process_samples_locked *)

LEMMA RestStep ==
    ASSUME IInv, UNCHANGED <<pageVars, kernelVars, got, decoder, leaked>>
    PROVE  IInv'
<1>0. RingTypeOK /\ AuxInv /\ AnnouncedInv /\ SpaceInv
  BY DEF IInv
<1>1. /\ UNCHANGED <<data_head, data_tail, data, posted, got, decoder>>
      /\ UNCHANGED <<aux_tail, aux_head, aux, announced, leaked>>
  BY DEF pageVars, kernelVars
<1>2. RingTypeOK'
  BY <1>0, <1>1 DEF RingTypeOK
<1>3. DataInv' /\ RecordsInv' /\ DecoderInv' /\ Unread' = Unread
  BY <1>1, DataFrame
<1>4. AuxInv'
  BY <1>0, <1>1 DEF AuxInv, Boundary, Header
<1>5. AnnouncedInv'
  BY <1>0, <1>1, <1>3 DEF AnnouncedInv, Boundary, Header
<1>6. SpaceInv'
  BY <1>0, <1>1, <1>3 DEF SpaceInv, Totals
<1> QED BY <1>2, <1>3, <1>4, <1>5, <1>6 DEF IInv

\* Nothing is written before the first window.
WindowInv == window \/ posted = <<>>

LEMMA DiscardStep ==
    ASSUME IInv, WindowInv, Discard
    PROVE  IInv'
<1>1. posted = <<>> /\ Len(posted) = 0
  BY DEF WindowInv, Discard
<1>2. Len(got) = 0
  BY <1>1, Facts
<1>3. data_tail = Pos(1)
  BY <1>2 DEF IInv, DecoderInv, Discard
<1>4. Pos(1) = data_head
  BY <1>1, Facts
<1>5. UNCHANGED <<pageVars, kernelVars, got, decoder, leaked>>
  BY <1>3, <1>4 DEF Discard, pageVars
<1> QED BY <1>5, RestStep

DecoderType == [at : {"idle", "record", "packet"}, head : Nat, tail : Nat, it : Nat]

\* Steps that change the decoder alone.
LEMMA KernelFrame ==
    ASSUME IInv, UNCHANGED <<pageVars, kernelVars>>,
           decoder' \in DecoderType, got' \in Seq(Nat), leaked' \in Nat
    PROVE  /\ RingTypeOK' /\ DataInv' /\ RecordsInv' /\ AuxInv'
           /\ \A m : Pos(m)' = Pos(m)
           /\ \A e : Boundary(e)' <=> Boundary(e)
<1>0. RingTypeOK /\ DataInv /\ RecordsInv /\ AuxInv
  BY DEF IInv
<1>1. /\ UNCHANGED <<data_head, data_tail, data, posted>>
      /\ UNCHANGED <<aux_tail, aux_head, aux, announced>>
  BY DEF pageVars, kernelVars
<1>2. RingTypeOK'
  <2>1. decoder' \in [at : {"idle", "record", "packet"}, head : Nat, tail : Nat, it : Nat]
    BY DEF DecoderType
  <2>2. /\ data_head' \in Nat /\ announced' \in Nat
        /\ aux_tail' \in Nat /\ aux_head' \in Nat /\ data_tail' \in Nat
    BY <1>0, <1>1 DEF RingTypeOK
  <2>3. data' \in [DataCells -> Int] /\ posted' \in Seq(RecordType)
        /\ aux' \in [AuxCells -> PacketType]
    BY <1>0, <1>1 DEF RingTypeOK
  <2> QED BY <2>1, <2>2, <2>3 DEF RingTypeOK
<1>3. \A m : Pos(m)' = Pos(m)
  BY <1>1 DEF Pos
<1>4. DataInv' /\ RecordsInv'
  BY <1>0, <1>1, <1>3 DEF DataInv, RecordsInv, Pos
<1>5. AuxInv'
  BY <1>0, <1>1 DEF AuxInv, Boundary, Header
<1>6. \A e : Boundary(e)' <=> Boundary(e)
  BY <1>1 DEF Boundary, Header
<1> QED BY <1>2, <1>3, <1>4, <1>5, <1>6

LEMMA BeginDrainStep ==
    ASSUME IInv, BeginDrain
    PROVE  IInv'
<1>0. DecoderInv /\ AnnouncedInv /\ SpaceInv /\ DataInv
  BY DEF IInv
<1>1. /\ decoder.at = "idle" /\ UNCHANGED <<pageVars, kernelVars, got, leaked>>
      /\ decoder' = [at |-> "record", head |-> data_head, tail |-> data_tail, it |-> 0]
  BY DEF BeginDrain
<1>2. /\ UNCHANGED <<data_head, data_tail, posted, got, leaked>>
      /\ UNCHANGED <<aux_tail, aux_head, aux, announced>>
  BY <1>1 DEF pageVars, kernelVars
<1>3. decoder' \in DecoderType
  BY <1>1, Facts DEF DecoderType
<1>4. got' \in Seq(Nat) /\ leaked' \in Nat
  BY <1>2 DEF IInv, RingTypeOK
<1>5. /\ RingTypeOK' /\ DataInv' /\ RecordsInv' /\ AuxInv'
      /\ \A m : Pos(m)' = Pos(m)
      /\ \A e : Boundary(e)' <=> Boundary(e)
  BY <1>1, <1>3, <1>4, KernelFrame
<1>6. Unread' = Unread /\ decoder'.at = "record" /\ decoder'.tail = data_tail
      /\ decoder'.head = data_head
  BY <1>1 DEF Unread
<1>7. DecoderInv'
  <2>1. data_tail = Pos(Len(got) + 1)
    BY <1>0, <1>1 DEF DecoderInv
  <2>2. decoder'.tail = Pos(Len(got) + 1)'
    BY <1>2, <1>6, <2>1 DEF Pos
  <2>3. Len(posted) + 1 \in Len(got) + 1 .. Len(posted) + 1
        /\ decoder'.head = Pos(Len(posted) + 1)
    BY <1>6, Facts
  <2>4. Len(posted') + 1 \in Len(got') + 1 .. Len(posted') + 1
        /\ decoder'.head = Pos(Len(posted) + 1)'
    BY <1>2, <2>3 DEF Pos
  <2>5. data_tail' <= decoder'.tail
    BY <1>2, <1>6, Facts
  <2> QED BY <1>0, <1>2, <1>6, <2>2, <2>4, <2>5 DEF DecoderInv
<1>8. AnnouncedInv'
  BY <1>0, <1>2, <1>6 DEF AnnouncedInv, Boundary, Header
<1>9. SpaceInv'
  BY <1>0, <1>2, <1>6 DEF SpaceInv, Totals
<1> QED BY <1>5, <1>7, <1>8, <1>9 DEF IInv

\* The record at the tail is the next one, and it is whole.
LEMMA NextIsWhole ==
    ASSUME IInv, decoder.at = "record", decoder.tail < decoder.head
    PROVE  /\ Len(got) + 1 \in 1 .. Len(posted)
           /\ \E m \in Len(got) + 2 .. Len(posted) + 1 : decoder.head = Pos(m)
           /\ WordAt(decoder.tail) = posted[Len(got) + 1].start
           /\ \A k \in 1 .. Len(posted) :
                WordAt(decoder.tail) = posted[k].start => k = Len(got) + 1
           /\ Whole(Len(got) + 1)
<1>0. RecordsInv /\ DecoderInv /\ DataInv
  BY DEF IInv
<1> DEFINE n == Len(posted)
           g == Len(got)
           t == decoder.tail
<1>1. /\ n \in Nat /\ g \in Nat /\ g <= n /\ t \in Nat /\ decoder.head \in Nat
      /\ data_tail \in Nat /\ data_head \in Nat
      /\ \A m \in 1 .. n + 1 : Pos(m) \in Nat
      /\ Pos(n + 1) = data_head
      /\ \A k \in 1 .. n : posted[k].start \in Nat /\ posted[k].words \in Nat
  BY Facts
<1>2. /\ t = Pos(g + 1) /\ data_tail <= t
      /\ \E m \in g + 1 .. n + 1 : decoder.head = Pos(m)
  BY <1>0 DEF DecoderInv
<1>3. /\ \A k \in 1 .. n : /\ Pos(k + 1) = posted[k].start + posted[k].words
                           /\ posted[k].type # "OTHER" => posted[k].words >= 4
      /\ \A j, k \in 1 .. n + 1 : j < k => Pos(j) < Pos(k)
  BY <1>0 DEF RecordsInv
<1>4. \A k \in 1 .. n : Pos(k) = posted[k].start
  BY <1>1 DEF Pos
<1>5. \A p \in data_tail .. data_head - 1 : WordAt(p) = p
  BY <1>0 DEF DataInv, WordAt
<1>6. t < decoder.head
  OBVIOUS
<1> HIDE DEF n, g, t
<1>7. PICK m \in g + 2 .. n + 1 : decoder.head = Pos(m)
  <2>1. PICK m \in g + 1 .. n + 1 : decoder.head = Pos(m)
    BY <1>2
  <2>2. m # g + 1
    BY <1>1, <1>2, <1>6, <2>1
  <2>3. m \in g + 2 .. n + 1
    BY <1>1, <2>1, <2>2
  <2> QED BY <2>1, <2>3
<1>8. g + 1 \in 1 .. n
  BY <1>1, <1>7
<1> DEFINE r == posted[g + 1]
<1>9. r.start = t /\ r.words \in Nat /\ t + r.words = Pos(g + 2) /\ t < Pos(g + 2)
  <2>1. g + 1 + 1 = g + 2 /\ g + 1 \in 1 .. n + 1 /\ g + 2 \in 1 .. n + 1 /\ g + 1 < g + 2
    BY <1>1, <1>8
  <2>2. Pos(g + 2) = r.start + r.words
    BY <1>3, <1>8, <2>1
  <2>3. Pos(g + 1) < Pos(g + 2)
    BY <1>3, <2>1
  <2> QED BY <1>1, <1>2, <1>4, <1>8, <2>2, <2>3
<1>10. Pos(g + 2) <= data_head /\ Pos(g + 2) \in Nat
  <2>1. g + 2 \in 1 .. n + 1 /\ n + 1 \in 1 .. n + 1
    BY <1>1, <1>8
  <2>2. g + 2 = n + 1 \/ g + 2 < n + 1
    BY <1>1, <2>1
  <2> QED BY <1>1, <1>3, <2>1, <2>2
<1>11. WordAt(t) = t
  <2>1. t \in data_tail .. data_head - 1
    BY <1>1, <1>2, <1>9, <1>10
  <2> QED BY <1>5, <2>1
<1>12. ASSUME NEW k \in 1 .. n, WordAt(t) = posted[k].start PROVE k = g + 1
  <2>1. Pos(k) = Pos(g + 1) /\ k \in 1 .. n + 1 /\ g + 1 \in 1 .. n + 1
    BY <1>1, <1>2, <1>4, <1>8, <1>11, <1>12
  <2>2. ~(k < g + 1) /\ ~(g + 1 < k)
    BY <1>1, <1>3, <2>1
  <2> QED BY <1>1, <2>2
<1>13. \A w \in WordsUsed(r) : WordAt(t + w) = r.start + w
  <2> SUFFICES ASSUME NEW w \in WordsUsed(r) PROVE WordAt(t + w) = r.start + w
    OBVIOUS
  <2>1. w \in Nat /\ w < r.words
    <3>1. CASE r.type \in {"AUX", "SAMPLE"}
      <4>1. r.words >= 4
        BY <1>3, <1>8, <3>1
      <4>2. w \in 0 .. 3
        BY <3>1 DEF WordsUsed
      <4> QED BY <1>9, <4>1, <4>2
    <3>2. CASE r.type \notin {"AUX", "SAMPLE"}
      <4>1. w = 0
        BY <3>2 DEF WordsUsed
      <4> HIDE DEF r
      <4> QED BY <1>1, <1>9, <1>10, <4>1
    <3> QED BY <3>1, <3>2
  <2>2. t + w \in data_tail .. data_head - 1
    <3> HIDE DEF r
    <3> QED BY <1>1, <1>2, <1>9, <1>10, <2>1
  <2> HIDE DEF r
  <2> QED BY <1>5, <1>9, <2>2
<1>14. Whole(g + 1)
  BY <1>13 DEF Whole, t
<1> QED BY <1>7, <1>8, <1>9, <1>11, <1>12, <1>14 DEF n, g, t

LEMMA DecoderToPacket ==
    ASSUME NEW d \in DecoderType
    PROVE  LET e == [d EXCEPT !.at = "packet", !.it = 0]
           IN  e \in DecoderType /\ e.at = "packet" /\ e.it = 0
               /\ e.head = d.head /\ e.tail = d.tail
  BY DEF DecoderType

LEMMA DecoderToRecord ==
    ASSUME NEW d \in DecoderType, NEW words \in Nat
    PROVE  LET e == [d EXCEPT !.at = "record", !.tail = @ + words]
           IN  e \in DecoderType /\ e.at = "record"
               /\ e.head = d.head /\ e.tail = d.tail + words
<1> DEFINE t == d.tail + words
           e == [d EXCEPT !.at = "record", !.tail = t]
<1>1. t \in Nat
  BY DEF DecoderType
<1> HIDE DEF t
<1>2. e \in DecoderType /\ e.at = "record" /\ e.head = d.head /\ e.tail = t
  BY <1>1 DEF DecoderType
<1>3. e = [d EXCEPT !.at = "record", !.tail = @ + words]
  BY DEF t, DecoderType
<1> QED BY <1>2, <1>3 DEF t

LEMMA ReadRecordStep ==
    ASSUME IInv, ReadRecord
    PROVE  IInv'
<1>0. DecoderInv /\ AnnouncedInv /\ SpaceInv /\ RecordsInv
  BY DEF IInv
<1>1. decoder.at = "record" /\ decoder.tail < decoder.head
      /\ UNCHANGED <<pageVars, kernelVars>>
  BY DEF ReadRecord
<1>2. /\ UNCHANGED <<data_head, data_tail, posted>>
      /\ UNCHANGED <<aux_tail, aux_head, aux, announced>>
  BY <1>1 DEF pageVars, kernelVars
<1>g. PICK g \in Nat : g = Len(got)
  BY Facts
<1>n. PICK n \in Nat : n = Len(posted) /\ n = Len(posted')
  BY <1>2, Facts
<1>3. /\ g + 1 \in 1 .. n
      /\ \E m \in g + 2 .. n + 1 : decoder.head = Pos(m)
      /\ WordAt(decoder.tail) = posted[g + 1].start
      /\ \A k \in 1 .. n : WordAt(decoder.tail) = posted[k].start => k = g + 1
      /\ Whole(g + 1)
  BY <1>1, <1>g, <1>n, NextIsWhole
<1> DEFINE r == posted[g + 1]
           aux_case == r.type = "AUX" /\ r.flags # "TRUNCATED"
<1>4. /\ got' = Append(got, g + 1)
      /\ IF aux_case
         THEN decoder' = [decoder EXCEPT !.at = "packet", !.it = 0] /\ leaked' = leaked
         ELSE /\ decoder' = [decoder EXCEPT !.at = "record", !.tail = @ + r.words]
              /\ leaked' = leaked + r.aux_size
  <2>1. DOMAIN posted = 1 .. n
    <3>1. posted \in Seq(RecordType)
      BY DEF IInv, RingTypeOK
    <3>2. DOMAIN posted = 1 .. Len(posted)
      BY <3>1
    <3> QED BY <1>n, <3>2
  <2>2. PICK k \in DOMAIN posted :
          /\ WordAt(decoder.tail) = posted[k].start
          /\ got' = Append(got, k)
          /\ IF ~Whole(k) THEN Garbled /\ UNCHANGED leaked
             ELSE IF posted[k].type = "AUX" /\ posted[k].flags # "TRUNCATED"
             THEN /\ decoder' = [decoder EXCEPT !.at = "packet", !.it = 0]
                  /\ UNCHANGED leaked
             ELSE /\ NextRecord(posted[k])
                  /\ leaked' = leaked + posted[k].aux_size
    BY <1>3, <2>1 DEF ReadRecord
  <2>3. k = g + 1
    BY <1>3, <2>1, <2>2
  <2> QED BY <1>3, <2>2, <2>3 DEF NextRecord
<1>5. /\ decoder.head \in Nat /\ decoder.tail \in Nat /\ leaked \in Nat /\ decoder \in DecoderType
      /\ r.words \in Nat /\ r.aux_size \in Nat /\ r.start \in Nat /\ r.aux_offset \in Nat
      /\ data_tail \in Nat
  <2>1. decoder \in DecoderType
    BY DEF IInv, RingTypeOK, DecoderType
  <2>2. g + 1 \in 1 .. Len(posted)
    BY <1>3, <1>n
  <2> QED BY <2>1, <2>2, Facts
<1>6. decoder' \in DecoderType /\ leaked' \in Nat /\ decoder'.head = decoder.head
  <2>1. CASE aux_case
    <3>1. decoder' = [decoder EXCEPT !.at = "packet", !.it = 0] /\ leaked' = leaked
      BY <1>4, <2>1
    <3> QED BY <1>5, <3>1, DecoderToPacket
  <2>2. CASE ~aux_case
    <3>1. /\ decoder' = [decoder EXCEPT !.at = "record", !.tail = @ + r.words]
          /\ leaked' = leaked + r.aux_size
      BY <1>4, <2>2
    <3>2. r.words \in Nat /\ decoder \in DecoderType /\ leaked + r.aux_size \in Nat
      BY <1>5
    <3> HIDE DEF r
    <3> QED BY <3>1, <3>2, DecoderToRecord
  <2> QED BY <2>1, <2>2
<1>7. /\ got' \in Seq(Nat) /\ Len(got') = g + 1 /\ got'[g + 1] = g + 1
      /\ \A i \in 1 .. g : got'[i] = got[i]
  <2>1. got \in Seq(Nat) /\ g + 1 \in Nat
    BY <1>g DEF IInv, RingTypeOK
  <2>2. got' = Append(got, g + 1)
    BY <1>4
  <2> QED BY <1>g, <2>1, <2>2
<1>8. /\ RingTypeOK' /\ DataInv' /\ RecordsInv' /\ AuxInv'
      /\ \A m : Pos(m)' = Pos(m)
      /\ \A e : Boundary(e)' <=> Boundary(e)
  BY <1>1, <1>6, <1>7, KernelFrame
<1>9. /\ decoder.tail = Pos(g + 1) /\ data_tail <= decoder.tail
      /\ Pos(g + 2) = decoder.tail + r.words /\ Pos(g + 1) = r.start
  <2>1. decoder.tail = Pos(g + 1) /\ data_tail <= decoder.tail
    BY <1>0, <1>1, <1>g DEF DecoderInv
  <2>2. Pos(g + 1) = r.start
    BY <1>3, <1>n DEF Pos
  <2>3. Pos(g + 1 + 1) = r.start + r.words
    BY <1>0, <1>3, <1>n DEF RecordsInv
  <2>4. g + 1 + 1 = g + 2
    OBVIOUS
  <2> QED BY <2>1, <2>2, <2>3, <2>4
<1>10. PICK m \in g + 2 .. n + 1 : decoder.head = Pos(m)
  BY <1>3
<1>11. /\ Len(got') <= Len(posted')
       /\ \A i \in 1 .. Len(got') : got'[i] = i
       /\ \E l \in Len(got') + 1 .. Len(posted') + 1 : decoder'.head = Pos(l)'
  <2>1. \A i \in 1 .. g : got[i] = i
    BY <1>0, <1>g DEF DecoderInv
  <2>2. m \in Len(got') + 1 .. Len(posted') + 1 /\ decoder'.head = Pos(m)'
    BY <1>6, <1>7, <1>8, <1>10, <1>n
  <2> QED BY <1>3, <1>7, <1>n, <2>1, <2>2
<1>12. PICK total \in [1 .. n + 1 -> Int] : Totals(total)
  BY <1>0, <1>n DEF SpaceInv
<1>13. Unread = g + 1
  BY <1>1, <1>g DEF Unread
<1>14. /\ \A k \in g + 1 .. n :
            /\ Boundary(posted[k].aux_offset)
            /\ Boundary(posted[k].aux_offset + posted[k].aux_size)
            /\ posted[k].aux_offset + posted[k].aux_size <= announced
       /\ \A j, k \in g + 1 .. n :
            j < k => posted[j].aux_offset + posted[j].aux_size <= posted[k].aux_offset
  BY <1>0, <1>13, <1>n DEF AnnouncedInv
<1>15. /\ total[g + 1] = aux_tail + leaked /\ total[n + 1] = announced
       /\ \A k \in g + 1 .. n : total[k + 1] = total[k] + posted[k].aux_size
  BY <1>12, <1>13, <1>n DEF Totals
<1>16. CASE aux_case
  <2>1. decoder'.at = "packet" /\ decoder'.it = 0 /\ decoder'.tail = decoder.tail
        /\ leaked' = leaked
    BY <1>4, <1>5, <1>16 DEF DecoderType
  <2>2. Unread' = g + 1
    BY <1>7, <2>1 DEF Unread
  <2>3. DecoderInv'
    <3>1. decoder'.tail = Pos(g + 1)'
      BY <1>8, <1>9, <2>1
    <3>2. decoder'.tail = Pos(Len(got))' /\ Len(got') > 0
      BY <1>7, <3>1 DEF Pos
    <3>3. data_tail' <= decoder'.tail
      BY <1>2, <1>9, <2>1
    <3> QED BY <1>11, <2>1, <3>2, <3>3 DEF DecoderInv
  <2>4. AnnouncedInv'
    <3>1. r.aux_offset + 0 = r.aux_offset /\ 0 <= r.aux_size
      <4> HIDE DEF r
      <4> QED BY <1>5
    <3>2. Boundary(r.aux_offset + 0)
      <4>1. g + 1 \in g + 1 .. n
        BY <1>3
      <4>2. Boundary(r.aux_offset)
        BY <1>14, <4>1
      <4> HIDE DEF r
      <4> QED BY <3>1, <4>2
    <3>3. posted'[Len(got')] = r
      BY <1>2, <1>7
    <3>4. decoder'.it <= posted'[Len(got')].aux_size
      BY <2>1, <3>1, <3>3
    <3>5. Boundary(posted[Len(got)].aux_offset + decoder.it)'
      BY <1>2, <2>1, <3>2, <3>3 DEF Boundary, Header
    <3> QED BY <1>2, <1>14, <1>n, <2>2, <3>4, <3>5 DEF AnnouncedInv, Boundary, Header
  <2>5. Totals(total)'
    BY <1>2, <1>15, <1>n, <2>1, <2>2 DEF Totals
  <2>6. SpaceInv'
    BY <1>n, <1>12, <2>5 DEF SpaceInv
  <2> QED BY <1>8, <2>3, <2>4, <2>6 DEF IInv
<1>17. CASE ~aux_case
  <2>1. decoder'.at = "record" /\ decoder'.tail = decoder.tail + r.words
        /\ leaked' = leaked + r.aux_size
    BY <1>4, <1>5, <1>17 DEF DecoderType
  <2>2. Unread' = g + 2
    BY <1>7, <2>1 DEF Unread
  <2>3. DecoderInv'
    <3>1. decoder'.tail = Pos(g + 2)'
      BY <1>8, <1>9, <2>1
    <3>2. decoder'.tail = Pos(Len(got) + 1)'
      BY <1>7, <3>1 DEF Pos
    <3>3. data_tail' <= decoder'.tail
      <4>1. PICK w \in Nat : w = r.words
        BY <1>5
      <4>2. data_tail' = data_tail /\ data_tail <= decoder.tail
        BY <1>2, <1>9
      <4>3. decoder'.tail = decoder.tail + w
        BY <2>1, <4>1
      <4> HIDE DEF r
      <4> QED BY <1>5, <4>2, <4>3
    <3> QED BY <1>11, <2>1, <3>2, <3>3 DEF DecoderInv
  <2>4. AnnouncedInv'
    <3>1. ASSUME NEW k \in g + 2 .. n PROVE k \in g + 1 .. n
      BY <1>3
    <3>2. ASSUME NEW k \in g + 2 .. n
          PROVE  /\ Boundary(posted[k].aux_offset)'
                 /\ Boundary(posted[k].aux_offset + posted[k].aux_size)'
                 /\ posted'[k].aux_offset + posted'[k].aux_size <= announced'
      <4>1. /\ Boundary(posted[k].aux_offset)
            /\ Boundary(posted[k].aux_offset + posted[k].aux_size)
            /\ posted[k].aux_offset + posted[k].aux_size <= announced
        BY <1>14, <3>1
      <4> QED BY <1>2, <4>1 DEF Boundary, Header
    <3>3. \A j, k \in g + 2 .. n :
            j < k => posted'[j].aux_offset + posted'[j].aux_size <= posted'[k].aux_offset
      BY <1>2, <1>14, <3>1
    <3>4. Unread' = g + 2 /\ Len(posted') = n
      BY <1>2, <1>n, <2>2
    <3>5. decoder'.at # "packet"
      BY <2>1
    <3> QED BY <3>2, <3>3, <3>4, <3>5 DEF AnnouncedInv
  <2>5. Totals(total)'
    <3>1. total[g + 2] = total[g + 1] + r.aux_size
      <4>1. g + 1 \in g + 1 .. n /\ g + 1 + 1 = g + 2
        BY <1>3
      <4> QED BY <1>15, <4>1
    <3>2. total[Unread'] = aux_tail' + leaked'
      <4>1. aux_tail \in Nat
        BY Facts
      <4>2. total[Unread'] = aux_tail + leaked + r.aux_size
        BY <1>15, <2>2, <3>1
      <4> HIDE DEF r
      <4> QED BY <1>2, <1>5, <2>1, <4>1, <4>2
    <3>3. \A k \in Unread' .. Len(posted') : total[k + 1] = total[k] + posted'[k].aux_size
      BY <1>2, <1>15, <1>n, <2>2
    <3>4. total[Len(posted') + 1] = announced'
      BY <1>2, <1>15, <1>n
    <3> QED BY <3>2, <3>3, <3>4 DEF Totals
  <2>6. SpaceInv'
    BY <1>n, <1>12, <2>5 DEF SpaceInv
  <2> QED BY <1>8, <2>3, <2>4, <2>6 DEF IInv
<1> QED BY <1>16, <1>17

LEMMA PacketSize ==
    ASSUME IInv, NEW p \in Int
    PROVE  aux[p % AuxSize].len \in Nat
<1>1. p % AuxSize \in AuxCells
  BY RingAssumption, ModRange DEF AuxCells
<1>2. aux \in [AuxCells -> PacketType]
  BY DEF IInv, RingTypeOK
<1> QED BY <1>1, <1>2 DEF PacketType

\* A packet that starts at a boundary is whole, and ends at one.
LEMMA PacketAtBoundary ==
    ASSUME IInv, NEW p \in Int, Boundary(p), NEW e \in Int, Boundary(e), p < e
    PROVE  /\ PacketWhole(p)
           /\ Boundary(p + aux[p % AuxSize].len)
           /\ p + aux[p % AuxSize].len <= e
<1> DEFINE i == p % AuxSize
           len == aux[i].len
<1>0. aux_tail \in Nat /\ aux_head \in Nat /\ AuxSize \in Nat \ {0} /\ len \in Nat
  BY Facts, RingAssumption, PacketSize
<1>1. i \in 0 .. AuxSize - 1
  BY <1>0, ModRange
<1>2. p \in aux_tail .. aux_head - 1 /\ Header(p) /\ e \in aux_tail .. aux_head
      /\ (e = aux_head \/ Header(e))
  <2>1. p \in aux_tail .. aux_head /\ e \in aux_tail .. aux_head
        /\ (p = aux_head \/ Header(p)) /\ (e = aux_head \/ Header(e))
    BY DEF Boundary
  <2>2. p \in aux_tail .. aux_head - 1 /\ p # aux_head
    BY <1>0, <2>1
  <2> QED BY <2>1, <2>2
<1>3. len > 0
  BY <1>2 DEF Header
<1>4. /\ i + len <= AuxSize /\ p + len <= aux_head
      /\ \A q \in p + 1 .. p + len - 1 : ~Header(q)
      /\ p + len = aux_head \/ Header(p + len)
  BY <1>2 DEF IInv, AuxInv
<1>5. \A q \in aux_tail .. aux_head - 1 : aux[q % AuxSize].pos = q
  BY DEF IInv, AuxInv
<1>6. ASSUME NEW j \in 1 .. len - 1
      PROVE  i + j \in AuxCells /\ aux[i + j].pos = p + j
  <2>1. j \in Nat /\ i + j < AuxSize
    <3> HIDE DEF len, i
    <3> QED BY <1>0, <1>1, <1>4
  <2>2. (p + j) % AuxSize = i + j
    <3>1. (p % AuxSize) + j < AuxSize
      BY <2>1
    <3> HIDE DEF len
    <3> QED BY <1>0, <2>1, <3>1, StraightOn
  <2>3. p + j \in aux_tail .. aux_head - 1
    <3>1. p \in aux_tail .. aux_head - 1 /\ p + len <= aux_head
      BY <1>2, <1>4
    <3> HIDE DEF len, i
    <3> QED BY <1>0, <2>1, <3>1
  <2>4. aux[(p + j) % AuxSize].pos = p + j
    BY <1>5, <2>3
  <2> HIDE DEF len, i
  <2> QED BY <1>0, <1>1, <2>1, <2>2, <2>4 DEF AuxCells
<1>7. PacketWhole(p)
  BY <1>2, <1>3, <1>5, <1>6 DEF PacketWhole
<1> HIDE DEF len, i
<1>8. Boundary(p + len)
  <2>1. p + len \in aux_tail .. aux_head
    BY <1>0, <1>2, <1>4
  <2> QED BY <1>4, <2>1 DEF Boundary
<1>9. p + len <= e
  <2> SUFFICES ASSUME ~(p + len <= e) PROVE FALSE
    OBVIOUS
  <2>1. e \in p + 1 .. p + len - 1 /\ e # aux_head
    BY <1>0, <1>2, <1>4
  <2> QED BY <1>2, <1>4, <2>1
<1> QED BY <1>7, <1>8, <1>9 DEF len, i

\* The record that is being decoded.
LEMMA CurrentRecord ==
    ASSUME IInv, decoder.at = "packet"
    PROVE  /\ Len(got) \in 1 .. Len(posted) /\ Current = posted[Len(got)]
           /\ Unread = Len(got)
<1>1. DecoderInv /\ Len(got) \in Nat /\ Len(got) <= Len(posted) /\ Len(posted) \in Nat
  BY Facts DEF IInv
<1>2. Len(got) \in 1 .. Len(posted) /\ got[Len(got)] = Len(got)
  BY <1>1 DEF DecoderInv
<1> QED BY <1>2 DEF Current, Unread

LEMMA ReadPacketStep ==
    ASSUME IInv, ReadPacket
    PROVE  IInv'
<1>0. DecoderInv /\ AnnouncedInv /\ SpaceInv
  BY DEF IInv
<1>1. decoder.at = "packet" /\ decoder.it < Current.aux_size
      /\ UNCHANGED <<pageVars, kernelVars, got, leaked>>
  BY DEF ReadPacket
<1>2. /\ UNCHANGED <<data_head, data_tail, posted, got, leaked>>
      /\ UNCHANGED <<aux_tail, aux_head, aux, announced>>
  BY <1>1 DEF pageVars, kernelVars
<1>3. Len(got) \in 1 .. Len(posted) /\ Current = posted[Len(got)] /\ Unread = Len(got)
  BY <1>1, CurrentRecord
<1> DEFINE r == Current
           p == r.aux_offset + decoder.it
           e == r.aux_offset + r.aux_size
           len == aux[p % AuxSize].len
           t == decoder.it + len
<1>4. r.aux_offset \in Nat /\ r.aux_size \in Nat /\ decoder.it \in Nat
  BY <1>3, Facts
<1>5. Boundary(p) /\ Boundary(e)
  <2>1. Len(got) \in Unread .. Len(posted)
    BY <1>3, Facts
  <2>2. /\ Boundary(posted[Len(got)].aux_offset + decoder.it)
        /\ Boundary(posted[Len(got)].aux_offset + posted[Len(got)].aux_size)
    BY <1>0, <1>1, <2>1 DEF AnnouncedInv
  <2> QED BY <1>3, <2>2
<1>6. p \in Int /\ e \in Int /\ p < e
  <2> HIDE DEF r
  <2> QED BY <1>1, <1>4 DEF r
<1> HIDE DEF r, e
<1>7. PacketWhole(p) /\ Boundary(p + len) /\ p + len <= e /\ len \in Nat
  <2> HIDE DEF p
  <2> QED BY <1>5, <1>6, PacketAtBoundary, PacketSize
<1>8. decoder' = [decoder EXCEPT !.it = t]
  BY <1>7 DEF ReadPacket, r
<1> HIDE DEF len
<1>9. t \in Nat /\ r.aux_offset + t = p + len /\ t <= r.aux_size
  BY <1>4, <1>7 DEF e
<1>10. decoder \in DecoderType
  BY DEF IInv, RingTypeOK, DecoderType
<1> HIDE DEF t
<1>11. decoder' \in DecoderType /\ decoder'.at = "packet" /\ decoder'.it = t
       /\ decoder'.head = decoder.head /\ decoder'.tail = decoder.tail
  BY <1>1, <1>8, <1>9, <1>10 DEF DecoderType
<1>12. got' \in Seq(Nat) /\ leaked' \in Nat
  BY <1>2 DEF IInv, RingTypeOK
<1>13. /\ RingTypeOK' /\ DataInv' /\ RecordsInv' /\ AuxInv'
       /\ \A m : Pos(m)' = Pos(m)
       /\ \A x : Boundary(x)' <=> Boundary(x)
  BY <1>1, <1>11, <1>12, KernelFrame
<1>14. Unread' = Unread
  BY <1>1, <1>2, <1>11 DEF Unread
<1>15. DecoderInv'
  BY <1>0, <1>1, <1>2, <1>11, <1>13 DEF DecoderInv, Pos
<1>16. AnnouncedInv'
  <2>1. Boundary(r.aux_offset + t)
    BY <1>7, <1>9
  <2>2. posted'[Len(got')] = r
    BY <1>2, <1>3 DEF r
  <2>3. decoder'.it <= posted'[Len(got')].aux_size
    BY <1>9, <1>11, <2>2
  <2>4. Boundary(posted[Len(got)].aux_offset + decoder.it)'
    BY <1>2, <1>11, <2>1, <2>2 DEF Boundary, Header
  <2> QED BY <1>0, <1>2, <1>14, <2>3, <2>4 DEF AnnouncedInv, Boundary, Header
<1>17. SpaceInv'
  BY <1>0, <1>2, <1>14 DEF SpaceInv, Totals
<1> QED BY <1>13, <1>15, <1>16, <1>17 DEF IInv

LEMMA EndAuxStep ==
    ASSUME IInv, EndAux
    PROVE  IInv'
<1>0. RingTypeOK /\ DecoderInv /\ AnnouncedInv /\ SpaceInv /\ AuxInv /\ RecordsInv /\ DataInv
  BY DEF IInv
<1>1. /\ decoder.at = "packet"
      /\ UNCHANGED <<data_head, data_tail, kernelVars, got, leaked>>
      /\ aux_tail' = aux_tail + Current.aux_size
      /\ decoder' = [decoder EXCEPT !.at = "record", !.tail = @ + Current.words]
  BY DEF EndAux, NextRecord
<1>2. /\ UNCHANGED <<data_head, data_tail, data, posted, got, leaked>>
      /\ UNCHANGED <<aux_head, aux, announced>>
  BY <1>1 DEF kernelVars
<1>g. PICK g \in Nat : g = Len(got) /\ g = Len(got')
  BY <1>2, Facts
<1>n. PICK n \in Nat : n = Len(posted) /\ n = Len(posted')
  BY <1>2, Facts
<1> DEFINE r == posted[g]
<1>3. g \in 1 .. n /\ Current = r /\ Unread = g
  BY <1>1, <1>g, <1>n, CurrentRecord
<1>4. /\ r.aux_offset \in Nat /\ r.aux_size \in Nat /\ r.words \in Nat
      /\ aux_tail \in Nat /\ aux_head \in Nat /\ announced \in Nat /\ data_tail \in Nat
      /\ decoder.tail \in Nat
  BY <1>3, <1>n, Facts
<1>5. decoder \in DecoderType
  BY <1>0 DEF RingTypeOK, DecoderType
<1>6. /\ decoder' \in DecoderType /\ decoder'.at = "record" /\ decoder'.head = decoder.head
      /\ decoder'.tail = decoder.tail + r.words
  <2>1. decoder' = [decoder EXCEPT !.at = "record", !.tail = @ + r.words]
    BY <1>1, <1>3
  <2> HIDE DEF r
  <2> QED BY <1>4, <1>5, <2>1, DecoderToRecord
<1>7. aux_tail' = aux_tail + r.aux_size /\ aux_tail' \in Nat
  <2>1. aux_tail' = aux_tail + r.aux_size
    BY <1>1, <1>3
  <2> HIDE DEF r
  <2> QED BY <1>4, <2>1
<1>8. RingTypeOK'
  <2>1. decoder' \in [at : {"idle", "record", "packet"}, head : Nat, tail : Nat, it : Nat]
    BY <1>6 DEF DecoderType
  <2>2. /\ data_head' \in Nat /\ announced' \in Nat /\ leaked' \in Nat
        /\ aux_head' \in Nat /\ data_tail' \in Nat
    BY <1>0, <1>2 DEF RingTypeOK
  <2>3. data' \in [DataCells -> Int] /\ posted' \in Seq(RecordType)
        /\ aux' \in [AuxCells -> PacketType] /\ got' \in Seq(Nat)
    BY <1>0, <1>2 DEF RingTypeOK
  <2> QED BY <1>7, <2>1, <2>2, <2>3 DEF RingTypeOK
<1>9. DataInv'
  BY <1>0, <1>2 DEF DataInv
<1>10. \A m : Pos(m)' = Pos(m)
  BY <1>2 DEF Pos
<1>11. RecordsInv'
  BY <1>0, <1>2, <1>10 DEF RecordsInv, Pos
<1>12. DecoderInv'
  <2>1. decoder.tail = Pos(g) /\ data_tail <= decoder.tail /\ g <= n
        /\ \A i \in 1 .. g : got[i] = i
    BY <1>0, <1>1, <1>g, <1>n DEF DecoderInv
  <2>2. PICK m \in g + 1 .. n + 1 : decoder.head = Pos(m)
    BY <1>0, <1>1, <1>g, <1>n DEF DecoderInv
  <2>3. Pos(g) = r.start /\ Pos(g + 1) = r.start + r.words
    BY <1>0, <1>3, <1>n DEF RecordsInv, Pos
  <2>4. decoder'.tail = Pos(g + 1)'
    BY <1>6, <1>10, <2>1, <2>3
  <2>5. decoder'.tail = Pos(Len(got) + 1)'
    BY <1>g, <2>4 DEF Pos
  <2>6. data_tail' <= decoder'.tail
    <3> HIDE DEF r
    <3> QED BY <1>2, <1>4, <1>6, <2>1
  <2>7. m \in Len(got') + 1 .. Len(posted') + 1 /\ decoder'.head = Pos(m)'
    BY <1>6, <1>10, <1>g, <1>n, <2>2
  <2>8. Len(got') <= Len(posted') /\ \A i \in 1 .. Len(got') : got'[i] = i
    BY <1>2, <1>g, <1>n, <2>1
  <2> QED BY <1>6, <2>5, <2>6, <2>7, <2>8 DEF DecoderInv
<1>13. /\ \A k \in g .. n :
            /\ Boundary(posted[k].aux_offset)
            /\ Boundary(posted[k].aux_offset + posted[k].aux_size)
            /\ posted[k].aux_offset + posted[k].aux_size <= announced
       /\ \A j, k \in g .. n :
            j < k => posted[j].aux_offset + posted[j].aux_size <= posted[k].aux_offset
  BY <1>0, <1>3, <1>n DEF AnnouncedInv
<1>14. aux_tail' <= r.aux_offset + r.aux_size /\ r.aux_offset + r.aux_size <= announced
       /\ aux_tail <= aux_tail'
  <2>1. Boundary(r.aux_offset) /\ r.aux_offset + r.aux_size <= announced
    BY <1>3, <1>13
  <2>2. aux_tail <= r.aux_offset
    <3> HIDE DEF r
    <3> QED BY <1>4, <2>1 DEF Boundary
  <2> HIDE DEF r
  <2> QED BY <1>4, <1>7, <2>1, <2>2
<1>15. /\ \A x : Header(x)' <=> Header(x)
       /\ \A x : Boundary(x) /\ x >= aux_tail' => Boundary(x)'
  <2>1. \A x : Header(x)' <=> Header(x)
    BY <1>2 DEF Header
  <2>2. ASSUME NEW x, Boundary(x), x >= aux_tail' PROVE Boundary(x)'
    <3>1. x \in aux_tail' .. aux_head'
      BY <1>2, <1>4, <1>7, <2>2 DEF Boundary
    <3> QED BY <1>2, <2>1, <2>2, <3>1 DEF Boundary
  <2> QED BY <2>1, <2>2
<1>16. AuxInv'
  <2>1. aux_tail' <= announced' /\ announced \in Nat
    <3> HIDE DEF r
    <3> QED BY <1>2, <1>4, <1>7, <1>14
  <2>2. Boundary(announced)'
    <3>1. PICK x : x = announced
      OBVIOUS
    <3>2. Boundary(x)'
      BY <1>0, <1>2, <1>4, <1>7, <1>15, <2>1, <3>1 DEF AuxInv
    <3> QED BY <1>2, <3>1, <3>2 DEF Boundary, Header
  <2>3. aux_head' - aux_tail' <= AuxSize
    <3>1. aux_head - aux_tail <= AuxSize
      BY <1>0 DEF AuxInv
    <3> HIDE DEF r
    <3> QED BY <1>2, <1>4, <1>7, <1>14, <3>1, RingAssumption
  <2>4. \A p \in aux_tail' .. aux_head' - 1 : p \in aux_tail .. aux_head - 1
    <3> HIDE DEF r
    <3> QED BY <1>2, <1>4, <1>7, <1>14
  <2>5. \A p \in aux_tail' .. aux_head' - 1 : aux'[p % AuxSize].pos = p
    BY <1>0, <1>2, <2>4 DEF AuxInv
  <2>6. \A p \in aux_tail' .. aux_head' - 1 : Header(p)' =>
         /\ (p % AuxSize) + aux'[p % AuxSize].len <= AuxSize
         /\ p + aux'[p % AuxSize].len <= aux_head'
         /\ \A q \in p + 1 .. p + aux'[p % AuxSize].len - 1 : ~Header(q)'
         /\ p + aux'[p % AuxSize].len = aux_head' \/ Header(p + aux[p % AuxSize].len)'
    BY <1>0, <1>2, <2>4 DEF AuxInv, Header
  <2> QED BY <2>1, <2>2, <2>3, <2>5, <2>6 DEF AuxInv
<1>17. Unread' = g + 1
  BY <1>6, <1>g DEF Unread
<1>18. AnnouncedInv'
  <2>1. ASSUME NEW k \in g + 1 .. n
        PROVE  /\ Boundary(posted[k].aux_offset)'
               /\ Boundary(posted[k].aux_offset + posted[k].aux_size)'
               /\ posted'[k].aux_offset + posted'[k].aux_size <= announced'
    <3>1. PICK x, y : x = posted[k].aux_offset /\ y = posted[k].aux_offset + posted[k].aux_size
      OBVIOUS
    <3>2. k \in g .. n /\ g \in g .. n /\ g < k /\ k \in 1 .. Len(posted)
      BY <1>3, <1>n
    <3>3. x \in Nat /\ y \in Nat /\ x <= y
      <4>1. posted[k].aux_offset \in Nat /\ posted[k].aux_size \in Nat
        BY <3>2, Facts
      <4> QED BY <3>1, <4>1
    <3>4. Boundary(x) /\ Boundary(y) /\ y <= announced /\ r.aux_offset + r.aux_size <= x
      BY <1>13, <3>1, <3>2
    <3>5. x >= aux_tail' /\ y >= aux_tail'
      <4> HIDE DEF r
      <4> QED BY <1>4, <1>7, <1>14, <3>3, <3>4
    <3>6. Boundary(x)' /\ Boundary(y)' /\ y <= announced'
      BY <1>2, <1>15, <3>4, <3>5
    <3> QED BY <1>2, <3>1, <3>6 DEF Boundary, Header
  <2>2. ASSUME NEW k \in g + 1 .. n PROVE k \in g .. n
    BY <1>3, <1>n
  <2>3. \A j, k \in g + 1 .. n :
          j < k => posted'[j].aux_offset + posted'[j].aux_size <= posted'[k].aux_offset
    BY <1>2, <1>13, <2>2
  <2>4. Unread' = g + 1 /\ Len(posted') = n /\ decoder'.at # "packet"
    BY <1>2, <1>6, <1>17, <1>n
  <2> QED BY <2>1, <2>3, <2>4 DEF AnnouncedInv
<1>19. SpaceInv'
  <2>1. PICK total \in [1 .. n + 1 -> Int] : Totals(total)
    BY <1>0, <1>n DEF SpaceInv
  <2>2. /\ total[g] = aux_tail + leaked /\ total[n + 1] = announced
        /\ \A k \in g .. n : total[k + 1] = total[k] + posted[k].aux_size
    BY <1>3, <1>n, <2>1 DEF Totals
  <2>3. total[Unread'] = aux_tail' + leaked'
    <3>1. total[g + 1] = total[g] + r.aux_size
      BY <1>3, <2>2
    <3>2. leaked \in Nat
      BY Facts
    <3> HIDE DEF r
    <3> QED BY <1>2, <1>4, <1>7, <1>17, <2>2, <3>1, <3>2
  <2>4. /\ total[Len(posted') + 1] = announced'
        /\ \A k \in Unread' .. Len(posted') : total[k + 1] = total[k] + posted'[k].aux_size
    BY <1>2, <1>17, <1>n, <2>2
  <2>5. Totals(total)'
    BY <2>3, <2>4 DEF Totals
  <2> QED BY <1>n, <2>1, <2>5 DEF SpaceInv
<1> QED BY <1>8, <1>9, <1>11, <1>12, <1>16, <1>18, <1>19 DEF IInv

LEMMA EndDrainStep ==
    ASSUME IInv, EndDrain
    PROVE  IInv'
<1>0. RingTypeOK /\ DecoderInv /\ AnnouncedInv /\ SpaceInv /\ AuxInv /\ RecordsInv /\ DataInv
  BY DEF IInv
<1>1. decoder.at = "record" /\ decoder.tail >= decoder.head
  BY DEF EndDrain
<1> DEFINE n == Len(posted)
           g == Len(got)
<1>2. /\ n \in Nat /\ g \in Nat /\ g <= n /\ decoder.tail \in Nat /\ decoder.head \in Nat
      /\ data_head \in Nat /\ data_tail \in Nat /\ Pos(n + 1) = data_head
      /\ \A m \in 1 .. n + 1 : Pos(m) \in Nat
  BY Facts
<1>3. decoder.tail = Pos(g + 1) /\ data_tail <= decoder.tail
      /\ \E m \in g + 1 .. n + 1 : decoder.head = Pos(m)
  BY <1>0, <1>1 DEF DecoderInv
<1>4. \A j, k \in 1 .. n + 1 : j < k => Pos(j) < Pos(k)
  BY <1>0 DEF RecordsInv
<1>5. decoder.tail = decoder.head /\ decoder.tail <= data_head
  <2> HIDE DEF n, g
  <2>1. PICK m \in g + 1 .. n + 1 : decoder.head = Pos(m)
    BY <1>3
  <2>2. ~(g + 1 < m)
    <3> SUFFICES ASSUME g + 1 < m PROVE FALSE
      OBVIOUS
    <3>1. Pos(g + 1) < Pos(m)
      BY <1>2, <1>4, <2>1
    <3> QED BY <1>1, <1>2, <1>3, <2>1, <3>1
  <2>3. m = g + 1
    BY <1>2, <2>1, <2>2
  <2>4. g + 1 = n + 1 \/ Pos(g + 1) < Pos(n + 1)
    BY <1>2, <1>4
  <2> QED BY <1>2, <1>3, <2>1, <2>3, <2>4
<1>6. /\ data_tail' = decoder.tail /\ decoder' = [decoder EXCEPT !.at = "idle"]
      /\ UNCHANGED <<data_head, data, posted, got, leaked>>
      /\ UNCHANGED <<aux_tail, aux_head, aux, announced>>
  BY <1>5 DEF EndDrain, kernelVars
<1> HIDE DEF n, g
<1>7. decoder' \in DecoderType /\ decoder'.at = "idle"
  <2>1. decoder \in DecoderType
    BY <1>0 DEF RingTypeOK, DecoderType
  <2> QED BY <1>6, <2>1 DEF DecoderType
<1>8. RingTypeOK'
  <2>1. decoder' \in [at : {"idle", "record", "packet"}, head : Nat, tail : Nat, it : Nat]
    BY <1>7 DEF DecoderType
  <2>2. /\ data_head' \in Nat /\ announced' \in Nat /\ leaked' \in Nat
        /\ aux_head' \in Nat /\ data_tail' \in Nat /\ aux_tail' \in Nat
    BY <1>0, <1>2, <1>6 DEF RingTypeOK
  <2>3. data' \in [DataCells -> Int] /\ posted' \in Seq(RecordType)
        /\ aux' \in [AuxCells -> PacketType] /\ got' \in Seq(Nat)
    BY <1>0, <1>6 DEF RingTypeOK
  <2> QED BY <2>1, <2>2, <2>3 DEF RingTypeOK
<1>9. DataInv'
  <2>1. data_head - data_tail <= DataSize /\ \A p \in data_tail .. data_head - 1 : data[p % DataSize] = p
    BY <1>0 DEF DataInv
  <2>2. data_tail' <= data_head' /\ data_head' - data_tail' <= DataSize
    BY <1>2, <1>3, <1>5, <1>6, <2>1, RingAssumption
  <2>3. \A p \in data_tail' .. data_head' - 1 : p \in data_tail .. data_head - 1
    BY <1>2, <1>3, <1>5, <1>6
  <2> QED BY <1>6, <2>1, <2>2, <2>3 DEF DataInv
<1>10. RecordsInv'
  BY <1>0, <1>6 DEF RecordsInv, Pos
<1>11. DecoderInv'
  <2>1. data_tail' = Pos(Len(got) + 1)'
    BY <1>3, <1>6 DEF Pos, g
  <2> QED BY <1>0, <1>6, <1>7, <2>1 DEF DecoderInv
<1>12. AuxInv'
  BY <1>0, <1>6 DEF AuxInv, Boundary, Header
<1>13. Unread' = Unread
  BY <1>1, <1>6, <1>7 DEF Unread
<1>14. AnnouncedInv'
  BY <1>0, <1>6, <1>7, <1>13 DEF AnnouncedInv, Boundary, Header
<1>15. SpaceInv'
  BY <1>0, <1>6, <1>13 DEF SpaceInv, Totals
<1> QED BY <1>8, <1>9, <1>10, <1>11, <1>12, <1>14, <1>15 DEF IInv

-------------------------------------------------------------------------------
(* The theorems *)

LEMMA WindowStep ==
    ASSUME WindowInv, [RingNext]_ringVars
    PROVE  WindowInv'
<1>1. ASSUME NEW record, Output(record), window PROVE WindowInv'
  BY <1>1 DEF Output, WindowInv
<1>2. CASE \E flags \in {"none", "TRUNCATED"} : PostAux(flags)
  BY <1>1, <1>2 DEF PostAux
<1>3. CASE PostSample \/ \E words \in OtherWords : PostOther(words)
  BY <1>1, <1>3 DEF PostSample, PostOther
<1>4. CASE \E len \in PacketSizes : WritePacket(len)
  <2>1. UNCHANGED <<window, posted>>
    BY <1>4, Zenon DEF WritePacket
  <2> QED BY <2>1 DEF WindowInv
<1>5. CASE LoseAux \/ OpenWindow \/ process_samples_locked \/ UNCHANGED ringVars
  BY <1>5 DEF LoseAux, OpenWindow, process_samples_locked, Discard, BeginDrain, ReadRecord,
              ReadPacket, EndAux, EndDrain, WindowInv, kernelVars, ringVars
<1> QED BY <1>2, <1>3, <1>4, <1>5 DEF RingNext

LEMMA IInvStep ==
    ASSUME IInv, WindowInv, [RingNext]_ringVars
    PROVE  IInv'
<1>1. CASE \E len \in PacketSizes : WritePacket(len)
  BY <1>1, WritePacketStep
<1>2. CASE \E flags \in {"none", "TRUNCATED"} : PostAux(flags)
  BY <1>2, PostAuxStep
<1>3. CASE LoseAux
  BY <1>3, LoseAuxStep
<1>4. CASE PostSample \/ \E words \in OtherWords : PostOther(words)
  BY <1>4, PostSampleStep, PostOtherStep
<1>5. CASE OpenWindow
  BY <1>5, RestStep DEF OpenWindow
<1>6. CASE process_samples_locked
  BY <1>6, DiscardStep, BeginDrainStep, ReadRecordStep, ReadPacketStep, EndAuxStep,
     EndDrainStep DEF process_samples_locked
<1>7. CASE UNCHANGED ringVars
  BY <1>7, RestStep DEF ringVars
<1> QED BY <1>1, <1>2, <1>3, <1>4, <1>5, <1>6, <1>7 DEF RingNext

LEMMA RingInvariant == RingSpec => [](IInv /\ WindowInv)
<1>1. RingInit => IInv /\ WindowInv
  BY InitIInv DEF RingInit, WindowInv
<1>2. (IInv /\ WindowInv) /\ [RingNext]_ringVars => (IInv /\ WindowInv)'
  BY IInvStep, WindowStep
<1> QED BY <1>1, <1>2, PTL DEF RingSpec

\* With nothing between the tail and the head every record was taken up.
LEMMA DrainedAll ==
    ASSUME IInv, decoder.at = "idle", data_tail = data_head
    PROVE  Len(got) = Len(posted)
<1>1. /\ Len(got) \in Nat /\ Len(posted) \in Nat /\ Len(got) <= Len(posted)
      /\ Pos(Len(posted) + 1) = data_head /\ data_head \in Nat
  BY Facts
<1>2. Pos(Len(got) + 1) = Pos(Len(posted) + 1)
  BY <1>1 DEF IInv, DecoderInv
<1>3. ~(Len(got) + 1 < Len(posted) + 1)
  BY <1>1, <1>2 DEF IInv, RecordsInv
<1> QED BY <1>1, <1>3

(***************************************************************************)
(* For rings, records and packets of every size: process_samples_locked    *)
(* never works on words or packets that the kernel has overwritten, and    *)
(* never throws "corrupted samples mapping".                               *)
(***************************************************************************)
THEOREM RingNeverGarbled == RingSpec => []NeverGarbled
<1>1. IInv => NeverGarbled
  BY Facts DEF NeverGarbled
<1> QED BY <1>1, RingInvariant, PTL

(***************************************************************************)
(* For every size: process_samples_locked takes up the records that had    *)
(* room in the data area once and in order, and leaves none behind.        *)
(***************************************************************************)
THEOREM RingEveryRecordOnce == RingSpec => []EveryRecordOnce
<1>1. IInv => EveryRecordOnce
  <2> SUFFICES ASSUME IInv PROVE EveryRecordOnce
    OBVIOUS
  <2>1. DOMAIN got = 1 .. Len(got)
    <3>1. got \in Seq(Nat)
      BY DEF IInv, RingTypeOK
    <3> QED BY <3>1
  <2>2. \A n \in DOMAIN got : got[n] = n
    BY <2>1 DEF IInv, DecoderInv
  <2>3. decoder.at = "idle" /\ data_tail = data_head => Len(got) = Len(posted)
    BY DrainedAll
  <2> QED BY <2>2, <2>3 DEF EveryRecordOnce
<1> QED BY <1>1, RingInvariant, PTL

(***************************************************************************)
(* For every size: once all records are read, aux_tail with what was       *)
(* leaked is at the end of what was announced.                             *)
(***************************************************************************)
THEOREM RingAuxGivenBack == RingSpec => []AuxGivenBack
<1>1. IInv => AuxGivenBack
  <2> SUFFICES ASSUME IInv, decoder.at = "idle", data_tail = data_head
               PROVE  aux_tail + leaked = announced
    BY DEF AuxGivenBack
  <2>1. Len(got) = Len(posted)
    BY DrainedAll
  <2>2. Unread = Len(posted) + 1
    BY <2>1 DEF Unread
  <2> QED BY <2>2 DEF IInv, SpaceInv, Totals
<1> QED BY <1>1, RingInvariant, PTL

===============================================================================
