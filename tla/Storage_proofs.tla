---------------------------- MODULE Storage_proofs ----------------------------
(***************************************************************************)
(* Proofs about the storage engine below the buffer pools: a page of       *)
(* records can be read back and implements RecordStore, in both layouts,   *)
(* and the files of a relation keep their pages.                           *)
(***************************************************************************)
EXTENDS RelationFiles, SlottedPages, FiniteSetTheorems, TLAPS

(* Every set of numbers has a least one. *)
LEMMA LeastNumber ==
  ASSUME NEW S \in SUBSET Nat, S # {}
  PROVE  First(S) \in S /\ \A n \in S : First(S) <= n
<1> DEFINE R == {ss \in Nat \X Nat : ss[1] < ss[2]}
<1>1. IsWellFoundedOn(R, Nat)
  BY NatLessThanWellFounded, Zenon DEF OpToRel
<1>2. \E m \in S : \A n \in S : ~ (<<n, m>> \in R)
  <2> HIDE DEF R
  <2> QED BY <1>1, WFMin, Zenon
<1>3. PICK m \in S : \A n \in S : ~ (<<n, m>> \in R)
  BY <1>2
<1>4. ASSUME NEW n \in S PROVE m <= n
  <2>1. <<n, m>> \in Nat \X Nat /\ m \in Nat /\ n \in Nat
    OBVIOUS
  <2>2. ~(n < m)
    BY <2>1, <1>3
  <2> QED BY <2>1, <2>2
<1> QED BY <1>4 DEF First

-----------------------------------------------------------------------------
(* Pages of records *)

Slots == [offset : 0 .. Tombstone, length : Nat]
PageType == [slots : Seq(Slots), region : Nat, data : [Offsets -> Values \union {Zero}]]

(* What the page is besides readable: its live records are records. *)
PageOK(p) ==
  /\ p \in PageType
  /\ FromBytesAccepts(p)
  /\ \A s, u \in Live(p) : s # u => Bytes(p, s) \cap Bytes(p, u) = {}
  /\ \A s \in Live(p) : Get(p, s) \in Records

LEMMA Sizes ==
  /\ PageSize \in Nat /\ HeaderSize \in Nat /\ SlotSize \in Nat
  /\ HeaderSize <= PageSize /\ PageSize < Tombstone /\ Tombstone \in Nat
  BY PagesAssumption DEF Tombstone

LEMMA Slot ==
  ASSUME NEW p, p \in PageType, NEW s \in DOMAIN p.slots
  PROVE  /\ s \in Nat /\ s >= 1 /\ s <= Len(p.slots)
         /\ p.slots[s] \in Slots
         /\ p.slots[s].offset \in Nat /\ p.slots[s].length \in Nat
         /\ p.slots[s].offset <= Tombstone
<1>1. p.slots \in Seq(Slots)
  BY DEF PageType
<1>2. s \in 1 .. Len(p.slots) /\ Len(p.slots) \in Nat /\ p.slots[s] \in Slots
  BY <1>1
<1>3. p.slots[s].offset \in 0 .. Tombstone /\ p.slots[s].length \in Nat
  BY <1>2 DEF Slots
<1>4. p.slots[s].offset \in Nat /\ p.slots[s].offset <= Tombstone
  BY <1>3, Sizes
<1>5. s \in Nat /\ s >= 1 /\ s <= Len(p.slots)
  BY <1>2
<1> QED BY <1>2, <1>3, <1>4, <1>5

LEMMA LiveSlot ==
  ASSUME NEW p, PageOK(p), NEW s \in Live(p)
  PROVE  /\ s \in DOMAIN p.slots /\ s \in Nat /\ s >= 1
         /\ p.slots[s].offset \in Nat /\ p.slots[s].length \in Nat
         /\ p.region \in Nat /\ p.region <= p.slots[s].offset
         /\ p.slots[s].offset + p.slots[s].length <= PageSize
<1>1. s \in DOMAIN p.slots /\ p \in PageType
  BY DEF Live, PageOK
<1>2. p.region \in Nat
  BY <1>1 DEF PageType
<1> QED BY <1>1, <1>2, Slot DEF PageOK, FromBytesAccepts

(* The record bytes are what they are counted by. *)
LEMMA ARecordByte ==
  ASSUME NEW p, PageOK(p), NEW S, NEW c
  PROVE  c \in RecordBytes(p, S) <=>
           \E s \in S \cap Live(p) : \E i \in 1 .. p.slots[s].length : c = <<s, i>>
  BY DEF RecordBytes

(* Records share no byte, so their bytes fit between region and the end. *)
LEMMA BytesFit ==
  ASSUME NEW p, PageOK(p), NEW S
  PROVE  /\ IsFiniteSet(RecordBytes(p, S)) /\ LiveBytes(p, S) \in Nat
         /\ LiveBytes(p, S) <= PageSize - p.region
<1> DEFINE place == [c \in RecordBytes(p, S) |-> p.slots[c[1]].offset + c[2] - 1]
           room == p.region .. PageSize - 1
<1>1. p.region \in Nat /\ p.region <= PageSize /\ PageSize \in Nat
  BY Sizes DEF PageOK, PageType, FromBytesAccepts
<1>2. ASSUME NEW c \in RecordBytes(p, S)
      PROVE  /\ c = <<c[1], c[2]>> /\ c[1] \in Live(p) /\ c[2] \in 1 .. p.slots[c[1]].length
             /\ place[c] \in Bytes(p, c[1]) /\ place[c] \in room
             /\ place[c] = p.slots[c[1]].offset + c[2] - 1
  <2>1. PICK s \in S \cap Live(p) : \E i \in 1 .. p.slots[s].length : c = <<s, i>>
    BY <1>2, ARecordByte
  <2>2. PICK i \in 1 .. p.slots[s].length : c = <<s, i>>
    BY <2>1
  <2>3. c[1] = s /\ c[2] = i /\ place[c] = p.slots[s].offset + i - 1
    BY <2>2
  <2>4. /\ p.slots[s].offset \in Nat /\ p.slots[s].length \in Nat
        /\ p.region <= p.slots[s].offset /\ p.slots[s].offset + p.slots[s].length <= PageSize
    BY <2>1, LiveSlot
  <2>5. p.slots[s].offset + i - 1 \in p.slots[s].offset .. p.slots[s].offset + p.slots[s].length - 1
        /\ p.slots[s].offset + i - 1 \in room
    BY <1>1, <2>2, <2>4
  <2> HIDE DEF place
  <2> QED BY <2>1, <2>2, <2>3, <2>5 DEF Bytes
<1>3. ASSUME NEW c \in RecordBytes(p, S), NEW d \in RecordBytes(p, S), place[c] = place[d]
      PROVE  c = d
  <2>1. c[1] = d[1]
    BY <1>2, <1>3 DEF PageOK
  <2>2. p.slots[c[1]].offset \in Nat /\ c[2] \in Int /\ d[2] \in Int
    BY <1>2, LiveSlot
  <2>3. p.slots[c[1]].offset + c[2] - 1 = p.slots[c[1]].offset + d[2] - 1
    BY <1>2, <1>3, <2>1
  <2>4. ASSUME NEW a \in Nat, NEW b \in Int, NEW e \in Int, a + b - 1 = a + e - 1 PROVE b = e
    BY <2>4
  <2>5. c[2] = d[2]
    BY <2>2, <2>3, <2>4
  <2> QED BY <1>2, <2>1, <2>5
<1>4. place \in Injection(RecordBytes(p, S), room)
  <2>1. place \in [RecordBytes(p, S) -> room]
    BY <1>2
  <2>2. DOMAIN place = RecordBytes(p, S)
    OBVIOUS
  <2> HIDE DEF place
  <2> QED BY <1>3, <2>1, <2>2 DEF Injection, IsInjective
<1>5. IsFiniteSet(room) /\ Cardinality(room) = PageSize - p.region
  <2>1. p.region \in Int /\ PageSize - 1 \in Int
    BY <1>1
  <2>2. IsFiniteSet(room) /\ Cardinality(room) = IF p.region > PageSize - 1 THEN 0
                                                 ELSE PageSize - 1 - p.region + 1
    BY <2>1, FS_Interval
  <2> QED BY <1>1, <2>2
<1> HIDE DEF place, room
<1>6. IsFiniteSet(RecordBytes(p, S)) /\ Cardinality(RecordBytes(p, S)) <= Cardinality(room)
  BY <1>4, <1>5, FS_Injection
<1>7. Cardinality(RecordBytes(p, S)) \in Nat
  BY <1>6, FS_CardinalityType
<1> QED BY <1>5, <1>6, <1>7 DEF LiveBytes

LEMMA BytesGrow ==
  ASSUME NEW p, PageOK(p), NEW S, NEW T, S \subseteq T
  PROVE  LiveBytes(p, S) <= LiveBytes(p, T)
<1>1. RecordBytes(p, S) \subseteq RecordBytes(p, T)
  BY DEF RecordBytes
<1> QED BY <1>1, BytesFit, FS_Subset DEF LiveBytes

(* One more live record. *)
LEMMA BytesAdd ==
  ASSUME NEW p, PageOK(p), NEW S, NEW s \in Live(p), s \notin S
  PROVE  LiveBytes(p, S \union {s}) = LiveBytes(p, S) + p.slots[s].length
<1> DEFINE own == {s} \X (1 .. p.slots[s].length)
<1>1. p.slots[s].length \in Nat
  BY LiveSlot
<1>2. IsFiniteSet(own) /\ Cardinality(own) = p.slots[s].length
  <2>1. IsFiniteSet(1 .. p.slots[s].length)
        /\ Cardinality(1 .. p.slots[s].length) = p.slots[s].length
    <3>1. p.slots[s].length \in Int /\ 1 \in Int
      BY <1>1
    <3>2. /\ IsFiniteSet(1 .. p.slots[s].length)
          /\ Cardinality(1 .. p.slots[s].length) =
               IF 1 > p.slots[s].length THEN 0 ELSE p.slots[s].length - 1 + 1
      BY <3>1, FS_Interval
    <3> QED BY <1>1, <3>2
  <2>2. IsFiniteSet({s}) /\ Cardinality({s}) = 1
    BY FS_Singleton
  <2>3. IsFiniteSet(own) /\ Cardinality(own) = 1 * p.slots[s].length
    BY <2>1, <2>2, FS_Product, ZenonT(60)
  <2> QED BY <1>1, <2>3
<1>3. RecordBytes(p, S \union {s}) = RecordBytes(p, S) \union own
  BY DEF RecordBytes
<1>4. RecordBytes(p, S) \cap own = {}
  BY ARecordByte
<1>5. Cardinality(RecordBytes(p, S) \cap own) = 0
  BY <1>4, FS_EmptySet
<1> HIDE DEF own
<1>6. IsFiniteSet(RecordBytes(p, S)) /\ LiveBytes(p, S) \in Nat
  BY BytesFit
<1>7. Cardinality(RecordBytes(p, S) \union own) =
        Cardinality(RecordBytes(p, S)) + Cardinality(own) - Cardinality(RecordBytes(p, S) \cap own)
  BY <1>2, <1>6, FS_Union
<1>8. LiveBytes(p, S \union {s}) = LiveBytes(p, S) + p.slots[s].length - 0
  BY <1>2, <1>3, <1>5, <1>7 DEF LiveBytes
<1> QED BY <1>1, <1>6, <1>8

(* Where a compaction puts the records: one behind the other, within the page. *)
LEMMA PackedPlace ==
  ASSUME NEW p, PageOK(p), NEW s \in Live(p)
  PROVE  /\ Packed(p, s) \in Nat /\ PageSize - LiveBytes(p, DOMAIN p.slots) <= Packed(p, s)
         /\ Packed(p, s) + p.slots[s].length <= PageSize
         /\ \A u \in Live(p) : s < u => Packed(p, u) + p.slots[u].length <= Packed(p, s)
<1>1. ASSUME NEW u \in Live(p)
      PROVE  /\ u \in Nat /\ u >= 1 /\ p.slots[u].length \in Nat
             /\ LiveBytes(p, 1 .. u - 1) \in Nat
             /\ LiveBytes(p, 1 .. u) = LiveBytes(p, 1 .. u - 1) + p.slots[u].length
  <2>1. u \in Nat /\ u >= 1 /\ p.slots[u].length \in Nat
    BY LiveSlot
  <2>2. (1 .. u - 1) \union {u} = 1 .. u /\ u \notin 1 .. u - 1
    BY <2>1
  <2>3. LiveBytes(p, (1 .. u - 1) \union {u}) = LiveBytes(p, 1 .. u - 1) + p.slots[u].length
    BY <2>2, BytesAdd
  <2>4. LiveBytes(p, 1 .. u - 1) \in Nat
    BY BytesFit
  <2> QED BY <2>1, <2>2, <2>3, <2>4
<1>2. PageSize \in Nat /\ p.region \in Nat
  BY Sizes DEF PageOK, PageType
<1>3. LiveBytes(p, 1 .. s) \in Nat /\ LiveBytes(p, 1 .. s) <= PageSize - p.region
  BY BytesFit
<1>4. LiveBytes(p, DOMAIN p.slots) \in Nat /\ LiveBytes(p, 1 .. s) <= LiveBytes(p, DOMAIN p.slots)
  <2>1. p.slots \in Seq(Slots) /\ s \in DOMAIN p.slots /\ s \in Nat
    BY LiveSlot DEF PageOK, PageType
  <2>2. 1 .. s \subseteq DOMAIN p.slots
    BY <2>1
  <2> QED BY <2>2, BytesFit, BytesGrow
<1>5. ASSUME NEW u \in Live(p), s < u
      PROVE  Packed(p, u) + p.slots[u].length <= Packed(p, s)
  <2>1. s \in Nat /\ u \in Nat /\ p.slots[u].length \in Nat
    BY <1>1
  <2>2. 1 .. s \subseteq 1 .. u - 1
    BY <1>5, <2>1
  <2>3. LiveBytes(p, 1 .. s) <= LiveBytes(p, 1 .. u - 1)
    BY <2>2, BytesGrow
  <2>4. /\ LiveBytes(p, 1 .. u - 1) \in Nat
        /\ LiveBytes(p, 1 .. u) = LiveBytes(p, 1 .. u - 1) + p.slots[u].length
    BY <1>1
  <2>5. Packed(p, u) = PageSize - LiveBytes(p, 1 .. u) /\ Packed(p, s) = PageSize - LiveBytes(p, 1 .. s)
    BY DEF Packed
  <2> QED BY <1>2, <1>3, <2>1, <2>3, <2>4, <2>5
<1>6. Packed(p, s) = PageSize - LiveBytes(p, 1 .. s)
  BY DEF Packed
<1>7. /\ LiveBytes(p, 1 .. s - 1) \in Nat /\ p.slots[s].length \in Nat
      /\ LiveBytes(p, 1 .. s) = LiveBytes(p, 1 .. s - 1) + p.slots[s].length
  BY <1>1
<1>8. ASSUME NEW whole \in Nat, NEW region \in Nat, NEW all \in Nat, NEW upTo \in Nat,
             NEW ahead \in Nat, NEW own \in Nat,
             upTo <= whole - region, upTo <= all, upTo = ahead + own
      PROVE  whole - upTo \in Nat /\ whole - all <= whole - upTo /\ whole - upTo + own <= whole
  BY <1>8
<1>9. /\ PageSize - LiveBytes(p, 1 .. s) \in Nat
      /\ PageSize - LiveBytes(p, DOMAIN p.slots) <= PageSize - LiveBytes(p, 1 .. s)
      /\ PageSize - LiveBytes(p, 1 .. s) + p.slots[s].length <= PageSize
  BY <1>2, <1>3, <1>4, <1>7, <1>8
<1> QED BY <1>5, <1>6, <1>9

(* So a byte is written from one record at most. *)
LEMMA CoveredOnce ==
  ASSUME NEW p, PageOK(p), NEW s \in Live(p),
         NEW o \in Packed(p, s) .. Packed(p, s) + p.slots[s].length - 1
  PROVE  Covering(p, o) # {} /\ First(Covering(p, o)) = s
<1>1. ASSUME NEW u \in Covering(p, o) PROVE u = s
  <2>1. u \in Live(p) /\ o \in Packed(p, u) .. Packed(p, u) + p.slots[u].length - 1
    BY DEF Covering
  <2>2. /\ Packed(p, s) \in Nat /\ Packed(p, u) \in Nat /\ s \in Nat /\ u \in Nat
        /\ p.slots[s].length \in Nat /\ p.slots[u].length \in Nat
    BY <2>1, PackedPlace, LiveSlot
  <2>3. s < u => Packed(p, u) + p.slots[u].length <= Packed(p, s)
    BY <2>1, PackedPlace
  <2>4. u < s => Packed(p, s) + p.slots[s].length <= Packed(p, u)
    BY <2>1, PackedPlace
  <2>5. /\ Packed(p, s) <= o /\ o <= Packed(p, s) + p.slots[s].length - 1
        /\ Packed(p, u) <= o /\ o <= Packed(p, u) + p.slots[u].length - 1 /\ o \in Int
    BY <2>1, <2>2
  <2>6. ~(s < u)
    BY <2>2, <2>3, <2>5
  <2>7. ~(u < s)
    BY <2>2, <2>4, <2>5
  <2> QED BY <2>2, <2>6, <2>7
<1>2. s \in Covering(p, o)
  BY DEF Covering
<1>3. Covering(p, o) = {s} /\ s \in Nat
  BY <1>1, <1>2, LiveSlot
<1>4. First({s}) = s
  BY <1>3, LeastNumber
<1> QED BY <1>3, <1>4

(* A record of the page is a sequence of as many bytes as its slot says. *)
LEMMA ARecord ==
  ASSUME NEW p, PageOK(p), NEW s \in Live(p)
  PROVE  \A i \in 1 .. p.slots[s].length :
           /\ Get(p, s)[i] \in Values
           /\ Get(p, s)[i] = p.data[p.slots[s].offset + i - 1]
<1>1. Get(p, s) \in Seq(Values)
  BY PagesAssumption DEF PageOK
<1>2. DOMAIN Get(p, s) = 1 .. p.slots[s].length
  BY DEF Get
<1>3. \A i \in DOMAIN Get(p, s) : Get(p, s)[i] \in Values
  BY <1>1
<1> QED BY <1>2, <1>3 DEF Get

(* What a compaction does to the directory. *)
LEMMA CompactedSlots ==
  ASSUME NEW p, PageOK(p)
  PROVE  LET q == Compacted(p) IN
         /\ q.slots \in Seq(Slots) /\ Len(q.slots) = Len(p.slots)
         /\ DOMAIN q.slots = DOMAIN p.slots /\ Live(q) = Live(p)
         /\ \A s \in Live(p) : q.slots[s].offset = Packed(p, s) /\ q.slots[s].length = p.slots[s].length
<1> DEFINE q == Compacted(p)
           new == [s \in DOMAIN p.slots |->
                     IF s \in Live(p) THEN [p.slots[s] EXCEPT !.offset = Packed(p, s)]
                     ELSE p.slots[s]]
<1>1. q.slots = new
  BY DEF Compacted, Repacked
<1>2. ASSUME NEW s \in Live(p)
      PROVE  /\ [p.slots[s] EXCEPT !.offset = Packed(p, s)] \in Slots
             /\ [p.slots[s] EXCEPT !.offset = Packed(p, s)].offset = Packed(p, s)
             /\ [p.slots[s] EXCEPT !.offset = Packed(p, s)].length = p.slots[s].length
             /\ Packed(p, s) # Tombstone
  <2>1. p.slots[s] \in Slots
    BY LiveSlot, Slot DEF PageOK
  <2>2. Packed(p, s) \in 0 .. Tombstone /\ Packed(p, s) # Tombstone
    <3>1. Packed(p, s) \in Nat /\ Packed(p, s) + p.slots[s].length <= PageSize
          /\ p.slots[s].length \in Nat
      BY PackedPlace, LiveSlot
    <3> QED BY <3>1, Sizes
  <2> QED BY <2>1, <2>2 DEF Slots
<1>3. p.slots \in Seq(Slots)
  BY DEF PageOK, PageType
<1>4. new \in [1 .. Len(p.slots) -> Slots] /\ Len(p.slots) \in Nat
  BY <1>2, <1>3
<1>5. new \in Seq(Slots) /\ Len(new) = Len(p.slots) /\ DOMAIN new = DOMAIN p.slots
  <2>1. DOMAIN new = 1 .. Len(p.slots) /\ DOMAIN p.slots = 1 .. Len(p.slots)
    BY <1>3
  <2> HIDE DEF new
  <2> QED BY <1>4, <2>1
<1>6. ASSUME NEW s \in DOMAIN p.slots PROVE new[s].offset # Tombstone <=> s \in Live(p)
  BY <1>2 DEF Live
<1>7. Live(q) = Live(p)
  BY <1>1, <1>5, <1>6 DEF Live
<1>8. \A s \in Live(p) : new[s].offset = Packed(p, s) /\ new[s].length = p.slots[s].length
  BY <1>2 DEF Live
<1> QED BY <1>1, <1>5, <1>7, <1>8

(* A compaction keeps the page readable and every record as it was. *)
LEMMA CompactedKeeps ==
  ASSUME NEW p, PageOK(p)
  PROVE  LET q == Compacted(p) IN
         /\ PageOK(q) /\ DOMAIN q.slots = DOMAIN p.slots /\ Live(q) = Live(p)
         /\ \A s \in Live(p) : Get(q, s) = Get(p, s)
<1> DEFINE q == Compacted(p)
<1>1. /\ q.slots \in Seq(Slots) /\ Len(q.slots) = Len(p.slots)
      /\ DOMAIN q.slots = DOMAIN p.slots /\ Live(q) = Live(p)
      /\ \A s \in Live(p) : q.slots[s].offset = Packed(p, s) /\ q.slots[s].length = p.slots[s].length
  BY CompactedSlots
<1>2. q = [slots |-> q.slots, region |-> PageSize - LiveBytes(p, DOMAIN p.slots), data |-> q.data]
  BY DEF Compacted, Repacked
<1>3. q.data = [o \in Offsets |->
                  IF Covering(p, o) = {} THEN p.data[o]
                  ELSE LET s == First(Covering(p, o)) IN Get(p, s)[o - Packed(p, s) + 1]]
  BY DEF Compacted, Repacked
<1>4. /\ q.region = PageSize - LiveBytes(p, DOMAIN p.slots)
      /\ LiveBytes(p, DOMAIN p.slots) \in Nat /\ p.region \in Nat /\ PageSize \in Nat
      /\ p.region <= q.region /\ q.region <= PageSize /\ q.region \in Nat
  <2>1. LiveBytes(p, DOMAIN p.slots) \in Nat /\ LiveBytes(p, DOMAIN p.slots) <= PageSize - p.region
    BY BytesFit
  <2>2. p.region \in Nat /\ PageSize \in Nat /\ q.region = PageSize - LiveBytes(p, DOMAIN p.slots)
    BY <1>2, Sizes DEF PageOK, PageType
  <2> QED BY <2>1, <2>2
<1> HIDE DEF q
<1>5. ASSUME NEW s \in Live(p), NEW i \in 1 .. p.slots[s].length
      PROVE  /\ Packed(p, s) + i - 1 \in Packed(p, s) .. Packed(p, s) + p.slots[s].length - 1
             /\ Packed(p, s) + i - 1 - Packed(p, s) + 1 = i
             /\ Packed(p, s) \in Nat /\ i \in Nat
  <2>1. Packed(p, s) \in Nat /\ p.slots[s].length \in Nat
    BY PackedPlace, LiveSlot
  <2> QED BY <2>1
<1>6. q.data \in [Offsets -> Values \union {Zero}]
  <2> SUFFICES ASSUME NEW o \in Offsets PROVE q.data[o] \in Values \union {Zero}
    BY <1>3
  <2>1. CASE Covering(p, o) = {}
    BY <1>3, <2>1 DEF PageOK, PageType
  <2>2. CASE Covering(p, o) # {}
    <3>1. PICK s \in Covering(p, o) : TRUE
      BY <2>2
    <3>2. s \in Live(p) /\ o \in Packed(p, s) .. Packed(p, s) + p.slots[s].length - 1
      BY <3>1 DEF Covering
    <3>3. First(Covering(p, o)) = s
      BY <3>2, CoveredOnce
    <3>4. o - Packed(p, s) + 1 \in 1 .. p.slots[s].length
      <4>1. Packed(p, s) \in Nat /\ p.slots[s].length \in Nat
        BY <3>2, PackedPlace, LiveSlot
      <4> QED BY <3>2, <4>1
    <3>5. q.data[o] = Get(p, s)[o - Packed(p, s) + 1]
      BY <1>3, <2>2, <3>3
    <3> QED BY <3>2, <3>4, <3>5, ARecord
  <2> QED BY <2>1, <2>2
<1>7. q \in PageType
  BY <1>1, <1>2, <1>4, <1>6 DEF PageType
<1>8. ASSUME NEW s \in Live(p) PROVE Get(q, s) = Get(p, s)
  <2>1. ASSUME NEW i \in 1 .. p.slots[s].length
        PROVE  q.data[Packed(p, s) + i - 1] = p.data[p.slots[s].offset + i - 1]
    <3> DEFINE o == Packed(p, s) + i - 1
    <3>1. o \in Packed(p, s) .. Packed(p, s) + p.slots[s].length - 1
          /\ o - Packed(p, s) + 1 = i /\ Packed(p, s) \in Nat
      BY <1>5
    <3>2. o \in Offsets
      <4>1. Packed(p, s) + p.slots[s].length <= PageSize /\ p.slots[s].length \in Nat
            /\ q.region <= Packed(p, s)
        BY <1>4, PackedPlace, LiveSlot
      <4>2. HeaderSize \in Nat /\ HeaderSize <= p.region
        <5>1. Len(p.slots) \in Nat /\ SlotSize \in Nat /\ HeaderSize \in Nat
          BY Sizes DEF PageOK, PageType
        <5>2. Len(p.slots) * SlotSize \in Nat
          BY <5>1
        <5>3. HeaderSize + Len(p.slots) * SlotSize <= p.region
          BY DEF PageOK, FromBytesAccepts, Lower
        <5> HIDE DEF o
        <5> QED BY <1>4, <5>1, <5>2, <5>3, SMTT(30)
      <4> HIDE DEF o
      <4> QED BY <1>4, <3>1, <4>1, <4>2 DEF Offsets
    <3>3. First(Covering(p, o)) = s /\ Covering(p, o) # {}
      BY <3>1, CoveredOnce
    <3> HIDE DEF o
    <3>4. q.data[o] = Get(p, s)[i]
      BY <1>3, <3>1, <3>2, <3>3
    <3>5. q.data[o] = p.data[p.slots[s].offset + i - 1]
      BY <3>4, ARecord
    <3> QED BY <3>5 DEF o
  <2>2. q.slots[s].offset = Packed(p, s) /\ q.slots[s].length = p.slots[s].length
    BY <1>1
  <2> QED BY <2>1, <2>2 DEF Get
<1>9. FromBytesAccepts(q)
  <2>1. Lower(q) = Lower(p)
    BY <1>1 DEF Lower
  <2>2. Lower(q) <= q.region
    <3>1. Len(p.slots) * SlotSize \in Nat /\ HeaderSize \in Nat
      <4>1. Len(p.slots) \in Nat /\ SlotSize \in Nat /\ HeaderSize \in Nat
        BY Sizes DEF PageOK, PageType
      <4> QED BY <4>1
    <3>2. Lower(p) <= p.region /\ Lower(p) \in Nat
      BY <3>1 DEF PageOK, FromBytesAccepts, Lower
    <3> QED BY <1>4, <2>1, <3>2
  <2>3. ASSUME NEW s \in Live(q)
        PROVE  /\ q.slots[s].offset >= q.region
               /\ q.slots[s].offset + q.slots[s].length <= PageSize
    <3>1. /\ q.region <= Packed(p, s) /\ Packed(p, s) + p.slots[s].length <= PageSize
          /\ Packed(p, s) \in Nat
      BY <1>1, <1>4, PackedPlace
    <3> QED BY <1>1, <1>4, <3>1
  <2> QED BY <1>4, <2>2, <2>3 DEF FromBytesAccepts
<1>10. ASSUME NEW s \in Live(q), NEW u \in Live(q), s # u
       PROVE  Bytes(q, s) \cap Bytes(q, u) = {}
  <2>1. ASSUME NEW o \in Bytes(q, s), o \in Bytes(q, u) PROVE FALSE
    <3>1. /\ o \in Packed(p, s) .. Packed(p, s) + p.slots[s].length - 1
          /\ o \in Packed(p, u) .. Packed(p, u) + p.slots[u].length - 1
      BY <1>1, <2>1 DEF Bytes
    <3>2. First(Covering(p, o)) = s /\ First(Covering(p, o)) = u
      BY <1>1, <3>1, CoveredOnce
    <3> QED BY <1>10, <3>2
  <2> QED BY <2>1
<1>11. PageOK(q)
  BY <1>1, <1>7, <1>8, <1>9, <1>10 DEF PageOK
<1> QED BY <1>1, <1>8, <1>11 DEF q

-----------------------------------------------------------------------------
(* Insertion *)

(* What a page says of itself, in numbers. *)
LEMMA PageNumbersOf ==
  ASSUME NEW p, PageOK(p)
  PROVE  /\ Len(p.slots) \in Nat /\ p.slots \in Seq(Slots) /\ DOMAIN p.slots = 1 .. Len(p.slots)
         /\ Len(p.slots) * SlotSize \in Nat
         /\ (Len(p.slots) + 1) * SlotSize = Len(p.slots) * SlotSize + SlotSize
         /\ Lower(p) \in Nat /\ Lower(p) = HeaderSize + Len(p.slots) * SlotSize
         /\ p.region \in Nat /\ Lower(p) <= p.region /\ p.region <= PageSize
         /\ FreeSpace(p) \in Nat /\ FreeSpace(p) = p.region - Lower(p)
<1>1. p.slots \in Seq(Slots) /\ p.region \in Nat /\ HeaderSize \in Nat /\ SlotSize \in Nat
  BY Sizes DEF PageOK, PageType
<1>2. Len(p.slots) \in Nat /\ DOMAIN p.slots = 1 .. Len(p.slots)
  BY <1>1
<1>3. ASSUME NEW a \in Nat, NEW b \in Nat PROVE a * b \in Nat /\ (a + 1) * b = a * b + b
  OBVIOUS
<1>4. Len(p.slots) * SlotSize \in Nat /\ (Len(p.slots) + 1) * SlotSize = Len(p.slots) * SlotSize + SlotSize
  BY <1>1, <1>2, <1>3
<1>5. Lower(p) = HeaderSize + Len(p.slots) * SlotSize
  BY DEF Lower
<1>6. Lower(p) \in Nat
  BY <1>1, <1>4, <1>5
<1>7. Lower(p) <= p.region /\ p.region <= PageSize
  BY DEF PageOK, FromBytesAccepts
<1>8. FreeSpace(p) \in Nat /\ FreeSpace(p) = p.region - Lower(p)
  BY <1>1, <1>6, <1>7 DEF FreeSpace, Saturating
<1> QED BY <1>1, <1>2, <1>4, <1>5, <1>6, <1>7, <1>8

(* The slot a record goes to, and the directory with it. *)
NewSlot(p) == IF Tombstones(p) = {} THEN Len(p.slots) + 1 ELSE First(Tombstones(p))

WithSlot(p, slot) == IF Tombstones(p) = {} THEN Append(p.slots, slot)
                     ELSE [p.slots EXCEPT ![First(Tombstones(p))] = slot]

LEMMA NewSlotIsFree ==
  ASSUME NEW p, PageOK(p), NEW slot \in Slots
  PROVE  /\ NewSlot(p) \notin Live(p)
         /\ Tombstones(p) # {} => NewSlot(p) \in DOMAIN p.slots
         /\ WithSlot(p, slot) \in Seq(Slots) /\ WithSlot(p, slot)[NewSlot(p)] = slot
         /\ Len(WithSlot(p, slot)) = IF Tombstones(p) = {} THEN Len(p.slots) + 1 ELSE Len(p.slots)
         /\ DOMAIN WithSlot(p, slot) = DOMAIN p.slots \union {NewSlot(p)}
         /\ \A s \in DOMAIN p.slots : s # NewSlot(p) => WithSlot(p, slot)[s] = p.slots[s]
<1> DEFINE slots == WithSlot(p, slot)
<1>1. p.slots \in Seq(Slots) /\ Len(p.slots) \in Nat /\ DOMAIN p.slots = 1 .. Len(p.slots)
  BY PageNumbersOf
<1> HIDE DEF slots
<1>2. CASE Tombstones(p) = {}
  <2>1. NewSlot(p) = Len(p.slots) + 1 /\ slots = Append(p.slots, slot)
    BY <1>2 DEF NewSlot, WithSlot, slots
  <2>2. Live(p) \subseteq DOMAIN p.slots
    BY DEF Live
  <2>3. NewSlot(p) \notin DOMAIN p.slots
    BY <1>1, <2>1
  <2>4. /\ slots \in Seq(Slots) /\ Len(slots) = Len(p.slots) + 1
        /\ slots[Len(p.slots) + 1] = slot
        /\ \A s \in 1 .. Len(p.slots) : slots[s] = p.slots[s]
    BY <1>1, <2>1
  <2>5. DOMAIN slots = DOMAIN p.slots \union {NewSlot(p)}
    <3>1. DOMAIN slots = 1 .. Len(slots)
      BY <2>4
    <3> QED BY <1>1, <2>1, <2>4, <3>1
  <2> QED BY <1>1, <1>2, <2>1, <2>2, <2>3, <2>4, <2>5 DEF slots
<1>3. CASE Tombstones(p) # {}
  <2>1. NewSlot(p) = First(Tombstones(p)) /\ slots = [p.slots EXCEPT ![NewSlot(p)] = slot]
    BY <1>3 DEF NewSlot, WithSlot, slots
  <2>2. Tombstones(p) \subseteq DOMAIN p.slots /\ Tombstones(p) \cap Live(p) = {}
    BY DEF Tombstones
  <2>3. Tombstones(p) \subseteq Nat
    BY <1>1, <2>2
  <2>4. NewSlot(p) \in Tombstones(p)
    BY <1>3, <2>1, <2>3, LeastNumber
  <2>5. NewSlot(p) \in DOMAIN p.slots /\ NewSlot(p) \notin Live(p)
    BY <2>2, <2>4
  <2>6. slots \in Seq(Slots) /\ Len(slots) = Len(p.slots) /\ DOMAIN slots = DOMAIN p.slots
    BY <1>1, <2>1, <2>5
  <2>7. slots[NewSlot(p)] = slot /\ \A s \in DOMAIN p.slots : s # NewSlot(p) => slots[s] = p.slots[s]
    BY <1>1, <2>1, <2>5
  <2> QED BY <1>3, <2>5, <2>6, <2>7 DEF slots
<1> QED BY <1>2, <1>3 DEF slots

(* A record that fits is put in front of the others, and changes none. *)
LEMMA InsertedKeeps ==
  ASSUME NEW p, PageOK(p), NEW r \in Records, Fits(p, r)
  PROVE  LET q == Inserted(p, r) IN
         /\ PageOK(q) /\ DOMAIN q.slots = DOMAIN p.slots \union {NewSlot(p)}
         /\ NewSlot(p) \notin Live(p) /\ Live(q) = Live(p) \union {NewSlot(p)}
         /\ Tombstones(p) = {} => NewSlot(p) = Len(p.slots) + 1
         /\ Tombstones(p) # {} => NewSlot(p) \in DOMAIN p.slots
         /\ Get(q, NewSlot(p)) = r /\ \A s \in Live(p) : Get(q, s) = Get(p, s)
<1> DEFINE start == p.region - Len(r)
           slot == [offset |-> start, length |-> Len(r)]
           q == Inserted(p, r)
           k == NewSlot(p)
<1>1. r \in Seq(Values) /\ Len(r) \in Nat /\ DOMAIN r = 1 .. Len(r)
  BY PagesAssumption
<1>2. /\ q = [slots |-> q.slots, region |-> q.region, data |-> q.data]
      /\ q.slots = WithSlot(p, slot)
      /\ q.data = [o \in Offsets |-> IF o \in start .. p.region - 1
                                     THEN r[o - start + 1] ELSE p.data[o]]
  BY DEF Inserted, WithSlot
<1>region. q.region = start
  BY DEF Inserted
<1>3. /\ p.region \in Nat /\ Lower(p) \in Nat /\ p.region <= PageSize
      /\ FreeSpace(p) = p.region - Lower(p)
      /\ HeaderSize \in Nat /\ SlotSize \in Nat /\ PageSize \in Nat /\ HeaderSize <= Lower(p)
  <2>1. Lower(p) = HeaderSize + Len(p.slots) * SlotSize /\ Len(p.slots) * SlotSize \in Nat
    BY PageNumbersOf
  <2>2. HeaderSize \in Nat /\ HeaderSize <= Lower(p)
    BY <2>1, Sizes
  <2> QED BY <2>2, PageNumbersOf, Sizes
<1>4. /\ Lower(p) + Len(r) <= p.region
      /\ Tombstones(p) = {} => Lower(p) + SlotSize + Len(r) <= p.region
  BY <1>1, <1>3 DEF Fits, Needed
<1>5. /\ start \in Nat /\ Lower(p) <= start /\ start <= p.region /\ HeaderSize <= start
      /\ start + Len(r) = p.region
      /\ Tombstones(p) = {} => Lower(p) + SlotSize <= start
  BY <1>1, <1>3, <1>4, SMTT(30)
<1>6. slot \in Slots /\ slot.offset = start /\ slot.length = Len(r) /\ start # Tombstone
  <2>1. start \in 0 .. Tombstone /\ start # Tombstone
    BY <1>3, <1>5, Sizes
  <2> QED BY <1>1, <2>1 DEF Slots
<1> HIDE DEF q, slot, start, k
<1>7. /\ k \notin Live(p) /\ (Tombstones(p) # {} => k \in DOMAIN p.slots)
      /\ q.slots \in Seq(Slots) /\ q.slots[k] = slot
      /\ Len(q.slots) = IF Tombstones(p) = {} THEN Len(p.slots) + 1 ELSE Len(p.slots)
      /\ DOMAIN q.slots = DOMAIN p.slots \union {k}
      /\ \A s \in DOMAIN p.slots : s # k => q.slots[s] = p.slots[s]
  <2>1. q.slots = WithSlot(p, slot) /\ slot \in Slots
    BY <1>2, <1>6
  <2>2. /\ NewSlot(p) \notin Live(p)
        /\ Tombstones(p) # {} => NewSlot(p) \in DOMAIN p.slots
        /\ WithSlot(p, slot) \in Seq(Slots) /\ WithSlot(p, slot)[NewSlot(p)] = slot
        /\ Len(WithSlot(p, slot)) = IF Tombstones(p) = {} THEN Len(p.slots) + 1 ELSE Len(p.slots)
        /\ DOMAIN WithSlot(p, slot) = DOMAIN p.slots \union {NewSlot(p)}
        /\ \A s \in DOMAIN p.slots : s # NewSlot(p) => WithSlot(p, slot)[s] = p.slots[s]
    BY <2>1, NewSlotIsFree
  <2>3. k = NewSlot(p)
    BY DEF k
  <2> QED BY <2>1, <2>2, <2>3
<1>8. ASSUME NEW s \in Live(p)
      PROVE  s # k /\ s \in DOMAIN p.slots /\ q.slots[s] = p.slots[s]
  BY <1>7 DEF Live
<1>9. Live(q) = Live(p) \union {k}
  BY <1>6, <1>7, <1>8 DEF Live
<1>10. q \in PageType
  <2>1. ASSUME NEW o \in Offsets PROVE q.data[o] \in Values \union {Zero}
    <3>1. CASE o \in start .. p.region - 1
      <4>1. o - start + 1 \in 1 .. Len(r)
        BY <1>1, <1>3, <1>5, <3>1
      <4>2. r[o - start + 1] \in Values
        BY <1>1, <4>1
      <4> QED BY <1>2, <3>1, <4>2
    <3>2. CASE o \notin start .. p.region - 1
      <4>1. p.data[o] \in Values \union {Zero}
        BY DEF PageOK, PageType
      <4> QED BY <1>2, <3>2, <4>1
    <3> QED BY <3>1, <3>2
  <2>2. q.data \in [Offsets -> Values \union {Zero}]
    BY <1>2, <2>1
  <2> QED BY <1>2, <1>region, <1>5, <1>7, <2>2 DEF PageType
<1>11. Get(q, k) = r
  <2>1. q.slots[k].offset = start /\ q.slots[k].length = Len(r)
    BY <1>6, <1>7
  <2>2. ASSUME NEW i \in 1 .. Len(r) PROVE q.data[start + i - 1] = r[i]
    <3> DEFINE o == start + i - 1
    <3>1. o \in start .. p.region - 1 /\ o \in Offsets /\ o - start + 1 = i
      BY <1>1, <1>3, <1>5 DEF Offsets
    <3> HIDE DEF o
    <3>2. q.data[o] = r[o - start + 1]
      BY <1>2, <3>1
    <3> QED BY <3>1, <3>2 DEF o
  <2>3. r = [i \in 1 .. Len(r) |-> r[i]]
    BY <1>1
  <2>4. Get(q, k) = [i \in 1 .. Len(r) |-> q.data[start + i - 1]]
    BY <2>1 DEF Get
  <2> QED BY <2>2, <2>3, <2>4
<1>12. ASSUME NEW s \in Live(p) PROVE Get(q, s) = Get(p, s)
  <2>1. /\ p.slots[s].offset \in Nat /\ p.slots[s].length \in Nat
        /\ p.region <= p.slots[s].offset /\ p.slots[s].offset + p.slots[s].length <= PageSize
    BY LiveSlot
  <2>2. ASSUME NEW i \in 1 .. p.slots[s].length
        PROVE  q.data[p.slots[s].offset + i - 1] = p.data[p.slots[s].offset + i - 1]
    <3> DEFINE o == p.slots[s].offset + i - 1
    <3>1. p.region <= o /\ o <= PageSize - 1 /\ o \in Nat
      BY <1>3, <2>1
    <3> HIDE DEF o
    <3>2. o \notin start .. p.region - 1 /\ o \in Offsets
      BY <1>3, <1>5, <3>1 DEF Offsets
    <3>3. q.data[o] = p.data[o]
      BY <1>2, <3>2
    <3> QED BY <3>3 DEF o
  <2> QED BY <1>8, <2>2 DEF Get
<1>13. ASSUME NEW s \in Live(q)
       PROVE  /\ q.slots[s].offset >= q.region
              /\ q.slots[s].offset + q.slots[s].length <= PageSize
  <2>1. CASE s = k
    <3>1. q.slots[s].offset = start /\ q.slots[s].length = Len(r)
      BY <1>6, <1>7, <2>1
    <3> QED BY <1>region, <1>3, <1>5, <3>1
  <2>2. CASE s \in Live(p)
    <3>1. /\ p.slots[s].offset \in Nat /\ p.slots[s].length \in Nat
          /\ p.region <= p.slots[s].offset /\ p.slots[s].offset + p.slots[s].length <= PageSize
      BY <2>2, LiveSlot
    <3>2. q.slots[s] = p.slots[s]
      BY <1>8, <2>2
    <3> QED BY <1>region, <1>3, <1>5, <3>1, <3>2
  <2> QED BY <1>9, <2>1, <2>2
<1>14. FromBytesAccepts(q)
  <2>1. Lower(q) <= q.region
    <3>1. Lower(q) = HeaderSize + Len(q.slots) * SlotSize
      BY DEF Lower
    <3>2. CASE Tombstones(p) = {}
      <4>1. Len(q.slots) * SlotSize = Len(p.slots) * SlotSize + SlotSize
        BY <1>7, <3>2, PageNumbersOf
      <4>2. ASSUME NEW a \in Nat, NEW b \in Nat, NEW c \in Nat
            PROVE  a + (b + c) = (a + b) + c
        OBVIOUS
      <4>3. Len(p.slots) * SlotSize \in Nat /\ Lower(p) = HeaderSize + Len(p.slots) * SlotSize
        BY PageNumbersOf
      <4>4. HeaderSize + (Len(p.slots) * SlotSize + SlotSize) = Lower(p) + SlotSize
        BY <1>3, <4>2, <4>3
      <4>5. Lower(q) = Lower(p) + SlotSize
        BY <3>1, <4>1, <4>4
      <4> QED BY <1>region, <1>5, <3>2, <4>5
    <3>3. CASE Tombstones(p) # {}
      <4>1. Lower(q) = Lower(p)
        BY <1>7, <3>1, <3>3 DEF Lower
      <4> QED BY <1>region, <1>5, <4>1
    <3> QED BY <3>2, <3>3
  <2>2. q.region <= PageSize
    BY <1>region, <1>3, <1>5
  <2> QED BY <1>13, <2>1, <2>2 DEF FromBytesAccepts
<1>15. ASSUME NEW s \in Live(p)
       PROVE  Bytes(q, s) = Bytes(p, s) /\ Bytes(q, s) \cap Bytes(q, k) = {}
  <2>1. p.slots[s].offset \in Nat /\ p.slots[s].length \in Nat /\ p.region <= p.slots[s].offset
    BY LiveSlot
  <2>2. Bytes(q, s) = p.slots[s].offset .. p.slots[s].offset + p.slots[s].length - 1
    BY <1>8 DEF Bytes
  <2>3. Bytes(q, k) = start .. start + Len(r) - 1
    BY <1>6, <1>7 DEF Bytes
  <2>4. ASSUME NEW o \in Bytes(q, s), o \in Bytes(q, k) PROVE FALSE
    BY <1>1, <1>3, <1>5, <2>1, <2>2, <2>3, <2>4
  <2> QED BY <1>8, <2>4 DEF Bytes
<1>16. ASSUME NEW s \in Live(q), NEW u \in Live(q), s # u
       PROVE  Bytes(q, s) \cap Bytes(q, u) = {}
  <2>1. CASE s \in Live(p) /\ u \in Live(p)
    BY <1>15, <1>16, <2>1 DEF PageOK
  <2>2. CASE s = k \/ u = k
    BY <1>9, <1>15, <1>16, <2>2
  <2> QED BY <1>9, <2>1, <2>2
<1>17. PageOK(q)
  <2>1. \A s \in Live(q) : Get(q, s) \in Records
    BY <1>9, <1>11, <1>12 DEF PageOK
  <2> QED BY <1>10, <1>14, <1>16, <2>1 DEF PageOK
<1>18. Tombstones(p) = {} => k = Len(p.slots) + 1
  BY DEF k, NewSlot
<1> QED BY <1>7, <1>9, <1>11, <1>12, <1>17, <1>18 DEF k, q

-----------------------------------------------------------------------------
(* The steps of a page *)

(* What a reader of the page sees. *)
View(p) == [s \in DOMAIN p.slots |-> IF s \in Live(p) THEN Get(p, s) ELSE Deleted]

(* What a step may do to it. *)
Stored1(v, w) ==
  \E r \in Records :
    \/ w = Append(v, r)
    \/ \E s \in DOMAIN v : v[s] = Deleted /\ w = [v EXCEPT ![s] = r]
Dropped(v, w) == \E s \in DOMAIN v : v[s] # Deleted /\ w = [v EXCEPT ![s] = Deleted]
ViewStep(v, w) == Stored1(v, w) \/ Dropped(v, w) \/ w = <<>> \/ w = v

LEMMA ViewOf ==
  ASSUME NEW p, PageOK(p)
  PROVE  /\ View(p) \in Seq(Records \union {Deleted}) /\ Len(View(p)) = Len(p.slots)
         /\ DOMAIN View(p) = DOMAIN p.slots
         /\ \A s \in DOMAIN p.slots : View(p)[s] = Deleted <=> s \notin Live(p)
<1>1. Len(p.slots) \in Nat /\ DOMAIN p.slots = 1 .. Len(p.slots)
  BY PageNumbersOf
<1>2. ASSUME NEW s \in DOMAIN p.slots
      PROVE  /\ View(p)[s] = IF s \in Live(p) THEN Get(p, s) ELSE Deleted
             /\ View(p)[s] \in Records \union {Deleted}
             /\ View(p)[s] = Deleted <=> s \notin Live(p)
  <2>1. View(p)[s] = IF s \in Live(p) THEN Get(p, s) ELSE Deleted
    BY DEF View
  <2>2. s \in Live(p) => Get(p, s) \in Records /\ Deleted \notin Records
    BY PagesAssumption DEF PageOK
  <2> QED BY <2>1, <2>2
<1>3. DOMAIN View(p) = DOMAIN p.slots
  BY DEF View
<1>4. View(p) = [s \in 1 .. Len(p.slots) |-> View(p)[s]]
  BY <1>1 DEF View
<1>5. View(p) \in [1 .. Len(p.slots) -> Records \union {Deleted}]
  BY <1>1, <1>2, <1>4
<1>6. View(p) \in Seq(Records \union {Deleted}) /\ Len(View(p)) = Len(p.slots)
  BY <1>1, <1>3, <1>5
<1> QED BY <1>2, <1>3, <1>6

LEMMA InsertStep ==
  ASSUME NEW p, PageOK(p), NEW r \in Records, Fits(p, r)
  PROVE  PageOK(Inserted(p, r)) /\ Stored1(View(p), View(Inserted(p, r)))
<1> DEFINE q == Inserted(p, r)
           k == NewSlot(p)
           v == View(p)
           w == View(q)
<1>1. /\ PageOK(q) /\ DOMAIN q.slots = DOMAIN p.slots \union {k}
      /\ k \notin Live(p) /\ Live(q) = Live(p) \union {k}
      /\ Tombstones(p) = {} => k = Len(p.slots) + 1
      /\ Tombstones(p) # {} => k \in DOMAIN p.slots
      /\ Get(q, k) = r /\ \A s \in Live(p) : Get(q, s) = Get(p, s)
  BY InsertedKeeps
<1>2. /\ v \in Seq(Records \union {Deleted}) /\ Len(v) = Len(p.slots) /\ DOMAIN v = DOMAIN p.slots
      /\ \A s \in DOMAIN p.slots : v[s] = Deleted <=> s \notin Live(p)
  BY ViewOf
<1> HIDE DEF q, k
<1>3. /\ w \in Seq(Records \union {Deleted}) /\ Len(w) = Len(q.slots) /\ DOMAIN w = DOMAIN q.slots
  BY <1>1, ViewOf
<1>4. w[k] = r
  BY <1>1 DEF View
<1>5. ASSUME NEW s \in DOMAIN p.slots, s # k PROVE w[s] = v[s]
  BY <1>1, <1>5 DEF View
<1> HIDE DEF v, w
<1>6. CASE Tombstones(p) = {}
  <2>1. k = Len(v) + 1 /\ DOMAIN v = 1 .. Len(v) /\ Len(v) \in Nat
    BY <1>1, <1>2, <1>6
  <2>2. DOMAIN w = 1 .. Len(v) + 1
    BY <1>1, <1>2, <1>3, <2>1
  <2>3. ASSUME NEW s \in 1 .. Len(v) + 1 PROVE w[s] = Append(v, r)[s]
    <3>1. CASE s \in 1 .. Len(v)
      <4>1. s # k /\ s \in DOMAIN p.slots
        BY <1>2, <2>1, <3>1
      <4> QED BY <1>2, <1>5, <3>1, <4>1
    <3>2. CASE s = Len(v) + 1
      BY <1>2, <1>4, <2>1, <3>2
    <3> QED BY <2>1, <3>1, <3>2
  <2>4. w = Append(v, r)
    <3>1. DOMAIN Append(v, r) = 1 .. Len(v) + 1 /\ Append(v, r) \in Seq(Records \union {Deleted})
      BY <1>2
    <3>2. \A a, b : a \in Seq(Records \union {Deleted}) /\ b \in Seq(Records \union {Deleted})
                    /\ DOMAIN a = DOMAIN b /\ (\A s \in DOMAIN a : a[s] = b[s]) => a = b
      OBVIOUS
    <3> QED BY <1>3, <2>2, <2>3, <3>1, <3>2
  <2> QED BY <1>1, <2>4 DEF Stored1, v, w, q
<1>7. CASE Tombstones(p) # {}
  <2>1. k \in DOMAIN p.slots /\ v[k] = Deleted
    BY <1>1, <1>2, <1>7
  <2>2. DOMAIN w = DOMAIN v
    BY <1>1, <1>2, <1>3, <2>1
  <2>3. w = [v EXCEPT ![k] = r]
    <3>1. w = [s \in DOMAIN v |-> w[s]] /\ v = [s \in DOMAIN v |-> v[s]]
      BY <1>2, <1>3, <2>2
    <3> QED BY <1>2, <1>4, <1>5, <2>1, <3>1
  <2> QED BY <1>1, <1>2, <2>1, <2>3 DEF Stored1, v, w, q
<1> QED BY <1>6, <1>7

LEMMA CompactStep ==
  ASSUME NEW p, PageOK(p)
  PROVE  PageOK(Compacted(p)) /\ View(Compacted(p)) = View(p)
<1> DEFINE q == Compacted(p)
<1>1. /\ PageOK(q) /\ DOMAIN q.slots = DOMAIN p.slots /\ Live(q) = Live(p)
      /\ \A s \in Live(p) : Get(q, s) = Get(p, s)
  BY CompactedKeeps
<1> HIDE DEF q
<1>2. View(q) = View(p)
  BY <1>1 DEF View
<1> QED BY <1>1, <1>2 DEF q

LEMMA DeleteStep ==
  ASSUME NEW p, PageOK(p), NEW s \in Live(p), NEW q,
         q = [p EXCEPT !.slots[s] = [offset |-> Tombstone, length |-> 0]]
  PROVE  PageOK(q) /\ Dropped(View(p), View(q))
<1> DEFINE gone == [offset |-> Tombstone, length |-> 0]
<1>1. /\ p.slots \in Seq(Slots) /\ s \in DOMAIN p.slots
      /\ p = [slots |-> p.slots, region |-> p.region, data |-> p.data]
  BY DEF PageOK, PageType, Live
<1>2. q = [slots |-> [p.slots EXCEPT ![s] = gone], region |-> p.region, data |-> p.data]
  BY <1>1
<1>3. gone \in Slots /\ gone.offset = Tombstone /\ gone.length = 0
  BY Sizes DEF Slots
<1> HIDE DEF gone
<1>4. q.slots = [p.slots EXCEPT ![s] = gone] /\ q.region = p.region /\ q.data = p.data
  BY <1>2
<1>5. /\ q.slots \in Seq(Slots) /\ Len(q.slots) = Len(p.slots) /\ DOMAIN q.slots = DOMAIN p.slots
      /\ q.slots[s] = gone /\ \A u \in DOMAIN p.slots : u # s => q.slots[u] = p.slots[u]
  BY <1>1, <1>3, <1>4
<1>6. Live(q) = Live(p) \ {s}
  BY <1>3, <1>5 DEF Live
<1>7. ASSUME NEW u \in Live(q)
      PROVE  /\ u \in Live(p) /\ q.slots[u] = p.slots[u]
             /\ Bytes(q, u) = Bytes(p, u) /\ Get(q, u) = Get(p, u)
  <2>1. u \in Live(p) /\ u # s /\ u \in DOMAIN p.slots
    BY <1>6 DEF Live
  <2>2. q.slots[u] = p.slots[u]
    BY <1>5, <2>1
  <2> QED BY <1>4, <2>1, <2>2 DEF Bytes, Get
<1>8. q \in PageType
  BY <1>1, <1>2, <1>4, <1>5 DEF PageOK, PageType
<1>9. FromBytesAccepts(q)
  BY <1>4, <1>5, <1>7 DEF PageOK, FromBytesAccepts, Lower
<1>10. PageOK(q)
  BY <1>7, <1>8, <1>9 DEF PageOK
<1>11. View(q) = [View(p) EXCEPT ![s] = Deleted]
  <2>1. DOMAIN View(q) = DOMAIN p.slots /\ DOMAIN View(p) = DOMAIN p.slots
    BY <1>5 DEF View
  <2>2. ASSUME NEW u \in DOMAIN p.slots
        PROVE  View(q)[u] = IF u = s THEN Deleted ELSE View(p)[u]
    BY <1>5, <1>6, <1>7 DEF View
  <2>3. View(q) = [u \in DOMAIN p.slots |-> View(q)[u]] /\ View(p) = [u \in DOMAIN p.slots |-> View(p)[u]]
    BY <1>5 DEF View
  <2> QED BY <2>1, <2>2, <2>3
<1>12. View(p)[s] # Deleted /\ s \in DOMAIN View(p)
  BY <1>1, ViewOf
<1> QED BY <1>10, <1>11, <1>12 DEF Dropped

LEMMA ClearStep ==
  ASSUME NEW p, PageOK(p), NEW n, n = PageSize \/ n = HeaderSize, NEW q,
         q = [slots |-> <<>>, region |-> n, data |-> p.data]
  PROVE  PageOK(q) /\ View(q) = <<>>
<1>1. q.slots = <<>> /\ q.region = n /\ q.data = p.data /\ DOMAIN q.slots = {} /\ Len(q.slots) = 0
  OBVIOUS
<1>2. n \in Nat /\ HeaderSize <= n /\ n <= PageSize /\ HeaderSize \in Nat /\ SlotSize \in Nat
  BY Sizes
<1>3. q \in PageType
  BY <1>1, <1>2 DEF PageOK, PageType
<1>4. Live(q) = {}
  BY <1>1 DEF Live
<1>5. Lower(q) <= q.region
  <2>1. Lower(q) = HeaderSize + 0 * SlotSize
    BY <1>1 DEF Lower
  <2> QED BY <1>1, <1>2, <2>1
<1>6. FromBytesAccepts(q)
  BY <1>1, <1>2, <1>4, <1>5 DEF FromBytesAccepts
<1>7. View(q) = <<>>
  BY <1>1, <1>4 DEF View
<1> QED BY <1>3, <1>4, <1>6, <1>7 DEF PageOK

PageGood == layout \in {"Page", "SlottedPage"} /\ PageOK(slotted)

LEMMA PageStarts ==
  ASSUME PageInit
  PROVE  PageGood /\ View(slotted) = <<>>
<1> DEFINE blank == [slots |-> <<>>, region |-> PageSize, data |-> [o \in Offsets |-> Zero]]
<1>1. PageOK(blank)
  <2>1. /\ blank.slots = <<>> /\ blank.region = PageSize /\ DOMAIN blank.slots = {}
        /\ Len(blank.slots) = 0
    OBVIOUS
  <2>2. PageSize \in Nat /\ HeaderSize <= PageSize /\ HeaderSize \in Nat /\ SlotSize \in Nat
    BY Sizes
  <2>3. blank \in PageType
    BY <2>2 DEF PageType
  <2> HIDE DEF blank
  <2>4. Live(blank) = {} /\ Lower(blank) = HeaderSize + 0 * SlotSize
    BY <2>1 DEF Live, Lower
  <2>5. Lower(blank) <= PageSize
    BY <2>2, <2>4
  <2>6. FromBytesAccepts(blank)
    BY <2>1, <2>2, <2>4, <2>5 DEF FromBytesAccepts
  <2> QED BY <2>3, <2>4, <2>6 DEF PageOK
<1>2. FirstRegion = PageSize \/ FirstRegion = HeaderSize
  BY DEF FirstRegion
<1>3. slotted = [slots |-> <<>>, region |-> FirstRegion, data |-> blank.data]
  BY DEF PageInit
<1> HIDE DEF blank
<1>4. PageOK(slotted) /\ View(slotted) = <<>>
  BY <1>1, <1>2, <1>3, ClearStep
<1> QED BY <1>4 DEF PageGood, PageInit

LEMMA PageStep ==
  ASSUME PageGood, [PageNext]_pageVars
  PROVE  PageGood' /\ ViewStep(View(slotted), View(slotted'))
<1> USE DEF PageGood
<1>1. CASE UNCHANGED pageVars
  BY <1>1 DEF pageVars, ViewStep
<1>2. ASSUME NEW r \in Records, Insert(r)
      PROVE  PageGood' /\ ViewStep(View(slotted), View(slotted'))
  BY <1>2, InsertStep DEF Insert, ViewStep
<1>3. ASSUME NEW r \in Records, InsertCompacting(r)
      PROVE  PageGood' /\ ViewStep(View(slotted), View(slotted'))
  <2>1. PageOK(Compacted(slotted)) /\ View(Compacted(slotted)) = View(slotted)
    BY CompactStep
  <2>2. /\ slotted' = IF Fits(Compacted(slotted), r) THEN Inserted(Compacted(slotted), r)
                      ELSE Compacted(slotted)
        /\ UNCHANGED layout
    BY <1>3 DEF InsertCompacting
  <2>3. CASE Fits(Compacted(slotted), r)
    BY <2>1, <2>2, <2>3, InsertStep DEF ViewStep
  <2>4. CASE ~Fits(Compacted(slotted), r)
    BY <2>1, <2>2, <2>4 DEF ViewStep
  <2> QED BY <2>3, <2>4
<1>4. ASSUME NEW s \in DOMAIN slotted.slots, Delete(s)
      PROVE  PageGood' /\ ViewStep(View(slotted), View(slotted'))
  BY <1>4, DeleteStep DEF Delete, ViewStep
<1>5. CASE Compact
  BY <1>5, CompactStep DEF Compact, ViewStep
<1>6. CASE Initialize
  <2>1. slotted = [slots |-> slotted.slots, region |-> slotted.region, data |-> slotted.data]
    BY DEF PageOK, PageType
  <2>2. slotted' = [slots |-> <<>>, region |-> PageSize, data |-> slotted.data] /\ UNCHANGED layout
    BY <1>6, <2>1 DEF Initialize
  <2> QED BY <2>2, ClearStep DEF ViewStep
<1> QED BY <1>1, <1>2, <1>3, <1>4, <1>5, <1>6 DEF PageNext

(* insert_compacting turns down a record only if there is no room for it. *)
LEMMA RoomIsCounted ==
  ASSUME NEW p, PageOK(p), NEW r \in Records,
         FreeSpace(p) + Reclaimable(p) < Needed(p, r)
  PROVE  Lower(p) + LiveBytes(p, Live(p)) + Needed(p, r) > PageSize
<1>1. /\ FreeSpace(p) \in Nat /\ FreeSpace(p) = p.region - Lower(p) /\ Lower(p) \in Nat
      /\ p.region \in Nat /\ p.region <= PageSize /\ PageSize \in Nat /\ SlotSize \in Nat
  BY PageNumbersOf, Sizes
<1>2. LiveBytes(p, Live(p)) \in Nat /\ LiveBytes(p, Live(p)) <= PageSize - p.region
  BY BytesFit
<1>3. Reclaimable(p) = PageSize - p.region - LiveBytes(p, Live(p))
  BY <1>1, <1>2 DEF Reclaimable, Saturating
<1>4. Needed(p, r) \in Nat
  BY <1>1, PagesAssumption DEF Needed
<1> HIDE DEF Needed, Lower, LiveBytes
<1> QED BY <1>1, <1>2, <1>3, <1>4

(* from_bytes takes back whatever a sequence of inserts, deletes, compactions and
   initializations makes of a page, no two records overlap in it, and
   insert_compacting finds all the room there is. *)
THEOREM PagesReadable == PageSpec => []PageInv
<1>1. PageInit => PageGood
  BY PageStarts
<1>2. PageGood /\ [PageNext]_pageVars => PageGood'
  BY PageStep
<1>3. PageGood => PageInv
  BY RoomIsCounted DEF PageGood, PageOK, PageInv
<1> QED BY <1>1, <1>2, <1>3, PTL DEF PageSpec

(* Page and SlottedPage implement RecordStore: get returns what insert was given, in
   the slot it returned, until delete or initialize. *)
THEOREM RecordsStay == PageSpec => RecordsKept
<1>1. PageInit => PageGood /\ Store!Init
  BY PageStarts DEF Store!Init, View
<1>2. PageGood /\ [PageNext]_pageVars => PageGood'
  BY PageStep
<1>3. ASSUME PageGood, [PageNext]_pageVars
      PROVE  [Store!Next]_(View(slotted))
  <2>1. ViewStep(View(slotted), View(slotted'))
    BY <1>3, PageStep
  <2>2. View(slotted)' = View(slotted')
    BY DEF View
  <2> QED BY <2>1, <2>2
          DEF ViewStep, Stored1, Dropped, Store!Next, Store!Insert, Store!Delete, Store!Clear, View
<1>4. PageGood /\ [PageNext]_pageVars => [Store!Next]_(View(slotted))
  BY <1>3
<1> QED BY <1>1, <1>2, <1>4, PTL DEF PageSpec, RecordsKept, Store!Spec, View

-----------------------------------------------------------------------------
(* The files of a relation *)

Doings == {"idle", "insert", "open", "count", "write"}

FilesTypeOK ==
  /\ opened \in Seq(Segments) /\ Len(opened) <= MaxOpens
  /\ relations \in [Segments -> Files \union {NoFile}]
  /\ creations \in [Segments -> Nat]
  /\ size \in [Segments -> Nat]
  /\ body \in [Segments -> [PageNumbers -> Stored \union {Hole}]]
  /\ lockedBy \in [Files -> Clients \union {NoFile}]
  /\ doing \in [Clients -> Doings]
  /\ file \in [Clients -> Files \union {NoFile}]
  /\ seen \in [Clients -> Nat]
  /\ number \in [Clients -> Nat]
  /\ given \in [Files -> Seq(Nat)]

(* Whatever is named has been opened. *)
FilesKnown ==
  /\ \A s \in Segments : relations[s] # NoFile =>
       relations[s] \in DOMAIN opened /\ opened[relations[s]] = s
  /\ \A c \in Clients : file[c] # NoFile => file[c] \in DOMAIN opened
  /\ \A c \in Clients : doing[c] \in {"insert", "count", "write"} => file[c] # NoFile
  /\ \A c \in Clients : doing[c] = "open" => number[c] \in Segments
  /\ \A i \in Files : i \notin DOMAIN opened => given[i] = <<>>

(* get_relation opens a file of which the manager has none. *)
OpensCounted ==
  \A s \in Segments :
    /\ Cardinality(Opens(s)) <= creations[s] + 1
    /\ relations[s] = NoFile => Cardinality(Opens(s)) <= creations[s]

LocksHeld == \A c \in Clients : doing[c] \in {"count", "write"} => lockedBy[file[c]] = c

Untouched ==
  \A s \in Segments :
    Opens(s) = {} => size[s] = 0 /\ \A n \in PageNumbers : body[s][n] = Hole

(* The one file in use: what was given is in it, whoever allocates knows its
   length, and what was written was given. *)
SoleOK(i) ==
  /\ \A j, k \in DOMAIN given[i] : j < k => given[i][j] < given[i][k]
  /\ \A j \in DOMAIN given[i] : 2 * (given[i][j] + 1) <= size[opened[i]]
  /\ \A c \in Clients : file[c] = i /\ doing[c] \in {"count", "write"} =>
       seen[c] = size[opened[i]]
  /\ \A c \in Clients : file[c] = i /\ doing[c] = "write" => seen[c] = 2 * number[c]
  /\ \A n \in PageNumbers : body[opened[i]][n] # Hole => 2 * (n + 1) <= size[opened[i]]

FilesGood ==
  /\ FilesTypeOK /\ FilesKnown /\ OpensCounted /\ LocksHeld /\ Untouched
  /\ \A i \in DOMAIN opened : Sole(opened[i]) => SoleOK(i)

LEMMA OpenedSome ==
  ASSUME opened \in Seq(Segments), Len(opened) <= MaxOpens
  PROVE  /\ DOMAIN opened = 1 .. Len(opened) /\ Len(opened) \in Nat
         /\ DOMAIN opened \subseteq Files
         /\ \A i \in DOMAIN opened : opened[i] \in Segments
<1>1. DOMAIN opened = 1 .. Len(opened) /\ Len(opened) \in Nat
  OBVIOUS
<1>2. DOMAIN opened \subseteq Files
  BY <1>1, FilesAssumption DEF Files
<1>3. \A i \in DOMAIN opened : opened[i] \in Segments
  OBVIOUS
<1> QED BY <1>1, <1>2, <1>3

LEMMA OpensOne ==
  ASSUME opened \in Seq(Segments), Len(opened) <= MaxOpens, NEW s \in Segments, Open(s)
  PROVE  /\ opened' \in Seq(Segments) /\ Len(opened') <= MaxOpens
         /\ DOMAIN opened' = DOMAIN opened \union {Len(opened) + 1}
         /\ Len(opened) + 1 \notin DOMAIN opened /\ Len(opened) + 1 \in Files
         /\ opened'[Len(opened) + 1] = s
         /\ \A i \in DOMAIN opened : opened'[i] = opened[i]
<1>1. opened' = Append(opened, s) /\ Len(opened) < MaxOpens
  BY DEF Open
<1>2. DOMAIN opened = 1 .. Len(opened) /\ Len(opened) \in Nat
  BY OpenedSome
<1>3. opened' \in Seq(Segments) /\ Len(opened') = Len(opened) + 1
  BY <1>1
<1>4. DOMAIN opened' = 1 .. Len(opened) + 1
  BY <1>2, <1>3
<1>5. opened'[Len(opened) + 1] = s /\ \A i \in 1 .. Len(opened) : opened'[i] = opened[i]
  BY <1>1, <1>2
<1> QED BY <1>1, <1>2, <1>3, <1>4, <1>5, FilesAssumption DEF Files

(* The opens of a segment are as many as there are. *)
LEMMA OpensFinite ==
  ASSUME opened \in Seq(Segments), Len(opened) <= MaxOpens, NEW s
  PROVE  IsFiniteSet(Opens(s)) /\ Cardinality(Opens(s)) \in Nat
<1>1. Opens(s) \subseteq 1 .. Len(opened) /\ Len(opened) \in Nat
  BY OpenedSome DEF Opens
<1>2. IsFiniteSet(1 .. Len(opened))
  BY <1>1, FS_Interval
<1> QED BY <1>1, <1>2, FS_Subset, FS_CardinalityType

LEMMA OpensAfter ==
  ASSUME opened \in Seq(Segments), Len(opened) <= MaxOpens, NEW s \in Segments, Open(s)
  PROVE  /\ Opens(s)' = Opens(s) \union {Len(opened) + 1}
         /\ Cardinality(Opens(s)') = Cardinality(Opens(s)) + 1
         /\ \A t \in Segments : t # s => Opens(t)' = Opens(t)
<1>1. /\ DOMAIN opened' = DOMAIN opened \union {Len(opened) + 1}
      /\ Len(opened) + 1 \notin DOMAIN opened
      /\ opened'[Len(opened) + 1] = s /\ \A i \in DOMAIN opened : opened'[i] = opened[i]
  BY OpensOne
<1>2. Opens(s)' = Opens(s) \union {Len(opened) + 1}
  BY <1>1 DEF Opens
<1>3. ASSUME NEW t \in Segments, t # s PROVE Opens(t)' = Opens(t)
  BY <1>1, <1>3 DEF Opens
<1>4. Len(opened) + 1 \notin Opens(s)
  BY <1>1 DEF Opens
<1>5. Cardinality(Opens(s) \union {Len(opened) + 1}) = Cardinality(Opens(s)) + 1
  BY <1>4, OpensFinite, FS_AddElement
<1> QED BY <1>2, <1>3, <1>5

(* What is the sole file in use after a step was it before, if it was open. *)
LEMMA SoleOpen ==
  ASSUME opened \in Seq(Segments), Len(opened) <= MaxOpens, NEW s, Sole(s),
         NEW i \in DOMAIN opened, opened[i] = s
  PROVE  Opens(s) = {i} /\ \A j \in DOMAIN opened : given[j] # <<>> => j = i
<1>1. PICK j : Opens(s) = {j}
  BY OpensFinite, FS_Singleton DEF Sole
<1>2. i \in Opens(s)
  BY DEF Opens
<1> QED BY <1>1, <1>2 DEF Sole, Opens

-----------------------------------------------------------------------------
(* The steps of the files: types, and what is known of what is open *)

(* Where a write of page n can end, whole or cut. *)
Ends(n) == {2 * n + 1, 2 * (n + 1)}

(* One of the steps, of one client. *)
FilesStep(c) ==
  \/ \E s \in Segments : CreateRelation(c, s)
  \/ \E s \in Segments : GetRelation(c, s)
  \/ InsertRelation(c) \/ OpenRelation(c) \/ OpenFails(c)
  \/ AllocatePage(c) \/ PageCount(c) \/ WriteZeroes(c) \/ WriteFails(c)
  \/ \E n \in PageNumbers, v \in Stored : \E e \in Ends(n) : PutPage(c, n, v, e)

LEMMA FilesSteps ==
  ASSUME [FilesNext]_fileVars
  PROVE  (\E c \in Clients : FilesStep(c)) \/ UNCHANGED fileVars
BY DEF FilesNext, FilesStep, AllocateStep, WritePage, WritePageFails, Ends

LEMMA FilesTypeStep ==
  ASSUME FilesTypeOK, FilesKnown, NEW c \in Clients, FilesStep(c)
  PROVE  FilesTypeOK'
<1> USE DEF FilesTypeOK, Doings
<1>1. ASSUME NEW s \in Segments, CreateRelation(c, s) PROVE FilesTypeOK'
  <2>1. Open(s) /\ NoAllocation /\ GoTo(c, "insert") /\ UNCHANGED relations
        /\ file' = [file EXCEPT ![c] = Len(opened) + 1]
        /\ creations' = [creations EXCEPT ![s] = @ + 1]
    BY <1>1 DEF CreateRelation
  <2>2. opened' \in Seq(Segments) /\ Len(opened') <= MaxOpens /\ Len(opened) + 1 \in Files
    BY <2>1, OpensOne
  <2>3. creations' \in [Segments -> Nat] /\ file' \in [Clients -> Files \union {NoFile}]
    BY <2>1, <2>2
  <2> QED BY <2>1, <2>2, <2>3 DEF NoAllocation, GoTo
<1>2. ASSUME NEW s \in Segments, GetRelation(c, s) PROVE FilesTypeOK'
  BY <1>2, FilesAssumption DEF GetRelation, GoTo
<1>3. CASE InsertRelation(c)
  <2>1. file[c] \in Files /\ opened[file[c]] \in Segments
    BY <1>3, OpenedSome DEF FilesKnown, InsertRelation
  <2> QED BY <1>3, <2>1 DEF InsertRelation, GoTo, NoAllocation
<1>4. CASE OpenRelation(c)
  <2>1. number[c] \in Segments
    BY <1>4 DEF OpenRelation, FilesKnown
  <2>2. /\ doing' \in [Clients -> Doings] /\ number' \in [Clients -> Nat]
        /\ UNCHANGED <<creations, size, body, lockedBy, seen, given>>
    BY <1>4 DEF OpenRelation, GoTo
  <2>3. CASE relations[number[c]] # NoFile
    BY <1>4, <2>1, <2>2, <2>3 DEF OpenRelation
  <2>4. CASE relations[number[c]] = NoFile
    <3>1. /\ Open(number[c])
          /\ file' = [file EXCEPT ![c] = Len(opened) + 1]
          /\ relations' = [relations EXCEPT ![number[c]] = Len(opened) + 1]
      BY <1>4, <2>4 DEF OpenRelation
    <3>2. opened' \in Seq(Segments) /\ Len(opened') <= MaxOpens /\ Len(opened) + 1 \in Files
      BY <2>1, <3>1, OpensOne
    <3> QED BY <2>2, <3>1, <3>2
  <2> QED BY <2>3, <2>4
<1>5. CASE OpenFails(c)
  BY <1>5 DEF OpenFails, GoTo
<1>6. ASSUME UNCHANGED <<opened, relations, creations>>, file[c] \in Files,
             AllocatePage(c) \/ PageCount(c) \/ WriteZeroes(c) \/ WriteFails(c)
      PROVE  FilesTypeOK'
  <2>1. opened[file[c]] \in Segments \/ ~ (file[c] \in DOMAIN opened)
    BY OpenedSome
  <2>2. file[c] \in DOMAIN opened
    BY <1>6, FilesAssumption DEF FilesKnown, Files
  <2>3. CASE AllocatePage(c)
    BY <1>6, <2>1, <2>2, <2>3 DEF AllocatePage, GoTo
  <2>4. CASE PageCount(c)
    <3>1. size[opened[file[c]]] \in Nat /\ size[opened[file[c]]] \div 2 \in Nat
      BY <2>1, <2>2
    <3>2. UNCHANGED <<size, body, file, given>>
      BY <2>4 DEF PageCount
    <3>3. CASE size[opened[file[c]]] % 2 = 0
      <4>1. /\ doing' = [doing EXCEPT ![c] = "write"] /\ UNCHANGED <<lockedBy, seen>>
            /\ number' = [number EXCEPT ![c] = size[opened[file[c]]] \div 2]
        BY <2>4, <3>3 DEF PageCount, GoTo
      <4>2. doing' \in [Clients -> Doings] /\ number' \in [Clients -> Nat]
        BY <3>1, <4>1
      <4> QED BY <1>6, <3>2, <4>1, <4>2
    <3>4. CASE size[opened[file[c]]] % 2 # 0
      <4>1. AllocationEnds(c)
        BY <2>4, <3>4 DEF PageCount
      <4>2. /\ lockedBy' \in [Files -> Clients \union {NoFile}] /\ doing' \in [Clients -> Doings]
            /\ seen' \in [Clients -> Nat] /\ number' \in [Clients -> Nat]
        BY <4>1 DEF AllocationEnds, GoTo
      <4> QED BY <1>6, <3>2, <4>2
    <3> QED BY <3>3, <3>4
  <2>5. CASE WriteZeroes(c)
    <3> DEFINE s == opened[file[c]]
    <3>1. s \in Segments
      BY <2>1, <2>2
    <3>2. size' \in [Segments -> Nat]
      BY <2>5, <3>1 DEF WriteZeroes, Longer
    <3>3. body' \in [Segments -> [PageNumbers -> Stored \union {Hole}]]
      BY <2>5, <3>1 DEF WriteZeroes
    <3>4. given' \in [Files -> Seq(Nat)]
      BY <1>6, <2>5 DEF WriteZeroes
    <3> QED BY <1>6, <2>5, <3>2, <3>3, <3>4 DEF WriteZeroes, AllocationEnds, GoTo
  <2>6. CASE WriteFails(c)
    <3>1. size' \in [Segments -> Nat]
      <4>1. CASE UNCHANGED size
        BY <4>1
      <4>2. CASE Longer(opened[file[c]], seen[c] + 1)
        <5>1. seen[c] + 1 \in Nat /\ opened[file[c]] \in Segments
          BY <2>1, <2>2
        <5> QED BY <4>2, <5>1 DEF Longer
      <4> QED BY <2>6, <4>1, <4>2 DEF WriteFails
    <3> QED BY <1>6, <2>6, <3>1 DEF WriteFails, AllocationEnds, GoTo
  <2> QED BY <1>6, <2>3, <2>4, <2>5, <2>6
<1>7. ASSUME NEW n \in PageNumbers, NEW v \in Stored, NEW e \in Ends(n),
             PutPage(c, n, v, e)
      PROVE  FilesTypeOK'
  <2>1. SegmentOf(n) \in Segments /\ n \in Nat
    BY <1>7, FilesAssumption DEF PutPage, PageNumbers
  <2>2. size' \in [Segments -> Nat]
    <3>1. e \in Nat
      BY <2>1 DEF Ends
    <3> QED BY <1>7, <2>1, <3>1 DEF PutPage, Longer, FilesTypeOK
  <2>3. body' \in [Segments -> [PageNumbers -> Stored \union {Hole}]]
    BY <1>7, <2>1 DEF PutPage
  <2> QED BY <1>7, <2>2, <2>3 DEF PutPage, NoOpening
<1>8. AllocatePage(c) \/ PageCount(c) \/ WriteZeroes(c) \/ WriteFails(c) =>
        UNCHANGED <<opened, relations, creations>> /\ file[c] \in Files
  BY DEF AllocatePage, PageCount, WriteZeroes, WriteFails, NoOpening, FilesKnown
<1> QED BY <1>1, <1>2, <1>3, <1>4, <1>5, <1>6, <1>7, <1>8 DEF FilesStep

LEMMA FilesKnownStep ==
  ASSUME FilesTypeOK, FilesKnown, NEW c \in Clients, FilesStep(c)
  PROVE  FilesKnown'
<1> USE DEF FilesKnown
<1>t. /\ opened \in Seq(Segments) /\ Len(opened) <= MaxOpens
      /\ DOMAIN relations = Segments /\ DOMAIN file = Clients /\ DOMAIN doing = Clients
      /\ DOMAIN number = Clients /\ DOMAIN given = Files
  BY DEF FilesTypeOK
<1>o. DOMAIN opened \subseteq Files /\ NoFile \notin Files
  BY <1>t, OpenedSome, FilesAssumption DEF Files
<1>1. ASSUME NEW s \in Segments, CreateRelation(c, s) PROVE FilesKnown'
  <2>1. Open(s) /\ UNCHANGED <<relations, number, given>>
        /\ file' = [file EXCEPT ![c] = Len(opened) + 1]
        /\ doing' = [doing EXCEPT ![c] = "insert"]
    BY <1>1 DEF CreateRelation, NoAllocation, GoTo
  <2>2. /\ DOMAIN opened' = DOMAIN opened \union {Len(opened) + 1}
        /\ Len(opened) + 1 \in Files /\ \A i \in DOMAIN opened : opened'[i] = opened[i]
    BY <1>t, <2>1, OpensOne
  <2> QED BY <1>t, <1>o, <2>1, <2>2
<1>2. ASSUME NEW s \in Segments, GetRelation(c, s) PROVE FilesKnown'
  BY <1>2, <1>t DEF GetRelation, GoTo
<1>3. CASE InsertRelation(c)
  <2>1. UNCHANGED <<opened, file, number, given>>
        /\ relations' = [relations EXCEPT ![opened[file[c]]] = file[c]]
        /\ doing' = [doing EXCEPT ![c] = "idle"] /\ file[c] \in DOMAIN opened
    BY <1>3 DEF InsertRelation, NoAllocation, GoTo
  <2> QED BY <1>t, <1>o, <2>1
<1>4. CASE OpenRelation(c)
  <2>1. number[c] \in Segments /\ doing' = [doing EXCEPT ![c] = "idle"] /\ UNCHANGED given
        /\ number' = [number EXCEPT ![c] = 0]
    BY <1>4 DEF OpenRelation, GoTo
  <2>2. CASE relations[number[c]] # NoFile
    BY <1>4, <1>t, <2>1, <2>2 DEF OpenRelation
  <2>3. CASE relations[number[c]] = NoFile
    <3>1. /\ Open(number[c])
          /\ file' = [file EXCEPT ![c] = Len(opened) + 1]
          /\ relations' = [relations EXCEPT ![number[c]] = Len(opened) + 1]
      BY <1>4, <2>3 DEF OpenRelation
    <3>2. /\ DOMAIN opened' = DOMAIN opened \union {Len(opened) + 1}
          /\ opened'[Len(opened) + 1] = number[c]
          /\ Len(opened) + 1 \in Files /\ \A i \in DOMAIN opened : opened'[i] = opened[i]
      BY <1>t, <2>1, <3>1, OpensOne
    <3> QED BY <1>t, <1>o, <2>1, <3>1, <3>2
  <2> QED BY <2>2, <2>3
<1>5. CASE OpenFails(c)
  BY <1>5, <1>t DEF OpenFails, GoTo
<1>6. CASE AllocatePage(c)
  BY <1>6, <1>t DEF AllocatePage, GoTo, NoOpening
<1>7. CASE PageCount(c)
  BY <1>7, <1>t DEF PageCount, GoTo, NoOpening, AllocationEnds
<1>8. CASE WriteZeroes(c)
  <2>1. file[c] \in DOMAIN opened /\ UNCHANGED <<opened, relations, file>>
        /\ given' = [given EXCEPT ![file[c]] = Append(@, number[c])]
        /\ doing' = [doing EXCEPT ![c] = "idle"] /\ number' = [number EXCEPT ![c] = 0]
    BY <1>8 DEF WriteZeroes, NoOpening, GoTo, AllocationEnds
  <2> QED BY <1>t, <1>o, <2>1
<1>9. CASE WriteFails(c)
  BY <1>9, <1>t DEF WriteFails, GoTo, NoOpening, AllocationEnds
<1>10. ASSUME NEW n \in PageNumbers, NEW v \in Stored, NEW e \in Ends(n),
             PutPage(c, n, v, e)
      PROVE  FilesKnown'
  BY <1>10 DEF PutPage, NoOpening
<1> QED BY <1>1, <1>2, <1>3, <1>4, <1>5, <1>6, <1>7, <1>8, <1>9, <1>10 DEF FilesStep

(* A step that opens nothing leaves the manager's files and their count. *)
LEMMA OpensCountedStep ==
  ASSUME FilesTypeOK, FilesKnown, OpensCounted, NEW c \in Clients, FilesStep(c)
  PROVE  OpensCounted'
<1>t. /\ opened \in Seq(Segments) /\ Len(opened) <= MaxOpens
      /\ DOMAIN relations = Segments /\ creations \in [Segments -> Nat]
  BY DEF FilesTypeOK
<1>n. NoFile \notin Files
  BY FilesAssumption DEF Files
<1>k. \A s \in Segments : Cardinality(Opens(s)) \in Nat
  BY <1>t, OpensFinite
<1>1. ASSUME NEW s \in Segments, CreateRelation(c, s) PROVE OpensCounted'
  <2>1. Open(s) /\ UNCHANGED relations /\ creations' = [creations EXCEPT ![s] = @ + 1]
    BY <1>1 DEF CreateRelation
  <2>2. /\ Cardinality(Opens(s)') = Cardinality(Opens(s)) + 1
        /\ \A t \in Segments : t # s => Opens(t)' = Opens(t)
    BY <1>t, <2>1, OpensAfter
  <2>3. creations'[s] = creations[s] + 1 /\ creations[s] \in Nat
        /\ \A t \in Segments : t # s => creations'[t] = creations[t]
    BY <1>t, <2>1
  <2>4. ASSUME NEW t \in Segments
        PROVE  /\ Cardinality(Opens(t)') <= creations'[t] + 1
               /\ relations'[t] = NoFile => Cardinality(Opens(t)') <= creations'[t]
    <3>1. CASE t = s
      BY <1>k, <2>1, <2>2, <2>3, <3>1 DEF OpensCounted
    <3>2. CASE t # s
      BY <2>1, <2>2, <2>3, <3>2 DEF OpensCounted
    <3> QED BY <3>1, <3>2
  <2> QED BY <2>4 DEF OpensCounted
<1>2. CASE OpenRelation(c) /\ relations[number[c]] = NoFile
  <2>s. PICK s \in Segments : s = number[c]
    BY <1>2 DEF OpenRelation, FilesKnown
  <2>1. /\ Open(s) /\ UNCHANGED creations
        /\ relations' = [relations EXCEPT ![s] = Len(opened) + 1]
    BY <1>2, <2>s DEF OpenRelation
  <2>2. /\ Cardinality(Opens(s)') = Cardinality(Opens(s)) + 1
        /\ \A t \in Segments : t # s => Opens(t)' = Opens(t)
    BY <1>t, <2>1, OpensAfter
  <2>3. Len(opened) + 1 \in Files
    BY <1>t, <2>1, OpensOne
  <2>4. ASSUME NEW t \in Segments
        PROVE  /\ Cardinality(Opens(t)') <= creations'[t] + 1
               /\ relations'[t] = NoFile => Cardinality(Opens(t)') <= creations'[t]
    <3>1. CASE t = s
      <4>1. relations[s] = NoFile /\ creations[s] \in Nat /\ relations'[s] # NoFile
        BY <1>2, <1>n, <1>t, <2>s, <2>1, <2>3
      <4> QED BY <1>k, <2>1, <2>2, <3>1, <4>1 DEF OpensCounted
    <3>2. CASE t # s
      BY <1>t, <2>1, <2>2, <3>2 DEF OpensCounted
    <3> QED BY <3>1, <3>2
  <2> QED BY <2>4 DEF OpensCounted
<1>3. CASE InsertRelation(c)
  <2>1. UNCHANGED <<opened, creations>> /\ file[c] \in Files
        /\ relations' = [relations EXCEPT ![opened[file[c]]] = file[c]]
    BY <1>3, <1>t, OpenedSome DEF InsertRelation, FilesKnown
  <2>2. \A t \in Segments : Opens(t)' = Opens(t) /\ (relations'[t] = NoFile => relations[t] = NoFile)
    BY <1>t, <1>n, <2>1 DEF Opens
  <2> QED BY <2>1, <2>2 DEF OpensCounted
<1>4. CASE UNCHANGED <<opened, relations, creations>>
  BY <1>4 DEF OpensCounted, Opens
<1>5. (\E s \in Segments : CreateRelation(c, s)) \/ InsertRelation(c)
      \/ (OpenRelation(c) /\ relations[number[c]] = NoFile)
      \/ UNCHANGED <<opened, relations, creations>>
  BY DEF FilesStep, GetRelation, OpenRelation, OpenFails, AllocatePage, PageCount, WriteZeroes,
         WriteFails, PutPage, NoOpening
<1> QED BY <1>1, <1>2, <1>3, <1>4, <1>5

(* Nobody takes the allocation lock of a file from who holds it. *)
LEMMA LocksHeldStep ==
  ASSUME FilesTypeOK, FilesKnown, LocksHeld, NEW c \in Clients, FilesStep(c)
  PROVE  LocksHeld'
<1>t. /\ DOMAIN lockedBy = Files /\ DOMAIN file = Clients /\ DOMAIN doing = Clients
      /\ NoFile \notin Clients /\ file \in [Clients -> Files \union {NoFile}]
  BY FilesAssumption DEF FilesTypeOK
<1>1. CASE /\ UNCHANGED lockedBy
           /\ \A d \in Clients : d # c => doing'[d] = doing[d] /\ file'[d] = file[d]
           /\ doing'[c] \in {"count", "write"} => doing[c] \in {"count", "write"} /\ file'[c] = file[c]
  BY <1>1 DEF LocksHeld
<1>2. CASE AllocatePage(c)
  <2>1. /\ lockedBy' = [lockedBy EXCEPT ![file[c]] = c] /\ file' = file
        /\ doing' = [doing EXCEPT ![c] = "count"] /\ file[c] \in Files /\ lockedBy[file[c]] = NoFile
    BY <1>2, <1>t DEF AllocatePage, GoTo
  <2> QED BY <1>t, <2>1 DEF LocksHeld
<1>3. CASE AllocationEnds(c) /\ UNCHANGED file /\ doing[c] \in {"count", "write"}
  <2>1. /\ lockedBy' = [lockedBy EXCEPT ![file[c]] = NoFile]
        /\ doing' = [doing EXCEPT ![c] = "idle"] /\ file' = file /\ lockedBy[file[c]] = c
    BY <1>3 DEF AllocationEnds, GoTo, LocksHeld
  <2> QED BY <1>t, <2>1 DEF LocksHeld
<1>4. ASSUME NEW l, l \notin {"count", "write"}, doing' = [doing EXCEPT ![c] = l],
             UNCHANGED lockedBy, \A d \in Clients : d # c => file'[d] = file[d]
      PROVE  LocksHeld'
  BY <1>4, <1>t DEF LocksHeld
<1>5. ASSUME NEW s \in Segments, CreateRelation(c, s) PROVE LocksHeld'
  <2>1. /\ doing' = [doing EXCEPT ![c] = "insert"] /\ UNCHANGED lockedBy
        /\ file' = [file EXCEPT ![c] = Len(opened) + 1]
    BY <1>5 DEF CreateRelation, GoTo, NoAllocation
  <2> QED BY <1>t, <1>4, <2>1
<1>6. ASSUME NEW s \in Segments, GetRelation(c, s) PROVE LocksHeld'
  <2>1. UNCHANGED lockedBy /\ doing[c] = "idle"
        /\ \/ file' = [file EXCEPT ![c] = relations[s]] /\ doing' = doing
           \/ doing' = [doing EXCEPT ![c] = "open"] /\ file' = file
    BY <1>6 DEF GetRelation, GoTo
  <2> QED BY <1>t, <1>1, <2>1
<1>7. CASE InsertRelation(c) \/ OpenRelation(c) \/ OpenFails(c)
  <2>1. doing' = [doing EXCEPT ![c] = "idle"] /\ UNCHANGED lockedBy
    BY <1>7 DEF InsertRelation, OpenRelation, OpenFails, GoTo, NoAllocation
  <2>2. \A d \in Clients : d # c => file'[d] = file[d]
    BY <1>7, <1>t DEF InsertRelation, OpenRelation, OpenFails
  <2> QED BY <1>4, <2>1, <2>2
<1>8. CASE PageCount(c)
  <2>1. CASE AllocationEnds(c)
    BY <1>3, <1>8, <2>1 DEF PageCount
  <2>2. CASE doing' = [doing EXCEPT ![c] = "write"] /\ UNCHANGED lockedBy
    BY <1>1, <1>8, <1>t, <2>2 DEF PageCount
  <2> QED BY <1>8, <2>1, <2>2 DEF PageCount, GoTo
<1>9. CASE WriteZeroes(c) \/ WriteFails(c)
  BY <1>3, <1>9 DEF WriteZeroes, WriteFails
<1>10. ASSUME NEW n \in PageNumbers, NEW v \in Stored, NEW e \in Ends(n),
             PutPage(c, n, v, e)
      PROVE  LocksHeld'
  BY <1>1, <1>10 DEF PutPage
<1> QED BY <1>2, <1>5, <1>6, <1>7, <1>8, <1>9, <1>10 DEF FilesStep

-----------------------------------------------------------------------------
(* The sole file in use *)

(* What is open stays open, and a file that gave a page number has given it. *)
LEMMA OpensGrow ==
  ASSUME FilesTypeOK, FilesKnown, NEW c \in Clients, FilesStep(c)
  PROVE  /\ DOMAIN opened \subseteq DOMAIN opened' /\ \A i \in DOMAIN opened : opened'[i] = opened[i]
         /\ \A i \in Files : given[i] # <<>> => given'[i] # <<>>
         /\ \/ UNCHANGED opened
            \/ UNCHANGED <<given, size, body, seen>> /\ doing'[c] \notin {"count", "write"}
               /\ \A d \in Clients : d # c => doing'[d] = doing[d] /\ file'[d] = file[d]
<1>t. /\ opened \in Seq(Segments) /\ Len(opened) <= MaxOpens
      /\ doing \in [Clients -> Doings] /\ file \in [Clients -> Files \union {NoFile}]
      /\ given \in [Files -> Seq(Nat)] /\ number \in [Clients -> Nat]
  BY DEF FilesTypeOK
<1>1. ASSUME NEW s \in Segments, Open(s)
      PROVE  DOMAIN opened \subseteq DOMAIN opened' /\ \A i \in DOMAIN opened : opened'[i] = opened[i]
  BY <1>1, <1>t, OpensOne
<1>2. ASSUME NEW s \in Segments, CreateRelation(c, s)
      PROVE  /\ Open(s) /\ UNCHANGED <<given, size, body, seen>> /\ doing'[c] \notin {"count", "write"}
             /\ \A d \in Clients : d # c => doing'[d] = doing[d] /\ file'[d] = file[d]
  BY <1>2, <1>t DEF CreateRelation, GoTo, NoAllocation
<1>3. CASE OpenRelation(c)
  <2>1. number[c] \in Segments /\ doing' = [doing EXCEPT ![c] = "idle"]
        /\ UNCHANGED <<given, size, body, seen>>
    BY <1>3 DEF OpenRelation, FilesKnown, GoTo
  <2>2. doing'[c] \notin {"count", "write"} /\ \A d \in Clients : d # c => doing'[d] = doing[d]
    BY <1>t, <2>1
  <2>3. /\ UNCHANGED opened \/ Open(number[c])
        /\ \A d \in Clients : d # c => file'[d] = file[d]
    BY <1>3, <1>t DEF OpenRelation
  <2> QED BY <1>1, <2>1, <2>2, <2>3
<1>4. CASE WriteZeroes(c)
  <2>1. /\ UNCHANGED opened /\ file[c] \in Files
        /\ given' = [given EXCEPT ![file[c]] = Append(@, number[c])]
    BY <1>4, <1>t DEF WriteZeroes, NoOpening, FilesKnown
  <2>2. given[file[c]] \in Seq(Nat) /\ number[c] \in Nat
    BY <1>t, <2>1
  <2>3. Append(given[file[c]], number[c]) # <<>>
    BY <2>2
  <2> QED BY <1>t, <2>1, <2>3
<1>5. (\E s \in Segments : CreateRelation(c, s)) \/ OpenRelation(c) \/ WriteZeroes(c)
      \/ UNCHANGED <<opened, given>>
  BY DEF FilesStep, GetRelation, InsertRelation, OpenFails, AllocatePage, PageCount, WriteFails,
         PutPage, NoOpening, NoAllocation
<1> QED BY <1>1, <1>2, <1>3, <1>4, <1>5

(* The sole file in use was it already, unless this step opened it. *)
LEMMA SoleBefore ==
  ASSUME FilesTypeOK, FilesKnown, NEW c \in Clients, FilesStep(c),
         NEW i \in DOMAIN opened, Sole(opened[i])'
  PROVE  Sole(opened[i]) /\ opened'[i] = opened[i] /\ i \in DOMAIN opened'
<1>t. opened \in Seq(Segments) /\ Len(opened) <= MaxOpens /\ DOMAIN opened \subseteq Files
  BY OpenedSome DEF FilesTypeOK
<1>p. opened' \in Seq(Segments) /\ Len(opened') <= MaxOpens
  BY FilesTypeStep DEF FilesTypeOK
<1>1. /\ DOMAIN opened \subseteq DOMAIN opened' /\ \A j \in DOMAIN opened : opened'[j] = opened[j]
      /\ \A j \in Files : given[j] # <<>> => given'[j] # <<>>
  BY OpensGrow
<1>s. PICK s : s = opened[i]
  OBVIOUS
<1>2. opened'[i] = s
  BY <1>1, <1>s
<1>3. Sole(s)'
  BY <1>2 DEF Sole, Opens
<1>4. (Opens(s))' = {i} /\ \A j \in DOMAIN opened' : given'[j] # <<>> => j = i
  <2>1. IsFiniteSet(Opens(s)') /\ Cardinality(Opens(s)') = 1
    <3>1. Opens(s)' \subseteq 1 .. Len(opened') /\ Len(opened') \in Nat
      BY <1>p DEF Opens
    <3>2. IsFiniteSet(1 .. Len(opened'))
      BY <3>1, FS_Interval
    <3>3. IsFiniteSet(Opens(s)')
      BY <3>1, <3>2, FS_Subset
    <3> QED BY <1>3, <3>3 DEF Sole
  <2>2. PICK j : Opens(s)' = {j}
    BY <2>1, FS_Singleton
  <2>3. i \in Opens(s)'
    BY <1>1, <1>2 DEF Opens
  <2> QED BY <1>3, <2>2, <2>3 DEF Sole, Opens
<1>5. Opens(s) = {i}
  BY <1>1, <1>4, <1>s DEF Opens
<1>6. Cardinality(Opens(s)) = 1
  BY <1>5, FS_Singleton
<1>7. \A j \in DOMAIN opened : given[j] # <<>> => opened[j] = s
  BY <1>t, <1>1, <1>4, <1>s
<1> QED BY <1>1, <1>6, <1>7, <1>s DEF Sole

(* Only a file that was opened is written. *)
LEMMA OnlyOpened ==
  ASSUME FilesTypeOK, FilesKnown, NEW c \in Clients, FilesStep(c),
         NEW s \in Segments, Opens(s) = {}
  PROVE  size'[s] = size[s] /\ body'[s] = body[s]
<1>t. size \in [Segments -> Nat] /\ DOMAIN body = Segments
  BY DEF FilesTypeOK
<1>1. CASE WriteZeroes(c) \/ WriteFails(c)
  <2>1. file[c] \in DOMAIN opened
    BY <1>1 DEF WriteZeroes, WriteFails, FilesKnown
  <2>2. opened[file[c]] # s
    BY <2>1 DEF Opens
  <2> QED BY <1>1, <1>t, <2>2 DEF WriteZeroes, WriteFails, Longer
<1>2. ASSUME NEW n \in PageNumbers, NEW v \in Stored, NEW e \in Ends(n), PutPage(c, n, v, e)
      PROVE  size'[s] = size[s] /\ body'[s] = body[s]
  <2>1. relations[SegmentOf(n)] # NoFile /\ SegmentOf(n) \in Segments
    BY <1>2 DEF PutPage
  <2>2. SegmentOf(n) # s
    BY <2>1 DEF FilesKnown, Opens
  <2> QED BY <1>2, <1>t, <2>2 DEF PutPage, Longer
<1>3. WriteZeroes(c) \/ WriteFails(c)
      \/ (\E n \in PageNumbers, v \in Stored : \E e \in Ends(n) : PutPage(c, n, v, e))
      \/ UNCHANGED <<size, body>>
  BY DEF FilesStep, CreateRelation, GetRelation, InsertRelation, OpenRelation, OpenFails,
         AllocatePage, PageCount, NoAllocation
<1> QED BY <1>1, <1>2, <1>3

LEMMA UntouchedStep ==
  ASSUME FilesTypeOK, FilesKnown, Untouched, NEW c \in Clients, FilesStep(c)
  PROVE  Untouched'
<1> SUFFICES ASSUME NEW s \in Segments, Opens(s)' = {}
             PROVE  size'[s] = 0 /\ \A n \in PageNumbers : body'[s][n] = Hole
  BY DEF Untouched
<1>1. Opens(s) = {}
  BY OpensGrow DEF Opens
<1> QED BY <1>1, OnlyOpened DEF Untouched

LEMMA TwiceNumber ==
  ASSUME NEW a \in Nat
  PROVE  /\ a % 2 = 0 => 2 * (a \div 2) = a /\ a \div 2 \in Nat
         /\ (2 * a) \div 2 = a /\ (2 * a + 1) \div 2 = a
  OBVIOUS

(* A client that writes zeroes to the sole file in use writes them behind every
   page the file has given. *)
LEMMA ZeroesBehind ==
  ASSUME FilesGood, NEW c \in Clients, doing[c] = "write",
         NEW i \in DOMAIN opened, Sole(opened[i]), opened[file[c]] = opened[i]
  PROVE  /\ file[c] = i /\ SoleOK(i) /\ number[c] \in Nat
         /\ seen[c] = size[opened[i]] /\ seen[c] = 2 * number[c]
         /\ seen[c] \div 2 = number[c] /\ (seen[c] + 1) \div 2 = number[c]
         /\ \A d \in Clients : d # c /\ file[d] = i => doing[d] \notin {"count", "write"}
<1>t. /\ opened \in Seq(Segments) /\ Len(opened) <= MaxOpens
      /\ number[c] \in Nat /\ file[c] \in DOMAIN opened
  BY DEF FilesGood, FilesTypeOK, FilesKnown
<1>1. file[c] = i
  BY <1>t, SoleOpen, ZenonT(60)
<1>2. SoleOK(i)
  BY DEF FilesGood
<1>3. seen[c] = size[opened[i]] /\ seen[c] = 2 * number[c]
  BY <1>1, <1>2 DEF SoleOK
<1>4. seen[c] \div 2 = number[c] /\ (seen[c] + 1) \div 2 = number[c]
  BY <1>3, <1>t, TwiceNumber
<1>5. \A d \in Clients : d # c /\ file[d] = i => doing[d] \notin {"count", "write"}
  BY <1>1 DEF FilesGood, LocksHeld
<1> QED BY <1>1, <1>2, <1>3, <1>4, <1>5, <1>t

(* A page that is written to the sole file in use is a page the file has. *)
LEMMA WrittenWithin ==
  ASSUME FilesGood, NEW c \in Clients, NEW n \in PageNumbers, NEW v \in Stored, NEW e \in Ends(n),
         PutPage(c, n, v, e), NEW i \in DOMAIN opened, Sole(opened[i])
  PROVE  /\ 2 * (n + 1) <= size[opened[i]] /\ size'[opened[i]] = size[opened[i]]
         /\ UNCHANGED <<doing, file, seen, number, given>>
         /\ \A m \in PageNumbers : body'[opened[i]][m] = body[opened[i]][m]
                                   \/ (m = n /\ body'[opened[i]][m] = v)
<1>t. /\ opened \in Seq(Segments) /\ Len(opened) <= MaxOpens /\ DOMAIN opened \subseteq Files
      /\ size \in [Segments -> Nat] /\ body \in [Segments -> [PageNumbers -> Stored \union {Hole}]]
      /\ opened[i] \in Segments /\ n \in Nat
  BY OpenedSome, FilesAssumption DEF FilesGood, FilesTypeOK, PageNumbers
<1>1. SoleOK(i)
  BY DEF FilesGood
<1>2. PICK j \in Files : n \in Range(given[j])
  BY DEF PutPage
<1>3. given[j] \in Seq(Nat) /\ given[j] # <<>>
  BY <1>2 DEF Range, FilesGood, FilesTypeOK
<1>4. j \in DOMAIN opened
  BY <1>3 DEF FilesGood, FilesKnown
<1>5. j = i
  BY <1>t, <1>3, <1>4, SoleOpen
<1>6. 2 * (n + 1) <= size[opened[i]]
  BY <1>1, <1>2, <1>5 DEF SoleOK, Range
<1>7. /\ size' = [size EXCEPT ![SegmentOf(n)] = IF e > @ THEN e ELSE @]
      /\ body' = [body EXCEPT ![SegmentOf(n)][n] = v]
      /\ UNCHANGED <<doing, file, seen, number, given>>
  BY DEF PutPage, Longer
<1>8. size'[opened[i]] = size[opened[i]]
  <2>1. ~(e > size[opened[i]])
    BY <1>t, <1>6 DEF Ends
  <2> QED BY <1>t, <1>7, <2>1
<1>9. ASSUME NEW m \in PageNumbers
      PROVE  body'[opened[i]][m] = body[opened[i]][m] \/ (m = n /\ body'[opened[i]][m] = v)
  BY <1>t, <1>7
<1> QED BY <1>6, <1>7, <1>8, <1>9

(* Nothing of the sole file changes with a step that neither allocates nor writes. *)
LEMMA SoleKept ==
  ASSUME NEW i, SoleOK(i), NEW c \in Clients, i \in DOMAIN opened, opened'[i] = opened[i],
         given'[i] = given[i], size'[opened[i]] = size[opened[i]],
         body'[opened[i]] = body[opened[i]],
         \A d \in Clients : file'[d] = i /\ doing'[d] \in {"count", "write"} =>
           /\ file[d] = i /\ doing[d] = doing'[d] /\ seen[d] = seen'[d] /\ number[d] = number'[d]
  PROVE  SoleOK(i)'
  BY DEF SoleOK

LEMMA SoleZeroes ==
  ASSUME FilesGood, NEW c \in Clients, WriteZeroes(c),
         NEW i \in DOMAIN opened, Sole(opened[i]), opened[file[c]] = opened[i]
  PROVE  SoleOK(i)'
<1> DEFINE s == opened[i]
<1>w. doing[c] = "write"
  BY DEF WriteZeroes
<1>z. /\ file[c] = i /\ SoleOK(i) /\ number[c] \in Nat
      /\ seen[c] = size[s] /\ seen[c] = 2 * number[c]
      /\ seen[c] \div 2 = number[c] /\ (seen[c] + 1) \div 2 = number[c]
      /\ \A d \in Clients : d # c /\ file[d] = i => doing[d] \notin {"count", "write"}
  BY <1>w, ZeroesBehind
<1>t. /\ s \in Segments /\ i \in Files /\ given \in [Files -> Seq(Nat)]
      /\ size \in [Segments -> Nat] /\ doing \in [Clients -> Doings]
      /\ body \in [Segments -> [PageNumbers -> Stored \union {Hole}]]
      /\ PageNumbers \subseteq Nat
  BY OpenedSome, FilesAssumption DEF FilesGood, FilesTypeOK, PageNumbers
<1>1. /\ UNCHANGED <<opened, file>> /\ doing' = [doing EXCEPT ![c] = "idle"]
      /\ size' = [size EXCEPT ![s] = IF seen[c] + 2 > @ THEN seen[c] + 2 ELSE @]
      /\ body' = [body EXCEPT ![s] = [n \in PageNumbers |->
                    IF n \in {seen[c] \div 2, (seen[c] + 1) \div 2} THEN Hole ELSE @[n]]]
      /\ given' = [given EXCEPT ![i] = Append(@, number[c])]
  BY <1>z DEF WriteZeroes, Longer, AllocationEnds, GoTo, NoOpening
<1> HIDE DEF s
<1>2. size'[s] = 2 * number[c] + 2
  <2>1. size' = [size EXCEPT ![s] = IF seen[c] + 2 > @ THEN seen[c] + 2 ELSE @]
    BY <1>1
  <2>2. size'[s] = IF seen[c] + 2 > size[s] THEN seen[c] + 2 ELSE size[s]
    BY <1>t, <2>1
  <2>3. seen[c] = size[s] /\ size[s] \in Nat /\ seen[c] = 2 * number[c]
    BY <1>t, <1>z
  <2>4. seen[c] + 2 > size[s]
    BY <2>3
  <2> QED BY <2>2, <2>3, <2>4
<1>3. \A n \in PageNumbers : body'[s][n] # Hole => body[s][n] # Hole
  <2>1. body'[s] = [n \in PageNumbers |->
                      IF n \in {seen[c] \div 2, (seen[c] + 1) \div 2} THEN Hole ELSE body[s][n]]
    BY <1>t, <1>1
  <2> QED BY <2>1
<1>4. /\ given'[i] = Append(given[i], number[c]) /\ given[i] \in Seq(Nat)
      /\ \A j \in DOMAIN given[i] : given[i][j] \in Nat /\ 2 * (given[i][j] + 1) <= 2 * number[c]
      /\ \A j, k \in DOMAIN given[i] : j < k => given[i][j] < given[i][k]
  BY <1>t, <1>z, <1>1, SMTT(30) DEF SoleOK, s
<1> DEFINE g == given[i]
           h == given'[i]
           n == number[c]
<1>5. /\ DOMAIN h = 1 .. Len(g) + 1 /\ Len(g) \in Nat /\ h[Len(g) + 1] = n
      /\ \A j \in 1 .. Len(g) : h[j] = g[j] /\ h[j] \in Nat /\ 2 * (h[j] + 1) <= 2 * n /\ j \in DOMAIN g
  <2>1. h = Append(g, n) /\ g \in Seq(Nat) /\ n \in Nat
    BY <1>4, <1>z
  <2>2. \A j \in DOMAIN g : g[j] \in Nat /\ 2 * (g[j] + 1) <= 2 * n
    BY <1>4
  <2> HIDE DEF g, h, n
  <2>3. /\ Len(g) \in Nat /\ DOMAIN g = 1 .. Len(g) /\ h[Len(g) + 1] = n
        /\ \A j \in 1 .. Len(g) : h[j] = g[j]
    BY <2>1
  <2>4. h \in Seq(Nat) /\ Len(h) = Len(g) + 1
    BY <2>1
  <2>5. DOMAIN h = 1 .. Len(g) + 1
    BY <2>4
  <2> QED BY <2>2, <2>3, <2>5
<1>6. \A j, k \in 1 .. Len(g) : j < k => h[j] < h[k]
  BY <1>4, <1>5
<1>n. n \in Nat /\ size'[s] = 2 * n + 2
  BY <1>2, <1>z
<1> HIDE DEF g, h, n
<1>7. ASSUME NEW j \in DOMAIN h, NEW k \in DOMAIN h, j < k PROVE h[j] < h[k]
  <2>1. j \in 1 .. Len(g)
    BY <1>5, <1>7
  <2>2. CASE k \in 1 .. Len(g)
    BY <1>6, <1>7, <2>1, <2>2
  <2>3. CASE k = Len(g) + 1
    BY <1>5, <1>n, <2>1, <2>3
  <2> QED BY <1>5, <2>2, <2>3
<1>8. ASSUME NEW j \in DOMAIN h PROVE 2 * (h[j] + 1) <= size'[s]
  <2>1. CASE j \in 1 .. Len(g)
    <3>1. h[j] \in Nat /\ 2 * (h[j] + 1) <= 2 * n
      BY <1>5, <2>1
    <3> QED BY <1>n, <3>1
  <2>2. CASE j = Len(g) + 1
    BY <1>5, <1>n, <2>2
  <2> QED BY <1>5, <2>1, <2>2
<1>9. ASSUME NEW m \in PageNumbers, body'[s][m] # Hole PROVE 2 * (m + 1) <= size'[s]
  <2>1. 2 * (m + 1) <= size[s] /\ size[s] = 2 * n /\ m \in Nat
    BY <1>3, <1>9, <1>t, <1>z DEF SoleOK, s, n
  <2> QED BY <1>n, <2>1
<1>10. \A d \in Clients : file'[d] = i => doing'[d] \notin {"count", "write"}
  BY <1>1, <1>t, <1>z
<1>11. opened'[i] = s
  BY <1>1 DEF s
<1> QED BY <1>7, <1>8, <1>9, <1>10, <1>11 DEF SoleOK, h

LEMMA SoleFails ==
  ASSUME FilesGood, NEW c \in Clients, WriteFails(c),
         NEW i \in DOMAIN opened, Sole(opened[i]), opened[file[c]] = opened[i]
  PROVE  SoleOK(i)'
<1> DEFINE s == opened[i]
<1>w. doing[c] = "write"
  BY DEF WriteFails
<1>z. /\ file[c] = i /\ SoleOK(i) /\ number[c] \in Nat /\ seen[c] = size[s]
      /\ \A d \in Clients : d # c /\ file[d] = i => doing[d] \notin {"count", "write"}
  BY <1>w, ZeroesBehind
<1>t. /\ s \in Segments /\ i \in Files /\ given \in [Files -> Seq(Nat)]
      /\ size \in [Segments -> Nat] /\ doing \in [Clients -> Doings] /\ PageNumbers \subseteq Nat
  BY OpenedSome, FilesAssumption DEF FilesGood, FilesTypeOK, PageNumbers
<1>1. /\ UNCHANGED <<opened, file, body, given>> /\ doing' = [doing EXCEPT ![c] = "idle"]
      /\ \/ UNCHANGED size
         \/ size' = [size EXCEPT ![s] = IF seen[c] + 1 > @ THEN seen[c] + 1 ELSE @]
  BY <1>z DEF WriteFails, Longer, AllocationEnds, GoTo, NoOpening
<1> HIDE DEF s
<1>2. size'[s] \in Nat /\ size[s] \in Nat /\ size[s] <= size'[s]
  BY <1>1, <1>t, <1>z
<1>3. ASSUME NEW j \in DOMAIN given[i] PROVE 2 * (given[i][j] + 1) <= size'[s]
  <2>1. given[i][j] \in Nat /\ 2 * (given[i][j] + 1) <= size[s]
    BY <1>t, <1>z DEF SoleOK, s
  <2> QED BY <1>2, <2>1
<1>4. ASSUME NEW m \in PageNumbers, body[s][m] # Hole PROVE 2 * (m + 1) <= size'[s]
  <2>1. m \in Nat /\ 2 * (m + 1) <= size[s]
    BY <1>4, <1>t, <1>z DEF SoleOK, s
  <2> QED BY <1>2, <2>1
<1>5. \A d \in Clients : file'[d] = i => doing'[d] \notin {"count", "write"}
  BY <1>1, <1>t, <1>z
<1>6. opened'[i] = s /\ given' = given /\ body' = body
      /\ \A j, k \in DOMAIN given[i] : j < k => given[i][j] < given[i][k]
  BY <1>1, <1>z DEF s, SoleOK
<1> QED BY <1>3, <1>4, <1>5, <1>6 DEF SoleOK

(* Whatever a client does, the sole file in use is as it should be. *)
LEMMA SoleStays ==
  ASSUME FilesGood, NEW c \in Clients, FilesStep(c),
         NEW i \in DOMAIN opened, Sole(opened[i])
  PROVE  SoleOK(i)'
<1>t. /\ opened \in Seq(Segments) /\ Len(opened) <= MaxOpens /\ opened[i] \in Segments /\ i \in Files
      /\ size \in [Segments -> Nat] /\ doing \in [Clients -> Doings] /\ DOMAIN body = Segments
      /\ file \in [Clients -> Files \union {NoFile}] /\ seen \in [Clients -> Nat]
      /\ number \in [Clients -> Nat] /\ given \in [Files -> Seq(Nat)]
  BY OpenedSome DEF FilesGood, FilesTypeOK
<1>s. SoleOK(i)
  BY DEF FilesGood
<1>g. FilesTypeOK /\ FilesKnown
  BY DEF FilesGood
<1>o. opened'[i] = opened[i]
  BY <1>g, OpensGrow
<1>1. CASE opened' # opened
  <2>1. UNCHANGED <<given, size, body, seen>> /\ doing'[c] \notin {"count", "write"}
        /\ \A d \in Clients : d # c => doing'[d] = doing[d] /\ file'[d] = file[d]
    BY <1>1, <1>g, OpensGrow
  <2>2. \A d \in Clients : d # c => number'[d] = number[d]
    BY <1>t DEF FilesStep, CreateRelation, GetRelation, InsertRelation, OpenRelation, OpenFails,
                AllocatePage, PageCount, WriteZeroes, WriteFails, PutPage, NoAllocation, AllocationEnds
  <2> QED BY <1>s, <1>o, <2>1, <2>2, SoleKept
<1>2. ASSUME NEW s \in Segments, GetRelation(c, s) PROVE SoleOK(i)'
  <2>1. /\ UNCHANGED <<given, size, body, seen>> /\ doing[c] = "idle"
        /\ doing'[c] \notin {"count", "write"}
        /\ \A d \in Clients : d # c => doing'[d] = doing[d] /\ file'[d] = file[d] /\ number'[d] = number[d]
    BY <1>2, <1>t DEF GetRelation, GoTo
  <2> QED BY <1>s, <1>o, <2>1, SoleKept
<1>3. CASE InsertRelation(c) \/ OpenRelation(c) \/ OpenFails(c)
  <2>1. /\ UNCHANGED <<given, size, body, seen>> /\ doing' = [doing EXCEPT ![c] = "idle"]
        /\ \A d \in Clients : d # c => file'[d] = file[d] /\ number'[d] = number[d]
    BY <1>3, <1>t DEF InsertRelation, OpenRelation, OpenFails, GoTo, NoAllocation
  <2> QED BY <1>t, <1>s, <1>o, <2>1, SoleKept
<1>4. CASE AllocatePage(c)
  <2>1. /\ UNCHANGED <<opened, given, size, body, file, number>>
        /\ seen' = [seen EXCEPT ![c] = size[opened[file[c]]]]
        /\ doing' = [doing EXCEPT ![c] = "count"]
    BY <1>4 DEF AllocatePage, GoTo, NoOpening
  <2> QED BY <1>t, <1>s, <2>1 DEF SoleOK
<1>5. CASE PageCount(c)
  <2>1. UNCHANGED <<opened, given, size, body, file>> /\ doing[c] = "count"
    BY <1>5 DEF PageCount, NoOpening
  <2>2. CASE AllocationEnds(c)
    <3>1. doing' = [doing EXCEPT ![c] = "idle"]
          /\ \A d \in Clients : d # c => seen'[d] = seen[d] /\ number'[d] = number[d]
      BY <1>t, <2>2 DEF AllocationEnds, GoTo
    <3> QED BY <1>t, <1>s, <1>o, <2>1, <3>1, SoleKept
  <2>3. CASE /\ size[opened[file[c]]] % 2 = 0 /\ doing' = [doing EXCEPT ![c] = "write"]
             /\ number' = [number EXCEPT ![c] = size[opened[file[c]]] \div 2] /\ UNCHANGED seen
    <3>1. file[c] = i => seen[c] = 2 * number'[c]
      <4>1. ASSUME file[c] = i PROVE seen[c] = size[opened[i]] /\ number'[c] = size[opened[i]] \div 2
        BY <1>s, <1>t, <2>1, <2>3, <4>1 DEF SoleOK
      <4>2. size[opened[i]] \in Nat
        BY <1>t
      <4> QED BY <2>3, <4>1, <4>2, TwiceNumber
    <3>2. \A d \in Clients : d # c => doing'[d] = doing[d] /\ number'[d] = number[d]
      BY <1>t, <2>3
    <3> QED BY <1>t, <1>s, <2>1, <2>3, <3>1, <3>2 DEF SoleOK
  <2> QED BY <1>5, <2>2, <2>3 DEF PageCount, GoTo
<1>6. CASE WriteZeroes(c) \/ WriteFails(c)
  <2>1. CASE opened[file[c]] = opened[i]
    BY <1>6, <2>1, SoleZeroes, SoleFails
  <2>2. CASE opened[file[c]] # opened[i]
    <3>1. file[c] # i /\ UNCHANGED <<opened, file>> /\ doing' = [doing EXCEPT ![c] = "idle"]
          /\ \A d \in Clients : d # c => seen'[d] = seen[d] /\ number'[d] = number[d]
      BY <1>6, <1>t, <2>2 DEF WriteZeroes, WriteFails, AllocationEnds, GoTo, NoOpening
    <3>2. given'[i] = given[i] /\ size'[opened[i]] = size[opened[i]] /\ body'[opened[i]] = body[opened[i]]
      BY <1>6, <1>t, <2>2, <3>1 DEF WriteZeroes, WriteFails, Longer
    <3> QED BY <1>t, <1>s, <3>1, <3>2, SoleKept
  <2> QED BY <2>1, <2>2
<1>7. ASSUME NEW n \in PageNumbers, NEW v \in Stored, NEW e \in Ends(n),
             PutPage(c, n, v, e)
      PROVE  SoleOK(i)'
  <2>1. /\ 2 * (n + 1) <= size[opened[i]] /\ size'[opened[i]] = size[opened[i]]
        /\ UNCHANGED <<doing, file, seen, number, given>>
        /\ \A m \in PageNumbers : body'[opened[i]][m] = body[opened[i]][m]
                                  \/ (m = n /\ body'[opened[i]][m] = v)
    BY <1>7, WrittenWithin
  <2>2. \A m \in PageNumbers : body'[opened[i]][m] # Hole => 2 * (m + 1) <= size[opened[i]]
    BY <1>s, <2>1 DEF SoleOK
  <2> QED BY <1>s, <1>o, <2>1, <2>2 DEF SoleOK
<1>8. \/ opened' # opened \/ (\E s \in Segments : GetRelation(c, s))
      \/ InsertRelation(c) \/ OpenRelation(c) \/ OpenFails(c)
      \/ AllocatePage(c) \/ PageCount(c) \/ WriteZeroes(c) \/ WriteFails(c)
      \/ (\E n \in PageNumbers, v \in Stored : \E e \in Ends(n) : PutPage(c, n, v, e))
  <2>1. ASSUME NEW s \in Segments, CreateRelation(c, s) PROVE opened' # opened
    <3>1. Len(opened) + 1 \notin DOMAIN opened /\ Len(opened) + 1 \in DOMAIN opened'
      BY <1>t, <2>1, OpensOne DEF CreateRelation
    <3> QED BY <3>1
  <2> QED BY <2>1 DEF FilesStep
<1> QED BY <1>1, <1>2, <1>3, <1>4, <1>5, <1>6, <1>7, <1>8

LEMMA FilesStart == FilesInit => FilesGood
<1> SUFFICES ASSUME FilesInit PROVE FilesGood
  OBVIOUS
<1>1. opened = <<>> /\ DOMAIN opened = {} /\ opened \in Seq(Segments) /\ Len(opened) = 0
  BY DEF FilesInit
<1>2. FilesTypeOK
  BY <1>1, FilesAssumption DEF FilesInit, FilesTypeOK, Doings
<1>3. FilesKnown
  BY DEF FilesInit, FilesKnown
<1>4. \A s : Opens(s) = {} /\ Cardinality(Opens(s)) = 0
  BY <1>1, FS_EmptySet DEF Opens
<1>5. OpensCounted
  BY <1>4 DEF FilesInit, OpensCounted
<1>6. LocksHeld /\ Untouched
  BY DEF FilesInit, LocksHeld, Untouched
<1> QED BY <1>1, <1>2, <1>3, <1>5, <1>6 DEF FilesGood

LEMMA FilesGoodStep == FilesGood /\ [FilesNext]_fileVars => FilesGood'
<1> SUFFICES ASSUME FilesGood, [FilesNext]_fileVars PROVE FilesGood'
  OBVIOUS
<1>1. CASE UNCHANGED fileVars
  <2> USE <1>1 DEF fileVars, FilesGood
  <2>1. FilesTypeOK' /\ FilesKnown'
    BY DEF FilesTypeOK, FilesKnown
  <2>2. OpensCounted' /\ Untouched' /\ LocksHeld'
    BY DEF OpensCounted, Untouched, LocksHeld, Opens
  <2>3. ASSUME NEW i \in DOMAIN opened', Sole(opened[i])' PROVE SoleOK(i)'
    <3>1. Sole(opened[i])
      BY <2>3 DEF Sole, Opens
    <3>2. SoleOK(i)
      BY <2>3, <3>1
    <3> QED BY <3>2 DEF SoleOK
  <2> QED BY <2>1, <2>2, <2>3
<1>2. ASSUME NEW c \in Clients, FilesStep(c) PROVE FilesGood'
  <2>1. FilesTypeOK /\ FilesKnown /\ OpensCounted /\ LocksHeld /\ Untouched
    BY DEF FilesGood
  <2>2. FilesTypeOK' /\ FilesKnown' /\ OpensCounted' /\ LocksHeld' /\ Untouched'
    BY <1>2, <2>1, FilesTypeStep, FilesKnownStep, OpensCountedStep, LocksHeldStep, UntouchedStep
  <2>3. ASSUME NEW i \in DOMAIN opened', Sole(opened[i])' PROVE SoleOK(i)'
    <3>1. CASE i \in DOMAIN opened
      <4>1. opened'[i] = opened[i]
        BY <1>2, <2>1, <3>1, OpensGrow
      <4>2. Sole(opened[i])
        BY <1>2, <2>1, <2>3, <3>1, SoleBefore
      <4> QED BY <1>2, <3>1, <4>2, SoleStays
    <3>2. CASE i \notin DOMAIN opened
      <4>1. /\ UNCHANGED <<given, size, body, seen>> /\ doing'[c] \notin {"count", "write"}
            /\ \A d \in Clients : d # c => doing'[d] = doing[d] /\ file'[d] = file[d]
            /\ DOMAIN opened \subseteq DOMAIN opened' /\ \A j \in DOMAIN opened : opened'[j] = opened[j]
        BY <1>2, <2>1, <3>2, OpensGrow
      <4>2. /\ opened' \in Seq(Segments) /\ Len(opened') <= MaxOpens /\ opened'[i] \in Segments
            /\ i \in Files
        <5>1. opened' \in Seq(Segments) /\ Len(opened') <= MaxOpens
          BY <2>2 DEF FilesTypeOK
        <5>2. DOMAIN opened' = 1 .. Len(opened') /\ Len(opened') \in Nat
          BY <5>1
        <5> QED BY <5>1, <5>2, FilesAssumption DEF Files
      <4>3. PICK s \in Segments : s = opened'[i]
        BY <4>2
      <4>4. Opens(s) = {}
        <5>1. Sole(s)'
          BY <2>3, <4>3 DEF Sole, Opens
        <5>2. IsFiniteSet(Opens(s)')
          <6>1. Opens(s)' \subseteq 1 .. Len(opened') /\ Len(opened') \in Nat
            BY <4>2 DEF Opens
          <6>2. IsFiniteSet(1 .. Len(opened'))
            BY <6>1, FS_Interval
          <6> QED BY <6>1, <6>2, FS_Subset
        <5>3. PICK j : Opens(s)' = {j}
          BY <5>1, <5>2, FS_Singleton DEF Sole
        <5>4. i \in Opens(s)' /\ Opens(s) \subseteq Opens(s)'
          BY <4>1, <4>3 DEF Opens
        <5>5. i \notin Opens(s)
          BY <3>2 DEF Opens
        <5> QED BY <5>3, <5>4, <5>5
      <4>5. \A n \in PageNumbers : body'[s][n] = Hole
        BY <2>1, <4>1, <4>4 DEF Untouched
      <4>6. given'[i] = <<>> /\ DOMAIN given'[i] = {}
        BY <2>1, <3>2, <4>1, <4>2 DEF FilesKnown
      <4>7. \A d \in Clients : file'[d] = i => doing'[d] \notin {"count", "write"}
        BY <2>1, <3>2, <4>1, FilesAssumption DEF FilesKnown
      <4> QED BY <4>3, <4>5, <4>6, <4>7 DEF SoleOK
    <3> QED BY <3>1, <3>2
  <2>4. (\A i \in DOMAIN opened : Sole(opened[i]) => SoleOK(i))'
    BY <2>3
  <2> QED BY <2>2, <2>4 DEF FilesGood
<1> QED BY <1>1, <1>2, FilesSteps

(* get_relation alone opens a file once; the sole file in use gives every page number
   once, in order, and has the pages it gave; whoever is in allocate_page has the
   allocation lock of its file. *)
THEOREM FilesKeepOrder == FilesSpec => []FilesInv
<1>1. FilesGood => FilesInv
  BY DEF FilesGood, FilesInv, OpensCounted, LocksHeld, SoleOK
<1> QED BY <1>1, FilesStart, FilesGoodStep, PTL DEF FilesSpec

(* In the sole file in use no page that was written is zeroed by a later allocation,
   although write_page takes no lock and can be cut. *)
THEOREM WrittenPagesStay == FilesSpec => PagesKept
<1> DEFINE Kept == \A s \in Segments, n \in PageNumbers :
                     Sole(s) /\ body[s][n] # Hole => body'[s][n] # Hole
<1>1. ASSUME FilesGood, [FilesNext]_fileVars PROVE [Kept]_fileVars
  <2>1. ASSUME NEW c \in Clients, FilesStep(c), NEW s \in Segments, NEW n \in PageNumbers,
               Sole(s), body[s][n] # Hole
        PROVE  body'[s][n] # Hole
    <3>t. /\ opened \in Seq(Segments) /\ Len(opened) <= MaxOpens
          /\ body \in [Segments -> [PageNumbers -> Stored \union {Hole}]] /\ n \in Nat
      BY <1>1, FilesAssumption DEF FilesGood, FilesTypeOK, PageNumbers
    <3>1. PICK i \in DOMAIN opened : opened[i] = s
      <4>1. PICK j : Opens(s) = {j}
        BY <2>1, <3>t, OpensFinite, FS_Singleton DEF Sole
      <4> QED BY <4>1 DEF Opens
    <3>2. CASE WriteZeroes(c)
      <4>1. CASE opened[file[c]] = s
        <5>1. /\ SoleOK(i) /\ number[c] \in Nat /\ seen[c] = size[s] /\ seen[c] = 2 * number[c]
              /\ seen[c] \div 2 = number[c] /\ (seen[c] + 1) \div 2 = number[c]
          BY <1>1, <2>1, <3>1, <3>2, <4>1, ZeroesBehind DEF WriteZeroes
        <5>2. 2 * (n + 1) <= 2 * number[c]
          BY <2>1, <3>1, <5>1 DEF SoleOK
        <5>3. n # number[c]
          BY <3>t, <5>1, <5>2
        <5>4. body' = [body EXCEPT ![s] = [m \in PageNumbers |->
                         IF m \in {seen[c] \div 2, (seen[c] + 1) \div 2} THEN Hole ELSE @[m]]]
          BY <3>2, <4>1 DEF WriteZeroes
        <5>5. body'[s][n] = IF n \in {number[c]} THEN Hole ELSE body[s][n]
          BY <3>t, <5>1, <5>4
        <5> QED BY <2>1, <5>3, <5>5
      <4>2. CASE opened[file[c]] # s
        BY <2>1, <3>2, <3>t, <4>2 DEF WriteZeroes
      <4> QED BY <4>1, <4>2
    <3>3. ASSUME NEW m \in PageNumbers, NEW v \in Stored, NEW e \in Ends(m), PutPage(c, m, v, e)
          PROVE  body'[s][n] # Hole
      BY <2>1, <3>3, <3>t, FilesAssumption DEF PutPage
    <3>4. WriteZeroes(c)
          \/ (\E m \in PageNumbers, v \in Stored : \E e \in Ends(m) : PutPage(c, m, v, e))
          \/ UNCHANGED body
      BY <2>1 DEF FilesStep, CreateRelation, GetRelation, InsertRelation, OpenRelation, OpenFails,
                  AllocatePage, PageCount, WriteFails, NoAllocation
    <3> QED BY <2>1, <3>2, <3>3, <3>4
  <2> QED BY <1>1, <2>1, FilesSteps
<1>2. FilesGood /\ [FilesNext]_fileVars => [Kept]_fileVars
  BY <1>1
<1> HIDE DEF Kept
<1>3. FilesSpec => [][Kept]_fileVars
  BY <1>2, FilesStart, FilesGoodStep, PTL DEF FilesSpec
<1> QED BY <1>3 DEF PagesKept, Kept

=============================================================================
