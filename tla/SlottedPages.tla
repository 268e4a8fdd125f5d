----------------------------- MODULE SlottedPages -----------------------------
(***************************************************************************)
(* A page of variable-length records, in the two layouts of the storage    *)
(* engine: Page (project1/page.rs) and SlottedPage (part3/slotted_page.rs, *)
(* with the header of part1/page.rs).  After the header the slot directory *)
(* grows upwards, and from the end of the page the records grow downwards. *)
(* The directory is kept apart from the bytes of the records: that the two *)
(* never meet is part of PageInv.                                          *)
(***************************************************************************)
EXTENDS Integers, Sequences, FiniteSets, Functions

CONSTANTS PageSize, HeaderSize, SlotSize,
          Values,   \* the values a byte can have
          Records,  \* the records clients insert
          Zero,     \* a byte that was never written
          Deleted   \* "the record of this slot was deleted"

Tombstone == 65535

ASSUME PagesAssumption ==
  /\ PageSize \in Nat /\ HeaderSize \in Nat /\ SlotSize \in Nat
  /\ HeaderSize <= PageSize /\ PageSize < Tombstone
  /\ Records \subseteq Seq(Values)
  /\ Deleted \notin Records

VARIABLES
  layout,  \* "Page" or "SlottedPage"
  slotted  \* slots: the directory; region: where the records begin;
           \* data: the bytes from the end of the header on
pageVars == <<layout, slotted>>

Offsets == HeaderSize .. PageSize - 1
Live(p) == {s \in DOMAIN p.slots : p.slots[s].offset # Tombstone}
Lower(p) == HeaderSize + Len(p.slots) * SlotSize

(* usize::saturating_sub *)
Saturating(a, b) == IF a > b THEN a - b ELSE 0
FreeSpace(p) == Saturating(p.region, Lower(p))

(* A new page has no slots.  The header that a SlottedPage takes from part 1
   lets the records begin just after the header. *)
FirstRegion == IF layout = "Page" THEN PageSize ELSE HeaderSize

PageInit ==
  /\ layout \in {"Page", "SlottedPage"}
  /\ slotted = [slots |-> <<>>, region |-> FirstRegion, data |-> [o \in Offsets |-> Zero]]

Get(p, s) == [i \in 1..p.slots[s].length |-> p.data[p.slots[s].offset + i - 1]]

Tombstones(p) == DOMAIN p.slots \ Live(p)
First(S) == CHOOSE s \in S : \A r \in S : s <= r

(* Mutation of Needed: a new slot is not counted. *)
NoRoomForSlot(p, r) == Len(r)

(* A SlottedPage asks for room for a slot even if it will reuse one. *)
Needed(p, r) ==
  Len(r) + IF layout = "Page" /\ Tombstones(p) # {} THEN 0 ELSE SlotSize

Fits(p, r) == FreeSpace(p) >= Needed(p, r)

Inserted(p, r) ==
  LET start == p.region - Len(r)
      slot == [offset |-> start, length |-> Len(r)]
  IN [slots  |-> IF Tombstones(p) = {} THEN Append(p.slots, slot)
                 ELSE [p.slots EXCEPT ![First(Tombstones(p))] = slot],
      region |-> start,
      data   |-> [o \in Offsets |-> IF o \in start .. p.region - 1
                                    THEN r[o - start + 1] ELSE p.data[o]]]

(* The bytes of the live records among the slots S: how many, and which. *)
RecordBytes(p, S) == UNION {{s} \X (1..p.slots[s].length) : s \in S \cap Live(p)}
LiveBytes(p, S) == Cardinality(RecordBytes(p, S))

(* Where a compaction puts the record of slot s: behind those of higher slots. *)
Packed(p, s) == PageSize - LiveBytes(p, 1..s)

Repacked(p, bytes) ==
  [slots  |-> [s \in DOMAIN p.slots |->
                 IF s \in Live(p) THEN [p.slots[s] EXCEPT !.offset = Packed(p, s)]
                 ELSE p.slots[s]],
   region |-> PageSize - LiveBytes(p, DOMAIN p.slots),
   data   |-> bytes]

(* The record of which live slot a compaction writes over offset o, if any. *)
Covering(p, o) ==
  {s \in Live(p) : o \in Packed(p, s) .. Packed(p, s) + p.slots[s].length - 1}

(* Mutation of Compacted: records are moved one by one, within the page. *)
CompactedInPlace(p) ==
  Repacked(p, FoldFunctionOnSet(
    LAMBDA s, bytes : [o \in Offsets |->
      IF o \in Packed(p, s) .. Packed(p, s) + p.slots[s].length - 1
      THEN bytes[p.slots[s].offset + (o - Packed(p, s))] ELSE bytes[o]],
    p.data, [s \in Live(p) |-> s], Live(p)))

(* All live records are copied out first, so none is overwritten before it is moved. *)
Compacted(p) ==
  Repacked(p, [o \in Offsets |->
                 IF Covering(p, o) = {} THEN p.data[o]
                 ELSE LET s == First(Covering(p, o))
                      IN Get(p, s)[o - Packed(p, s) + 1]])

-----------------------------------------------------------------------------
Insert(r) ==
  /\ Fits(slotted, r)
  /\ slotted' = Inserted(slotted, r)
  /\ UNCHANGED layout

Reclaimable(p) == Saturating(PageSize - p.region, LiveBytes(p, Live(p)))

(* insert_compacting, when there is no room without a compaction. *)
InsertCompacting(r) ==
  /\ layout = "Page" /\ ~Fits(slotted, r)
  /\ FreeSpace(slotted) + Reclaimable(slotted) >= Needed(slotted, r)
  /\ LET p == Compacted(slotted) IN slotted' = IF Fits(p, r) THEN Inserted(p, r) ELSE p
  /\ UNCHANGED layout

Delete(s) ==
  /\ s \in Live(slotted)
  /\ slotted' = [slotted EXCEPT !.slots[s] = [offset |-> Tombstone, length |-> 0]]
  /\ UNCHANGED layout

Compact == slotted' = Compacted(slotted) /\ UNCHANGED layout

(* Page::initialize writes a header over whatever the page has. *)
Initialize ==
  /\ layout = "Page"
  /\ slotted' = [slotted EXCEPT !.slots = <<>>, !.region = PageSize]
  /\ UNCHANGED layout

PageNext ==
  \/ \E r \in Records : Insert(r) \/ InsertCompacting(r)
  \/ \E s \in DOMAIN slotted.slots : Delete(s)
  \/ Compact
  \/ Initialize

PageSpec == PageInit /\ [][PageNext]_pageVars

-----------------------------------------------------------------------------
(* Page::from_bytes takes a page with these bounds. *)
FromBytesAccepts(p) ==
  /\ Lower(p) <= p.region /\ p.region <= PageSize
  /\ \A s \in Live(p) : /\ p.slots[s].offset >= p.region
                        /\ p.slots[s].offset + p.slots[s].length <= PageSize

Bytes(p, s) == p.slots[s].offset .. p.slots[s].offset + p.slots[s].length - 1

(* The page can be read back from its bytes, no two records share a byte, and
   insert_compacting turns a record down only if the directory and the live
   records leave no room for it (insert, compact and the pool's reloads). *)
PageInv ==
  /\ FromBytesAccepts(slotted)
  /\ \A s, u \in Live(slotted) : s # u => Bytes(slotted, s) \cap Bytes(slotted, u) = {}
  /\ layout = "Page" => \A r \in Records :
       FreeSpace(slotted) + Reclaimable(slotted) < Needed(slotted, r) =>
         Lower(slotted) + LiveBytes(slotted, Live(slotted)) + Needed(slotted, r) > PageSize

Store == INSTANCE RecordStore WITH
  records <- [s \in DOMAIN slotted.slots |->
                IF s \in Live(slotted) THEN Get(slotted, s) ELSE Deleted]

(* get returns what insert was given, in its slot, until delete (Page and
   SlottedPage): compaction moves records and changes none. *)
RecordsKept == Store!Spec
=============================================================================
