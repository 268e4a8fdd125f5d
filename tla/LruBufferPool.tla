---------------------------- MODULE LruBufferPool ----------------------------
(***************************************************************************)
(* The LRU buffer pool of part 2 (buffer_pool.rs, page_handle.rs) over a   *)
(* page file.  Every operation runs under the state mutex and takes the    *)
(* file mutex inside it, so it is one step; only allocate_page has two     *)
(* sections, one that appends the page and one that fetches it.            *)
(***************************************************************************)
EXTENDS Integers, FiniteSets

CONSTANTS Threads,     \* the threads that share the pool
          Contents,    \* the contents a page can have
          Fresh,       \* the content of a page just allocated
          NumFrames,   \* num_frames
          MaxPages,    \* bound on the length of the file
          NoThread,    \* "no thread"
          NoPage,      \* None of an Option<u32>
          NoFrame,     \* a page that is not in the page table
          Zeroed,      \* the bytes of a frame nothing was read into
          Torn,        \* a stored page that fails its checksum, or is not there
          Garbage,     \* the bytes a failed read may leave in its buffer
          Faults       \* which of AllFaults happen

AllFaults == {"write",     \* a write fails and leaves the old or the new page,
              "torn",      \* or a page that is neither
              "read",      \* a page of the file cannot be read
              "missing"}   \* a client asks for a page that is not in the file, or
                          \* whose allocation failed

ASSUME PoolAssumption ==
  /\ NumFrames \in Nat \ {0} /\ MaxPages \in Nat
  /\ Fresh \in Contents
  /\ NoPage \notin Nat /\ NoFrame \notin Nat /\ NoThread \notin Threads
  /\ {Zeroed, Torn, Garbage} \intersect Contents = {}
  /\ Zeroed # Torn /\ Zeroed # Garbage /\ Garbage # Torn
  /\ Faults \subseteq AllFaults

ASSUME ThreadsFinite == IsFiniteSet(Threads)

Frames == 0 .. NumFrames - 1
Pages == 0 .. MaxPages - 1

VARIABLES
  count,    \* the pages in the file
  disk,     \* their contents
  table,    \* page_table
  lru,      \* lru_list, the most recently used frame first
  page,     \* Frame.page_id
  data,     \* Frame.data
  pins,     \* Frame.pin_count
  dirty,    \* Frame.is_dirty
  handle,   \* handle[t][f]: the page_id of the handle t has on frame f
  alloc     \* the page a thread has appended in allocate_page, not fetched yet

fileVars == <<count, disk>>
frameVars == <<page, data, pins, dirty>>
vars == <<fileVars, table, lru, frameVars, handle, alloc>>

Init ==
  /\ count \in 0 .. MaxPages
  /\ disk \in {d \in [Pages -> Contents \union {Torn}] :
                 \A p \in Pages : d[p] = Torn <=> p >= count}
  /\ table = [p \in Pages |-> NoFrame]
  /\ lru = [i \in 1 .. NumFrames |-> i - 1]
  /\ page = [f \in Frames |-> NoPage]
  /\ data = [f \in Frames |-> Zeroed]
  /\ pins = [f \in Frames |-> 0]
  /\ dirty = [f \in Frames |-> FALSE]
  /\ handle = [t \in Threads |-> [f \in Frames |-> NoPage]]
  /\ alloc = [t \in Threads |-> NoPage]

Held(t) == {handle[t][f] : f \in Frames} \ {NoPage}
Idle(t) == alloc[t] = NoPage

(* What a write that returns an error may leave where `old` was: a write cut in the
   middle leaves a mixture of the two. *)
AfterFailedWrite(old, new) ==
  {old, new} \union (IF "torn" \in Faults /\ old # new THEN {Torn} ELSE {})

-----------------------------------------------------------------------------
(* allocate_page up to the fetch *)

AppendPage(t) ==
  /\ Idle(t)
  /\ count < MaxPages
  /\ count' = count + 1
  /\ disk' = [disk EXCEPT ![count] = Fresh]
  /\ alloc' = [alloc EXCEPT ![t] = count]
  /\ UNCHANGED <<table, lru, frameVars, handle>>

(* The zero page is appended, the write of its header fails. *)
AppendFails(t) ==
  /\ Idle(t)
  /\ "write" \in Faults
  /\ count < MaxPages
  /\ count' = count + 1
  /\ \E v \in {Torn, Fresh} : disk' = [disk EXCEPT ![count] = v]
  /\ UNCHANGED <<table, lru, frameVars, handle, alloc>>

-----------------------------------------------------------------------------
(* pin_page, for fetch_page and for the end of allocate_page *)

(* A page that a frame has, or that can be read. *)
Reachable(p) == table[p] # NoFrame \/ disk[p] # Torn

(* The page a thread asks for: the one it allocated, or one it has no handle
   of, which is there unless clients make up page numbers. *)
Asks(t, p) ==
  IF Idle(t) THEN p \notin Held(t) /\ (Reachable(p) \/ "missing" \in Faults)
             ELSE p = alloc[t]

Answered(t) == alloc' = [alloc EXCEPT ![t] = NoPage]

(* retain() and push_front(): f is in the list once. *)
MoveToFront(f) ==
  LET i == CHOOSE i \in DOMAIN lru : lru[i] = f
  IN [j \in DOMAIN lru |-> IF j = 1 THEN f ELSE IF j <= i THEN lru[j - 1] ELSE lru[j]]

Hit(t, p) ==
  LET f == table[p] IN
  /\ Asks(t, p)
  /\ f # NoFrame
  /\ pins' = [pins EXCEPT ![f] = @ + 1]
  /\ lru' = MoveToFront(f)
  /\ handle' = [handle EXCEPT ![t][f] = p]
  /\ Answered(t)
  /\ UNCHANGED <<fileVars, table, page, data, dirty>>

(* find_evict_target: the unpinned frame that is last in the list. *)
EvictTarget(f) ==
  \E i \in DOMAIN lru :
    /\ lru[i] = f /\ pins[f] = 0
    /\ \A j \in DOMAIN lru : j > i => pins[lru[j]] # 0

AllPinned == \A i \in DOMAIN lru : pins[lru[i]] # 0

(* Every frame is pinned: a page just allocated stays in the file. *)
Exhausted(t, p) ==
  /\ ~Idle(t) /\ p = alloc[t]
  /\ table[p] = NoFrame /\ AllPinned
  /\ Answered(t)
  /\ UNCHANGED <<fileVars, table, lru, frameVars, handle>>

Replaces(t, p, f) == Asks(t, p) /\ table[p] = NoFrame /\ EvictTarget(f)

NeedsWriteBack(f) == page[f] # NoPage /\ dirty[f]

(* Mutation of Evicted: the old page is not written. *)
EvictedUnwritten(f) == disk

(* The file and the page table when the old page of f is gone. *)
Evicted(f) == IF NeedsWriteBack(f) THEN [disk EXCEPT ![page[f]] = data[f]] ELSE disk

TableWithout(f) == IF page[f] = NoPage THEN table ELSE [table EXCEPT ![page[f]] = NoFrame]

Load(t, p, f) ==
  /\ Replaces(t, p, f)
  /\ p < count /\ Evicted(f)[p] # Torn
  /\ disk' = Evicted(f)
  /\ table' = [TableWithout(f) EXCEPT ![p] = f]
  /\ page' = [page EXCEPT ![f] = p]
  /\ data' = [data EXCEPT ![f] = Evicted(f)[p]]
  /\ pins' = [pins EXCEPT ![f] = 1]
  /\ dirty' = [dirty EXCEPT ![f] = FALSE]
  /\ lru' = MoveToFront(f)
  /\ handle' = [handle EXCEPT ![t][f] = p]
  /\ Answered(t)
  /\ UNCHANGED count

(* Mutation of WriteBackFails: the entry is removed before the write. *)
WriteBackForgets(t, p, f) ==
  /\ Replaces(t, p, f)
  /\ "write" \in Faults
  /\ NeedsWriteBack(f)
  /\ \E v \in AfterFailedWrite(disk[page[f]], data[f]) : disk' = [disk EXCEPT ![page[f]] = v]
  /\ table' = TableWithout(f)
  /\ Answered(t)
  /\ UNCHANGED <<count, lru, frameVars, handle>>

WriteBackFails(t, p, f) ==
  /\ Replaces(t, p, f)
  /\ "write" \in Faults
  /\ NeedsWriteBack(f)
  /\ \E v \in AfterFailedWrite(disk[page[f]], data[f]) : disk' = [disk EXCEPT ![page[f]] = v]
  /\ Answered(t)
  /\ UNCHANGED <<count, table, lru, frameVars, handle>>

(* The frame still names the old page, has its dirty bit, and its place in
   the list; only the table has forgotten it.  A read beyond the end of the
   file copies nothing. *)
ReadFails(t, p, f) ==
  /\ Replaces(t, p, f)
  /\ p >= count \/ Evicted(f)[p] = Torn \/ "read" \in Faults
  /\ disk' = Evicted(f)
  /\ table' = TableWithout(f)
  /\ \E bytes \in IF p >= count THEN {data[f]} ELSE {data[f], Garbage} :
       data' = [data EXCEPT ![f] = bytes]
  /\ Answered(t)
  /\ UNCHANGED <<count, lru, page, pins, dirty, handle>>

-----------------------------------------------------------------------------
(* PageHandle *)

Modify(t, f, v) ==
  /\ Idle(t)
  /\ handle[t][f] # NoPage
  /\ page[f] = handle[t][f]
  /\ data' = [data EXCEPT ![f] = v]
  /\ dirty' = [dirty EXCEPT ![f] = TRUE]
  /\ UNCHANGED <<fileVars, table, lru, page, pins, handle, alloc>>

(* Mutation of DropHandle: the drop leaves the pin behind. *)
DropHandleOnly(t, f) ==
  /\ Idle(t)
  /\ handle[t][f] # NoPage
  /\ handle' = [handle EXCEPT ![t][f] = NoPage]
  /\ UNCHANGED <<fileVars, table, lru, frameVars, alloc>>

DropHandle(t, f) ==
  /\ Idle(t)
  /\ handle[t][f] # NoPage
  /\ handle' = [handle EXCEPT ![t][f] = NoPage]
  /\ pins' = IF page[f] = handle[t][f] /\ pins[f] > 0 THEN [pins EXCEPT ![f] = @ - 1] ELSE pins
  /\ UNCHANGED <<fileVars, table, lru, page, data, dirty, alloc>>

-----------------------------------------------------------------------------
(* flush_all *)

(* The frames below n that have a page to write, and the file after it. *)
ToFlush(n) == {f \in Frames : f < n /\ NeedsWriteBack(f)}

Flushed(n) ==
  [p \in Pages |->
     LET copies == {f \in ToFlush(n) : page[f] = p}
     IN IF copies = {} THEN disk[p]
        ELSE data[CHOOSE f \in copies : \A g \in copies : g <= f]]

CleanBelow(n) == [f \in Frames |-> dirty[f] /\ f \notin ToFlush(n)]

FlushAll(t) ==
  /\ Idle(t)
  /\ disk' = Flushed(NumFrames)
  /\ dirty' = CleanBelow(NumFrames)
  /\ UNCHANGED <<count, table, lru, page, data, pins, handle, alloc>>

(* Mutation of FlushFails: the bit is cleared before the write. *)
FlushFailsClean(t, f) ==
  /\ Idle(t)
  /\ "write" \in Faults
  /\ f \in ToFlush(NumFrames)
  /\ \E v \in AfterFailedWrite(Flushed(f)[page[f]], data[f]) :
       disk' = [Flushed(f) EXCEPT ![page[f]] = v]
  /\ dirty' = CleanBelow(f + 1)
  /\ UNCHANGED <<count, table, lru, page, data, pins, handle, alloc>>

(* The write of frame f fails, and the rest is not tried. *)
FlushFails(t, f) ==
  /\ Idle(t)
  /\ "write" \in Faults
  /\ f \in ToFlush(NumFrames)
  /\ \E v \in AfterFailedWrite(Flushed(f)[page[f]], data[f]) :
       disk' = [Flushed(f) EXCEPT ![page[f]] = v]
  /\ dirty' = CleanBelow(f)
  /\ UNCHANGED <<count, table, lru, page, data, pins, handle, alloc>>

-----------------------------------------------------------------------------
PinStep(t) ==
  \E p \in Pages :
    \/ Hit(t, p) \/ Exhausted(t, p)
    \/ \E f \in Frames : Load(t, p, f) \/ WriteBackFails(t, p, f) \/ ReadFails(t, p, f)

HandleStep(t) ==
  \E f \in Frames : (\E v \in Contents : Modify(t, f, v)) \/ DropHandle(t, f)

FlushStep(t) == FlushAll(t) \/ \E f \in Frames : FlushFails(t, f)

Next ==
  \E t \in Threads :
    AppendPage(t) \/ AppendFails(t) \/ PinStep(t) \/ HandleStep(t) \/ FlushStep(t)

Spec == Init /\ [][Next]_vars

-----------------------------------------------------------------------------
(* Safety *)

(* Every variable stays within its type. *)
TypeOK ==
  /\ count \in 0 .. MaxPages
  /\ disk \in [Pages -> Contents \union {Torn, Garbage}]
  /\ table \in [Pages -> Frames \union {NoFrame}]
  /\ lru \in [1 .. NumFrames -> Frames]
  /\ page \in [Frames -> Pages \union {NoPage}]
  /\ data \in [Frames -> Contents \union {Zeroed, Garbage}]
  /\ pins \in [Frames -> Nat]
  /\ dirty \in [Frames -> BOOLEAN]
  /\ handle \in [Threads -> [Frames -> Pages \union {NoPage}]]
  /\ alloc \in [Threads -> Pages \union {NoPage}]

HandlesOn(f) == {t \in Threads : handle[t][f] # NoPage}

(* A pin count is the number of handles: the drop, which gives a pin back only
   when the frame is still that of the page, never keeps one, and no failed
   fetch leaves one behind. *)
PinsAccounted == \A f \in Frames : pins[f] = Cardinality(HandlesOn(f))

(* "page handle no longer points to its page" is an error that cannot happen:
   a handle's frame has the handle's page as long as the handle lives, after
   any failed read or write. *)
HandlesKeepTheirPage ==
  \A t \in Threads, f \in Frames : handle[t][f] # NoPage => page[f] = handle[t][f]

(* An entry of the table leads to a frame of that page. *)
EntriesLeadToPages == \A p \in Pages, f \in Frames : table[p] = f => page[f] = p

(* No frame drops out of the least-recently-used list, so that a frame that is
   free is found and "all frames are pinned" is true when it is reported. *)
LruListsFrames == \A f \in Frames : \E i \in DOMAIN lru : lru[i] = f

(* Frames and handles are for pages of the file, and a page that was just
   appended is new to the thread that will fetch it. *)
PagesExist ==
  /\ \A f \in Frames : page[f] # NoPage => page[f] < count
  /\ \A t \in Threads : alloc[t] # NoPage => alloc[t] < count /\ alloc[t] \notin Held(t)

(* The zero bytes a frame starts with are never a page's. *)
FramesFilled == \A f \in Frames : page[f] # NoPage => data[f] # Zeroed

(* What holds whatever fails. *)
OwnershipInv ==
  /\ TypeOK
  /\ PinsAccounted
  /\ HandlesKeepTheirPage
  /\ EntriesLeadToPages
  /\ LruListsFrames
  /\ PagesExist
  /\ FramesFilled

(* No read fails: no I/O error, and clients ask for pages of the file.  Writes
   may fail, and even leave damaged pages. *)
ReadsSucceed == Faults \intersect {"read", "missing"} = {}

(* A page that a frame has is in the table, so it is in no other frame. *)
FramesAreInTable == \A p \in Pages, f \in Frames : page[f] = p => table[p] = f

(* A frame that is not dirty can be dropped: its page is in the file. *)
CleanFramesMatchDisk ==
  \A f \in Frames : page[f] # NoPage /\ ~dirty[f] => data[f] = disk[page[f]]

(* A page that was allocated can be fetched. *)
AllocatedReachable == \A t \in Threads : alloc[t] # NoPage => Reachable(alloc[t])

(* There is no garbage, and nothing behind the end of the file. *)
NoGarbage ==
  /\ \A f \in Frames : data[f] # Garbage
  /\ \A p \in Pages : disk[p] # Garbage /\ (p >= count => disk[p] = Torn)

(* What holds when reads succeed. *)
StoreInv ==
  /\ OwnershipInv
  /\ FramesAreInTable
  /\ CleanFramesMatchDisk
  /\ AllocatedReachable
  /\ NoGarbage

-----------------------------------------------------------------------------
(* Refinement *)

Content(p) ==
  IF table[p] # NoFrame THEN data[table[p]]
  ELSE IF disk[p] = Torn THEN Fresh ELSE disk[p]

Memory == INSTANCE PageMemory WITH
  mem <- [p \in Pages |-> Content(p)],
  held <- [t \in Threads |-> Held(t)],
  writer <- [p \in Pages |-> NoThread],
  Capacity <- NumFrames

(* As long as no read fails the pool is a memory of pages, whatever writes
   fail or are cut: each access sees the latest write, and evictions, flushes
   and allocations change no page. *)
ImplementsPageMemory == Memory!Spec
=============================================================================
