------------------------------- MODULE ClockPool -------------------------------
(***************************************************************************)
(* What the first two buffer pools of project1 have in common: frames with *)
(* a usage count, a clock sweep of several passes, replacement and flush   *)
(* with the lock of the page table held across the I/O.  BufferPoolV1 and  *)
(* BufferPoolV2 say which lock that is.                                    *)
(*                                                                         *)
(* Guards are dropped and pages written without the table lock, so a sweep *)
(* is a step per frame.  Once a victim is reserved nobody else can reach   *)
(* it, so a replacement is one step, and so is the flush of a frame.       *)
(***************************************************************************)
EXTENDS Integers, FiniteSets

CONSTANTS Threads,   \* the threads that share the pool
          Pages,     \* the page identifiers
          Contents,  \* the contents a page can have
          NumFrames, \* capacity
          MaxUsage,  \* MAX_USAGE_COUNT
          NoThread,  \* "no thread"
          NoPage,    \* None of an Option<PageId>
          NoFrame,   \* "not in the page table"
          Zeroed,    \* the bytes of a frame nothing was loaded into
          Torn       \* what the store holds after a write cut in the middle

Frames == 0 .. NumFrames - 1

ASSUME ClockAssumption ==
  /\ NumFrames \in Nat \ {0} /\ MaxUsage \in Nat \ {0}
  /\ NoThread \notin Threads /\ NoPage \notin Pages /\ NoFrame \notin Frames
  /\ Zeroed \notin Contents /\ Torn \notin Contents

(* The program has finitely many threads; pins are counted. *)
ASSUME ClockThreads == IsFiniteSet(Threads)

Modes == {"Normal", "BulkRead"}

VARIABLES
  disk,    \* the store: the content of every page
  table,   \* page_table: the frame of every page
  page,    \* the page of every frame
  data,    \* Frame.data
  pins,    \* Frame.pin_count
  usage,   \* Frame.usage_count
  dirty,   \* Frame.dirty
  hand,    \* clock_hand
  guard,   \* guard[t][f]: the page_id of the guard t holds on frame f
  writer,  \* the thread inside PageGuard::write on the frame
  pc,      \* where a thread is
  call     \* the locals of the call it is in

frameVars == <<table, page, data, pins, usage, dirty>>
vars == <<disk, frameVars, hand, guard, writer, pc, call>>

(* "fetch", "miss" and "flush" want the lock of the table, the rest have it;
   "unreachable" is the unreachable!() after the last pass. *)
Labels == {"idle", "fetch", "miss", "sweep", "replace", "flush", "flushing", "unreachable"}

Locals == [page : Pages \union {NoPage}, mode : Modes,
           visits : 0 .. NumFrames * (MaxUsage + 1),  \* frames the sweep has looked at
           found : BOOLEAN,                           \* found_unpinned
           cur : Frames]                              \* the victim, or the frame to flush
NoCall == [page |-> NoPage, mode |-> "Normal", visits |-> 0, found |-> FALSE, cur |-> 0]

At(l) == {t \in Threads : pc[t] = l}
Replacing == At("sweep") \union At("replace")
Held(t) == {guard[t][f] : f \in Frames} \ {NoPage}
InClosure(t) == \E f \in Frames : writer[f] = t

Goto(t, label) == pc' = [pc EXCEPT ![t] = label]
Return(t) == Goto(t, "idle") /\ call' = [call EXCEPT ![t] = NoCall]

Init ==
  /\ disk \in [Pages -> Contents]
  /\ table = [p \in Pages |-> NoFrame]
  /\ page = [f \in Frames |-> NoPage]
  /\ data = [f \in Frames |-> Zeroed]
  /\ pins = [f \in Frames |-> 0]
  /\ usage = [f \in Frames |-> 0]
  /\ dirty = [f \in Frames |-> FALSE]
  /\ hand = 0
  /\ guard = [t \in Threads |-> [f \in Frames |-> NoPage]]
  /\ writer = [f \in Frames |-> NoThread]
  /\ pc = [t \in Threads |-> "idle"]
  /\ call = [t \in Threads |-> NoCall]

-----------------------------------------------------------------------------
(* fetch_page *)

(* A client asks for a page it holds no guard of, outside a write closure. *)
CallFetch(t, p, m) ==
  /\ pc[t] = "idle" /\ ~InClosure(t)
  /\ p \notin Held(t)
  /\ Goto(t, "fetch")
  /\ call' = [call EXCEPT ![t] = [NoCall EXCEPT !.page = p, !.mode = m]]
  /\ UNCHANGED <<disk, frameVars, hand, guard, writer>>

RecordAccess(u, m) ==
  IF m = "Normal" THEN IF u < MaxUsage THEN u + 1 ELSE MaxUsage
                  ELSE IF u = 0 THEN 1 ELSE u

(* With the table lock held, in whichever mode. *)
PinHit(t) ==
  LET f == table[call[t].page] IN
  /\ f # NoFrame
  /\ pins' = [pins EXCEPT ![f] = @ + 1]
  /\ usage' = [usage EXCEPT ![f] = RecordAccess(@, call[t].mode)]
  /\ guard' = [guard EXCEPT ![t][f] = call[t].page]
  /\ Return(t)
  /\ UNCHANGED <<disk, table, page, data, dirty, hand, writer>>

StartSweep(t) ==
  /\ table[call[t].page] = NoFrame
  /\ Goto(t, "sweep")
  /\ UNCHANGED <<disk, frameVars, hand, guard, writer, call>>

-----------------------------------------------------------------------------
(* choose_victim *)

(* Mutation of Passes: one pass too few. *)
TooFewPasses == MaxUsage

(* for _ in 0..=MAX_USAGE_COUNT *)
Passes == MaxUsage + 1

(* The frame at the hand is looked at; found: was one without a pin met in
   this pass. *)
Advance(t, found) ==
  LET n == call[t].visits + 1 IN
  /\ hand' = (hand + 1) % NumFrames
  /\ \/ /\ n % NumFrames # 0
        /\ call' = [call EXCEPT ![t].visits = n, ![t].found = found]
        /\ UNCHANGED pc
     \/ n % NumFrames = 0 /\ ~found /\ Return(t)
     \/ /\ n % NumFrames = 0 /\ found
        /\ call' = [call EXCEPT ![t].visits = n, ![t].found = FALSE]
        /\ IF n = NumFrames * Passes THEN Goto(t, "unreachable") ELSE UNCHANGED pc

Pinned(f) == pins[f] # 0

SkipPinned(t) ==
  /\ pc[t] = "sweep" /\ Pinned(hand)
  /\ Advance(t, call[t].found)
  /\ UNCHANGED <<disk, frameVars, guard, writer>>

(* Mutation of SecondChance: found_unpinned is not set. *)
ChanceUnnoticed(t) ==
  /\ pc[t] = "sweep" /\ ~Pinned(hand) /\ usage[hand] > 0
  /\ usage' = [usage EXCEPT ![hand] = @ - 1]
  /\ Advance(t, call[t].found)
  /\ UNCHANGED <<disk, table, page, data, pins, dirty, guard, writer>>

SecondChance(t) ==
  /\ pc[t] = "sweep" /\ ~Pinned(hand) /\ usage[hand] > 0
  /\ usage' = [usage EXCEPT ![hand] = @ - 1]
  /\ Advance(t, TRUE)
  /\ UNCHANGED <<disk, table, page, data, pins, dirty, guard, writer>>

Reserve(t) ==
  /\ pc[t] = "sweep" /\ ~Pinned(hand) /\ usage[hand] = 0
  /\ pins' = [pins EXCEPT ![hand] = 1]
  /\ hand' = (hand + 1) % NumFrames
  /\ call' = [call EXCEPT ![t].cur = hand]
  /\ Goto(t, "replace")
  /\ UNCHANGED <<disk, table, page, data, usage, dirty, guard, writer>>

-----------------------------------------------------------------------------
(* Replacement, with the table lock held throughout *)

NeedsWriteBack(f) == page[f] # NoPage /\ dirty[f]

(* Mutation of WrittenBack: the victim is dropped. *)
NotWrittenBack(f) == disk

WrittenBack(f) == IF NeedsWriteBack(f) THEN [disk EXCEPT ![page[f]] = data[f]] ELSE disk

(* A write that returns an error leaves the old bytes, the new ones, or a page cut in
   the middle, unless the two are the same. *)
FailedWrite(f) ==
  IF disk[page[f]] = data[f]
    THEN {disk}
    ELSE {disk, [disk EXCEPT ![page[f]] = data[f]], [disk EXCEPT ![page[f]] = Torn]}

Load(t) ==
  LET f == call[t].cur
      p == call[t].page
  IN
  /\ pc[t] = "replace"
  /\ disk' = WrittenBack(f)
  /\ disk'[p] # Torn
  /\ data' = [data EXCEPT ![f] = disk'[p]]
  /\ page' = [page EXCEPT ![f] = p]
  /\ table' = [q \in Pages |-> CASE q = p -> f [] q = page[f] /\ q # p -> NoFrame [] OTHER -> table[q]]
  /\ dirty' = [dirty EXCEPT ![f] = FALSE]
  /\ usage' = [usage EXCEPT ![f] = 1]
  /\ guard' = [guard EXCEPT ![t][f] = p]
  /\ Return(t)
  /\ UNCHANGED <<pins, hand, writer>>

WriteBackFails(t) ==
  LET f == call[t].cur IN
  /\ pc[t] = "replace" /\ NeedsWriteBack(f)
  /\ disk' \in FailedWrite(f)
  /\ pins' = [pins EXCEPT ![f] = 0]
  /\ Return(t)
  /\ UNCHANGED <<table, page, data, usage, dirty, hand, guard, writer>>

(* Mutation of ReadFails: the reservation is not given back. *)
ReadFailsPinned(t) ==
  LET f == call[t].cur IN
  /\ pc[t] = "replace"
  /\ disk' = WrittenBack(f)
  /\ dirty' = [dirty EXCEPT ![f] = FALSE]
  /\ Return(t)
  /\ UNCHANGED <<table, page, data, pins, usage, hand, guard, writer>>

ReadFails(t) ==
  LET f == call[t].cur IN
  /\ pc[t] = "replace"
  /\ disk' = WrittenBack(f)
  /\ dirty' = [dirty EXCEPT ![f] = FALSE]
  /\ pins' = [pins EXCEPT ![f] = 0]
  /\ Return(t)
  /\ UNCHANGED <<table, page, data, usage, hand, guard, writer>>

-----------------------------------------------------------------------------
(* flush_all: one frame after the other; the data read lock of a dirty frame
   is waited for with the table lock held. *)

CallFlush(t) ==
  /\ pc[t] = "idle" /\ ~InClosure(t)
  /\ Goto(t, "flush")
  /\ UNCHANGED <<disk, frameVars, hand, guard, writer, call>>

StartFlush(t) ==
  /\ pc[t] = "flush"
  /\ Goto(t, "flushing")
  /\ UNCHANGED <<disk, frameVars, hand, guard, writer, call>>

NextFrame(t) ==
  IF call[t].cur = NumFrames - 1 THEN Return(t)
  ELSE call' = [call EXCEPT ![t].cur = @ + 1] /\ UNCHANGED pc

FlushSkips(t) ==
  /\ pc[t] = "flushing" /\ ~NeedsWriteBack(call[t].cur)
  /\ NextFrame(t)
  /\ UNCHANGED <<disk, frameVars, hand, guard, writer>>

(* Mutation of ReadLocked: the bytes are copied while a client writes them. *)
NeverLocked(f) == TRUE

ReadLocked(f) == writer[f] = NoThread

FlushWrite(t) ==
  LET f == call[t].cur IN
  /\ pc[t] = "flushing" /\ NeedsWriteBack(f) /\ ReadLocked(f)
  /\ disk' = [disk EXCEPT ![page[f]] = data[f]]
  /\ dirty' = [dirty EXCEPT ![f] = FALSE]
  /\ NextFrame(t)
  /\ UNCHANGED <<table, page, data, pins, usage, hand, guard, writer>>

FlushFails(t) ==
  LET f == call[t].cur IN
  /\ pc[t] = "flushing" /\ NeedsWriteBack(f) /\ ReadLocked(f)
  /\ disk' \in FailedWrite(f)
  /\ Return(t)
  /\ UNCHANGED <<frameVars, hand, guard, writer>>

-----------------------------------------------------------------------------
(* Guards *)

BeginWrite(t, f) ==
  /\ pc[t] = "idle" /\ ~InClosure(t)
  /\ guard[t][f] # NoPage /\ writer[f] = NoThread
  /\ writer' = [writer EXCEPT ![f] = t]
  /\ dirty' = [dirty EXCEPT ![f] = TRUE]
  /\ UNCHANGED <<disk, table, page, data, pins, usage, hand, guard, pc, call>>

EndWrite(t, f, v) ==
  /\ writer[f] = t
  /\ data' = [data EXCEPT ![f] = v]
  /\ writer' = [writer EXCEPT ![f] = NoThread]
  /\ UNCHANGED <<disk, table, page, pins, usage, dirty, hand, guard, pc, call>>

DropGuard(t, f) ==
  /\ pc[t] = "idle"
  /\ guard[t][f] # NoPage /\ writer[f] # t
  /\ pins' = [pins EXCEPT ![f] = @ - 1]
  /\ guard' = [guard EXCEPT ![t][f] = NoPage]
  /\ UNCHANGED <<disk, table, page, data, usage, dirty, hand, writer, pc, call>>

-----------------------------------------------------------------------------
(* What both versions do with the table lock in hand, and what clients do. *)
TableStep(t) ==
  \/ SkipPinned(t) \/ SecondChance(t) \/ Reserve(t)
  \/ Load(t) \/ WriteBackFails(t) \/ ReadFails(t)
  \/ FlushSkips(t) \/ FlushWrite(t) \/ FlushFails(t)

Begins(t) ==
  \/ \E p \in Pages, m \in Modes : CallFetch(t, p, m)
  \/ CallFlush(t)
  \/ \E f \in Frames : BeginWrite(t, f)

ClientStep(t) ==
  \/ Begins(t)
  \/ \E f \in Frames : DropGuard(t, f) \/ \E v \in Contents : EndWrite(t, f, v)

-----------------------------------------------------------------------------
TypeOK ==
  /\ disk \in [Pages -> Contents \union {Torn}]
  /\ table \in [Pages -> Frames \union {NoFrame}]
  /\ page \in [Frames -> Pages \union {NoPage}]
  /\ data \in [Frames -> Contents \union {Zeroed}]
  /\ pins \in [Frames -> Nat] /\ usage \in [Frames -> 0 .. MaxUsage]
  /\ dirty \in [Frames -> BOOLEAN]
  /\ hand \in Frames
  /\ guard \in [Threads -> [Frames -> Pages \union {NoPage}]]
  /\ writer \in [Frames -> Threads \union {NoThread}]
  /\ pc \in [Threads -> Labels] /\ call \in [Threads -> Locals]

(* A pin is a guard or the reservation of a replacement: no path through the
   errors leaks one, and store(0) on the error path takes nobody else's. *)
GuardsOn(f) == {t \in Threads : guard[t][f] # NoPage}
ReservedBy(f) == {t \in At("replace") : call[t].cur = f}

PinsAccounted ==
  \A f \in Frames : pins[f] = Cardinality(GuardsOn(f)) + Cardinality(ReservedBy(f))

(* A guard keeps its page, and no page is in two frames. *)
GuardsKeepTheirPage ==
  /\ \A t \in Threads, f \in Frames : guard[t][f] # NoPage => page[f] = guard[t][f]
  /\ \A p \in Pages, f \in Frames : table[p] = f <=> page[f] = p

PoolInv == TypeOK /\ PinsAccounted /\ GuardsKeepTheirPage

(* A clean frame has what the store has, whichever writes failed and tore the
   page: both versions look at dirty and clear it in one critical section. *)
CleanFramesMatchDisk ==
  \A f \in Frames : page[f] # NoPage /\ ~dirty[f] => disk[page[f]] = data[f]

(* "usage count is bounded, whether a victim is found or all frames are
   pinned" (choose_victim): the passes suffice although guards are dropped
   during the sweep. *)
SweepEnds == At("unreachable") = {}

(* PageMemory *)
Content(p) == IF table[p] = NoFrame THEN disk[p] ELSE data[table[p]]
WriterOf(p) == IF table[p] = NoFrame THEN NoThread ELSE writer[table[p]]

Memory == INSTANCE PageMemory WITH
  mem <- [p \in Pages |-> Content(p)],
  held <- [t \in Threads |-> Held(t)],
  writer <- [p \in Pages |-> WriterOf(p)],
  Capacity <- NumFrames

(* The pool is a memory: no write is lost and no stale page is handed out. *)
ImplementsPageMemory == Memory!Spec
=============================================================================
