--------------------------- MODULE ClockPool_proofs ---------------------------
(***************************************************************************)
(* Proofs about the first two buffer pools, BufferPoolV1 and BufferPoolV2: *)
(* pins, guards and table agree, clean frames match the store, and both    *)
(* implement PageMemory, for any number of threads, pages and frames, with *)
(* failing reads and with writes that tear a page.                         *)
(***************************************************************************)
EXTENDS SweepHistory, FiniteSetTheorems, TLAPS

FramesFilled == \A f \in Frames : page[f] # NoPage => data[f] # Zeroed

(* Who writes has a guard, and the frame is dirty from the start of the write. *)
WritersHoldGuards ==
  \A f \in Frames : writer[f] # NoThread => guard[writer[f]][f] # NoPage /\ dirty[f]

(* What a label promises about the locals of the thread that is there. *)
LocalOK(t) ==
  /\ pc[t] \in {"fetch", "miss", "sweep", "replace"} =>
       call[t].page \in Pages /\ call[t].page \notin Held(t)
  /\ pc[t] \in {"sweep", "replace"} => table[call[t].page] = NoFrame
  /\ pc[t] \in {"fetch", "miss"} => call[t].visits = 0
  /\ pc[t] = "sweep" => call[t].visits < NumFrames * (MaxUsage + 1)
  /\ pc[t] = "replace" => \A u \in Threads : guard[u][call[t].cur] = NoPage

LocalsOK == \A t \in Threads : LocalOK(t)

(* The lock of the table: a replacement is alone, flushes go together. *)
Exclusive ==
  \A t, u \in Threads :
    pc[t] \in {"sweep", "replace"} /\ pc[u] \in {"sweep", "replace", "flushing"} => u = t

ClockInv ==
  /\ PoolInv /\ CleanFramesMatchDisk
  /\ FramesFilled /\ WritersHoldGuards /\ LocalsOK /\ Exclusive

(* What V1 and V2 do at the door of the table, seen through the locks they hold. *)
Enter(t) ==
  /\ pc[t] \in {"fetch", "miss"}
  /\ Replacing = {}
  /\ \/ PinHit(t)
     \/ At("flushing") = {} /\ StartSweep(t)

Misses(t) ==
  /\ pc[t] = "fetch"
  /\ Goto(t, "miss")
  /\ UNCHANGED <<disk, frameVars, hand, guard, writer, call>>

Step(t) ==
  Enter(t) \/ Misses(t) \/ (Replacing = {} /\ StartFlush(t)) \/ TableStep(t) \/ ClientStep(t)

LEMMA BothSteps ==
  /\ NextV1 => \E t \in Threads : Step(t)
  /\ NextV2 => \E t \in Threads : Step(t)
<1>1. ASSUME NEW t \in Threads, StepV1(t) PROVE Step(t)
  <2>1. Unlocked => Replacing = {} /\ At("flushing") = {}
    BY DEF Unlocked
  <2> QED BY <1>1, <2>1 DEF StepV1, FetchLocked, FlushLocked, Step, Enter
<1>2. ASSUME NEW t \in Threads, StepV2(t) PROVE Step(t)
  BY <1>2 DEF StepV2, Lookup, Recheck, FlushShared, NoTableWriter, NoTableReader, Step, Enter,
              Misses
<1> QED BY <1>1, <1>2 DEF NextV1, NextV2, Step

-----------------------------------------------------------------------------
(* Numbers and sets *)

LEMMA Values ==
  /\ NumFrames \in Nat /\ NumFrames > 0 /\ MaxUsage \in Nat /\ MaxUsage > 0
  /\ 0 \in Frames /\ Frames \subseteq Nat
  /\ NoThread \notin Threads /\ NoPage \notin Pages /\ NoFrame \notin Frames
  /\ Zeroed \notin Contents /\ Torn \notin Contents
  BY ClockAssumption DEF Frames

LEMMA Multiple ==
  ASSUME NEW n \in Nat \ {0}, NEW k \in Nat \ {0}
  PROVE  n * k \in Nat \ {0} /\ (n * k) % n = 0
  OBVIOUS

(* Sets of threads are finite. *)
LEMMA Counting ==
  ASSUME NEW S \in SUBSET Threads
  PROVE  /\ IsFiniteSet(S) /\ Cardinality(S) \in Nat
         /\ Cardinality(S) = 0 <=> S = {}
         /\ \A t \in Threads \ S : Cardinality(S \union {t}) = Cardinality(S) + 1
         /\ \A t \in S : Cardinality(S \ {t}) = Cardinality(S) - 1
<1>1. IsFiniteSet(S)
  BY ClockThreads, FS_Subset
<1>2. Cardinality(S) \in Nat
  BY <1>1, FS_CardinalityType
<1>3. Cardinality(S) = 0 <=> S = {}
  BY <1>1, FS_EmptySet
<1>4. \A t \in Threads \ S : Cardinality(S \union {t}) = Cardinality(S) + 1
  BY <1>1, FS_AddElement
<1>5. \A t \in S : Cardinality(S \ {t}) = Cardinality(S) - 1
  BY <1>1, FS_RemoveElement
<1> QED BY <1>1, <1>2, <1>3, <1>4, <1>5

LEMMA VisitsExist ==
  /\ NumFrames * (MaxUsage + 1) \in Nat /\ 0 < NumFrames * (MaxUsage + 1)
  /\ (NumFrames * (MaxUsage + 1)) % NumFrames = 0
  /\ Passes = MaxUsage + 1
<1>1. NumFrames \in Nat \ {0} /\ MaxUsage + 1 \in Nat \ {0}
  BY Values
<1>2. NumFrames * (MaxUsage + 1) \in Nat \ {0} /\ (NumFrames * (MaxUsage + 1)) % NumFrames = 0
  BY <1>1, Multiple
<1> DEFINE n == NumFrames * (MaxUsage + 1)
<1>3. n \in Nat \ {0} => n \in Nat /\ 0 < n
  <2> HIDE DEF n
  <2> QED OBVIOUS
<1> QED BY <1>2, <1>3 DEF Passes

LEMMA NoCallType == NoCall \in Locals
<1>1. 0 \in 0 .. NumFrames * (MaxUsage + 1)
  BY VisitsExist
<1> QED BY <1>1, Values DEF NoCall, Locals, Modes

LEMMA Initially == Init => ClockInv
<1> SUFFICES ASSUME Init PROVE ClockInv
  OBVIOUS
<1> USE DEF Init
<1>2. TypeOK
  BY NoCallType, Values DEF TypeOK, Labels
<1>3. PinsAccounted
  <2> SUFFICES ASSUME NEW f \in Frames
               PROVE  pins[f] = Cardinality(GuardsOn(f)) + Cardinality(ReservedBy(f))
    BY DEF PinsAccounted
  <2>1. GuardsOn(f) = {} /\ ReservedBy(f) = {}
    BY DEF GuardsOn, ReservedBy, At
  <2>2. Cardinality(GuardsOn(f)) = 0 /\ Cardinality(ReservedBy(f)) = 0
    BY <2>1, FS_EmptySet
  <2> QED BY <2>2
<1>4. GuardsKeepTheirPage
  BY Values DEF GuardsKeepTheirPage
<1>5. CleanFramesMatchDisk /\ FramesFilled /\ WritersHoldGuards /\ LocalsOK /\ Exclusive
  BY DEF CleanFramesMatchDisk, FramesFilled, WritersHoldGuards, LocalsOK, LocalOK, Exclusive
<1> QED BY <1>2, <1>3, <1>4, <1>5 DEF ClockInv, PoolInv

-----------------------------------------------------------------------------
(* Steps that move a thread and nothing the invariant is about *)

(* The thread t moves; the others stay where they are. *)
Moves(t) ==
  /\ pc' \in [Threads -> Labels] /\ call' \in [Threads -> Locals]
  /\ \A u \in Threads : u # t => pc'[u] = pc[u] /\ call'[u] = call[u]

LEMMA ReturnMoves ==
  ASSUME ClockInv, NEW t \in Threads, Return(t)
  PROVE  Moves(t) /\ pc'[t] = "idle"
<1> QED BY NoCallType DEF Return, Goto, Moves, ClockInv, PoolInv, TypeOK, Labels

LEMMA OthersLocals ==
  ASSUME ClockInv, NEW t \in Threads, Moves(t), NEW u \in Threads, u # t,
         guard'[u] = guard[u], UNCHANGED table \/ pc[u] \notin {"sweep", "replace"},
         pc[u] = "replace" => \A w \in Threads : guard'[w][call[u].cur] = NoPage
  PROVE  LocalOK(u)'
  BY DEF ClockInv, LocalsOK, LocalOK, Moves, Held

LEMMA QuietStep ==
  ASSUME ClockInv, NEW t \in Threads, Moves(t),
         UNCHANGED <<disk, table, page, data, pins, dirty, guard, writer>>,
         usage' \in [Frames -> 0 .. MaxUsage], hand' \in Frames,
         pc[t] # "replace", pc'[t] # "replace", LocalOK(t)', Exclusive'
  PROVE  ClockInv'
<1>1. TypeOK'
  BY DEF ClockInv, PoolInv, TypeOK, Moves
<1>2. PinsAccounted'
  <2>1. \A f \in Frames : GuardsOn(f)' = GuardsOn(f) /\ ReservedBy(f)' = ReservedBy(f)
    BY DEF GuardsOn, ReservedBy, At, Moves
  <2> QED BY <2>1 DEF ClockInv, PoolInv, PinsAccounted
<1>3. GuardsKeepTheirPage' /\ CleanFramesMatchDisk' /\ FramesFilled' /\ WritersHoldGuards'
  BY DEF ClockInv, PoolInv, GuardsKeepTheirPage, CleanFramesMatchDisk, FramesFilled,
         WritersHoldGuards
<1>4. ASSUME NEW u \in Threads, u # t PROVE LocalOK(u)'
  <2>1. pc[u] = "replace" => \A w \in Threads : guard'[w][call[u].cur] = NoPage
    BY DEF ClockInv, LocalsOK, LocalOK
  <2> QED BY <1>4, <2>1, OthersLocals
<1>5. LocalsOK'
  BY <1>4 DEF LocalsOK
<1> QED BY <1>1, <1>2, <1>3, <1>5 DEF ClockInv, PoolInv

(* A thread that leaves the lock of the table, or does not get it, harms nobody. *)
LEMMA StaysExclusive ==
  ASSUME ClockInv, NEW t \in Threads, Moves(t),
         \/ pc'[t] = pc[t]
         \/ pc'[t] \notin {"sweep", "replace", "flushing"}
         \/ pc[t] = "sweep" /\ pc'[t] = "replace"
         \/ Replacing = {} /\ pc'[t] = "flushing"
         \/ Replacing = {} /\ At("flushing") = {}
  PROVE  Exclusive'
<1> SUFFICES ASSUME NEW a \in Threads, NEW b \in Threads, a # b,
                    pc'[a] \in {"sweep", "replace"}, pc'[b] \in {"sweep", "replace", "flushing"}
             PROVE  FALSE
  BY DEF Exclusive
<1>1. \A u \in Threads : u # t => pc'[u] = pc[u]
  BY DEF Moves
<1>2. \A u, w \in Threads :
        pc[u] \in {"sweep", "replace"} /\ pc[w] \in {"sweep", "replace", "flushing"} => w = u
  BY DEF ClockInv, Exclusive
<1>3. Replacing = {} => \A u \in Threads : pc[u] \notin {"sweep", "replace"}
  BY DEF Replacing, At
<1>4. At("flushing") = {} => \A u \in Threads : pc[u] # "flushing"
  BY DEF At
<1>5. CASE pc'[t] = pc[t]
  BY <1>1, <1>2, <1>5
<1>6. CASE pc'[t] \notin {"sweep", "replace", "flushing"}
  BY <1>1, <1>2, <1>6
<1>7. CASE pc[t] = "sweep" /\ pc'[t] = "replace"
  BY <1>1, <1>2, <1>7
<1>8. CASE Replacing = {} /\ pc'[t] = "flushing"
  BY <1>1, <1>3, <1>8
<1>9. CASE Replacing = {} /\ At("flushing") = {}
  BY <1>1, <1>3, <1>4, <1>9
<1> QED BY <1>5, <1>6, <1>7, <1>8, <1>9

LEMMA CallFetchKeeps ==
  ASSUME ClockInv, NEW t \in Threads, NEW p \in Pages, NEW m \in Modes, CallFetch(t, p, m)
  PROVE  ClockInv'
<1> DEFINE c == [NoCall EXCEPT !.page = p, !.mode = m]
<1>1. c \in Locals /\ c.page = p /\ c.visits = 0
  <2>1. c \in Locals /\ c.page = p
    BY NoCallType DEF Locals
  <2>2. c.visits = NoCall.visits
    BY NoCallType DEF Locals
  <2> QED BY <2>1, <2>2 DEF NoCall
<1>2. pc[t] = "idle" /\ pc' = [pc EXCEPT ![t] = "fetch"] /\ call' = [call EXCEPT ![t] = c]
      /\ UNCHANGED <<disk, table, page, data, pins, usage, dirty, hand, guard, writer>>
      /\ p \notin Held(t)
  BY DEF CallFetch, Goto, frameVars
<1> HIDE DEF c
<1>3. Moves(t) /\ pc'[t] = "fetch" /\ call'[t].page = p /\ call'[t].visits = 0
  BY <1>1, <1>2 DEF Moves, ClockInv, PoolInv, TypeOK, Labels
<1>4. LocalOK(t)'
  BY <1>2, <1>3 DEF LocalOK, Held
<1>5. Exclusive'
  BY <1>3, StaysExclusive
<1>6. usage' \in [Frames -> 0 .. MaxUsage] /\ hand' \in Frames
  BY <1>2 DEF ClockInv, PoolInv, TypeOK
<1> QED BY <1>2, <1>3, <1>4, <1>5, <1>6, QuietStep

(* Goto without a change of the locals. *)
LEMMA GotoKeeps ==
  ASSUME ClockInv, NEW t \in Threads, NEW l \in {"miss", "sweep", "flush", "flushing"}, Goto(t, l),
         UNCHANGED <<disk, frameVars, hand, guard, writer, call>>,
         pc[t] # "replace", LocalOK(t)', Moves(t) => Exclusive'
  PROVE  ClockInv'
<1>1. Moves(t) /\ pc'[t] = l
  BY DEF Goto, Moves, ClockInv, PoolInv, TypeOK, Labels
<1>2. usage' \in [Frames -> 0 .. MaxUsage] /\ hand' \in Frames
  BY DEF ClockInv, PoolInv, TypeOK, frameVars
<1> QED BY <1>1, <1>2, QuietStep DEF frameVars

LEMMA DoorKeeps ==
  ASSUME ClockInv, NEW t \in Threads,
         \/ Misses(t) \/ CallFlush(t)
         \/ Replacing = {} /\ StartFlush(t)
         \/ pc[t] \in {"fetch", "miss"} /\ Replacing = {} /\ At("flushing") = {} /\ StartSweep(t)
  PROVE  ClockInv'
<1>1. CASE Misses(t)
  <2>1. LocalOK(t)'
    BY <1>1 DEF Misses, Goto, frameVars, ClockInv, PoolInv, TypeOK, LocalsOK, LocalOK, Held
  <2>2. Moves(t) => Exclusive'
    BY <1>1, StaysExclusive DEF Misses, Goto, ClockInv, PoolInv, TypeOK
  <2> QED BY <1>1, <2>1, <2>2, GotoKeeps DEF Misses
<1>2. CASE CallFlush(t)
  <2>1. pc'[t] = "flush"
    BY <1>2 DEF CallFlush, Goto, ClockInv, PoolInv, TypeOK
  <2>2. LocalOK(t)'
    BY <2>1 DEF LocalOK
  <2>3. Moves(t) => Exclusive'
    BY <2>1, StaysExclusive
  <2> QED BY <1>2, <2>2, <2>3, GotoKeeps DEF CallFlush
<1>3. CASE Replacing = {} /\ StartFlush(t)
  <2>1. pc'[t] = "flushing"
    BY <1>3 DEF StartFlush, Goto, ClockInv, PoolInv, TypeOK
  <2>2. LocalOK(t)'
    BY <2>1 DEF LocalOK
  <2>3. Moves(t) => Exclusive'
    BY <1>3, <2>1, StaysExclusive
  <2> QED BY <1>3, <2>2, <2>3, GotoKeeps DEF StartFlush
<1>4. CASE pc[t] \in {"fetch", "miss"} /\ Replacing = {} /\ At("flushing") = {} /\ StartSweep(t)
  <2>1. pc'[t] = "sweep"
    BY <1>4 DEF StartSweep, Goto, ClockInv, PoolInv, TypeOK
  <2>2. call[t].visits = 0
    BY <1>4 DEF ClockInv, LocalsOK, LocalOK
  <2>3. LocalOK(t)'
    BY <1>4, <2>1, <2>2, VisitsExist
       DEF StartSweep, frameVars, ClockInv, LocalsOK, LocalOK, Held
  <2>4. Moves(t) => Exclusive'
    BY <1>4, StaysExclusive
  <2> QED BY <1>4, <2>3, <2>4, GotoKeeps DEF StartSweep
<1> QED BY <1>1, <1>2, <1>3, <1>4

(* The frame at the hand is passed by. *)
LEMMA AdvanceKeeps ==
  ASSUME ClockInv, NEW t \in Threads, pc[t] = "sweep", NEW found \in BOOLEAN, Advance(t, found),
         UNCHANGED <<disk, table, page, data, pins, dirty, guard, writer>>,
         usage' \in [Frames -> 0 .. MaxUsage]
  PROVE  ClockInv'
<1> DEFINE n == call[t].visits + 1
           most == NumFrames * (MaxUsage + 1)
<1>1. call[t] \in Locals /\ call[t].visits < most /\ call[t].page \in Pages
      /\ call[t].page \notin Held(t) /\ table[call[t].page] = NoFrame
  BY DEF ClockInv, PoolInv, TypeOK, LocalsOK, LocalOK
<1>2. call[t].visits \in 0 .. most
  BY <1>1 DEF Locals
<1>3. n \in 0 .. most /\ (n # most => n < most)
  <2> DEFINE v == call[t].visits
  <2>1. v \in 0 .. most /\ v < most /\ most \in Nat
    BY <1>1, <1>2, VisitsExist
  <2> HIDE DEF v, most
  <2>2. v + 1 \in 0 .. most /\ (v + 1 # most => v + 1 < most)
    BY <2>1
  <2> QED BY <2>2 DEF v
<1>4. n % NumFrames # 0 => n < most
  BY <1>3, VisitsExist
<1>5. hand' \in Frames
  <2>1. hand \in Nat /\ hand' = (hand + 1) % NumFrames
    BY Values DEF Advance, ClockInv, PoolInv, TypeOK
  <2>2. (hand + 1) % NumFrames \in 0 .. NumFrames - 1
    BY <2>1, Values
  <2> QED BY <2>1, <2>2 DEF Frames
<1>6. \A b \in BOOLEAN : [call[t] EXCEPT !.visits = n, !.found = b] \in Locals
  BY <1>1, <1>3 DEF Locals
<1>7. CASE Return(t)
  <2>1. Moves(t) /\ pc'[t] = "idle"
    BY <1>7, ReturnMoves
  <2>2. LocalOK(t)' /\ Exclusive'
    BY <2>1, StaysExclusive DEF LocalOK
  <2> QED BY <1>5, <2>1, <2>2, QuietStep
<1>8. ASSUME NEW b \in BOOLEAN,
             call' = [call EXCEPT ![t].visits = n, ![t].found = b],
             \/ pc' = pc /\ n < most
             \/ pc' = [pc EXCEPT ![t] = "unreachable"]
      PROVE  ClockInv'
  <2>1. call' = [call EXCEPT ![t] = [call[t] EXCEPT !.visits = n, !.found = b]]
    BY <1>8 DEF ClockInv, PoolInv, TypeOK
  <2>2. call' \in [Threads -> Locals] /\ call'[t] = [call[t] EXCEPT !.visits = n, !.found = b]
    BY <1>6, <2>1 DEF ClockInv, PoolInv, TypeOK
  <2>3. call'[t].page = call[t].page /\ call'[t].visits = n
    BY <1>1, <2>2 DEF Locals
  <2>4. pc' \in [Threads -> Labels] /\ pc'[t] \in {"sweep", "unreachable"}
    BY <1>8 DEF ClockInv, PoolInv, TypeOK, Labels
  <2>5. Moves(t)
    BY <1>8, <2>1, <2>2, <2>4 DEF Moves, ClockInv, PoolInv, TypeOK
  <2>6. pc'[t] = "sweep" => n < most
    BY <1>8 DEF ClockInv, PoolInv, TypeOK
  <2>7. LocalOK(t)'
    BY <1>1, <2>3, <2>4, <2>6 DEF LocalOK, Held
  <2>8. Exclusive'
    BY <1>8, <2>4, <2>5, StaysExclusive
  <2> QED BY <1>5, <2>4, <2>5, <2>7, <2>8, QuietStep
<1>9. NumFrames * Passes = most
  BY VisitsExist
<1> HIDE DEF n, most
<1>10. \/ Return(t)
       \/ \E b \in BOOLEAN :
            /\ call' = [call EXCEPT ![t].visits = n, ![t].found = b]
            /\ \/ pc' = pc /\ n < most
               \/ pc' = [pc EXCEPT ![t] = "unreachable"]
  BY <1>3, <1>4, <1>9 DEF Advance, Goto, n
<1> QED BY <1>7, <1>8, <1>10

LEMMA PassingKeeps ==
  ASSUME ClockInv, NEW t \in Threads, SkipPinned(t) \/ SecondChance(t)
  PROVE  ClockInv'
<1>1. CASE SkipPinned(t)
  <2>1. call[t].found \in BOOLEAN
    BY DEF ClockInv, PoolInv, TypeOK, Locals
  <2>2. usage' \in [Frames -> 0 .. MaxUsage]
    BY <1>1 DEF SkipPinned, frameVars, ClockInv, PoolInv, TypeOK
  <2> QED BY <1>1, <2>1, <2>2, AdvanceKeeps DEF SkipPinned, frameVars
<1>2. CASE SecondChance(t)
  <2>1. usage[hand] \in 0 .. MaxUsage /\ usage[hand] > 0
    BY <1>2 DEF SecondChance, ClockInv, PoolInv, TypeOK
  <2>2. usage[hand] - 1 \in 0 .. MaxUsage
    BY <2>1, Values
  <2>3. usage' \in [Frames -> 0 .. MaxUsage]
    BY <1>2, <2>2 DEF SecondChance, ClockInv, PoolInv, TypeOK
  <2> QED BY <1>2, <2>3, AdvanceKeeps DEF SecondChance
<1> QED BY <1>1, <1>2

-----------------------------------------------------------------------------
(* Guards and reservations *)

LEMMA GuardsCount ==
  ASSUME NEW f \in Frames
  PROVE  /\ GuardsOn(f) \in SUBSET Threads /\ ReservedBy(f) \in SUBSET Threads
         /\ (GuardsOn(f) = {} <=> \A t \in Threads : guard[t][f] = NoPage)
  BY DEF GuardsOn, ReservedBy, At

(* An unpinned frame has no guard. *)
LEMMA UnpinnedIsFree ==
  ASSUME ClockInv, NEW f \in Frames, pins[f] = 0
  PROVE  GuardsOn(f) = {} /\ ReservedBy(f) = {}
<1>1. Cardinality(GuardsOn(f)) + Cardinality(ReservedBy(f)) = 0
  BY DEF ClockInv, PoolInv, PinsAccounted
<1>2. Cardinality(GuardsOn(f)) \in Nat /\ Cardinality(ReservedBy(f)) \in Nat
  BY GuardsCount, Counting
<1>3. Cardinality(GuardsOn(f)) = 0 /\ Cardinality(ReservedBy(f)) = 0
  BY <1>1, <1>2
<1> QED BY <1>3, GuardsCount, Counting

(* Whoever replaces is alone. *)
LEMMA ReservedAlone ==
  ASSUME ClockInv, NEW t \in Threads, pc[t] \in {"sweep", "replace"}, NEW f \in Frames
  PROVE  ReservedBy(f) = IF pc[t] = "replace" /\ call[t].cur = f THEN {t} ELSE {}
  BY DEF ClockInv, Exclusive, ReservedBy, At

(* The frame that is reserved: nobody has a guard of it, nobody writes it. *)
LEMMA ReservedFree ==
  ASSUME ClockInv, NEW t \in Threads, pc[t] = "replace"
  PROVE  /\ call[t].cur \in Frames /\ call[t].page \in Pages /\ call[t].page \notin Held(t)
         /\ table[call[t].page] = NoFrame
         /\ GuardsOn(call[t].cur) = {} /\ ReservedBy(call[t].cur) = {t}
         /\ pins[call[t].cur] = 1 /\ writer[call[t].cur] = NoThread
<1> DEFINE f == call[t].cur
<1>1. f \in Frames /\ call[t].page \in Pages /\ call[t].page \notin Held(t)
      /\ table[call[t].page] = NoFrame /\ \A u \in Threads : guard[u][f] = NoPage
  BY DEF ClockInv, PoolInv, TypeOK, Locals, LocalsOK, LocalOK
<1>2. GuardsOn(f) = {} /\ ReservedBy(f) = {t}
  BY <1>1, ReservedAlone, GuardsCount
<1>3. Cardinality(GuardsOn(f)) = 0 /\ Cardinality({t}) = 1
  BY <1>2, FS_EmptySet, FS_Singleton
<1>4. pins[f] = 1
  BY <1>1, <1>2, <1>3 DEF ClockInv, PoolInv, PinsAccounted
<1>5. writer[f] = NoThread
  BY <1>1 DEF ClockInv, WritersHoldGuards, PoolInv, TypeOK
<1> QED BY <1>1, <1>2, <1>4, <1>5

(* A page is in one frame, and the table names it. *)
LEMMA OneFrame ==
  ASSUME ClockInv, NEW f \in Frames, page[f] # NoPage
  PROVE  /\ page[f] \in Pages /\ table[page[f]] = f
         /\ \A g \in Frames : page[g] = page[f] => g = f
         /\ data[f] \in Contents
  BY Values DEF ClockInv, PoolInv, TypeOK, GuardsKeepTheirPage, FramesFilled

LEMMA Entry ==
  ASSUME ClockInv, NEW p \in Pages
  PROVE  /\ table[p] \in Frames \union {NoFrame}
         /\ table[p] # NoFrame => table[p] \in Frames /\ page[table[p]] = p
         /\ table[p] = NoFrame => \A f \in Frames : page[f] # p
<1>1. table[p] \in Frames \union {NoFrame}
  BY DEF ClockInv, PoolInv, TypeOK
<1>2. \A f \in Frames : table[p] = f <=> page[f] = p
  BY DEF ClockInv, PoolInv, GuardsKeepTheirPage
<1>3. table[p] = NoFrame => \A f \in Frames : page[f] # p
  BY <1>2, Values
<1> QED BY <1>1, <1>2, <1>3

(* The pins when t gets a guard on f. *)
LEMMA GuardTaken ==
  ASSUME ClockInv, NEW t \in Threads, NEW f \in Frames, NEW p \in Pages,
         guard[t][f] = NoPage, guard' = [guard EXCEPT ![t][f] = p]
  PROVE  /\ guard' \in [Threads -> [Frames -> Pages \union {NoPage}]]
         /\ \A u \in Threads, g \in Frames :
              guard'[u][g] = IF u = t /\ g = f THEN p ELSE guard[u][g]
         /\ GuardsOn(f)' = GuardsOn(f) \union {t} /\ t \notin GuardsOn(f)
         /\ \A g \in Frames : g # f => GuardsOn(g)' = GuardsOn(g)
         /\ \A u \in Threads : u # t => guard'[u] = guard[u]
<1>1. guard' \in [Threads -> [Frames -> Pages \union {NoPage}]]
      /\ \A u \in Threads, g \in Frames :
            guard'[u][g] = IF u = t /\ g = f THEN p ELSE guard[u][g]
  BY DEF ClockInv, PoolInv, TypeOK
<1>2. GuardsOn(f)' = GuardsOn(f) \union {t} /\ t \notin GuardsOn(f)
  BY <1>1, Values DEF GuardsOn
<1>3. \A g \in Frames : g # f => GuardsOn(g)' = GuardsOn(g)
  BY <1>1 DEF GuardsOn
<1>4. \A u \in Threads : u # t => guard'[u] = guard[u]
  BY DEF ClockInv, PoolInv, TypeOK
<1> QED BY <1>1, <1>2, <1>3, <1>4

LEMMA HitKeeps ==
  ASSUME ClockInv, NEW t \in Threads, pc[t] \in {"fetch", "miss"}, Replacing = {}, PinHit(t)
  PROVE  ClockInv'
<1> DEFINE p == call[t].page
           f == table[p]
<1>1. p \in Pages /\ p \notin Held(t)
  BY DEF ClockInv, LocalsOK, LocalOK
<1>2. f \in Frames /\ page[f] = p
  BY <1>1, Entry DEF PinHit
<1>3. guard[t][f] = NoPage
  BY <1>1, <1>2 DEF Held, ClockInv, PoolInv, GuardsKeepTheirPage
<1>4. /\ pins' = [pins EXCEPT ![f] = @ + 1]
      /\ usage' = [usage EXCEPT ![f] = RecordAccess(@, call[t].mode)]
      /\ guard' = [guard EXCEPT ![t][f] = p]
      /\ Return(t)
      /\ UNCHANGED <<disk, table, page, data, dirty, hand, writer>>
  BY DEF PinHit
<1> HIDE DEF p, f
<1>5. Moves(t) /\ pc'[t] = "idle"
  BY <1>4, ReturnMoves
<1>6. usage' \in [Frames -> 0 .. MaxUsage]
  <2>1. usage[f] \in 0 .. MaxUsage
    BY <1>2 DEF ClockInv, PoolInv, TypeOK
  <2>2. RecordAccess(usage[f], call[t].mode) \in 0 .. MaxUsage
    BY <2>1, Values DEF RecordAccess
  <2> QED BY <1>2, <1>4, <2>2 DEF ClockInv, PoolInv, TypeOK
<1>7. TypeOK'
  <2>1. guard' \in [Threads -> [Frames -> Pages \union {NoPage}]]
    BY <1>1, <1>2, <1>3, <1>4, GuardTaken
  <2>2. pins' \in [Frames -> Nat]
    <3>1. pins \in [Frames -> Nat] /\ pins[f] + 1 \in Nat
      BY <1>2 DEF ClockInv, PoolInv, TypeOK
    <3> QED BY <1>4, <3>1
  <2> QED BY <1>4, <1>5, <1>6, <2>1, <2>2 DEF ClockInv, PoolInv, TypeOK, Moves
<1>8. \A g \in Frames : ReservedBy(g)' = {} /\ ReservedBy(g) = {}
  BY <1>5 DEF ReservedBy, At, Replacing, Moves
<1>9. PinsAccounted'
  <2> SUFFICES ASSUME NEW g \in Frames
               PROVE  pins'[g] = Cardinality(GuardsOn(g)') + Cardinality(ReservedBy(g)')
    BY DEF PinsAccounted
  <2>1. pins[g] = Cardinality(GuardsOn(g)) + Cardinality(ReservedBy(g))
    BY DEF ClockInv, PoolInv, PinsAccounted
  <2>2. CASE g = f
    <3>1. Cardinality(GuardsOn(g)') = Cardinality(GuardsOn(g)) + 1
          /\ Cardinality(GuardsOn(g)) \in Nat
      <4>1. GuardsOn(g)' = GuardsOn(g) \union {t} /\ t \notin GuardsOn(g)
        BY <1>1, <1>2, <1>3, <1>4, <2>2, GuardTaken
      <4>2. GuardsOn(g) \in SUBSET Threads
        BY GuardsCount
      <4> QED BY <4>1, <4>2, Counting
    <3>2. pins'[g] = pins[g] + 1
      BY <1>4, <2>2 DEF ClockInv, PoolInv, TypeOK
    <3>3. Cardinality(ReservedBy(g)) = 0 /\ Cardinality(ReservedBy(g)') = 0
      BY <1>8, FS_EmptySet
    <3> QED BY <2>1, <3>1, <3>2, <3>3
  <2>3. CASE g # f
    <3>1. GuardsOn(g)' = GuardsOn(g)
      BY <1>1, <1>2, <1>3, <1>4, <2>3, GuardTaken
    <3>2. pins'[g] = pins[g]
      BY <1>4, <2>3 DEF ClockInv, PoolInv, TypeOK
    <3> QED BY <1>8, <2>1, <3>1, <3>2
  <2> QED BY <2>2, <2>3
<1>10. GuardsKeepTheirPage'
  BY <1>1, <1>2, <1>3, <1>4, GuardTaken DEF ClockInv, PoolInv, GuardsKeepTheirPage
<1>11. CleanFramesMatchDisk' /\ FramesFilled'
  BY <1>4 DEF ClockInv, CleanFramesMatchDisk, FramesFilled
<1>12. WritersHoldGuards'
  BY <1>1, <1>2, <1>3, <1>4, GuardTaken, Values
     DEF ClockInv, PoolInv, TypeOK, WritersHoldGuards
<1>13. LocalsOK'
  <2>1. LocalOK(t)'
    BY <1>5 DEF LocalOK
  <2>2. ASSUME NEW u \in Threads, u # t PROVE LocalOK(u)'
    <3>1. guard'[u] = guard[u] /\ pc[u] # "replace"
      BY <1>1, <1>2, <1>3, <1>4, <2>2, GuardTaken DEF Replacing, At
    <3> QED BY <1>4, <1>5, <2>2, <3>1, OthersLocals
  <2> QED BY <2>1, <2>2 DEF LocalsOK
<1>14. Exclusive'
  BY <1>5, StaysExclusive
<1> QED BY <1>7, <1>9, <1>10, <1>11, <1>12, <1>13, <1>14 DEF ClockInv, PoolInv

LEMMA ReserveKeeps ==
  ASSUME ClockInv, NEW t \in Threads, Reserve(t)
  PROVE  ClockInv'
<1>1. /\ pc[t] = "sweep" /\ pins[hand] = 0 /\ hand \in Frames
      /\ pins' = [pins EXCEPT ![hand] = 1]
      /\ hand' = (hand + 1) % NumFrames
      /\ call' = [call EXCEPT ![t] = [call[t] EXCEPT !.cur = hand]]
      /\ pc' = [pc EXCEPT ![t] = "replace"]
      /\ UNCHANGED <<disk, table, page, data, usage, dirty, guard, writer>>
  BY DEF Reserve, Pinned, Goto, ClockInv, PoolInv, TypeOK
<1>2. [call[t] EXCEPT !.cur = hand] \in Locals
  BY <1>1, ZenonT(60) DEF ClockInv, PoolInv, TypeOK, Locals
<1>3. Moves(t) /\ pc'[t] = "replace" /\ call'[t].cur = hand /\ call'[t].page = call[t].page
  BY <1>1, <1>2 DEF Moves, ClockInv, PoolInv, TypeOK, Labels, Locals
<1>4. hand' \in Frames
  <2>1. (hand + 1) % NumFrames \in 0 .. NumFrames - 1
    BY <1>1, Values
  <2> QED BY <1>1, <2>1 DEF Frames
<1>5. TypeOK'
  <2>1. pins' \in [Frames -> Nat]
    BY <1>1 DEF ClockInv, PoolInv, TypeOK
  <2> QED BY <1>1, <1>3, <1>4, <2>1 DEF ClockInv, PoolInv, TypeOK, Moves
<1>6. GuardsOn(hand) = {}
  BY <1>1, UnpinnedIsFree
<1>7. PinsAccounted'
  <2> SUFFICES ASSUME NEW g \in Frames
               PROVE  pins'[g] = Cardinality(GuardsOn(g)') + Cardinality(ReservedBy(g)')
    BY DEF PinsAccounted
  <2>1. GuardsOn(g)' = GuardsOn(g)
    BY <1>1 DEF GuardsOn
  <2>2. ReservedBy(g) = {}
    BY <1>1, ReservedAlone
  <2>3. ReservedBy(g)' = IF g = hand THEN {t} ELSE {}
    BY <1>1, <1>3, <2>2 DEF ReservedBy, At, Moves
  <2>4. pins[g] = Cardinality(GuardsOn(g)) + 0 /\ Cardinality({t}) = 1
    BY <2>2, FS_EmptySet, FS_Singleton DEF ClockInv, PoolInv, PinsAccounted
  <2>5. CASE g = hand
    <3>1. Cardinality(GuardsOn(g)) = 0 /\ pins'[g] = 1
      BY <1>1, <1>6, <2>5, FS_EmptySet DEF ClockInv, PoolInv, TypeOK
    <3> QED BY <2>1, <2>3, <2>4, <2>5, <3>1
  <2>6. CASE g # hand
    <3>1. pins'[g] = pins[g]
      BY <1>1, <2>6 DEF ClockInv, PoolInv, TypeOK
    <3> QED BY <2>1, <2>3, <2>4, <2>6, <3>1, FS_EmptySet
  <2> QED BY <2>5, <2>6
<1>8. GuardsKeepTheirPage' /\ CleanFramesMatchDisk' /\ FramesFilled' /\ WritersHoldGuards'
  BY <1>1 DEF ClockInv, PoolInv, GuardsKeepTheirPage, CleanFramesMatchDisk, FramesFilled,
              WritersHoldGuards
<1>9. LocalsOK'
  <2>1. LocalOK(t)'
    BY <1>1, <1>3, <1>6, GuardsCount DEF ClockInv, LocalsOK, LocalOK, Held
  <2>2. ASSUME NEW u \in Threads, u # t PROVE LocalOK(u)'
    <3>1. pc[u] # "replace"
      BY <1>1, <2>2 DEF ClockInv, Exclusive
    <3> QED BY <1>1, <1>3, <2>2, <3>1, OthersLocals
  <2> QED BY <2>1, <2>2 DEF LocalsOK
<1>10. Exclusive'
  BY <1>1, <1>3, StaysExclusive
<1> QED BY <1>5, <1>7, <1>8, <1>9, <1>10 DEF ClockInv, PoolInv

-----------------------------------------------------------------------------
(* The store *)

(* A write of the page of f changes no other page. *)
LEMMA WriteTypes ==
  ASSUME ClockInv, NEW f \in Frames
  PROVE  /\ WrittenBack(f) \in [Pages -> Contents \union {Torn}]
         /\ \A q \in Pages :
              WrittenBack(f)[q] = IF NeedsWriteBack(f) /\ page[f] = q THEN data[f] ELSE disk[q]
         /\ NeedsWriteBack(f) =>
              /\ FailedWrite(f) \subseteq [Pages -> Contents \union {Torn}]
              /\ \A d \in FailedWrite(f), q \in Pages : page[f] # q => d[q] = disk[q]
<1>1. disk \in [Pages -> Contents \union {Torn}]
  BY DEF ClockInv, PoolInv, TypeOK
<1>2. NeedsWriteBack(f) => page[f] \in Pages /\ data[f] \in Contents
  BY OneFrame DEF NeedsWriteBack
<1> QED BY <1>1, <1>2 DEF WrittenBack, FailedWrite

(* After the write-back a frame with a page has what the store has. *)
LEMMA WrittenBackMatches ==
  ASSUME ClockInv, NEW f \in Frames
  PROVE  /\ page[f] # NoPage => WrittenBack(f)[page[f]] = data[f]
         /\ \A g \in Frames : page[g] # NoPage /\ g # f => WrittenBack(f)[page[g]] = disk[page[g]]
<1>1. page[f] # NoPage => WrittenBack(f)[page[f]] = data[f]
  BY OneFrame, WriteTypes DEF NeedsWriteBack, ClockInv, CleanFramesMatchDisk
<1>2. ASSUME NEW g \in Frames, page[g] # NoPage, g # f
      PROVE  WrittenBack(f)[page[g]] = disk[page[g]]
  <2>1. page[g] \in Pages /\ page[f] # page[g]
    BY <1>2, OneFrame
  <2> QED BY <2>1, WriteTypes
<1> QED BY <1>1, <1>2

(* What a replacement that ends leaves of the reservation. *)
LEMMA ReplacementEnds ==
  ASSUME ClockInv, NEW t \in Threads, pc[t] = "replace", Return(t), guard' = guard,
         pins' = [pins EXCEPT ![call[t].cur] = 0], UNCHANGED <<table, page>>
  PROVE  /\ PinsAccounted' /\ GuardsKeepTheirPage' /\ LocalsOK' /\ Exclusive'
         /\ pins' \in [Frames -> Nat] /\ Moves(t)
<1> DEFINE f == call[t].cur
<1>1. Moves(t) /\ pc'[t] = "idle"
  BY ReturnMoves
<1>2. f \in Frames /\ GuardsOn(f) = {} /\ ReservedBy(f) = {t}
  BY ReservedFree
<1>3. pins' \in [Frames -> Nat] /\ pins'[f] = 0
  BY <1>2 DEF ClockInv, PoolInv, TypeOK
<1>4. PinsAccounted'
  <2> SUFFICES ASSUME NEW g \in Frames
               PROVE  pins'[g] = Cardinality(GuardsOn(g)') + Cardinality(ReservedBy(g)')
    BY DEF PinsAccounted
  <2>1. GuardsOn(g)' = GuardsOn(g) /\ ReservedBy(g)' = {}
    BY <1>1, ReservedAlone DEF GuardsOn, ReservedBy, At, Moves
  <2>2. CASE g = f
    <3>1. GuardsOn(g)' = {} /\ ReservedBy(g)' = {}
      BY <1>2, <2>1, <2>2
    <3>2. Cardinality(GuardsOn(g)') = 0 /\ Cardinality(ReservedBy(g)') = 0
      BY <3>1, FS_EmptySet
    <3>3. pins'[g] = 0
      BY <1>3, <2>2
    <3> QED BY <3>2, <3>3
  <2>3. CASE g # f
    <3>1. pins'[g] = pins[g] /\ ReservedBy(g) = {}
      BY <2>3, ReservedAlone DEF ClockInv, PoolInv, TypeOK
    <3> QED BY <2>1, <3>1 DEF ClockInv, PoolInv, PinsAccounted
  <2> QED BY <2>2, <2>3
<1>5. GuardsKeepTheirPage'
  BY DEF ClockInv, PoolInv, GuardsKeepTheirPage
<1>6. LocalsOK'
  <2>1. LocalOK(t)'
    BY <1>1 DEF LocalOK
  <2>2. ASSUME NEW u \in Threads, u # t PROVE LocalOK(u)'
    <3>1. pc[u] # "replace"
      BY <2>2 DEF ClockInv, Exclusive
    <3> QED BY <1>1, <2>2, <3>1, OthersLocals
  <2> QED BY <2>1, <2>2 DEF LocalsOK
<1>7. Exclusive'
  BY <1>1, StaysExclusive
<1> QED BY <1>1, <1>3, <1>4, <1>5, <1>6, <1>7

LEMMA ReplaceFailsKeeps ==
  ASSUME ClockInv, NEW t \in Threads, WriteBackFails(t) \/ ReadFails(t)
  PROVE  ClockInv'
<1> DEFINE f == call[t].cur
<1>1. /\ pc[t] = "replace" /\ Return(t) /\ pins' = [pins EXCEPT ![f] = 0]
      /\ UNCHANGED <<table, page, data, usage, hand, guard, writer>>
  BY DEF WriteBackFails, ReadFails
<1>2. f \in Frames
  BY <1>1, ReservedFree
<1>3. PinsAccounted' /\ GuardsKeepTheirPage' /\ LocalsOK' /\ Exclusive'
      /\ pins' \in [Frames -> Nat] /\ Moves(t)
  BY <1>1, ReplacementEnds
<1>4. FramesFilled' /\ WritersHoldGuards'
  <2>1. \A g \in Frames : g # f => dirty'[g] = dirty[g]
    BY DEF WriteBackFails, ReadFails, ClockInv, PoolInv, TypeOK
  <2>2. writer[f] = NoThread
    BY <1>1, ReservedFree
  <2> QED BY <1>1, <2>1, <2>2 DEF ClockInv, FramesFilled, WritersHoldGuards
<1>5. CASE WriteBackFails(t)
  <2>1. NeedsWriteBack(f) /\ disk' \in FailedWrite(f) /\ dirty' = dirty
    BY <1>5 DEF WriteBackFails
  <2>2. disk' \in [Pages -> Contents \union {Torn}]
        /\ \A q \in Pages : page[f] # q => disk'[q] = disk[q]
    BY <1>2, <2>1, WriteTypes
  <2>3. TypeOK'
    BY <1>1, <1>3, <2>1, <2>2 DEF ClockInv, PoolInv, TypeOK, Moves
  <2>4. CleanFramesMatchDisk'
    <3> SUFFICES ASSUME NEW g \in Frames, page[g] # NoPage, ~dirty[g]
                 PROVE  disk'[page[g]] = data[g]
      BY <1>1, <2>1 DEF CleanFramesMatchDisk
    <3>1. g # f
      BY <2>1 DEF NeedsWriteBack
    <3>2. page[g] \in Pages /\ page[f] # page[g]
      BY <1>2, <3>1, OneFrame
    <3> QED BY <2>2, <3>2 DEF ClockInv, CleanFramesMatchDisk
  <2> QED BY <1>3, <1>4, <2>3, <2>4 DEF ClockInv, PoolInv
<1>6. CASE ReadFails(t)
  <2>1. disk' = WrittenBack(f) /\ dirty' = [dirty EXCEPT ![f] = FALSE]
    BY <1>6 DEF ReadFails
  <2>2. disk' \in [Pages -> Contents \union {Torn}] /\ dirty' \in [Frames -> BOOLEAN]
    BY <1>2, <2>1, WriteTypes DEF ClockInv, PoolInv, TypeOK
  <2>3. TypeOK'
    BY <1>1, <1>3, <2>2 DEF ClockInv, PoolInv, TypeOK, Moves
  <2>4. CleanFramesMatchDisk'
    <3> SUFFICES ASSUME NEW g \in Frames, page[g] # NoPage, ~dirty'[g]
                 PROVE  WrittenBack(f)[page[g]] = data[g]
      BY <1>1, <2>1 DEF CleanFramesMatchDisk
    <3>1. g # f => ~dirty[g]
      BY <2>1 DEF ClockInv, PoolInv, TypeOK
    <3> QED BY <1>2, <3>1, WrittenBackMatches DEF ClockInv, CleanFramesMatchDisk
  <2> QED BY <1>3, <1>4, <2>3, <2>4 DEF ClockInv, PoolInv
<1> QED BY <1>5, <1>6

(* The reserved frame gets the page, and t the guard. *)
LEMMA LoadKeeps ==
  ASSUME ClockInv, NEW t \in Threads, Load(t)
  PROVE  ClockInv'
<1> DEFINE f == call[t].cur
           p == call[t].page
<1>1. /\ pc[t] = "replace" /\ Return(t)
      /\ disk' = WrittenBack(f) /\ disk'[p] # Torn
      /\ data' = [data EXCEPT ![f] = disk'[p]]
      /\ page' = [page EXCEPT ![f] = p]
      /\ table' = [q \in Pages |-> CASE q = p -> f [] q = page[f] /\ q # p -> NoFrame
                                  [] OTHER -> table[q]]
      /\ dirty' = [dirty EXCEPT ![f] = FALSE]
      /\ usage' = [usage EXCEPT ![f] = 1]
      /\ guard' = [guard EXCEPT ![t][f] = p]
      /\ UNCHANGED <<pins, hand, writer>>
  BY DEF Load
<1>2. /\ f \in Frames /\ p \in Pages /\ p \notin Held(t) /\ table[p] = NoFrame
      /\ GuardsOn(f) = {} /\ ReservedBy(f) = {t} /\ pins[f] = 1 /\ writer[f] = NoThread
  BY <1>1, ReservedFree
<1>3. \A u \in Threads : guard[u][f] = NoPage
  BY <1>2 DEF GuardsOn
<1>4. \A g \in Frames : page[g] # p
  BY <1>2, Entry
<1> HIDE DEF f, p
<1>5. Moves(t) /\ pc'[t] = "idle"
  BY <1>1, ReturnMoves
<1>6. disk' \in [Pages -> Contents \union {Torn}] /\ disk'[p] \in Contents
  <2>1. disk' \in [Pages -> Contents \union {Torn}]
    BY <1>1, <1>2, WriteTypes
  <2> QED BY <1>1, <1>2, <2>1
<1>7. /\ data' \in [Frames -> Contents \union {Zeroed}]
      /\ \A g \in Frames : data'[g] = IF g = f THEN disk'[p] ELSE data[g]
  BY <1>1, <1>2, <1>6 DEF ClockInv, PoolInv, TypeOK
<1>8. /\ page' \in [Frames -> Pages \union {NoPage}]
      /\ \A g \in Frames : page'[g] = IF g = f THEN p ELSE page[g]
  BY <1>1, <1>2 DEF ClockInv, PoolInv, TypeOK
<1>9. /\ dirty' \in [Frames -> BOOLEAN]
      /\ \A g \in Frames : dirty'[g] = IF g = f THEN FALSE ELSE dirty[g]
  BY <1>1, <1>2 DEF ClockInv, PoolInv, TypeOK
<1>10. /\ table' \in [Pages -> Frames \union {NoFrame}]
       /\ \A q \in Pages : table'[q] = IF q = p THEN f ELSE IF q = page[f] THEN NoFrame ELSE table[q]
  BY <1>1, <1>2 DEF ClockInv, PoolInv, TypeOK
<1>11. /\ guard' \in [Threads -> [Frames -> Pages \union {NoPage}]]
       /\ \A u \in Threads, g \in Frames :
             guard'[u][g] = IF u = t /\ g = f THEN p ELSE guard[u][g]
       /\ \A g \in Frames : GuardsOn(g)' = IF g = f THEN GuardsOn(g) \union {t} ELSE GuardsOn(g)
       /\ \A u \in Threads : u # t => guard'[u] = guard[u]
  <2>1. guard[t][f] = NoPage /\ guard' = [guard EXCEPT ![t][f] = p]
    BY <1>1, <1>3
  <2>2. ASSUME NEW g \in Frames
        PROVE  GuardsOn(g)' = IF g = f THEN GuardsOn(g) \union {t} ELSE GuardsOn(g)
    BY <1>2, <2>1, GuardTaken
  <2> QED BY <1>2, <2>1, <2>2, GuardTaken, ZenonT(60)
<1>12. TypeOK'
  <2>1. usage' \in [Frames -> 0 .. MaxUsage]
    <3>1. 1 \in 0 .. MaxUsage
      BY Values
    <3> QED BY <1>1, <3>1 DEF ClockInv, PoolInv, TypeOK
  <2> QED BY <1>1, <1>5, <1>6, <1>7, <1>8, <1>9, <1>10, <1>11, <2>1
          DEF ClockInv, PoolInv, TypeOK, Moves
<1>13. PinsAccounted'
  <2> SUFFICES ASSUME NEW g \in Frames
               PROVE  pins'[g] = Cardinality(GuardsOn(g)') + Cardinality(ReservedBy(g)')
    BY DEF PinsAccounted
  <2>1. ReservedBy(g)' = {} /\ Cardinality(ReservedBy(g)') = 0
    <3>1. ReservedBy(g)' = {}
      BY <1>1, <1>5 DEF ReservedBy, At, Moves, ClockInv, Exclusive
    <3> QED BY <3>1, FS_EmptySet
  <2>2. CASE g = f
    <3>1. GuardsOn(g)' = {t}
      BY <1>2, <1>11, <2>2
    <3>2. Cardinality(GuardsOn(g)') = 1
      BY <3>1, FS_Singleton
    <3> QED BY <1>1, <1>2, <2>1, <2>2, <3>2
  <2>3. CASE g # f
    <3>1. GuardsOn(g)' = GuardsOn(g) /\ ReservedBy(g) = {}
      BY <1>1, <1>11, <2>3, ReservedAlone DEF f
    <3>2. Cardinality(ReservedBy(g)') = Cardinality(ReservedBy(g))
      BY <2>1, <3>1
    <3> QED BY <1>1, <3>1, <3>2 DEF ClockInv, PoolInv, PinsAccounted
  <2> QED BY <2>2, <2>3
<1>14. GuardsKeepTheirPage'
  <2>1. ASSUME NEW u \in Threads, NEW g \in Frames, guard'[u][g] # NoPage
        PROVE  page'[g] = guard'[u][g]
    BY <1>3, <1>8, <1>11, <2>1 DEF ClockInv, PoolInv, GuardsKeepTheirPage
  <2>2. ASSUME NEW q \in Pages, NEW g \in Frames
        PROVE  table'[q] = g <=> page'[g] = q
    <3>1. table[q] = g <=> page[g] = q
      BY DEF ClockInv, PoolInv, GuardsKeepTheirPage
    <3>2. table[q] = f <=> page[f] = q
      BY <1>2 DEF ClockInv, PoolInv, GuardsKeepTheirPage
    <3>3. page[g] # p /\ NoFrame # g
      BY <1>4, Values
    <3> QED BY <1>2, <1>8, <1>10, <3>1, <3>2, <3>3
  <2> QED BY <2>1, <2>2 DEF GuardsKeepTheirPage
<1>15. CleanFramesMatchDisk'
  <2> SUFFICES ASSUME NEW g \in Frames, page'[g] # NoPage, ~dirty'[g]
               PROVE  disk'[page'[g]] = data'[g]
    BY DEF CleanFramesMatchDisk
  <2>1. CASE g = f
    BY <1>2, <1>7, <1>8, <2>1
  <2>2. CASE g # f
    <3>1. page'[g] = page[g] /\ data'[g] = data[g] /\ ~dirty[g] /\ page[g] # NoPage
      BY <1>7, <1>8, <1>9, <2>2
    <3>2. WrittenBack(f)[page[g]] = disk[page[g]]
      BY <1>2, <2>2, <3>1, WrittenBackMatches
    <3> QED BY <1>1, <3>1, <3>2 DEF ClockInv, CleanFramesMatchDisk
  <2> QED BY <2>1, <2>2
<1>16. FramesFilled'
  BY <1>6, <1>7, <1>8, Values DEF ClockInv, FramesFilled
<1>17. WritersHoldGuards'
  BY <1>1, <1>2, <1>9, <1>11, Values DEF ClockInv, PoolInv, TypeOK, WritersHoldGuards
<1>18. LocalsOK'
  <2>1. LocalOK(t)'
    BY <1>5 DEF LocalOK
  <2>2. ASSUME NEW u \in Threads, u # t PROVE LocalOK(u)'
    <3>1. pc[u] \notin {"sweep", "replace"}
      BY <1>1, <2>2 DEF ClockInv, Exclusive
    <3> QED BY <1>5, <1>11, <2>2, <3>1, OthersLocals
  <2> QED BY <2>1, <2>2 DEF LocalsOK
<1>19. Exclusive'
  BY <1>5, StaysExclusive
<1> QED BY <1>12, <1>13, <1>14, <1>15, <1>16, <1>17, <1>18, <1>19 DEF ClockInv, PoolInv

-----------------------------------------------------------------------------
(* flush_all *)

LEMMA NextFrameMoves ==
  ASSUME ClockInv, NEW t \in Threads, pc[t] = "flushing", NextFrame(t) \/ Return(t)
  PROVE  Moves(t) /\ pc'[t] \in {"flushing", "idle"}
<1>1. CASE Return(t)
  BY <1>1, ReturnMoves
<1>2. CASE call' = [call EXCEPT ![t].cur = @ + 1] /\ pc' = pc /\ call[t].cur # NumFrames - 1
  <2>1. call[t] \in Locals /\ call[t].cur \in Frames
    BY DEF ClockInv, PoolInv, TypeOK, Locals
  <2>2. call[t].cur + 1 \in Frames
    BY <1>2, <2>1, Values DEF Frames
  <2>3. [call[t] EXCEPT !.cur = @ + 1] \in Locals
    BY <2>1, <2>2 DEF Locals
  <2>4. call' = [call EXCEPT ![t] = [call[t] EXCEPT !.cur = @ + 1]]
    BY <1>2 DEF ClockInv, PoolInv, TypeOK
  <2> QED BY <1>2, <2>3, <2>4 DEF Moves, ClockInv, PoolInv, TypeOK
<1> QED BY <1>1, <1>2 DEF NextFrame

(* A flush changes the store and the dirty flags, the frames only in those. *)
LEMMA FlushKeeps ==
  ASSUME ClockInv, NEW t \in Threads, FlushSkips(t) \/ FlushWrite(t) \/ FlushFails(t)
  PROVE  ClockInv'
<1> DEFINE f == call[t].cur
<1>1. /\ pc[t] = "flushing" /\ (NextFrame(t) \/ Return(t))
      /\ UNCHANGED <<table, page, data, pins, usage, hand, guard, writer>>
  BY DEF FlushSkips, FlushWrite, FlushFails, frameVars
<1>2. Moves(t) /\ pc'[t] \in {"flushing", "idle"} /\ f \in Frames
  BY <1>1, NextFrameMoves DEF ClockInv, PoolInv, TypeOK, Locals
<1>3. /\ disk' \in [Pages -> Contents \union {Torn}] /\ dirty' \in [Frames -> BOOLEAN]
      /\ CleanFramesMatchDisk' /\ WritersHoldGuards'
  <2>1. CASE FlushSkips(t)
    BY <2>1 DEF FlushSkips, frameVars, ClockInv, PoolInv, TypeOK, CleanFramesMatchDisk,
                WritersHoldGuards
  <2>2. CASE FlushWrite(t)
    <3>1. /\ NeedsWriteBack(f) /\ writer[f] = NoThread
          /\ disk' = WrittenBack(f) /\ dirty' = [dirty EXCEPT ![f] = FALSE]
      BY <2>2 DEF FlushWrite, ReadLocked, WrittenBack
    <3>2. disk' \in [Pages -> Contents \union {Torn}]
      BY <1>2, <3>1, WriteTypes
    <3>3. /\ dirty' \in [Frames -> BOOLEAN]
          /\ \A g \in Frames : dirty'[g] = IF g = f THEN FALSE ELSE dirty[g]
      BY <1>2, <3>1 DEF ClockInv, PoolInv, TypeOK
    <3>4. CleanFramesMatchDisk'
      <4> SUFFICES ASSUME NEW g \in Frames, page[g] # NoPage, ~dirty'[g]
                   PROVE  WrittenBack(f)[page[g]] = data[g]
        BY <1>1, <3>1 DEF CleanFramesMatchDisk
      <4> QED BY <1>2, <3>3, WrittenBackMatches DEF ClockInv, CleanFramesMatchDisk
    <3>5. WritersHoldGuards'
      BY <1>1, <3>1, <3>3 DEF ClockInv, WritersHoldGuards
    <3> QED BY <3>2, <3>3, <3>4, <3>5
  <2>3. CASE FlushFails(t)
    <3>1. NeedsWriteBack(f) /\ disk' \in FailedWrite(f) /\ dirty' = dirty
      BY <2>3 DEF FlushFails, frameVars
    <3>2. /\ disk' \in [Pages -> Contents \union {Torn}]
          /\ \A q \in Pages : page[f] # q => disk'[q] = disk[q]
      BY <1>2, <3>1, WriteTypes
    <3>3. CleanFramesMatchDisk'
      <4> SUFFICES ASSUME NEW g \in Frames, page[g] # NoPage, ~dirty[g]
                   PROVE  disk'[page[g]] = data[g]
        BY <1>1, <3>1 DEF CleanFramesMatchDisk
      <4>1. g # f
        BY <3>1 DEF NeedsWriteBack
      <4>2. page[g] \in Pages /\ page[f] # page[g]
        BY <1>2, <4>1, OneFrame
      <4> QED BY <3>2, <4>2 DEF ClockInv, CleanFramesMatchDisk
    <3>4. WritersHoldGuards'
      BY <1>1, <3>1 DEF ClockInv, WritersHoldGuards
    <3> QED BY <3>1, <3>2, <3>3, <3>4 DEF ClockInv, PoolInv, TypeOK
  <2> QED BY <2>1, <2>2, <2>3
<1>4. TypeOK'
  BY <1>1, <1>2, <1>3 DEF ClockInv, PoolInv, TypeOK, Moves
<1>5. PinsAccounted'
  <2>1. \A g \in Frames : GuardsOn(g)' = GuardsOn(g) /\ ReservedBy(g)' = ReservedBy(g)
    BY <1>1, <1>2 DEF GuardsOn, ReservedBy, At, Moves
  <2> QED BY <1>1, <2>1 DEF ClockInv, PoolInv, PinsAccounted
<1>6. GuardsKeepTheirPage' /\ FramesFilled'
  BY <1>1 DEF ClockInv, PoolInv, GuardsKeepTheirPage, FramesFilled
<1>7. LocalsOK'
  <2>1. LocalOK(t)'
    BY <1>2 DEF LocalOK
  <2>2. ASSUME NEW u \in Threads, u # t PROVE LocalOK(u)'
    <3>1. pc[u] = "replace" => \A w \in Threads : guard'[w][call[u].cur] = NoPage
      BY <1>1 DEF ClockInv, LocalsOK, LocalOK
    <3> QED BY <1>1, <1>2, <2>2, <3>1, OthersLocals
  <2> QED BY <2>1, <2>2 DEF LocalsOK
<1>8. Exclusive'
  BY <1>1, <1>2, StaysExclusive
<1> QED BY <1>3, <1>4, <1>5, <1>6, <1>7, <1>8 DEF ClockInv, PoolInv

-----------------------------------------------------------------------------
(* Guards *)

(* PageGuard::write *)
LEMMA WriteKeeps ==
  ASSUME ClockInv, NEW t \in Threads, NEW f \in Frames,
         BeginWrite(t, f) \/ \E v \in Contents : EndWrite(t, f, v)
  PROVE  ClockInv'
<1>1. UNCHANGED <<disk, table, page, pins, usage, hand, guard, pc, call>>
  BY DEF BeginWrite, EndWrite
<1>2. /\ data' \in [Frames -> Contents \union {Zeroed}] /\ dirty' \in [Frames -> BOOLEAN]
      /\ writer' \in [Frames -> Threads \union {NoThread}]
      /\ CleanFramesMatchDisk' /\ FramesFilled' /\ WritersHoldGuards'
  <2>1. CASE BeginWrite(t, f)
    <3>1. guard[t][f] # NoPage /\ data' = data
          /\ writer' = [writer EXCEPT ![f] = t] /\ dirty' = [dirty EXCEPT ![f] = TRUE]
      BY <2>1 DEF BeginWrite
    <3>2. /\ writer' \in [Frames -> Threads \union {NoThread}]
          /\ \A g \in Frames : writer'[g] = IF g = f THEN t ELSE writer[g]
      BY <3>1 DEF ClockInv, PoolInv, TypeOK
    <3>3. /\ dirty' \in [Frames -> BOOLEAN]
          /\ \A g \in Frames : dirty'[g] = IF g = f THEN TRUE ELSE dirty[g]
      BY <3>1 DEF ClockInv, PoolInv, TypeOK
    <3>4. CleanFramesMatchDisk' /\ FramesFilled'
      BY <1>1, <3>1, <3>3 DEF ClockInv, CleanFramesMatchDisk, FramesFilled
    <3>5. WritersHoldGuards'
      BY <1>1, <3>1, <3>2, <3>3 DEF ClockInv, WritersHoldGuards
    <3>6. data' \in [Frames -> Contents \union {Zeroed}]
      BY <3>1 DEF ClockInv, PoolInv, TypeOK
    <3> QED BY <3>2, <3>3, <3>4, <3>5, <3>6
  <2>2. ASSUME NEW v \in Contents, EndWrite(t, f, v)
        PROVE  /\ data' \in [Frames -> Contents \union {Zeroed}] /\ dirty' \in [Frames -> BOOLEAN]
               /\ writer' \in [Frames -> Threads \union {NoThread}]
               /\ CleanFramesMatchDisk' /\ FramesFilled' /\ WritersHoldGuards'
    <3>1. writer[f] = t /\ dirty' = dirty
          /\ data' = [data EXCEPT ![f] = v] /\ writer' = [writer EXCEPT ![f] = NoThread]
      BY <2>2 DEF EndWrite
    <3>2. dirty[f]
      BY <3>1, Values DEF ClockInv, WritersHoldGuards
    <3>3. /\ data' \in [Frames -> Contents \union {Zeroed}]
          /\ \A g \in Frames : data'[g] = IF g = f THEN v ELSE data[g]
      BY <3>1 DEF ClockInv, PoolInv, TypeOK
    <3>4. /\ writer' \in [Frames -> Threads \union {NoThread}]
          /\ \A g \in Frames : writer'[g] = IF g = f THEN NoThread ELSE writer[g]
      BY <3>1 DEF ClockInv, PoolInv, TypeOK
    <3>5. CleanFramesMatchDisk' /\ FramesFilled'
      BY <1>1, <3>1, <3>2, <3>3, Values DEF ClockInv, CleanFramesMatchDisk, FramesFilled
    <3>6. WritersHoldGuards'
      BY <1>1, <3>1, <3>4 DEF ClockInv, WritersHoldGuards
    <3>7. dirty' \in [Frames -> BOOLEAN]
      BY <3>1 DEF ClockInv, PoolInv, TypeOK
    <3> QED BY <3>3, <3>4, <3>5, <3>6, <3>7
  <2> QED BY <2>1, <2>2
<1>3. TypeOK'
  BY <1>1, <1>2 DEF ClockInv, PoolInv, TypeOK
<1>4. PinsAccounted'
  <2>1. \A g \in Frames : GuardsOn(g)' = GuardsOn(g) /\ ReservedBy(g)' = ReservedBy(g)
    BY <1>1 DEF GuardsOn, ReservedBy, At
  <2> QED BY <1>1, <2>1 DEF ClockInv, PoolInv, PinsAccounted
<1>5. GuardsKeepTheirPage' /\ LocalsOK' /\ Exclusive'
  BY <1>1 DEF ClockInv, PoolInv, GuardsKeepTheirPage, LocalsOK, LocalOK, Held, Exclusive
<1> QED BY <1>2, <1>3, <1>4, <1>5 DEF ClockInv, PoolInv

(* Drop for PageGuard: the pin goes with the guard. *)
LEMMA DropKeeps ==
  ASSUME ClockInv, NEW t \in Threads, NEW f \in Frames, DropGuard(t, f)
  PROVE  ClockInv'
<1>1. /\ pc[t] = "idle" /\ guard[t][f] # NoPage /\ writer[f] # t
      /\ pins' = [pins EXCEPT ![f] = @ - 1]
      /\ guard' = [guard EXCEPT ![t][f] = NoPage]
      /\ UNCHANGED <<disk, table, page, data, usage, dirty, hand, writer, pc, call>>
  BY DEF DropGuard
<1>2. /\ guard' \in [Threads -> [Frames -> Pages \union {NoPage}]]
      /\ \A u \in Threads, g \in Frames :
            guard'[u][g] = IF u = t /\ g = f THEN NoPage ELSE guard[u][g]
      /\ \A u \in Threads : u # t => guard'[u] = guard[u]
  BY <1>1 DEF ClockInv, PoolInv, TypeOK
<1>3. /\ GuardsOn(f)' = GuardsOn(f) \ {t} /\ t \in GuardsOn(f)
      /\ \A g \in Frames : g # f => GuardsOn(g)' = GuardsOn(g)
  BY <1>1, <1>2 DEF GuardsOn
<1>4. \A g \in Frames : ReservedBy(g)' = ReservedBy(g)
  BY <1>1 DEF ReservedBy, At
<1>5. /\ Cardinality(GuardsOn(f)') = Cardinality(GuardsOn(f)) - 1
      /\ Cardinality(GuardsOn(f)) \in Nat /\ Cardinality(GuardsOn(f)) # 0
      /\ Cardinality(ReservedBy(f)) \in Nat
  <2>1. GuardsOn(f) \in SUBSET Threads /\ ReservedBy(f) \in SUBSET Threads
    BY GuardsCount
  <2>2. GuardsOn(f) # {}
    BY <1>3
  <2>3. \A u \in GuardsOn(f) : Cardinality(GuardsOn(f) \ {u}) = Cardinality(GuardsOn(f)) - 1
    BY <2>1, Counting
  <2>4. Cardinality(GuardsOn(f)) \in Nat /\ Cardinality(GuardsOn(f)) # 0
    BY <2>1, <2>2, Counting
  <2>5. Cardinality(ReservedBy(f)) \in Nat
    BY <2>1, Counting
  <2> QED BY <1>3, <2>3, <2>4, <2>5
<1>6. pins[f] \in Nat /\ pins[f] = Cardinality(GuardsOn(f)) + Cardinality(ReservedBy(f))
  BY DEF ClockInv, PoolInv, TypeOK, PinsAccounted
<1>7. pins[f] - 1 \in Nat
  BY <1>5, <1>6
<1>8. /\ pins' \in [Frames -> Nat]
      /\ \A g \in Frames : pins'[g] = IF g = f THEN pins[f] - 1 ELSE pins[g]
  BY <1>1, <1>7 DEF ClockInv, PoolInv, TypeOK
<1>9. TypeOK'
  BY <1>1, <1>2, <1>8 DEF ClockInv, PoolInv, TypeOK
<1>10. PinsAccounted'
  <2> SUFFICES ASSUME NEW g \in Frames
               PROVE  pins'[g] = Cardinality(GuardsOn(g)') + Cardinality(ReservedBy(g)')
    BY DEF PinsAccounted
  <2>1. CASE g = f
    <3>1. Cardinality(ReservedBy(f)') = Cardinality(ReservedBy(f))
      BY <1>4
    <3>2. pins'[f] = pins[f] - 1
      BY <1>8
    <3> QED BY <1>5, <1>6, <2>1, <3>1, <3>2
  <2>2. CASE g # f
    BY <1>3, <1>4, <1>8, <2>2 DEF ClockInv, PoolInv, PinsAccounted
  <2> QED BY <2>1, <2>2
<1>11. GuardsKeepTheirPage'
  BY <1>1, <1>2 DEF ClockInv, PoolInv, GuardsKeepTheirPage
<1>12. CleanFramesMatchDisk' /\ FramesFilled' /\ Exclusive'
  BY <1>1 DEF ClockInv, CleanFramesMatchDisk, FramesFilled, Exclusive
<1>13. WritersHoldGuards'
  BY <1>1, <1>2 DEF ClockInv, PoolInv, TypeOK, WritersHoldGuards
<1>14. LocalsOK'
  <2>1. LocalOK(t)'
    BY <1>1 DEF LocalOK
  <2>2. ASSUME NEW u \in Threads, u # t PROVE LocalOK(u)'
    <3>1. call[u].cur \in Frames
      BY DEF ClockInv, PoolInv, TypeOK, Locals
    <3>2. pc[u] = "replace" => \A w \in Threads : guard'[w][call[u].cur] = NoPage
      BY <1>2, <3>1 DEF ClockInv, LocalsOK, LocalOK
    <3>3. Moves(t)
      BY <1>1 DEF Moves, ClockInv, PoolInv, TypeOK
    <3> QED BY <1>1, <1>2, <2>2, <3>2, <3>3, OthersLocals
  <2> QED BY <2>1, <2>2 DEF LocalsOK
<1> QED BY <1>9, <1>10, <1>11, <1>12, <1>13, <1>14 DEF ClockInv, PoolInv

-----------------------------------------------------------------------------
LEMMA StepKeeps ==
  ASSUME ClockInv, NEW t \in Threads, Step(t)
  PROVE  ClockInv'
<1>1. CASE Enter(t)
  <2>1. CASE PinHit(t)
    BY <1>1, <2>1, HitKeeps DEF Enter
  <2>2. CASE At("flushing") = {} /\ StartSweep(t)
    BY <1>1, <2>2, DoorKeeps DEF Enter
  <2> QED BY <1>1, <2>1, <2>2 DEF Enter
<1>2. CASE Misses(t)
  BY <1>2, DoorKeeps
<1>3. CASE Replacing = {} /\ StartFlush(t)
  BY <1>3, DoorKeeps
<1>4. CASE TableStep(t)
  BY <1>4, PassingKeeps, ReserveKeeps, LoadKeeps, ReplaceFailsKeeps, FlushKeeps DEF TableStep
<1>5. CASE ClientStep(t)
  BY <1>5, CallFetchKeeps, DoorKeeps, WriteKeeps, DropKeeps DEF ClientStep, Begins
<1> QED BY <1>1, <1>2, <1>3, <1>4, <1>5 DEF Step

LEMMA StutterKeeps == ClockInv /\ UNCHANGED vars => ClockInv'
<1> SUFFICES ASSUME ClockInv, UNCHANGED vars PROVE ClockInv'
  OBVIOUS
<1>1. UNCHANGED <<disk, table, page, data, pins, usage, dirty, hand, guard, writer, pc, call>>
  BY DEF vars, frameVars
<1>2. \A g \in Frames : GuardsOn(g)' = GuardsOn(g) /\ ReservedBy(g)' = ReservedBy(g)
  BY <1>1 DEF GuardsOn, ReservedBy, At
<1>3. PoolInv'
  BY <1>1, <1>2 DEF ClockInv, PoolInv, TypeOK, PinsAccounted, GuardsKeepTheirPage
<1>4. CleanFramesMatchDisk' /\ FramesFilled' /\ WritersHoldGuards' /\ LocalsOK' /\ Exclusive'
  BY <1>1 DEF ClockInv, CleanFramesMatchDisk, FramesFilled, WritersHoldGuards, LocalsOK, LocalOK,
              Held, Exclusive
<1> QED BY <1>3, <1>4 DEF ClockInv

(* Both locking schemes keep the invariant. *)
LEMMA ClockInvHolds == (SpecV1 => []ClockInv) /\ (SpecV2 => []ClockInv)
<1>1. ClockInv /\ [NextV1]_vars => ClockInv'
  BY BothSteps, StepKeeps, StutterKeeps
<1>2. ClockInv /\ [NextV2]_vars => ClockInv'
  BY BothSteps, StepKeeps, StutterKeeps
<1>3. SpecV1 => []ClockInv
  BY Initially, <1>1, PTL DEF SpecV1
<1>4. SpecV2 => []ClockInv
  BY Initially, <1>2, PTL DEF SpecV2
<1> QED BY <1>3, <1>4

(* In both pools, for any capacity and any number of threads: every pin is a *)
(* guard or the reservation of a replacement, on the error paths of          *)
(* fetch_page too, a guard keeps its page, and no page is in two frames.     *)
THEOREM PoolsKeepPoolInv == (SpecV1 => []PoolInv) /\ (SpecV2 => []PoolInv)
<1>1. ClockInv => PoolInv
  BY DEF ClockInv
<1>2. SpecV1 => []PoolInv
  BY ClockInvHolds, <1>1, PTL
<1>3. SpecV2 => []PoolInv
  BY ClockInvHolds, <1>1, PTL
<1> QED BY <1>2, <1>3

(* In both pools a frame without the dirty flag has what the store has of its *)
(* page, although a write back or a flush may fail and tear the page.         *)
THEOREM PoolsKeepCleanFrames == (SpecV1 => []CleanFramesMatchDisk) /\ (SpecV2 => []CleanFramesMatchDisk)
<1>1. ClockInv => CleanFramesMatchDisk
  BY DEF ClockInv
<1>2. SpecV1 => []CleanFramesMatchDisk
  BY ClockInvHolds, <1>1, PTL
<1>3. SpecV2 => []CleanFramesMatchDisk
  BY ClockInvHolds, <1>1, PTL
<1> QED BY <1>2, <1>3

-----------------------------------------------------------------------------
(* The sweep ends *)

(* How many frames the hand at h has passed since it was at f. *)
Behind(h, f) == IF f < h THEN h - f ELSE h - f + NumFrames

(* How often a sweep has looked at f, after n looks and with the hand at h. *)
Looks(n, h, f) == n \div NumFrames + IF Behind(h, f) <= n % NumFrames THEN 1 ELSE 0

(* A frame without a pin gets none during the sweep, so each look took one    *)
(* from its usage count.                                                      *)
WearsOut(n) == \E f \in Frames : pins[f] = 0 /\ usage[f] + Looks(n, hand, f) <= MaxUsage

SweepOK(t) ==
  /\ pc[t] # "unreachable"
  /\ pc[t] \in {"fetch", "miss"} => call[t].found = FALSE
  /\ pc[t] = "sweep" /\ (call[t].found = TRUE \/ call[t].visits >= NumFrames) =>
       WearsOut(call[t].visits)

SweepsOK == \A t \in Threads : SweepOK(t)

LEMMA NextLook ==
  ASSUME NEW n \in Nat
  PROVE  /\ n \div NumFrames \in Nat /\ n % NumFrames \in 0 .. NumFrames - 1
         /\ n < NumFrames => n \div NumFrames = 0
         /\ n >= NumFrames => n \div NumFrames >= 1
         /\ (n + 1) % NumFrames # 0 =>
              /\ (n + 1) % NumFrames = (n % NumFrames) + 1
              /\ (n + 1) \div NumFrames = n \div NumFrames
         /\ (n + 1) % NumFrames = 0 =>
              /\ n % NumFrames = NumFrames - 1
              /\ (n + 1) \div NumFrames = n \div NumFrames + 1
<1>1. NumFrames \in Nat \ {0}
  BY Values
<1> DEFINE k == n \div NumFrames
           i == n % NumFrames
           l == (n + 1) \div NumFrames
           j == (n + 1) % NumFrames
<1>2. k \in Nat /\ i \in 0 .. NumFrames - 1 /\ l \in Nat /\ j \in 0 .. NumFrames - 1
  BY <1>1
<1>3. n = NumFrames * k + i /\ n + 1 = NumFrames * l + j
  BY <1>1
<1> HIDE DEF k, i, l, j
<1>4. l = k \/ l = k + 1
  BY <1>1, <1>2, <1>3
<1>5. n < NumFrames <=> k = 0
  BY <1>1, <1>2, <1>3
<1>6. l = k => j = i + 1
  BY <1>1, <1>2, <1>3
<1>7. l = k + 1 => j = 0 /\ i = NumFrames - 1
  BY <1>1, <1>2, <1>3
<1> QED BY <1>1, <1>2, <1>4, <1>5, <1>6, <1>7 DEF k, i, l, j

LEMMA HandMoves ==
  ASSUME NEW h \in Frames
  PROVE  (h + 1) % NumFrames = IF h = NumFrames - 1 THEN 0 ELSE h + 1
  BY Values DEF Frames

LEMMA BehindMoves ==
  ASSUME NEW h \in Frames, NEW f \in Frames
  PROVE  /\ Behind(h, f) \in 1 .. NumFrames /\ (Behind(h, f) = NumFrames <=> f = h)
         /\ Behind((h + 1) % NumFrames, f) = IF f = h THEN 1 ELSE Behind(h, f) + 1
<1> DEFINE g == (h + 1) % NumFrames
<1>1. g = IF h = NumFrames - 1 THEN 0 ELSE h + 1
  BY HandMoves
<1>2. NumFrames \in Nat /\ f \in 0 .. NumFrames - 1 /\ h \in 0 .. NumFrames - 1
  BY Values DEF Frames
<1> HIDE DEF g
<1>3. /\ Behind(h, f) \in 1 .. NumFrames /\ (Behind(h, f) = NumFrames <=> f = h)
      /\ Behind(g, f) = IF f = h THEN 1 ELSE Behind(h, f) + 1
  BY <1>1, <1>2 DEF Behind
<1> QED BY <1>3 DEF g

(* A look at the frame under the hand is one at this frame and at no other. *)
LEMMA LooksStep ==
  ASSUME NEW n \in Nat, NEW h \in Frames, NEW f \in Frames
  PROVE  /\ Looks(n, h, f) \in Nat
         /\ Looks(n + 1, (h + 1) % NumFrames, f) = Looks(n, h, f) + IF f = h THEN 1 ELSE 0
<1> DEFINE k == n \div NumFrames
           i == n % NumFrames
           l == (n + 1) \div NumFrames
           j == (n + 1) % NumFrames
           g == (h + 1) % NumFrames
<1>1. /\ k \in Nat /\ i \in 0 .. NumFrames - 1 /\ j \in Nat
      /\ j # 0 => j = i + 1 /\ l = k
      /\ j = 0 => i = NumFrames - 1 /\ l = k + 1
  <2>1. j \in Nat
    BY NextLook, Values
  <2> QED BY <2>1, NextLook
<1>2. NumFrames \in Nat
  BY Values
<1> HIDE DEF k, i, l, j, g
<1>3. /\ Behind(h, f) \in 1 .. NumFrames /\ (Behind(h, f) = NumFrames <=> f = h)
      /\ Behind(g, f) = IF f = h THEN 1 ELSE Behind(h, f) + 1
  BY BehindMoves DEF g
<1>4. Looks(n, h, f) = k + IF Behind(h, f) <= i THEN 1 ELSE 0
  BY DEF Looks, k, i
<1>5. Looks(n + 1, g, f) = l + IF Behind(g, f) <= j THEN 1 ELSE 0
  BY DEF Looks, l, j
<1>6. Looks(n + 1, g, f) = Looks(n, h, f) + IF f = h THEN 1 ELSE 0
  BY <1>1, <1>2, <1>3, <1>4, <1>5
<1>7. Looks(n, h, f) \in Nat
  BY <1>1, <1>4
<1> QED BY <1>6, <1>7 DEF g

(* In the first pass the frame under the hand was not looked at before; after *)
(* the last one every frame was looked at more often than its count allows.   *)
LEMMA FirstAndLastLook ==
  ASSUME NEW h \in Frames
  PROVE  /\ \A n \in Nat : n < NumFrames => Looks(n, h, h) = 0
         /\ \A f \in Frames : Looks(NumFrames * Passes, h, f) >= MaxUsage + 1
<1>1. NumFrames \in Nat \ {0} /\ MaxUsage \in Nat /\ Passes = MaxUsage + 1 /\ h \in 0 .. NumFrames - 1
  BY Values DEF Passes, Frames
<1>2. ASSUME NEW n \in Nat, n < NumFrames PROVE Looks(n, h, h) = 0
  <2>1. n \div NumFrames = 0 /\ n % NumFrames \in 0 .. NumFrames - 1
    BY <1>2, NextLook
  <2>2. Behind(h, h) = NumFrames
    BY <1>1 DEF Behind
  <2> QED BY <1>1, <2>1, <2>2 DEF Looks
<1>3. ASSUME NEW f \in Frames PROVE Looks(NumFrames * Passes, h, f) >= MaxUsage + 1
  <2> DEFINE n == NumFrames * Passes
             k == n \div NumFrames
             i == n % NumFrames
  <2>1. n \in Nat
    BY <1>1
  <2>2. k \in Nat /\ i \in 0 .. NumFrames - 1
    <3> HIDE DEF n
    <3> QED BY <2>1, NextLook
  <2>3. n = NumFrames * k + i
    <3> HIDE DEF n
    <3> QED BY <2>1, <1>1
  <2>4. NumFrames * Passes = NumFrames * k + i
    BY <2>3
  <2> HIDE DEF k, i
  <2>5. k = Passes
    BY <1>1, <2>2, <2>4
  <2>6. Looks(NumFrames * Passes, h, f) = k + IF Behind(h, f) <= i THEN 1 ELSE 0
    BY DEF Looks, k, i
  <2> QED BY <1>1, <2>5, <2>6
<1> QED BY <1>2, <1>3

LEMMA OthersStay ==
  ASSUME ClockInv, NEW t \in Threads, Step(t), NEW u \in Threads, u # t
  PROVE  pc'[u] = pc[u] /\ call'[u] = call[u]
<1>1. pc \in [Threads -> Labels] /\ call \in [Threads -> Locals]
  BY DEF ClockInv, PoolInv, TypeOK
<1> USE DEF Goto, Return
<1>2. CASE Enter(t) \/ Misses(t) \/ StartFlush(t)
  BY <1>1, <1>2 DEF Enter, PinHit, StartSweep, Misses, StartFlush
<1>3. CASE SkipPinned(t) \/ SecondChance(t)
  BY <1>1, <1>3 DEF SkipPinned, SecondChance, Advance
<1>4. CASE Reserve(t) \/ Load(t) \/ WriteBackFails(t) \/ ReadFails(t)
  BY <1>1, <1>4 DEF Reserve, Load, WriteBackFails, ReadFails
<1>5. CASE FlushSkips(t) \/ FlushWrite(t) \/ FlushFails(t)
  BY <1>1, <1>5 DEF FlushSkips, FlushWrite, FlushFails, NextFrame
<1>6. ASSUME NEW p \in Pages, NEW m \in Modes, CallFetch(t, p, m)
      PROVE  pc'[u] = pc[u] /\ call'[u] = call[u]
  BY <1>1, <1>6 DEF CallFetch
<1>7. ASSUME NEW f \in Frames, NEW v \in Contents, EndWrite(t, f, v)
      PROVE  pc'[u] = pc[u] /\ call'[u] = call[u]
  BY <1>7 DEF EndWrite
<1>8. CASE CallFlush(t) \/ \E f \in Frames : BeginWrite(t, f) \/ DropGuard(t, f)
  BY <1>1, <1>8 DEF CallFlush, BeginWrite, DropGuard
<1> QED BY <1>2, <1>3, <1>4, <1>5, <1>6, <1>7, <1>8 DEF Step, TableStep, ClientStep, Begins

(* While u sweeps the others only drop guards and write pages. *)
LEMMA SweepUndisturbed ==
  ASSUME ClockInv, NEW t \in Threads, Step(t), NEW u \in Threads, u # t, pc[u] = "sweep"
  PROVE  /\ UNCHANGED <<usage, hand>>
         /\ \A f \in Frames : pins[f] = 0 => pins'[f] = 0
<1>1. Replacing # {} /\ pc[t] \notin {"sweep", "replace", "flushing"}
  BY DEF Replacing, At, ClockInv, Exclusive
<1>2. ~TableStep(t)
  BY <1>1 DEF TableStep, SkipPinned, SecondChance, Reserve, Load, WriteBackFails, ReadFails,
              FlushSkips, FlushWrite, FlushFails
<1>3. Misses(t) \/ ClientStep(t)
  BY <1>1, <1>2 DEF Step, Enter
<1>4. ASSUME NEW g \in Frames, DropGuard(t, g)
      PROVE  UNCHANGED <<usage, hand>> /\ \A f \in Frames : pins[f] = 0 => pins'[f] = 0
  <2>1. pins' = [pins EXCEPT ![g] = @ - 1] /\ guard[t][g] # NoPage /\ UNCHANGED <<usage, hand>>
    BY <1>4 DEF DropGuard
  <2>2. pins[g] # 0
    BY <2>1, UnpinnedIsFree, GuardsCount
  <2> QED BY <2>1, <2>2 DEF ClockInv, PoolInv, TypeOK
<1>5. ASSUME NEW g \in Frames, NEW v \in Contents, EndWrite(t, g, v)
      PROVE  UNCHANGED <<usage, hand, pins>>
  BY <1>5 DEF EndWrite
<1>6. ASSUME NEW p \in Pages, NEW m \in Modes, CallFetch(t, p, m)
      PROVE  UNCHANGED <<usage, hand, pins>>
  BY <1>6 DEF CallFetch, frameVars
<1>7. CASE Misses(t) \/ CallFlush(t)
  BY <1>7 DEF Misses, CallFlush, frameVars
<1>8. ASSUME NEW g \in Frames, BeginWrite(t, g) PROVE UNCHANGED <<usage, hand, pins>>
  BY <1>8 DEF BeginWrite
<1> QED BY <1>3, <1>4, <1>5, <1>6, <1>7, <1>8 DEF ClientStep, Begins

LEMMA OtherSweepsKeep ==
  ASSUME ClockInv, SweepsOK, NEW t \in Threads, Step(t), NEW u \in Threads, u # t
  PROVE  SweepOK(u)'
<1>1. pc'[u] = pc[u] /\ call'[u] = call[u] /\ SweepOK(u)
  BY OthersStay DEF SweepsOK
<1>2. CASE pc[u] # "sweep"
  BY <1>1, <1>2 DEF SweepOK
<1>3. CASE pc[u] = "sweep"
  <2>1. UNCHANGED <<usage, hand>> /\ \A f \in Frames : pins[f] = 0 => pins'[f] = 0
    BY <1>3, SweepUndisturbed
  <2>2. WearsOut(call[u].visits) => WearsOut(call[u].visits)'
    <3> SUFFICES ASSUME WearsOut(call[u].visits) PROVE WearsOut(call[u].visits)'
      OBVIOUS
    <3>1. PICK f \in Frames :
            pins[f] = 0 /\ usage[f] + Looks(call[u].visits, hand, f) <= MaxUsage
      BY DEF WearsOut
    <3>2. pins'[f] = 0 /\ usage'[f] + Looks(call'[u].visits, hand', f) <= MaxUsage
      BY <3>1, <2>1, <1>1
    <3> QED BY <3>2 DEF WearsOut
  <2> QED BY <1>1, <1>3, <2>2 DEF SweepOK
<1> QED BY <1>2, <1>3

(* The look at the frame under the hand, in whichever way it is passed. *)
LEMMA LookKeeps ==
  ASSUME ClockInv, SweepsOK, NEW t \in Threads, SkipPinned(t) \/ SecondChance(t)
  PROVE  SweepOK(t)'
<1> DEFINE n == call[t].visits
<1>1. /\ pc[t] = "sweep" /\ n \in Nat /\ hand \in Frames /\ call[t].found \in BOOLEAN
      /\ pins' = pins /\ usage \in [Frames -> 0 .. MaxUsage] /\ MaxUsage \in Nat
      /\ call[t].found = TRUE \/ n >= NumFrames => WearsOut(n)
  <2>1. pc[t] = "sweep" /\ pins' = pins
    BY DEF SkipPinned, SecondChance, frameVars
  <2>2. n \in 0 .. NumFrames * (MaxUsage + 1) /\ call[t].found \in BOOLEAN
    BY DEF ClockInv, PoolInv, TypeOK, Locals
  <2>3. n \in Nat
    <3> DEFINE most == NumFrames * (MaxUsage + 1)
    <3>1. most \in Nat /\ n \in 0 .. most
      BY <2>2, VisitsExist
    <3> HIDE DEF most, n
    <3> QED BY <3>1
  <2> QED BY <2>1, <2>2, <2>3, Values DEF ClockInv, PoolInv, TypeOK, SweepsOK, SweepOK
<1> DEFINE noticed == IF SkipPinned(t) THEN call[t].found ELSE TRUE
<1>2. Advance(t, noticed) /\ noticed \in BOOLEAN
  BY <1>1 DEF SkipPinned, SecondChance
<1>3. /\ usage' \in [Frames -> Int] /\ \A f \in Frames : f # hand => usage'[f] = usage[f]
      /\ \/ pins[hand] # 0 /\ usage'[hand] = usage[hand] /\ noticed = call[t].found
         \/ pins[hand] = 0 /\ usage'[hand] = usage[hand] - 1 /\ noticed = TRUE
  <2>1. CASE SkipPinned(t)
    <3>1. usage' = usage /\ pins[hand] # 0 /\ noticed = call[t].found
      BY <2>1 DEF SkipPinned, Pinned, frameVars
    <3> HIDE DEF noticed
    <3> QED BY <1>1, <3>1
  <2>2. CASE ~SkipPinned(t)
    <3>1. usage' = [usage EXCEPT ![hand] = @ - 1] /\ pins[hand] = 0 /\ noticed = TRUE
      BY <2>2 DEF SecondChance, Pinned
    <3> HIDE DEF noticed
    <3>2. usage[hand] - 1 \in Int
      BY <1>1
    <3> QED BY <1>1, <3>1, <3>2
  <2> QED BY <2>1, <2>2
<1>4. hand' = (hand + 1) % NumFrames
  BY <1>2 DEF Advance
<1>5. ASSUME (n + 1 >= NumFrames /\ (n + 1) % NumFrames # 0) \/ noticed = TRUE
      PROVE  \E f \in Frames : pins'[f] = 0 /\ usage'[f] + Looks(n + 1, hand', f) <= MaxUsage
  <2>1. CASE call[t].found = TRUE \/ n >= NumFrames
    <3>1. PICK f \in Frames : pins[f] = 0 /\ usage[f] + Looks(n, hand, f) <= MaxUsage
      BY <1>1, <2>1 DEF WearsOut
    <3>2. /\ Looks(n, hand, f) \in Nat
          /\ Looks(n + 1, hand', f) = Looks(n, hand, f) + IF f = hand THEN 1 ELSE 0
      BY <1>1, <1>4, LooksStep
    <3>3. /\ usage[f] \in Nat /\ pins'[f] = 0
          /\ usage'[f] = IF f = hand THEN usage[f] - 1 ELSE usage[f]
      <4> HIDE DEF noticed, n
      <4> QED BY <1>1, <1>3, <3>1
    <3>4. usage'[f] + Looks(n + 1, hand', f) <= MaxUsage
      BY <3>1, <3>2, <3>3, <1>1
    <3> QED BY <3>3, <3>4
  <2>2. CASE ~(call[t].found = TRUE \/ n >= NumFrames)
    <3>1. n < NumFrames /\ pins[hand] = 0 /\ usage'[hand] = usage[hand] - 1
      <4>1. n < NumFrames
        BY <1>1, <2>2, Values
      <4>2. n + 1 >= NumFrames => (n + 1) % NumFrames = 0
        BY <1>1, <4>1, Values
      <4> QED BY <1>3, <1>5, <2>2, <4>1, <4>2
    <3>2. Looks(n, hand, hand) = 0
      BY <1>1, <3>1, FirstAndLastLook
    <3>3. Looks(n + 1, hand', hand) = 1
      BY <1>1, <1>4, <3>2, LooksStep
    <3>4. usage[hand] \in 0 .. MaxUsage /\ pins'[hand] = 0
      BY <1>1, <3>1
    <3>5. usage'[hand] + Looks(n + 1, hand', hand) <= MaxUsage
      BY <3>1, <3>3, <3>4, <1>1
    <3> QED BY <1>1, <3>4, <3>5
  <2> QED BY <2>1, <2>2
<1>6. CASE Return(t)
  BY <1>6 DEF Return, Goto, SweepOK, ClockInv, PoolInv, TypeOK
<1>7. CASE (n + 1) % NumFrames # 0 /\ pc' = pc
           /\ call' = [call EXCEPT ![t].visits = n + 1, ![t].found = noticed]
  <2>1. call'[t].visits = n + 1 /\ call'[t].found = noticed /\ pc'[t] = "sweep"
    BY <1>1, <1>7 DEF ClockInv, PoolInv, TypeOK, Locals
  <2>2. noticed = TRUE \/ n + 1 >= NumFrames =>
          \E f \in Frames : pins'[f] = 0 /\ usage'[f] + Looks(n + 1, hand', f) <= MaxUsage
    BY <1>5, <1>7
  <2> QED BY <2>1, <2>2 DEF SweepOK, WearsOut
<1>8. CASE /\ (n + 1) % NumFrames = 0 /\ noticed = TRUE
           /\ call' = [call EXCEPT ![t].visits = n + 1, ![t].found = FALSE]
           /\ IF n + 1 = NumFrames * Passes THEN Goto(t, "unreachable") ELSE UNCHANGED pc
  <2>1. PICK f \in Frames : pins'[f] = 0 /\ usage'[f] + Looks(n + 1, hand', f) <= MaxUsage
    BY <1>5, <1>8
  <2>2. n + 1 # NumFrames * Passes
    <3>1. usage'[f] \in Nat
      <4>1. \/ usage' = usage
            \/ usage[hand] > 0 /\ usage' = [usage EXCEPT ![hand] = @ - 1]
        BY DEF SkipPinned, SecondChance, frameVars
      <4>2. usage \in [Frames -> 0 .. MaxUsage] /\ hand \in Frames /\ MaxUsage \in Nat
        BY <1>1
      <4> QED BY <4>1, <4>2
    <3>2. hand' \in Frames
      BY <1>1, <1>4, HandMoves, Values DEF Frames
    <3>3. ASSUME n + 1 = NumFrames * Passes PROVE FALSE
      <4>1. Looks(n + 1, hand', f) >= MaxUsage + 1
        BY <3>2, <3>3, FirstAndLastLook
      <4>2. Looks(n + 1, hand', f) \in Nat
        <5>1. n + 1 \in Nat
          BY <1>1
        <5> QED BY <3>2, <5>1, LooksStep
      <4> QED BY <2>1, <3>1, <4>1, <4>2, <1>1
    <3> QED BY <3>3
  <2>3. call'[t].visits = n + 1 /\ pc'[t] = "sweep"
    BY <1>1, <1>8, <2>2 DEF ClockInv, PoolInv, TypeOK, Locals
  <2> QED BY <2>1, <2>3 DEF SweepOK, WearsOut
<1> QED BY <1>2, <1>6, <1>7, <1>8 DEF Advance

LEMMA OwnSweepKeeps ==
  ASSUME ClockInv, SweepsOK, NEW t \in Threads, Step(t)
  PROVE  SweepOK(t)'
<1>1. pc \in [Threads -> Labels] /\ call \in [Threads -> Locals] /\ SweepOK(t)
  BY DEF ClockInv, PoolInv, TypeOK, SweepsOK
<1>2. ASSUME pc'[t] \in {"idle", "replace", "flush", "flushing"} PROVE SweepOK(t)'
  BY <1>2 DEF SweepOK
<1> USE DEF Goto, Return
<1>3. CASE SkipPinned(t) \/ SecondChance(t)
  BY <1>3, LookKeeps
<1>4. CASE PinHit(t) \/ StartFlush(t) \/ Reserve(t) \/ Load(t) \/ WriteBackFails(t) \/ ReadFails(t)
  <2>1. pc'[t] \in {"idle", "replace", "flushing"}
    BY <1>1, <1>4 DEF PinHit, StartFlush, Reserve, Load, WriteBackFails, ReadFails
  <2> QED BY <1>2, <2>1
<1>5. CASE FlushSkips(t) \/ FlushWrite(t) \/ FlushFails(t)
  <2>1. pc'[t] \in {"idle", "flushing"}
    BY <1>1, <1>5 DEF FlushSkips, FlushWrite, FlushFails, NextFrame
  <2> QED BY <1>2, <2>1
<1>6. CASE Misses(t)
  BY <1>1, <1>6 DEF Misses, SweepOK
<1>7. CASE Enter(t) /\ StartSweep(t)
  <2>1. pc'[t] = "sweep" /\ call' = call /\ call[t].visits = 0 /\ call[t].found = FALSE
    BY <1>1, <1>7 DEF Enter, StartSweep, SweepOK, ClockInv, LocalsOK, LocalOK
  <2> QED BY <2>1, Values DEF SweepOK
<1>8. ASSUME NEW p \in Pages, NEW m \in Modes, CallFetch(t, p, m) PROVE SweepOK(t)'
  <2>1. call' = [call EXCEPT ![t] = [NoCall EXCEPT !.page = p, !.mode = m]] /\ pc'[t] = "fetch"
    BY <1>1, <1>8 DEF CallFetch
  <2>2. call'[t].found = FALSE
    BY <1>1, <2>1 DEF NoCall
  <2> QED BY <2>1, <2>2 DEF SweepOK
<1>9. ASSUME NEW f \in Frames, NEW v \in Contents, EndWrite(t, f, v) PROVE SweepOK(t)'
  BY <1>1, <1>9 DEF EndWrite, SweepOK, WearsOut
<1>10. CASE CallFlush(t) \/ \E f \in Frames : BeginWrite(t, f) \/ DropGuard(t, f)
  <2>1. pc'[t] \in {"idle", "flush"}
    BY <1>1, <1>10 DEF CallFlush, BeginWrite, DropGuard
  <2> QED BY <1>2, <2>1
<1> QED BY <1>3, <1>4, <1>5, <1>6, <1>7, <1>8, <1>9, <1>10
        DEF Step, Enter, TableStep, ClientStep, Begins

LEMMA SweepsStep ==
  /\ ClockInv /\ SweepsOK /\ [NextV1]_vars => SweepsOK'
  /\ ClockInv /\ SweepsOK /\ [NextV2]_vars => SweepsOK'
<1>1. ASSUME ClockInv, SweepsOK, NEW t \in Threads, Step(t) PROVE SweepsOK'
  BY <1>1, OtherSweepsKeep, OwnSweepKeeps DEF SweepsOK
<1>2. ASSUME SweepsOK, UNCHANGED vars PROVE SweepsOK'
  BY <1>2 DEF SweepsOK, SweepOK, WearsOut, vars, frameVars
<1> QED BY <1>1, <1>2, BothSteps

(* The unreachable!() after the last pass of choose_victim is not reached, in  *)
(* either pool: the sweep finds a victim or a pass without an unpinned frame,  *)
(* although guards are dropped under it, for every capacity and every bound of *)
(* the usage count.                                                            *)
THEOREM SweepsFindOrFail == (SpecV1 => []SweepEnds) /\ (SpecV2 => []SweepEnds)
<1>1. Init => SweepsOK
  BY DEF Init, SweepsOK, SweepOK
<1>2. SweepsOK => SweepEnds
  BY DEF SweepsOK, SweepOK, SweepEnds, At
<1>3. SpecV1 => []SweepEnds
  BY <1>1, <1>2, SweepsStep, ClockInvHolds, PTL DEF SpecV1
<1>4. SpecV2 => []SweepEnds
  BY <1>1, <1>2, SweepsStep, ClockInvHolds, PTL DEF SpecV2
<1> QED BY <1>3, <1>4

-----------------------------------------------------------------------------
(* AllFramesPinned *)

(* A frame that was free when the sweep began is free, and if no free frame was *)
(* met in this pass the hand has yet to come to it.                             *)
FreeAhead(t) ==
  pc[t] = "sweep" =>
    \A f \in free : /\ f \in Frames /\ pins[f] = 0
                    /\ call[t].found = FALSE => Behind(hand, f) > call[t].visits % NumFrames

FreeInv == \A t \in Threads : FreeAhead(t)

(* What a look at the frame under the hand finds. *)
LEMMA LookFinds ==
  ASSUME ClockInv, NEW t \in Threads, SkipPinned(t) \/ SecondChance(t)
  PROVE  /\ pc[t] = "sweep" /\ pins' = pins
         /\ call[t] \in Locals /\ call[t].visits \in Nat /\ hand \in Frames
         /\ \E found \in BOOLEAN :
              Advance(t, found) /\ (found = FALSE => call[t].found = FALSE /\ pins[hand] # 0)
<1>1. pc[t] = "sweep" /\ pins' = pins
  BY DEF SkipPinned, SecondChance, frameVars
<1>2. call[t] \in Locals /\ call[t].found \in BOOLEAN /\ hand \in Frames
  BY DEF ClockInv, PoolInv, TypeOK, Locals
<1>3. call[t].visits \in Nat
  <2> DEFINE most == NumFrames * (MaxUsage + 1)
             n == call[t].visits
  <2>1. most \in Nat /\ n \in 0 .. most
    BY <1>2, VisitsExist DEF Locals
  <2> HIDE DEF most, n
  <2>2. n \in Nat
    BY <2>1
  <2> QED BY <2>2 DEF n
<1>4. CASE SkipPinned(t)
  BY <1>1, <1>2, <1>3, <1>4 DEF SkipPinned, Pinned
<1>5. CASE SecondChance(t)
  BY <1>1, <1>2, <1>3, <1>5 DEF SecondChance
<1> QED BY <1>4, <1>5

LEMMA SweepStarts ==
  ASSUME ClockInv, NEW t \in Threads, Step(t), pc'[t] = "sweep", pc[t] # "sweep"
  PROVE  Enter(t) /\ StartSweep(t)
<1>1. pc \in [Threads -> Labels]
  BY DEF ClockInv, PoolInv, TypeOK
<1> USE DEF Goto, Return
<1>2. CASE TableStep(t)
  BY <1>1, <1>2 DEF TableStep, SkipPinned, SecondChance, Reserve, Load, WriteBackFails, ReadFails,
                    FlushSkips, FlushWrite, FlushFails, NextFrame
<1>3. CASE ClientStep(t)
  <2>1. ASSUME NEW p \in Pages, NEW m \in Modes, CallFetch(t, p, m) PROVE pc'[t] = "fetch"
    BY <1>1, <2>1 DEF CallFetch
  <2>2. ASSUME NEW f \in Frames, NEW v \in Contents, EndWrite(t, f, v) PROVE pc' = pc
    BY <2>2 DEF EndWrite
  <2>3. CASE CallFlush(t) \/ \E f \in Frames : BeginWrite(t, f) \/ DropGuard(t, f)
    BY <1>1, <2>3 DEF CallFlush, BeginWrite, DropGuard
  <2> QED BY <1>3, <2>1, <2>2, <2>3 DEF ClientStep, Begins
<1>4. CASE Misses(t) \/ StartFlush(t) \/ PinHit(t)
  BY <1>1, <1>4 DEF Misses, StartFlush, PinHit
<1> QED BY <1>2, <1>3, <1>4 DEF Step, Enter

LEMMA SweepGoesOn ==
  ASSUME ClockInv, NEW t \in Threads, Step(t), pc[t] = "sweep"
  PROVE  \/ SkipPinned(t) \/ SecondChance(t)
         \/ pc'[t] = "replace"
         \/ pc' = pc /\ UNCHANGED <<call, hand, pins>>
<1>1. pc \in [Threads -> Labels] /\ Replacing # {}
  BY DEF ClockInv, PoolInv, TypeOK, Replacing, At
<1>2. CASE TableStep(t)
  BY <1>1, <1>2 DEF TableStep, Reserve, Goto, Load, WriteBackFails, ReadFails, FlushSkips,
                    FlushWrite, FlushFails
<1>3. CASE ClientStep(t)
  <2>1. \E f \in Frames, v \in Contents : EndWrite(t, f, v)
    BY <1>3 DEF ClientStep, Begins, CallFetch, CallFlush, BeginWrite, DropGuard
  <2> QED BY <2>1 DEF EndWrite
<1> QED BY <1>1, <1>2, <1>3 DEF Step, Enter, Misses

LEMMA FreeStep ==
  ASSUME ClockInv, FreeInv, NEW t \in Threads, Step(t), Remember, NEW u \in Threads
  PROVE  FreeAhead(u)'
<1> SUFFICES ASSUME pc'[u] = "sweep", NEW f \in free'
             PROVE  /\ f \in Frames /\ pins'[f] = 0
                    /\ call'[u].found = FALSE => Behind(hand', f) > call'[u].visits % NumFrames
  BY DEF FreeAhead
<1>1. At("sweep")' # {}
  BY DEF At
<1>2. CASE pc[u] = "sweep"
  <2>1. free' = free
    BY <1>1, <1>2 DEF Remember, At
  <2>2. /\ f \in Frames /\ pins[f] = 0
        /\ call[u].found = FALSE => Behind(hand, f) > call[u].visits % NumFrames
    BY <1>2, <2>1 DEF FreeInv, FreeAhead
  <2>3. CASE u # t
    BY <1>2, <2>2, <2>3, OthersStay, SweepUndisturbed
  <2>4. CASE u = t /\ (SkipPinned(t) \/ SecondChance(t))
    <3> DEFINE n == call[t].visits
    <3>1. PICK found \in BOOLEAN :
            Advance(t, found) /\ (found = FALSE => call[t].found = FALSE /\ pins[hand] # 0)
      BY <2>4, LookFinds
    <3>2. n \in Nat /\ hand \in Frames /\ pins' = pins /\ call[t] \in Locals
      BY <2>4, LookFinds
    <3>3. hand' \in Frames /\ hand' = (hand + 1) % NumFrames
      BY <3>1, <3>2, HandMoves, Values DEF Advance, Frames
    <3>4. CASE (n + 1) % NumFrames = 0 /\ call'[t].visits = n + 1
      <4>1. Behind(hand', f) > 0
        BY <2>2, <3>3, Values DEF Behind, Frames
      <4> QED BY <2>2, <2>4, <3>2, <3>4, <4>1
    <3>5. CASE (n + 1) % NumFrames # 0 /\ call'[t].visits = n + 1 /\ call'[t].found = found
      <4>1. ASSUME found = FALSE PROVE Behind(hand', f) > (n + 1) % NumFrames
        <5>1. Behind(hand, f) > n % NumFrames /\ f # hand
          BY <2>2, <2>4, <3>1, <4>1
        <5>2. Behind(hand', f) = Behind(hand, f) + 1 /\ Behind(hand, f) \in Nat
          BY <2>2, <3>2, <3>3, <5>1, BehindMoves
        <5>3. (n + 1) % NumFrames = (n % NumFrames) + 1 /\ n % NumFrames \in Nat
          <6>1. n % NumFrames \in 0 .. NumFrames - 1
            BY <3>2, NextLook
          <6> QED BY <3>2, <3>5, <6>1, NextLook, Values
        <5> HIDE DEF n
        <5> QED BY <5>1, <5>2, <5>3
      <4> QED BY <2>2, <2>4, <3>2, <3>5, <4>1
    <3>6. \/ Return(t)
          \/ (n + 1) % NumFrames # 0 /\ call' = [call EXCEPT ![t].visits = n + 1, ![t].found = found]
          \/ (n + 1) % NumFrames = 0 /\ call' = [call EXCEPT ![t].visits = n + 1, ![t].found = FALSE]
      BY <3>1 DEF Advance
    <3>7. ~Return(t)
      BY <2>4 DEF Return, Goto, ClockInv, PoolInv, TypeOK
    <3>8. call \in [Threads -> Locals]
      BY DEF ClockInv, PoolInv, TypeOK
    <3>9. /\ call'[t].visits = n + 1
          /\ (n + 1) % NumFrames # 0 => call'[t].found = found
      BY <3>2, <3>6, <3>7, <3>8 DEF Locals
    <3> QED BY <3>4, <3>5, <3>9
  <2>5. CASE u = t /\ pc' = pc /\ UNCHANGED <<call, hand, pins>>
    BY <2>2, <2>5
  <2> QED BY <1>2, <2>3, <2>4, <2>5, SweepGoesOn
<1>3. CASE pc[u] # "sweep"
  <2>1. u = t /\ Enter(t) /\ StartSweep(t)
    BY <1>3, OthersStay, SweepStarts
  <2>2. At("sweep") = {}
    BY <2>1 DEF Enter, Replacing
  <2>3. f \in Frames /\ pins[f] = 0
    BY <1>1, <2>2 DEF Remember
  <2>4. pins' = pins /\ hand' = hand /\ call' = call /\ call[t].visits = 0 /\ hand \in Frames
    BY <2>1 DEF Enter, StartSweep, frameVars, ClockInv, PoolInv, TypeOK, LocalsOK, LocalOK
  <2>5. Behind(hand, f) > 0 /\ 0 % NumFrames = 0
    BY <2>3, <2>4, Values DEF Behind, Frames
  <2> QED BY <2>1, <2>3, <2>4, <2>5
<1> QED BY <1>2, <1>3

(* Only a pass without an unpinned frame turns a sweep down. *)
LEMMA TurnedDown ==
  ASSUME ClockInv, FreeInv, NEW t \in Threads, Step(t), NEW u \in Threads,
         pc[u] = "sweep", pc'[u] = "idle"
  PROVE  free = {}
<1>1. u = t /\ (SkipPinned(t) \/ SecondChance(t))
  BY OthersStay, SweepGoesOn
<1> DEFINE n == call[t].visits
<1>2. PICK found \in BOOLEAN :
        Advance(t, found) /\ (found = FALSE => call[t].found = FALSE /\ pins[hand] # 0)
  BY <1>1, LookFinds
<1>3. n \in Nat /\ hand \in Frames
  BY <1>1, LookFinds
<1>4. found = FALSE /\ (n + 1) % NumFrames = 0
  BY <1>1, <1>2 DEF Advance, Goto, ClockInv, PoolInv, TypeOK
<1>5. ASSUME NEW f \in free PROVE FALSE
  <2>1. f \in Frames /\ f # hand /\ Behind(hand, f) > n % NumFrames
    BY <1>1, <1>2, <1>4 DEF FreeInv, FreeAhead
  <2>2. n % NumFrames = NumFrames - 1
    BY <1>3, <1>4, NextLook
  <2>3. Behind(hand, f) \in 1 .. NumFrames /\ Behind(hand, f) # NumFrames
    BY <1>3, <2>1, BehindMoves
  <2> QED BY <2>1, <2>2, <2>3, Values
<1> QED BY <1>5

LEMMA HistoryStep ==
  /\ ClockInv /\ FreeInv /\ [NextV1 /\ Remember]_poolVars => FreeInv'
  /\ ClockInv /\ FreeInv /\ [NextV2 /\ Remember]_poolVars => FreeInv'
<1>1. ASSUME ClockInv, FreeInv, NEW t \in Threads, Step(t), Remember PROVE FreeInv'
  BY <1>1, FreeStep DEF FreeInv
<1>2. ASSUME FreeInv, UNCHANGED poolVars PROVE FreeInv'
  BY <1>2 DEF FreeInv, FreeAhead, poolVars, vars, frameVars
<1> QED BY <1>1, <1>2, BothSteps

(* The error AllFramesPinned of both pools is true: no frame was free when the *)
(* sweep began, for every number of threads and frames.                        *)
THEOREM ErrorsAreReal == (HistoryV1 => ExhaustionIsReal) /\ (HistoryV2 => ExhaustionIsReal)
<1> DEFINE Turned == \A t \in Threads : pc[t] = "sweep" /\ pc'[t] = "idle" => free = {}
<1>1. Init /\ free = {} => FreeInv
  BY DEF Init, FreeInv, FreeAhead
<1>2. ASSUME ClockInv, FreeInv, NEW t \in Threads, Step(t) PROVE Turned
  BY <1>2, TurnedDown
<1>3. ClockInv /\ FreeInv /\ [NextV1 /\ Remember]_poolVars => [Turned]_poolVars
  BY <1>2, BothSteps
<1>4. ClockInv /\ FreeInv /\ [NextV2 /\ Remember]_poolVars => [Turned]_poolVars
  BY <1>2, BothSteps
<1>5. [NextV1 /\ Remember]_poolVars => [NextV1]_vars
  BY DEF poolVars
<1>6. [NextV2 /\ Remember]_poolVars => [NextV2]_vars
  BY DEF poolVars
<1>7. HistoryV1 => SpecV1
  BY <1>5, PTL DEF HistoryV1, SpecV1
<1>8. HistoryV2 => SpecV2
  BY <1>6, PTL DEF HistoryV2, SpecV2
<1>9. HistoryV1 => ExhaustionIsReal
  BY <1>1, <1>3, <1>7, HistoryStep, ClockInvHolds, PTL DEF HistoryV1, ExhaustionIsReal
<1>10. HistoryV2 => ExhaustionIsReal
  BY <1>1, <1>4, <1>8, HistoryStep, ClockInvHolds, PTL DEF HistoryV2, ExhaustionIsReal
<1> QED BY <1>9, <1>10

-----------------------------------------------------------------------------
(* Refinement of PageMemory *)

(* The pages that some thread holds, when h are the guards. *)
PagesHeld(h) == UNION {{h[t][f] : f \in Frames} \ {NoPage} : t \in Threads}

GuardsFit(pg, h) ==
  \A t \in Threads, f \in Frames : h[t][f] # NoPage => pg[f] = h[t][f]

(* The pages that are held are pages of frames, hence no more than frames. *)
LEMMA HeldFit ==
  ASSUME NEW pg, NEW h, GuardsFit(pg, h)
  PROVE  Cardinality(PagesHeld(h)) <= NumFrames
<1> USE DEF GuardsFit
<1> DEFINE S == UNION {{h[t][f] : f \in Frames} \ {NoPage} : t \in Threads}
           frameOf == [p \in S |-> CHOOSE f \in Frames : pg[f] = p]
<1>1. ASSUME NEW p \in S PROVE \E f \in Frames : pg[f] = p
  OBVIOUS
<1>2. \A p \in S : frameOf[p] \in Frames /\ pg[frameOf[p]] = p
  BY <1>1
<1> HIDE DEF S
<1>3. frameOf \in [S -> Frames]
  BY <1>2
<1> HIDE DEF frameOf
<1>4. frameOf \in Injection(S, Frames)
  BY <1>2, <1>3 DEF Injection, IsInjective
<1>5. IsFiniteSet(Frames) /\ Cardinality(Frames) = NumFrames
  <2>1. 0 \in Int /\ NumFrames - 1 \in Int /\ ~(0 > NumFrames - 1) /\ (NumFrames - 1) - 0 + 1 = NumFrames
    BY Values
  <2> QED BY <2>1, FS_Interval DEF Frames
<1>6. Cardinality(S) <= Cardinality(Frames)
  BY <1>4, <1>5, FS_Injection
<1> QED BY <1>5, <1>6 DEF S, PagesHeld

LEMMA MemoryInit == Init => Memory!Init
<1> SUFFICES ASSUME Init PROVE Memory!Init
  OBVIOUS
<1>1. \A p \in Pages : Content(p) = disk[p] /\ WriterOf(p) = NoThread /\ disk[p] \in Contents
  BY DEF Init, Content, WriterOf
<1>2. \A t \in Threads : Held(t) = {}
  BY DEF Init, Held
<1> QED BY <1>1, <1>2 DEF Memory!Init

(* A step that changes no content, no guard and no writer is a step of nobody. *)
LEMMA Stutters ==
  ASSUME \A p \in Pages : Content(p)' = Content(p) /\ WriterOf(p)' = WriterOf(p), guard' = guard
  PROVE  UNCHANGED Memory!memvars
<1>1. \A t \in Threads : Held(t)' = Held(t)
  BY DEF Held
<1> QED BY <1>1 DEF Memory!memvars

(* A step that touches neither the store nor the frames' bytes. *)
LEMMA QuietStutters ==
  ASSUME UNCHANGED <<disk, table, data, guard, writer>>
  PROVE  UNCHANGED Memory!memvars
<1>1. \A p \in Pages : Content(p)' = Content(p) /\ WriterOf(p)' = WriterOf(p)
  BY DEF Content, WriterOf
<1> QED BY <1>1, Stutters

(* A step that gives t a guard of p, and changes no content, is Acquire. *)
LEMMA Acquires ==
  ASSUME ClockInv, ClockInv', NEW t \in Threads, NEW p \in Pages, NEW f \in Frames,
         p \notin Held(t), guard[t][f] = NoPage, guard' = [guard EXCEPT ![t][f] = p],
         \A q \in Pages : Content(q)' = Content(q) /\ WriterOf(q)' = WriterOf(q)
  PROVE  Memory!Acquire(t, p)
<1>1. \A u \in Threads, g \in Frames :
        guard'[u][g] = IF u = t /\ g = f THEN p ELSE guard[u][g]
  BY GuardTaken
<1>2. Held(t)' = Held(t) \union {p} /\ \A u \in Threads : u # t => Held(u)' = Held(u)
  <2>1. Held(t)' \subseteq Held(t) \union {p}
    BY <1>1 DEF Held
  <2>2. Held(t) \subseteq Held(t)'
    <3> SUFFICES ASSUME NEW g \in Frames, guard[t][g] # NoPage PROVE guard[t][g] \in Held(t)'
      BY DEF Held
    <3>1. guard'[t][g] = guard[t][g]
      BY <1>1
    <3> QED BY <3>1 DEF Held
  <2>3. p \in Held(t)'
    BY <1>1, Values DEF Held
  <2>4. \A u \in Threads : u # t => Held(u)' = Held(u)
    BY <1>1 DEF Held
  <2> QED BY <2>1, <2>2, <2>3, <2>4
<1>3. Cardinality(UNION {Held(u)' : u \in Threads}) <= NumFrames
  <2>1. GuardsFit(page', guard')
    BY DEF ClockInv, PoolInv, GuardsKeepTheirPage, GuardsFit
  <2>2. Cardinality(PagesHeld(guard')) <= NumFrames
    BY <2>1, HeldFit
  <2>3. PagesHeld(guard') = UNION {Held(u)' : u \in Threads}
    BY DEF PagesHeld, Held
  <2> QED BY <2>2, <2>3
<1> DEFINE held == [u \in Threads |-> Held(u)]
<1>4. held' = [held EXCEPT ![t] = @ \union {p}]
  BY <1>2
<1>5. Memory!HeldPages(held') = UNION {Held(u)' : u \in Threads}
  BY DEF Memory!HeldPages
<1>6. Memory!Cardinality(Memory!HeldPages(held')) <= NumFrames
  BY <1>3, <1>5 DEF Memory!Cardinality, Cardinality
<1>7. UNCHANGED <<[q \in Pages |-> Content(q)], [q \in Pages |-> WriterOf(q)]>>
  OBVIOUS
<1> QED BY <1>4, <1>6, <1>7 DEF Memory!Acquire

LEMMA HitMemory ==
  ASSUME ClockInv, ClockInv', NEW t \in Threads, pc[t] \in {"fetch", "miss"}, PinHit(t)
  PROVE  call[t].page \in Pages /\ Memory!Acquire(t, call[t].page)
<1> DEFINE p == call[t].page
           f == table[p]
<1>1. p \in Pages /\ p \notin Held(t)
  BY DEF ClockInv, LocalsOK, LocalOK
<1>2. f \in Frames /\ page[f] = p
  BY <1>1, Entry DEF PinHit
<1>3. guard[t][f] = NoPage
  BY <1>1, <1>2 DEF Held, ClockInv, PoolInv, GuardsKeepTheirPage
<1>4. guard' = [guard EXCEPT ![t][f] = p] /\ UNCHANGED <<disk, table, data, writer>>
  BY DEF PinHit
<1>5. \A q \in Pages : Content(q)' = Content(q) /\ WriterOf(q)' = WriterOf(q)
  BY <1>4 DEF Content, WriterOf
<1> HIDE DEF p, f
<1>6. Memory!Acquire(t, p)
  BY <1>1, <1>2, <1>3, <1>4, <1>5, Acquires
<1> QED BY <1>1, <1>6 DEF p

(* The bytes of the page that goes are in the store, those of the page that comes
   are what the store had. *)
LEMMA LoadMemory ==
  ASSUME ClockInv, ClockInv', NEW t \in Threads, Load(t)
  PROVE  call[t].page \in Pages /\ Memory!Acquire(t, call[t].page)
<1> DEFINE f == call[t].cur
           p == call[t].page
<1>1. /\ pc[t] = "replace" /\ disk' = WrittenBack(f)
      /\ data' = [data EXCEPT ![f] = disk'[p]]
      /\ table' = [q \in Pages |-> CASE q = p -> f [] q = page[f] /\ q # p -> NoFrame
                                  [] OTHER -> table[q]]
      /\ guard' = [guard EXCEPT ![t][f] = p]
      /\ writer' = writer
  BY DEF Load
<1>2. /\ f \in Frames /\ p \in Pages /\ p \notin Held(t) /\ table[p] = NoFrame
      /\ GuardsOn(f) = {} /\ writer[f] = NoThread
  BY <1>1, ReservedFree
<1>3. guard[t][f] = NoPage
  BY <1>2 DEF GuardsOn
<1> HIDE DEF f, p
<1>4. \A g \in Frames : data'[g] = IF g = f THEN disk'[p] ELSE data[g]
  BY <1>1, <1>2 DEF ClockInv, PoolInv, TypeOK
<1>5. \A q \in Pages : table'[q] = IF q = p THEN f ELSE IF q = page[f] THEN NoFrame ELSE table[q]
  BY <1>1, <1>2
<1>6. ASSUME NEW q \in Pages
      PROVE  Content(q)' = Content(q) /\ WriterOf(q)' = WriterOf(q)
  <2>1. CASE q = p
    <3>1. page[f] # p
      BY <1>2, Entry
    <3>2. WrittenBack(f)[p] = disk[p]
      BY <1>2, <3>1, WriteTypes
    <3>3. table'[q] = f /\ table[q] = NoFrame /\ data'[f] = disk[p] /\ f # NoFrame
      BY <1>1, <1>2, <1>4, <1>5, <2>1, <3>2, Values
    <3> QED BY <1>1, <1>2, <2>1, <3>3 DEF Content, WriterOf
  <2>2. CASE q # p /\ page[f] = q
    <3>1. page[f] # NoPage
      BY <2>2, Values
    <3>2. table[q] = f /\ table'[q] = NoFrame /\ f # NoFrame
      BY <1>2, <1>5, <2>2, <3>1, OneFrame, Values
    <3>3. disk'[q] = data[f]
      BY <1>1, <1>2, <2>2, <3>1, WrittenBackMatches
    <3> QED BY <1>2, <3>2, <3>3 DEF Content, WriterOf
  <2>3. CASE q # p /\ page[f] # q
    <3>1. table'[q] = table[q] /\ disk'[q] = disk[q]
      BY <1>1, <1>2, <1>5, <2>3, WriteTypes
    <3>2. table[q] # NoFrame => table[q] \in Frames /\ table[q] # f
      BY <2>3, Entry
    <3>3. table[q] # NoFrame => data'[table[q]] = data[table[q]]
      BY <1>4, <3>2
    <3> QED BY <1>1, <3>1, <3>3 DEF Content, WriterOf
  <2> QED BY <2>1, <2>2, <2>3
<1>7. Memory!Acquire(t, p)
  BY <1>1, <1>2, <1>3, <1>6, Acquires
<1> QED BY <1>2, <1>7 DEF p

(* A write to the store of a page that is in a frame is not seen. *)
LEMMA StoreStutters ==
  ASSUME ClockInv, NEW f \in Frames, UNCHANGED <<table, data, guard, writer>>,
         \A q \in Pages : page[f] # q => disk'[q] = disk[q]
  PROVE  UNCHANGED Memory!memvars
<1>1. ASSUME NEW q \in Pages
      PROVE  Content(q)' = Content(q) /\ WriterOf(q)' = WriterOf(q)
  <2>1. table[q] = NoFrame => disk'[q] = disk[q]
    BY Entry
  <2> QED BY <2>1 DEF Content, WriterOf
<1> QED BY <1>1, Stutters

LEMMA StoreMemory ==
  ASSUME ClockInv, NEW t \in Threads,
         WriteBackFails(t) \/ ReadFails(t) \/ FlushSkips(t) \/ FlushWrite(t) \/ FlushFails(t)
  PROVE  UNCHANGED Memory!memvars
<1> DEFINE f == call[t].cur
<1>1. f \in Frames
  BY DEF ClockInv, PoolInv, TypeOK, Locals
<1>2. UNCHANGED <<table, data, guard, writer>>
  BY DEF WriteBackFails, ReadFails, FlushSkips, FlushWrite, FlushFails, frameVars
<1>3. ASSUME NEW q \in Pages, page[f] # q PROVE disk'[q] = disk[q]
  <2>1. CASE WriteBackFails(t) \/ FlushFails(t)
    <3>1. NeedsWriteBack(f) /\ disk' \in FailedWrite(f)
      BY <2>1 DEF WriteBackFails, FlushFails
    <3> QED BY <1>1, <1>3, <3>1, WriteTypes
  <2>2. CASE ReadFails(t) \/ FlushWrite(t)
    <3>1. disk' = WrittenBack(f)
      BY <2>2 DEF ReadFails, FlushWrite, WrittenBack
    <3> QED BY <1>1, <1>3, <3>1, WriteTypes
  <2>3. CASE FlushSkips(t)
    BY <2>3 DEF FlushSkips
  <2> QED BY <2>1, <2>2, <2>3
<1> QED BY <1>1, <1>2, <1>3, StoreStutters

LEMMA WriteMemory ==
  ASSUME ClockInv, NEW t \in Threads, NEW f \in Frames,
         BeginWrite(t, f) \/ \E v \in Contents : EndWrite(t, f, v)
  PROVE  Memory!Next
<1> DEFINE p == page[f]
<1>1. guard[t][f] # NoPage
  BY Values DEF BeginWrite, EndWrite, ClockInv, WritersHoldGuards
<1>2. guard[t][f] = p
  BY <1>1 DEF ClockInv, PoolInv, GuardsKeepTheirPage
<1>3. p \in Pages /\ p \in Held(t)
  BY <1>1, <1>2, OneFrame DEF Held
<1>4. table[p] = f /\ f # NoFrame
  BY <1>1, <1>2, OneFrame, Values
<1>5. \A q \in Pages : q # p => table[q] # f
  BY Entry, Values
<1>6. UNCHANGED <<disk, table, guard>>
  BY DEF BeginWrite, EndWrite
<1>7. \A u \in Threads : Held(u)' = Held(u)
  BY <1>6 DEF Held
<1> HIDE DEF p
<1>8. CASE BeginWrite(t, f)
  <2>1. writer[f] = NoThread /\ writer' = [writer EXCEPT ![f] = t] /\ data' = data
    BY <1>8 DEF BeginWrite
  <2>2. \A g \in Frames : writer'[g] = IF g = f THEN t ELSE writer[g]
    BY <2>1 DEF ClockInv, PoolInv, TypeOK
  <2>3. \A q \in Pages : Content(q)' = Content(q)
    BY <1>6, <2>1 DEF Content
  <2>4. ASSUME NEW q \in Pages PROVE WriterOf(q)' = IF q = p THEN t ELSE WriterOf(q)
    <3>1. CASE q = p
      BY <1>4, <1>6, <2>2, <3>1 DEF WriterOf
    <3>2. CASE q # p
      <4>1. table[q] # NoFrame => table[q] \in Frames /\ table[q] # f
        BY <1>5, <3>2, Entry
      <4> QED BY <1>6, <2>2, <3>2, <4>1 DEF WriterOf
    <3> QED BY <3>1, <3>2
  <2>5. WriterOf(p) = NoThread
    BY <1>4, <2>1 DEF WriterOf
  <2> DEFINE w == [q \in Pages |-> WriterOf(q)]
  <2>6. w' = [w EXCEPT ![p] = t]
    BY <2>4
  <2>7. Memory!BeginWrite(t, p)
    BY <1>3, <1>7, <2>3, <2>5, <2>6 DEF Memory!BeginWrite
  <2> QED BY <1>3, <2>7 DEF Memory!Next
<1>9. ASSUME NEW v \in Contents, EndWrite(t, f, v) PROVE Memory!Next
  <2>1. writer[f] = t /\ writer' = [writer EXCEPT ![f] = NoThread] /\ data' = [data EXCEPT ![f] = v]
    BY <1>9 DEF EndWrite
  <2>2. \A g \in Frames : /\ writer'[g] = IF g = f THEN NoThread ELSE writer[g]
                          /\ data'[g] = IF g = f THEN v ELSE data[g]
    BY <2>1 DEF ClockInv, PoolInv, TypeOK
  <2>3. ASSUME NEW q \in Pages
        PROVE  /\ WriterOf(q)' = IF q = p THEN NoThread ELSE WriterOf(q)
               /\ Content(q)' = IF q = p THEN v ELSE Content(q)
    <3>1. CASE q = p
      BY <1>4, <1>6, <2>2, <3>1 DEF WriterOf, Content
    <3>2. CASE q # p
      <4>1. table[q] # NoFrame => table[q] \in Frames /\ table[q] # f
        BY <1>5, <3>2, Entry
      <4> QED BY <1>6, <2>2, <3>2, <4>1 DEF WriterOf, Content
    <3> QED BY <3>1, <3>2
  <2>4. WriterOf(p) = t
    BY <1>4, <2>1 DEF WriterOf
  <2> DEFINE w == [q \in Pages |-> WriterOf(q)]
             m == [q \in Pages |-> Content(q)]
  <2>5. w' = [w EXCEPT ![p] = NoThread] /\ m' = [m EXCEPT ![p] = v]
    BY <2>3
  <2>6. Memory!EndWrite(t, p, v)
    BY <1>3, <1>7, <2>4, <2>5 DEF Memory!EndWrite
  <2> QED BY <1>3, <2>6 DEF Memory!Next
<1> QED BY <1>8, <1>9

LEMMA DropMemory ==
  ASSUME ClockInv, NEW t \in Threads, NEW f \in Frames, DropGuard(t, f)
  PROVE  Memory!Next
<1> DEFINE p == guard[t][f]
<1>1. /\ p # NoPage /\ writer[f] # t
      /\ guard' = [guard EXCEPT ![t][f] = NoPage]
      /\ UNCHANGED <<disk, table, data, writer>>
  BY DEF DropGuard
<1>2. p \in Pages /\ p \in Held(t) /\ page[f] = p /\ table[p] = f /\ f # NoFrame
  BY <1>1, OneFrame, Values DEF Held, ClockInv, PoolInv, GuardsKeepTheirPage
<1>3. \A u \in Threads, g \in Frames :
        guard'[u][g] = IF u = t /\ g = f THEN NoPage ELSE guard[u][g]
  BY <1>1 DEF ClockInv, PoolInv, TypeOK
<1>4. \A g \in Frames : g # f => guard[t][g] # p
  <2> SUFFICES ASSUME NEW g \in Frames, g # f, guard[t][g] = p PROVE FALSE
    OBVIOUS
  <2>1. page[g] = page[f]
    BY <1>1, <1>2 DEF ClockInv, PoolInv, GuardsKeepTheirPage
  <2> QED BY <1>1, <1>2, <2>1, OneFrame
<1>5. Held(t)' = Held(t) \ {p}
  <2>1. Held(t)' \subseteq Held(t) \ {p}
    BY <1>3, <1>4 DEF Held
  <2>2. ASSUME NEW g \in Frames, guard[t][g] # NoPage, guard[t][g] # p
        PROVE  guard[t][g] \in Held(t)'
    BY <2>2, <1>3 DEF Held
  <2>3. Held(t) \ {p} \subseteq Held(t)'
    BY <2>2 DEF Held
  <2> QED BY <2>1, <2>3
<1>6. \A u \in Threads : u # t => Held(u)' = Held(u)
  BY <1>3 DEF Held
<1> DEFINE held == [u \in Threads |-> Held(u)]
<1>7. held' = [held EXCEPT ![t] = @ \ {p}]
  BY <1>5, <1>6
<1>8. \A q \in Pages : Content(q)' = Content(q) /\ WriterOf(q)' = WriterOf(q)
  BY <1>1 DEF Content, WriterOf
<1>9. WriterOf(p) # t
  BY <1>1, <1>2 DEF WriterOf
<1>10. Memory!Release(t, p)
  BY <1>2, <1>7, <1>8, <1>9 DEF Memory!Release
<1> QED BY <1>2, <1>10 DEF Memory!Next

(* Each step of a pool is a step of the memory or changes nothing of it. *)
LEMMA MemoryStep ==
  ASSUME ClockInv, ClockInv', NEW t \in Threads, Step(t)
  PROVE  Memory!Next \/ UNCHANGED Memory!memvars
<1>1. CASE Enter(t)
  <2>1. CASE PinHit(t)
    BY <1>1, <2>1, HitMemory DEF Enter, Memory!Next
  <2>2. CASE StartSweep(t)
    BY <2>2, QuietStutters DEF StartSweep, frameVars
  <2> QED BY <1>1, <2>1, <2>2 DEF Enter
<1>2. CASE Misses(t) \/ StartFlush(t) \/ SkipPinned(t) \/ SecondChance(t) \/ Reserve(t)
  BY <1>2, QuietStutters DEF Misses, StartFlush, SkipPinned, SecondChance, Reserve, frameVars
<1>3. CASE Load(t)
  BY <1>3, LoadMemory DEF Memory!Next
<1>4. CASE TableStep(t)
  BY <1>2, <1>3, <1>4, StoreMemory DEF TableStep
<1>5. CASE ClientStep(t)
  <2>1. ASSUME NEW p \in Pages, NEW m \in Modes, CallFetch(t, p, m)
        PROVE  UNCHANGED Memory!memvars
    BY <2>1, QuietStutters DEF CallFetch, frameVars
  <2>2. CASE CallFlush(t)
    BY <2>2, QuietStutters DEF CallFlush, frameVars
  <2> QED BY <1>5, <2>1, <2>2, WriteMemory, DropMemory DEF ClientStep, Begins
<1> QED BY <1>1, <1>2, <1>4, <1>5 DEF Step

(* The pools of buffer_pool.rs and buffer_pool_v2.rs implement PageMemory: no write *)
(* is lost and no stale page is handed out, whatever is evicted, read in, flushed,  *)
(* or fails to be written.                                                          *)
THEOREM PoolsImplementPageMemory ==
  (SpecV1 => ImplementsPageMemory) /\ (SpecV2 => ImplementsPageMemory)
<1>1. ClockInv /\ ClockInv' /\ UNCHANGED vars => UNCHANGED Memory!memvars
  BY QuietStutters DEF vars, frameVars
<1>2. ClockInv /\ ClockInv' /\ [NextV1]_vars => [Memory!Next]_Memory!memvars
  BY <1>1, BothSteps, MemoryStep
<1>3. ClockInv /\ ClockInv' /\ [NextV2]_vars => [Memory!Next]_Memory!memvars
  BY <1>1, BothSteps, MemoryStep
<1>4. SpecV1 => Memory!Spec
  BY <1>2, ClockInvHolds, MemoryInit, PTL DEF SpecV1, Memory!Spec
<1>5. SpecV2 => Memory!Spec
  BY <1>3, ClockInvHolds, MemoryInit, PTL DEF SpecV2, Memory!Spec
<1> QED BY <1>4, <1>5 DEF ImplementsPageMemory
=============================================================================
