----------------------------- MODULE BufferPoolV3 -----------------------------
(***************************************************************************)
(* The sharded CLOCK buffer pool of the database track (project1/          *)
(* buffer_pool_v3.rs): threads fetch pages through a table of entries, a   *)
(* miss reserves a victim frame and does its I/O with no table lock held,  *)
(* and everybody who runs into the reservation waits on its Pending.       *)
(*                                                                         *)
(* A step is one critical section (a shard lock, with the state lock of a  *)
(* frame inside it), one operation on an atomic, or one call of the store. *)
(* A Pending is named by the thread that created it: a thread has one at   *)
(* a time, and finish() releases whoever waits on it for good.             *)
(***************************************************************************)
EXTENDS Integers, FiniteSets

CONSTANTS Threads,     \* the threads that share the pool
          Pages,       \* the page identifiers
          Contents,    \* the contents a page can have
          NumFrames,   \* capacity
          NoThread,    \* "no thread"
          NoPage,      \* None of an Option<PageId>
          Zeroed,      \* the bytes of a frame nothing was loaded into
          Torn         \* what the store holds after a write cut in the middle

ASSUME PoolAssumption ==
  /\ NumFrames \in Nat \ {0}
  /\ NoThread \notin Threads
  /\ NoPage \notin Pages
  /\ Torn \notin Contents \union {Zeroed}
  /\ Zeroed \notin Contents

ASSUME ThreadsFinite == IsFiniteSet(Threads)

Frames == 0 .. NumFrames - 1
Modes == {"Normal", "BulkRead"}

(* FrameState *)
Empty == [kind |-> "Empty"]
Valid(p) == [kind |-> "Valid", page |-> p]
Evicting(t) == [kind |-> "Evicting", owner |-> t]

FrameStates == {Empty} \union {Valid(p) : p \in Pages} \union {Evicting(t) : t \in Threads}

(* Entry, and None for a page the table does not know *)
Absent == [kind |-> "Absent"]
Ready(f) == [kind |-> "Ready", frame |-> f]
Loading(t) == [kind |-> "Loading", owner |-> t]
Entries == {Absent} \union {Ready(f) : f \in Frames} \union {Loading(t) : t \in Threads}
             \union {Evicting(t) : t \in Threads}

VARIABLES
  disk,        \* the store: the content of every page
  table,       \* the entry of every page, all shards together
  state,       \* Frame.state
  data,        \* Frame.data
  pins,        \* Frame.pin_count
  referenced,  \* Frame.referenced
  dirty,       \* Frame.dirty
  hand,        \* clock_hand, modulo the number of frames
  guard,       \* guard[t][f]: the page_id of the guard t holds on frame f
  writer,      \* the thread inside PageGuard::write on the frame
  pc,          \* where a thread is in the pool's code; "idle" is outside
  call,        \* the locals of the call a thread is in
  waitOn       \* the owner of the Pending a thread waits on

frameVars == <<table, state, pins, referenced, dirty, data>>
threadVars == <<pc, call, waitOn>>
vars == <<disk, frameVars, hand, guard, writer, threadVars>>

(* Labels at which a call holds a pin of its own on frame call[t].cur. *)
Replacing == {"writeBack", "load", "removeOld", "publish"}
Reserving == Replacing \union {"restore"}
FlushPinned == {"flushCheck", "flushWrite", "flushClear", "flushUnpin", "flushAbort"}
Pinning == Reserving \union {"finish", "unreserve"} \union FlushPinned

(* Labels at which the thread's Pending exists and is not finished. *)
Sweeping == {"tick", "snapshot", "reserve", "scan", "awaitLoad"}
Claiming == Sweeping \union Reserving \union {"finish", "unreserve", "abandon", "giveUp"}

(* Where a wait() resumes. *)
Resume == [awaitEntry |-> "lookup", awaitLoad |-> "tick", awaitFlush |-> "flushPin"]

Labels == {"idle", "lookup", "claim"} \union Claiming \union FlushPinned
            \union {"flushPin"} \union DOMAIN Resume

Locals == [page : Pages \union {NoPage},  \* page_id of fetch_page
           mode : Modes,
           tick : 0 .. 2 * NumFrames,     \* frames the two sweeps have visited
           cur  : Frames,                 \* the frame at hand
           seen : Pages \union {NoPage}]  \* the page its state named

NoCall == [page |-> NoPage, mode |-> "Normal", tick |-> 0, cur |-> 0, seen |-> NoPage]

Held(t) == {guard[t][f] : f \in Frames} \ {NoPage}

Goto(t, label) == pc' = [pc EXCEPT ![t] = label]
Return(t) == Goto(t, "idle") /\ call' = [call EXCEPT ![t] = NoCall]
Wait(t, owner, label) == waitOn' = [waitOn EXCEPT ![t] = owner] /\ Goto(t, label)

(* Mutation of FinishPending: nobody is notified. *)
FinishNobody(t) == UNCHANGED waitOn

(* Pending::finish: notify_all, and a later wait() returns at once. *)
FinishPending(t) ==
  waitOn' = [u \in Threads |-> IF waitOn[u] = t THEN NoThread ELSE waitOn[u]]

Init ==
  /\ disk \in [Pages -> Contents]
  /\ table = [p \in Pages |-> Absent]
  /\ state = [f \in Frames |-> Empty]
  /\ data = [f \in Frames |-> Zeroed]
  /\ pins = [f \in Frames |-> 0]
  /\ referenced = [f \in Frames |-> FALSE]
  /\ dirty = [f \in Frames |-> FALSE]
  /\ hand = 0
  /\ guard = [t \in Threads |-> [f \in Frames |-> NoPage]]
  /\ writer = [f \in Frames |-> NoThread]
  /\ pc = [t \in Threads |-> "idle"]
  /\ call = [t \in Threads |-> NoCall]
  /\ waitOn = [t \in Threads |-> NoThread]

-----------------------------------------------------------------------------
(* fetch_page: hits, waits and claims *)

(* A thread asks for a page it holds no guard of. *)
Fetch(t, p, m) ==
  /\ pc[t] = "idle"
  /\ p \notin Held(t)
  /\ Goto(t, "lookup")
  /\ call' = [call EXCEPT ![t] = [NoCall EXCEPT !.page = p, !.mode = m]]
  /\ UNCHANGED <<disk, frameVars, hand, guard, writer, waitOn>>

Hit(t) ==
  LET entry == table[call[t].page]
      f == entry.frame
  IN /\ pc[t] = "lookup"
     /\ entry.kind = "Ready"
     /\ pins' = [pins EXCEPT ![f] = @ + 1]
     /\ referenced' = [referenced EXCEPT ![f] = @ \/ call[t].mode = "Normal"]
     /\ guard' = [guard EXCEPT ![t][f] = call[t].page]
     /\ Return(t)
     /\ UNCHANGED <<disk, table, state, dirty, data, hand, writer, waitOn>>

WaitForEntry(t) ==
  LET entry == table[call[t].page] IN
  /\ pc[t] = "lookup"
  /\ entry.kind \in {"Loading", "Evicting"}
  /\ Wait(t, entry.owner, "awaitEntry")
  /\ UNCHANGED <<disk, frameVars, hand, guard, writer, call>>

Miss(t) ==
  /\ pc[t] = "lookup"
  /\ table[call[t].page].kind = "Absent"
  /\ Goto(t, "claim")
  /\ UNCHANGED <<disk, frameVars, hand, guard, writer, call, waitOn>>

Claim(t) ==
  LET p == call[t].page IN
  /\ pc[t] = "claim"
  /\ IF table[p].kind = "Absent"
       THEN table' = [table EXCEPT ![p] = Loading(t)] /\ Goto(t, "tick")
       ELSE UNCHANGED table /\ Goto(t, "lookup")
  /\ UNCHANGED <<disk, state, pins, referenced, dirty, data, hand, guard, writer,
                 call, waitOn>>

Wake(t) ==
  /\ pc[t] \in DOMAIN Resume
  /\ waitOn[t] = NoThread
  /\ Goto(t, Resume[pc[t]])
  /\ UNCHANGED <<disk, frameVars, hand, guard, writer, call, waitOn>>

-----------------------------------------------------------------------------
(* choose_victim and try_reserve *)

FirstSweep(t) == call[t].tick <= NumFrames

Tick(t) ==
  /\ pc[t] = "tick"
  /\ call' = [call EXCEPT ![t].cur = hand, ![t].tick = @ + 1]
  /\ hand' = (hand + 1) % NumFrames
  /\ Goto(t, "snapshot")
  /\ UNCHANGED <<disk, frameVars, guard, writer, waitOn>>

(* This frame is not for the taking: on to the next one, and after two
   sweeps to the search for an active load. *)
Pass(t) ==
  IF call[t].tick = 2 * NumFrames
    THEN Goto(t, "scan") /\ call' = [call EXCEPT ![t].cur = 0, ![t].seen = NoPage]
    ELSE Goto(t, "tick") /\ call' = [call EXCEPT ![t].cur = 0, ![t].seen = NoPage]

Snapshot(t) ==
  LET s == state[call[t].cur] IN
  /\ pc[t] = "snapshot"
  /\ \/ s.kind = "Evicting" /\ Pass(t)
     \/ s.kind = "Empty" /\ Goto(t, "reserve") /\ UNCHANGED call
     \/ s.kind = "Valid" /\ Goto(t, "reserve") /\ call' = [call EXCEPT ![t].seen = s.page]
  /\ UNCHANGED <<disk, frameVars, hand, guard, writer, waitOn>>

(* Mutation of Reservable: no look at the state. *)
ReservableUnchecked(t) == pins[call[t].cur] = 0

(* The recheck under the locks: the frame is what the snapshot said, and
   the compare_exchange finds no pin. *)
Reservable(t) ==
  LET f == call[t].cur
      p == call[t].seen
  IN /\ IF p = NoPage THEN state[f] = Empty
                      ELSE state[f] = Valid(p) /\ table[p] = Ready(f)
     /\ pins[f] = 0

ReserveFails(t) ==
  /\ pc[t] = "reserve"
  /\ ~Reservable(t)
  /\ Pass(t)
  /\ UNCHANGED <<disk, frameVars, hand, guard, writer, waitOn>>

SecondChance(t) ==
  LET f == call[t].cur IN
  /\ pc[t] = "reserve"
  /\ Reservable(t)
  /\ FirstSweep(t) /\ referenced[f]
  /\ referenced' = [referenced EXCEPT ![f] = FALSE]
  /\ Pass(t)
  /\ UNCHANGED <<disk, table, state, pins, dirty, data, hand, guard, writer, waitOn>>

(* The victim is reserved; a dirty one has to be written back first. *)
Reserve(t) ==
  LET f == call[t].cur
      p == call[t].seen
  IN /\ pc[t] = "reserve"
     /\ Reservable(t)
     /\ ~(FirstSweep(t) /\ referenced[f])
     /\ pins' = [pins EXCEPT ![f] = 1]
     /\ state' = [state EXCEPT ![f] = Evicting(t)]
     /\ table' = IF p = NoPage THEN table ELSE [table EXCEPT ![p] = Evicting(t)]
     /\ Goto(t, IF p # NoPage /\ dirty[f] THEN "writeBack" ELSE "load")
     /\ call' = [call EXCEPT ![t].tick = 0]
     /\ UNCHANGED <<disk, referenced, dirty, data, hand, guard, writer, waitOn>>

(* wait_for_active_load: the frames one by one, each under its own lock. *)
Scan(t) ==
  LET f == call[t].cur IN
  /\ pc[t] = "scan"
  /\ IF state[f].kind = "Evicting"
       THEN /\ Wait(t, state[f].owner, "awaitLoad")
            /\ call' = [call EXCEPT ![t].tick = 0, ![t].cur = 0]
       ELSE /\ IF f = NumFrames - 1
                 THEN Goto(t, "abandon") /\ call' = [call EXCEPT ![t].cur = 0]
                 ELSE UNCHANGED pc /\ call' = [call EXCEPT ![t].cur = f + 1]
            /\ UNCHANGED waitOn
  /\ UNCHANGED <<disk, frameVars, hand, guard, writer>>

-----------------------------------------------------------------------------
(* load_claimed with a reserved frame *)

(* What write_page may leave behind when it returns an error: the bytes that were
   there, the new ones, or a page cut in the middle, unless the two are the same. *)
AfterFailedWrite(p, v) == IF disk[p] = v THEN {v} ELSE {disk[p], v, Torn}

WriteBack(t) ==
  LET f == call[t].cur IN
  /\ pc[t] = "writeBack"
  /\ disk' = [disk EXCEPT ![call[t].seen] = data[f]]
  /\ dirty' = [dirty EXCEPT ![f] = FALSE]
  /\ Goto(t, "load")
  /\ UNCHANGED <<table, state, pins, referenced, data, hand, guard, writer, call, waitOn>>

WriteBackFails(t) ==
  LET p == call[t].seen IN
  /\ pc[t] = "writeBack"
  /\ \E v \in AfterFailedWrite(p, data[call[t].cur]) : disk' = [disk EXCEPT ![p] = v]
  /\ Goto(t, "restore")
  /\ UNCHANGED <<frameVars, hand, guard, writer, call, waitOn>>

(* read_page into a buffer of its own, then the swap of the frame's data. *)
Load(t) ==
  LET f == call[t].cur IN
  /\ pc[t] = "load"
  /\ disk[call[t].page] # Torn
  /\ data' = [data EXCEPT ![f] = disk[call[t].page]]
  /\ dirty' = [dirty EXCEPT ![f] = FALSE]
  /\ referenced' = [referenced EXCEPT ![f] = call[t].mode = "Normal"]
  /\ Goto(t, IF call[t].seen = NoPage THEN "publish" ELSE "removeOld")
  /\ UNCHANGED <<disk, table, state, pins, hand, guard, writer, call, waitOn>>

(* Mutation of LoadFails: the load is tried again, with the write-back. *)
LoadFailsRetries(t) ==
  /\ pc[t] = "load"
  /\ Goto(t, IF call[t].seen = NoPage THEN "restore" ELSE "writeBack")
  /\ UNCHANGED <<disk, frameVars, hand, guard, writer, call, waitOn>>

LoadFails(t) ==
  /\ pc[t] = "load"
  /\ Goto(t, "restore")
  /\ UNCHANGED <<disk, frameVars, hand, guard, writer, call, waitOn>>

RemoveOld(t) ==
  /\ pc[t] = "removeOld"
  /\ table' = [table EXCEPT ![call[t].seen] = Absent]
  /\ Goto(t, "publish")
  /\ UNCHANGED <<disk, state, pins, referenced, dirty, data, hand, guard, writer,
                 call, waitOn>>

Publish(t) ==
  LET f == call[t].cur
      p == call[t].page
  IN /\ pc[t] = "publish"
     /\ state' = [state EXCEPT ![f] = Valid(p)]
     /\ table' = [table EXCEPT ![p] = Ready(f)]
     /\ Goto(t, "finish")
     /\ UNCHANGED <<disk, pins, referenced, dirty, data, hand, guard, writer, call, waitOn>>

(* The pin of the reservation becomes the pin of the guard. *)
Finish(t) ==
  /\ pc[t] = "finish"
  /\ FinishPending(t)
  /\ guard' = [guard EXCEPT ![t][call[t].cur] = call[t].page]
  /\ Return(t)
  /\ UNCHANGED <<disk, frameVars, hand, writer>>

(* restore_failed_load *)
Restore(t) ==
  LET f == call[t].cur
      p == call[t].seen
  IN /\ pc[t] = "restore"
     /\ state' = [state EXCEPT ![f] = IF p = NoPage THEN Empty ELSE Valid(p)]
     /\ table' = IF p = NoPage THEN table ELSE [table EXCEPT ![p] = Ready(f)]
     /\ Goto(t, "unreserve")
     /\ UNCHANGED <<disk, pins, referenced, dirty, data, hand, guard, writer, call, waitOn>>

Unreserve(t) ==
  /\ pc[t] = "unreserve"
  /\ pins' = [pins EXCEPT ![call[t].cur] = @ - 1]
  /\ Goto(t, "abandon")
  /\ UNCHANGED <<disk, table, state, referenced, dirty, data, hand, guard, writer,
                 call, waitOn>>

(* The claim is dropped, after a failed load and when no frame was found. *)
Abandon(t) ==
  /\ pc[t] = "abandon"
  /\ table' = [table EXCEPT ![call[t].page] = Absent]
  /\ Goto(t, "giveUp")
  /\ UNCHANGED <<disk, state, pins, referenced, dirty, data, hand, guard, writer,
                 call, waitOn>>

GiveUp(t) ==
  /\ pc[t] = "giveUp"
  /\ FinishPending(t)
  /\ Return(t)
  /\ UNCHANGED <<disk, frameVars, hand, guard, writer>>

-----------------------------------------------------------------------------
(* PageGuard *)

(* Mutation of ReadLocked: the read lock ends before dirty is cleared. *)
NeverReadLocked(f) == FALSE

(* A flush copies and writes the data under the data read lock. *)
ReadLocked(f) == \E u \in Threads : pc[u] = "flushClear" /\ call[u].cur = f

(* write() up to the start of the closure, which may use the pool itself. *)
BeginWrite(t, f) ==
  /\ pc[t] = "idle"
  /\ guard[t][f] # NoPage
  /\ \A g \in Frames : writer[g] # t
  /\ writer[f] = NoThread /\ ~ReadLocked(f)
  /\ writer' = [writer EXCEPT ![f] = t]
  /\ dirty' = [dirty EXCEPT ![f] = TRUE]
  /\ UNCHANGED <<disk, table, state, pins, referenced, data, hand, guard, threadVars>>

EndWrite(t, f, v) ==
  /\ pc[t] = "idle"
  /\ writer[f] = t
  /\ data' = [data EXCEPT ![f] = v]
  /\ writer' = [writer EXCEPT ![f] = NoThread]
  /\ UNCHANGED <<disk, table, state, pins, referenced, dirty, hand, guard, threadVars>>

DropGuard(t, f) ==
  /\ pc[t] = "idle"
  /\ guard[t][f] # NoPage
  /\ writer[f] # t
  /\ guard' = [guard EXCEPT ![t][f] = NoPage]
  /\ pins' = [pins EXCEPT ![f] = @ - 1]
  /\ UNCHANGED <<disk, table, state, referenced, dirty, data, hand, writer, threadVars>>

-----------------------------------------------------------------------------
(* flush_all *)

(* Never from inside a write closure: the thread would wait for itself. *)
FlushAll(t) ==
  /\ pc[t] = "idle"
  /\ \A f \in Frames : writer[f] # t
  /\ Goto(t, "flushPin")
  /\ UNCHANGED <<disk, frameVars, hand, guard, writer, call, waitOn>>

(* Mutation of NextFrame: the last frame is left out. *)
NextFrameButLast(t) ==
  IF call[t].cur + 2 >= NumFrames
    THEN Return(t)
    ELSE /\ Goto(t, "flushPin")
         /\ call' = [call EXCEPT ![t].cur = @ + 1, ![t].seen = NoPage]

NextFrame(t) ==
  IF call[t].cur = NumFrames - 1
    THEN Return(t)
    ELSE /\ Goto(t, "flushPin")
         /\ call' = [call EXCEPT ![t].cur = @ + 1, ![t].seen = NoPage]

FlushPin(t) ==
  LET f == call[t].cur
      s == state[f]
  IN /\ pc[t] = "flushPin"
     /\ \/ /\ s.kind = "Empty"
           /\ NextFrame(t)
           /\ UNCHANGED <<pins, waitOn>>
        \/ /\ s.kind = "Valid"
           /\ pins' = [pins EXCEPT ![f] = @ + 1]
           /\ call' = [call EXCEPT ![t].seen = s.page]
           /\ Goto(t, "flushCheck")
           /\ UNCHANGED waitOn
        \/ /\ s.kind = "Evicting"
           /\ Wait(t, s.owner, "awaitFlush")
           /\ UNCHANGED <<pins, call>>
     /\ UNCHANGED <<disk, table, state, referenced, dirty, data, hand, guard, writer>>

FlushCheck(t) ==
  /\ pc[t] = "flushCheck"
  /\ Goto(t, IF dirty[call[t].cur] THEN "flushWrite" ELSE "flushUnpin")
  /\ UNCHANGED <<disk, frameVars, hand, guard, writer, call, waitOn>>

FlushWrite(t) ==
  LET f == call[t].cur IN
  /\ pc[t] = "flushWrite"
  /\ writer[f] = NoThread
  /\ disk' = [disk EXCEPT ![call[t].seen] = data[f]]
  /\ Goto(t, "flushClear")
  /\ UNCHANGED <<frameVars, hand, guard, writer, call, waitOn>>

FlushWriteFails(t) ==
  LET f == call[t].cur
      p == call[t].seen
  IN /\ pc[t] = "flushWrite"
     /\ writer[f] = NoThread
     /\ \E v \in AfterFailedWrite(p, data[f]) : disk' = [disk EXCEPT ![p] = v]
     /\ Goto(t, "flushAbort")
     /\ UNCHANGED <<frameVars, hand, guard, writer, call, waitOn>>

FlushClear(t) ==
  /\ pc[t] = "flushClear"
  /\ dirty' = [dirty EXCEPT ![call[t].cur] = FALSE]
  /\ Goto(t, "flushUnpin")
  /\ UNCHANGED <<disk, table, state, pins, referenced, data, hand, guard, writer,
                 call, waitOn>>

FlushUnpin(t) ==
  /\ pc[t] = "flushUnpin"
  /\ pins' = [pins EXCEPT ![call[t].cur] = @ - 1]
  /\ NextFrame(t)
  /\ UNCHANGED <<disk, table, state, referenced, dirty, data, hand, guard, writer, waitOn>>

FlushAbort(t) ==
  /\ pc[t] = "flushAbort"
  /\ pins' = [pins EXCEPT ![call[t].cur] = @ - 1]
  /\ Return(t)
  /\ UNCHANGED <<disk, table, state, referenced, dirty, data, hand, guard, writer, waitOn>>

-----------------------------------------------------------------------------
(* What a thread does inside a call: it never waits for a client's choice
   except for the end of a write closure. *)
PoolStep(t) ==
  \/ Hit(t) \/ WaitForEntry(t) \/ Miss(t) \/ Claim(t) \/ Wake(t)
  \/ Tick(t) \/ Snapshot(t) \/ ReserveFails(t) \/ SecondChance(t) \/ Reserve(t)
  \/ Scan(t)
  \/ WriteBack(t) \/ WriteBackFails(t) \/ Load(t) \/ LoadFails(t) \/ RemoveOld(t)
  \/ Publish(t) \/ Finish(t) \/ Restore(t) \/ Unreserve(t) \/ Abandon(t) \/ GiveUp(t)
  \/ FlushPin(t) \/ FlushCheck(t) \/ FlushWrite(t) \/ FlushWriteFails(t)
  \/ FlushClear(t) \/ FlushUnpin(t) \/ FlushAbort(t)

CallStep(t) ==
  \/ \E p \in Pages, m \in Modes : Fetch(t, p, m)
  \/ FlushAll(t)

GuardStep(t) ==
  \E f \in Frames :
    \/ BeginWrite(t, f)
    \/ \E v \in Contents : EndWrite(t, f, v)
    \/ DropGuard(t, f)

Next == \E t \in Threads : PoolStep(t) \/ CallStep(t) \/ GuardStep(t)

Spec == Init /\ [][Next]_vars

(* A thread inside a call runs on, and a write closure ends. *)
Fairness ==
  \A t \in Threads :
    /\ WF_vars(PoolStep(t))
    /\ WF_vars(\E f \in Frames, v \in Contents : EndWrite(t, f, v))

FairSpec == Spec /\ Fairness

-----------------------------------------------------------------------------
(* Safety *)

(* Every variable stays within its type. *)
TypeOK ==
  /\ disk \in [Pages -> Contents \union {Torn}]
  /\ table \in [Pages -> Entries]
  /\ state \in [Frames -> FrameStates]
  /\ data \in [Frames -> Contents \union {Zeroed}]
  /\ pins \in [Frames -> Nat]
  /\ referenced \in [Frames -> BOOLEAN]
  /\ dirty \in [Frames -> BOOLEAN]
  /\ hand \in Frames
  /\ guard \in [Threads -> [Frames -> Pages \union {NoPage}]]
  /\ writer \in [Frames -> Threads \union {NoThread}]
  /\ pc \in [Threads -> Labels]
  /\ call \in [Threads -> Locals]
  /\ waitOn \in [Threads -> Threads \union {NoThread}]

GuardsOn(f) == {t \in Threads : guard[t][f] # NoPage}
CallsOn(f) == {t \in Threads : pc[t] \in Pinning /\ call[t].cur = f}

(* pin_count is the number of guards on the frame plus the reservations and
   flush pins of the calls under way: no path of a call, the error paths
   included, leaks a pin or gives one back twice (the debug_assert of Drop). *)
PinsAccounted ==
  \A f \in Frames : pins[f] = Cardinality(GuardsOn(f)) + Cardinality(CallsOn(f))

(* The page table and the frame states tell one story although every step
   changes at most one page's entry: an entry is Ready exactly when the frame
   it names is Valid for that page (so a page is never in two frames), and
   Loading and Evicting marks belong to a call at the matching point.  The
   expect() of restore_failed_load, that the old entry is still there, is an
   instance. *)
TableMatchesFrames ==
  /\ \A p \in Pages, f \in Frames : table[p] = Ready(f) <=> state[f] = Valid(p)
  /\ \A t \in Threads, f \in Frames :
       state[f] = Evicting(t) <=> pc[t] \in Reserving /\ call[t].cur = f
  /\ \A t \in Threads, p \in Pages :
       table[p] = Evicting(t) <=> pc[t] \in Reserving \ {"publish"} /\ call[t].seen = p
  /\ \A t \in Threads, p \in Pages :
       table[p] = Loading(t) <=> pc[t] \in Claiming \ {"finish", "giveUp"} /\ call[t].page = p

(* A guard keeps its page: the frame it points at stays Valid for the page it
   was returned for until the guard is dropped, whatever evictions, failed
   loads and flushes go on; the same for the page a flush is writing and for
   the page a finished load is about to hand out. *)
GuardsKeepTheirPage ==
  /\ \A t \in Threads, f \in Frames :
       guard[t][f] # NoPage => state[f] = Valid(guard[t][f])
  /\ \A t \in Threads :
       /\ pc[t] \in FlushPinned => state[call[t].cur] = Valid(call[t].seen)
       /\ pc[t] = "finish" => state[call[t].cur] = Valid(call[t].page)

(* A frame that is not marked dirty has the content its page has in the
   store, so an eviction that skips the write-back loses nothing. *)
CleanFramesMatchDisk ==
  \A p \in Pages, f \in Frames :
    state[f] = Valid(p) /\ ~dirty[f] => data[f] = disk[p]

(* Whoever waits will be woken: the Pending it waits on belongs to a call that
   still has to finish it, and a thread that waits for a frame waits for a call
   that has its frame and waits for nobody, so that waits never form a cycle. *)
WaitsAreAcyclic ==
  \A t \in Threads : waitOn[t] # NoThread =>
    /\ pc[t] \in DOMAIN Resume
    /\ pc[waitOn[t]] \in Claiming
    /\ pc[t] # "awaitEntry" => pc[waitOn[t]] \notin Sweeping

(* The locals a label relies on are there. *)
LocalsOK ==
  \A t \in Threads :
    /\ pc[t] \in {"lookup", "claim", "awaitEntry"} \union Claiming => call[t].page \in Pages
    /\ pc[t] \in {"writeBack", "removeOld"} \union FlushPinned => call[t].seen \in Pages
    /\ pc[t] = "tick" => call[t].tick < 2 * NumFrames
    /\ pc[t] \in {"lookup", "claim", "awaitEntry", "awaitLoad"} => call[t].tick = 0

(* A call of fetch_page is for a page its thread has no guard of. *)
FetchIsNew ==
  \A t \in Threads, f \in Frames :
    pc[t] \in {"lookup", "claim", "awaitEntry"} \union Claiming
      => guard[t][f] # call[t].page

(* A frame that has a page has a content that was loaded or written: the zero
   bytes a frame starts with never reach the store. *)
FramesFilled ==
  /\ \A p \in Pages, f \in Frames : state[f] = Valid(p) => data[f] \in Contents
  /\ \A t \in Threads :
       pc[t] \in Reserving /\ (call[t].seen # NoPage \/ pc[t] = "publish")
         => data[call[t].cur] \in Contents

(* The inductive invariant: who holds which frame, in full. *)
OwnershipInv ==
  /\ TypeOK
  /\ LocalsOK
  /\ FetchIsNew
  /\ FramesFilled
  /\ PinsAccounted
  /\ TableMatchesFrames
  /\ GuardsKeepTheirPage

-----------------------------------------------------------------------------
(* Refinement: the pool is a memory of pages *)

(* Where the current content of a page is: in a frame, also in one that is
   reserved for another page but not yet overwritten, else in the store. *)
InFrame(p, f) ==
  \/ state[f] = Valid(p)
  \/ /\ state[f].kind = "Evicting"
     /\ call[state[f].owner].seen = p
     /\ pc[state[f].owner] \in {"writeBack", "load", "restore"}

Content(p) ==
  LET copies == {f \in Frames : InFrame(p, f)}
  IN IF copies = {} THEN disk[p] ELSE data[CHOOSE f \in copies : TRUE]

PageWriter(p) ==
  LET copies == {f \in Frames : state[f] = Valid(p)}
  IN IF copies = {} THEN NoThread ELSE writer[CHOOSE f \in copies : TRUE]

Memory == INSTANCE PageMemory WITH
  mem <- [p \in Pages |-> Content(p)],
  held <- [t \in Threads |-> Held(t)],
  writer <- [p \in Pages |-> PageWriter(p)],
  Capacity <- NumFrames

(* The pool implements PageMemory: a fetch returns the page with its latest
   content, no write is lost to an eviction, to a failed load or to a flush,
   and writers of one page exclude each other. *)
ImplementsPageMemory == Memory!Spec

(* What one client can do to delay another: a call, or a write closure. *)
Begins(t) == CallStep(t) \/ \E f \in Frames : BeginWrite(t, f)

(* A reservation ends: no frame stays Evicting for good, on the error paths
   either.  And every fetch_page and flush_all returns once the clients begin
   nothing new: no wakeup is lost, no two threads wait for each other, no retry
   goes on without cause.  (New calls may overtake a retrying fetch for ever.) *)
CallsReturn ==
  /\ \A f \in Frames : []<>(state[f].kind # "Evicting")
  /\ <>[][\A t \in Threads : ~Begins(t)]_vars =>
       \A t \in Threads : pc[t] # "idle" ~> pc[t] = "idle"
=============================================================================
