-------------------------- MODULE BufferPoolV3_proofs --------------------------
(***************************************************************************)
(* For every number of threads, pages, contents and frames: OwnershipInv   *)
(* is an invariant of BufferPoolV3, and waits never form a cycle; if no    *)
(* failing write tears a page, clean frames have what the store has, and   *)
(* the pool implements PageMemory.                                         *)
(***************************************************************************)
EXTENDS FlushHistory, FiniteSetTheorems, TLAPS

(* States and entries are told apart by their kind, and what they carry can
   be read back: all that the proofs need to know of the record values. *)
LEMMA Constructors ==
  /\ Empty.kind = "Empty" /\ Absent.kind = "Absent"
  /\ \A p : Valid(p).kind = "Valid" /\ Valid(p).page = p
  /\ \A t : Evicting(t).kind = "Evicting" /\ Evicting(t).owner = t
  /\ \A t : Loading(t).kind = "Loading" /\ Loading(t).owner = t
  /\ \A f : Ready(f).kind = "Ready" /\ Ready(f).frame = f
  BY DEF Empty, Absent, Valid, Evicting, Loading, Ready

LEMMA FrameFacts == NumFrames \in Nat /\ NumFrames > 0 /\ 0 \in Frames
  BY PoolAssumption DEF Frames

LEMMA TInit == Init => TypeOK
  BY PoolAssumption, FrameFacts
     DEF Init, TypeOK, NoCall, Locals, Modes, Labels, Entries, FrameStates

(* What a frame's state and a page's entry can be. *)
LEMMA StateCases ==
  ASSUME TypeOK, NEW f \in Frames
  PROVE  /\ state[f].kind = "Empty" => state[f] = Empty
         /\ state[f].kind = "Valid" => state[f].page \in Pages /\ state[f] = Valid(state[f].page)
         /\ state[f].kind = "Evicting" =>
              state[f].owner \in Threads /\ state[f] = Evicting(state[f].owner)
         /\ state[f].kind \in {"Empty", "Valid", "Evicting"}
<1>1. \/ state[f] = Empty
      \/ \E p \in Pages : state[f] = Valid(p)
      \/ \E t \in Threads : state[f] = Evicting(t)
  BY DEF TypeOK, FrameStates
<1> QED BY <1>1, Constructors

LEMMA EntryCases ==
  ASSUME TypeOK, NEW p \in Pages
  PROVE  /\ table[p].kind = "Absent" => table[p] = Absent
         /\ table[p].kind = "Ready" => table[p].frame \in Frames /\ table[p] = Ready(table[p].frame)
         /\ table[p].kind = "Loading" =>
              table[p].owner \in Threads /\ table[p] = Loading(table[p].owner)
         /\ table[p].kind = "Evicting" =>
              table[p].owner \in Threads /\ table[p] = Evicting(table[p].owner)
         /\ table[p].kind \in {"Absent", "Ready", "Loading", "Evicting"}
<1>1. \/ table[p] = Absent
      \/ \E f \in Frames : table[p] = Ready(f)
      \/ \E t \in Threads : table[p] = Loading(t)
      \/ \E t \in Threads : table[p] = Evicting(t)
  BY DEF TypeOK, Entries
<1> QED BY <1>1, Constructors


LEMMA LocalTypes ==
  ASSUME TypeOK, NEW t \in Threads
  PROVE  /\ call[t].cur \in Frames
         /\ call[t].tick \in 0 .. 2 * NumFrames
         /\ call[t].page \in Pages \union {NoPage}
         /\ call[t].seen \in Pages \union {NoPage}
         /\ call[t].mode \in Modes
  BY DEF TypeOK, Locals

LEMMA NoCallType == NoCall \in Locals
  BY FrameFacts DEF NoCall, Locals, Modes

LEMMA GotoType ==
  ASSUME TypeOK, NEW t \in Threads, NEW l \in Labels, Goto(t, l)
  PROVE  pc' \in [Threads -> Labels]
  BY DEF Goto, TypeOK

LEMMA ReturnType ==
  ASSUME TypeOK, NEW t \in Threads, Return(t)
  PROVE  pc' \in [Threads -> Labels] /\ call' \in [Threads -> Locals]
  BY NoCallType DEF Return, Goto, TypeOK, Labels

(* The updates of the locals that the actions make. *)
LEMMA SetCur ==
  ASSUME TypeOK, NEW t \in Threads, NEW c \in Frames
  PROVE  [call EXCEPT ![t].cur = c] \in [Threads -> Locals]
<1>1. [call[t] EXCEPT !.cur = c] \in Locals
  BY DEF TypeOK, Locals
<1> QED BY <1>1 DEF TypeOK

LEMMA SetTick ==
  ASSUME TypeOK, NEW t \in Threads, NEW k \in 0 .. 2 * NumFrames
  PROVE  [call EXCEPT ![t].tick = k] \in [Threads -> Locals]
<1>1. [call[t] EXCEPT !.tick = k] \in Locals
  BY DEF TypeOK, Locals
<1> QED BY <1>1 DEF TypeOK

LEMMA SetSeen ==
  ASSUME TypeOK, NEW t \in Threads, NEW p \in Pages \union {NoPage}
  PROVE  [call EXCEPT ![t].seen = p] \in [Threads -> Locals]
<1>1. [call[t] EXCEPT !.seen = p] \in Locals
  BY ZenonT(60) DEF TypeOK, Locals
<1> QED BY <1>1 DEF TypeOK

LEMMA SetCurTick ==
  ASSUME TypeOK, NEW t \in Threads, NEW c \in Frames, NEW k \in 0 .. 2 * NumFrames
  PROVE  [call EXCEPT ![t].cur = c, ![t].tick = k] \in [Threads -> Locals]
<1>1. [call[t] EXCEPT !.cur = c, !.tick = k] \in Locals
  BY ZenonT(60) DEF TypeOK, Locals
<1> QED BY <1>1 DEF TypeOK

LEMMA SetTickCur ==
  ASSUME TypeOK, NEW t \in Threads, NEW k \in 0 .. 2 * NumFrames, NEW c \in Frames
  PROVE  [call EXCEPT ![t].tick = k, ![t].cur = c] \in [Threads -> Locals]
<1>1. [call[t] EXCEPT !.tick = k, !.cur = c] \in Locals
  BY ZenonT(60) DEF TypeOK, Locals
<1> QED BY <1>1 DEF TypeOK

LEMMA SetCurSeen ==
  ASSUME TypeOK, NEW t \in Threads, NEW c \in Frames, NEW p \in Pages \union {NoPage}
  PROVE  [call EXCEPT ![t].cur = c, ![t].seen = p] \in [Threads -> Locals]
<1>1. [call[t] EXCEPT !.cur = c, !.seen = p] \in Locals
  BY ZenonT(60) DEF TypeOK, Locals
<1> QED BY <1>1 DEF TypeOK

LEMMA PassType ==
  ASSUME TypeOK, NEW t \in Threads, Pass(t)
  PROVE  pc' \in [Threads -> Labels] /\ call' \in [Threads -> Locals]
<1>1. 0 \in Frames /\ NoPage \in Pages \union {NoPage}
  BY FrameFacts
<1>2. call' \in [Threads -> Locals]
  <2>1. call' = [call EXCEPT ![t].cur = 0, ![t].seen = NoPage]
    BY DEF Pass
  <2> QED BY <2>1, <1>1, SetCurSeen
<1>3. pc' \in [Threads -> Labels]
  BY DEF Pass, Goto, TypeOK, Labels, Claiming, Sweeping
<1> QED BY <1>2, <1>3

LEMMA Variants ==
  /\ Absent \in Entries /\ Empty \in FrameStates
  /\ \A f \in Frames : Ready(f) \in Entries
  /\ \A t \in Threads : Loading(t) \in Entries /\ Evicting(t) \in Entries /\ Evicting(t) \in FrameStates
  /\ \A p \in Pages : Valid(p) \in FrameStates
  BY DEF Entries, FrameStates

(* The labels at which the page asked for, or the page seen in a frame, is
   known to be one. *)
LEMMA PageKnown ==
  ASSUME LocalsOK, NEW t \in Threads,
         pc[t] \in {"lookup", "claim", "awaitEntry"} \union Claiming
  PROVE  call[t].page \in Pages
  BY DEF LocalsOK

LEMMA SeenKnown ==
  ASSUME LocalsOK, NEW t \in Threads,
         pc[t] \in {"writeBack", "removeOld"} \union FlushPinned
  PROVE  call[t].seen \in Pages
  BY DEF LocalsOK

-----------------------------------------------------------------------------
(* Counting pins *)

LEMMA HoldersFinite ==
  ASSUME NEW f \in Frames
  PROVE  /\ IsFiniteSet(GuardsOn(f)) /\ Cardinality(GuardsOn(f)) \in Nat
         /\ IsFiniteSet(CallsOn(f)) /\ Cardinality(CallsOn(f)) \in Nat
<1>1. GuardsOn(f) \in SUBSET Threads /\ CallsOn(f) \in SUBSET Threads
  BY DEF GuardsOn, CallsOn
<1>2. IsFiniteSet(GuardsOn(f)) /\ IsFiniteSet(CallsOn(f))
  BY <1>1, ThreadsFinite, FS_Subset
<1> QED BY <1>2, FS_CardinalityType

(* A frame with a guard or with a call on it has a pin. *)
LEMMA GuardPinned ==
  ASSUME TypeOK, PinsAccounted, NEW t \in Threads, NEW f \in Frames, guard[t][f] # NoPage
  PROVE  pins[f] > 0 /\ pins[f] - 1 \in Nat
<1>1. GuardsOn(f) # {}
  BY DEF GuardsOn
<1>2. Cardinality(GuardsOn(f)) # 0
  BY <1>1, HoldersFinite, FS_EmptySet
<1>3. pins[f] = Cardinality(GuardsOn(f)) + Cardinality(CallsOn(f))
  BY DEF PinsAccounted
<1> QED BY <1>2, <1>3, HoldersFinite

LEMMA CallPinned ==
  ASSUME TypeOK, PinsAccounted, NEW t \in Threads, pc[t] \in Pinning
  PROVE  pins[call[t].cur] > 0 /\ pins[call[t].cur] - 1 \in Nat
<1> DEFINE f == call[t].cur
<1>0. f \in Frames
  BY LocalTypes
<1>1. CallsOn(f) # {}
  BY DEF CallsOn
<1>2. Cardinality(CallsOn(f)) # 0
  BY <1>0, <1>1, HoldersFinite, FS_EmptySet
<1>3. pins[f] = Cardinality(GuardsOn(f)) + Cardinality(CallsOn(f))
  BY <1>0 DEF PinsAccounted
<1> QED BY <1>0, <1>2, <1>3, HoldersFinite


(* A step that leaves who is on which frame alone. *)
LEMMA PinsStay ==
  ASSUME TypeOK, PinsAccounted, NEW t \in Threads,
         guard' = guard, pins' = pins,
         pc'[t] \in Pinning <=> pc[t] \in Pinning,
         pc[t] \in Pinning => call'[t].cur = call[t].cur,
         \A u \in Threads \ {t} : pc'[u] = pc[u] /\ call'[u] = call[u]
  PROVE  PinsAccounted'
<1> SUFFICES ASSUME NEW f \in Frames
             PROVE  pins'[f] = Cardinality(GuardsOn(f)') + Cardinality(CallsOn(f)')
  BY DEF PinsAccounted
<1>1. GuardsOn(f)' = GuardsOn(f)
  BY DEF GuardsOn
<1>2. CallsOn(f)' = CallsOn(f)
  BY DEF CallsOn
<1> QED BY <1>1, <1>2 DEF PinsAccounted

(* A call that takes a pin, and one that gives it back. *)
LEMMA CallTakesPin ==
  ASSUME TypeOK, PinsAccounted, NEW t \in Threads, NEW f \in Frames,
         guard' = guard, pins' = [pins EXCEPT ![f] = @ + 1],
         pc[t] \notin Pinning, pc'[t] \in Pinning, call'[t].cur = f,
         \A u \in Threads \ {t} : pc'[u] = pc[u] /\ call'[u] = call[u]
  PROVE  PinsAccounted'
<1> SUFFICES ASSUME NEW g \in Frames
             PROVE  pins'[g] = Cardinality(GuardsOn(g)') + Cardinality(CallsOn(g)')
  BY DEF PinsAccounted
<1>1. GuardsOn(g)' = GuardsOn(g)
  BY DEF GuardsOn
<1>2. CASE g = f
  <2>1. CallsOn(f)' = CallsOn(f) \union {t} /\ t \notin CallsOn(f)
    BY DEF CallsOn
  <2>2. Cardinality(CallsOn(f)') = Cardinality(CallsOn(f)) + 1
    BY <2>1, HoldersFinite, FS_AddElement
  <2> QED BY <1>1, <1>2, <2>2, HoldersFinite DEF PinsAccounted, TypeOK
<1>3. CASE g # f
  <2>1. CallsOn(g)' = CallsOn(g)
    BY <1>3 DEF CallsOn
  <2> QED BY <1>1, <1>3, <2>1 DEF PinsAccounted, TypeOK
<1> QED BY <1>2, <1>3

LEMMA CallReturnsPin ==
  ASSUME TypeOK, PinsAccounted, NEW t \in Threads, NEW f \in Frames,
         guard' = guard, pins' = [pins EXCEPT ![f] = @ - 1],
         call[t].cur = f, pc[t] \in Pinning, pc'[t] \notin Pinning,
         \A u \in Threads \ {t} : pc'[u] = pc[u] /\ call'[u] = call[u]
  PROVE  PinsAccounted'
<1> SUFFICES ASSUME NEW g \in Frames
             PROVE  pins'[g] = Cardinality(GuardsOn(g)') + Cardinality(CallsOn(g)')
  BY DEF PinsAccounted
<1>1. GuardsOn(g)' = GuardsOn(g)
  BY DEF GuardsOn
<1>2. CASE g = f
  <2>1. CallsOn(f)' = CallsOn(f) \ {t} /\ t \in CallsOn(f)
    BY DEF CallsOn
  <2>2. Cardinality(CallsOn(f)') = Cardinality(CallsOn(f)) - 1
    BY <2>1, HoldersFinite, FS_RemoveElement, ZenonT(60)
  <2> QED BY <1>1, <1>2, <2>2, HoldersFinite DEF PinsAccounted, TypeOK
<1>3. CASE g # f
  <2>1. CallsOn(g)' = CallsOn(g)
    BY <1>3 DEF CallsOn
  <2> QED BY <1>1, <1>3, <2>1 DEF PinsAccounted, TypeOK
<1> QED BY <1>2, <1>3

(* A guard that is made with a pin of its own, or dropped with it. *)
LEMMA GuardTakesPin ==
  ASSUME TypeOK, PinsAccounted, NEW t \in Threads, NEW f \in Frames, NEW p \in Pages,
         guard[t][f] = NoPage, guard' = [guard EXCEPT ![t][f] = p],
         pins' = [pins EXCEPT ![f] = @ + 1],
         \A g \in Frames : CallsOn(g)' = CallsOn(g)
  PROVE  PinsAccounted'
<1> SUFFICES ASSUME NEW g \in Frames
             PROVE  pins'[g] = Cardinality(GuardsOn(g)') + Cardinality(CallsOn(g)')
  BY DEF PinsAccounted
<1>1. CallsOn(g)' = CallsOn(g)
  OBVIOUS
<1>2. CASE g = f
  <2>1. GuardsOn(f)' = GuardsOn(f) \union {t} /\ t \notin GuardsOn(f)
    BY PoolAssumption DEF GuardsOn, TypeOK
  <2>2. Cardinality(GuardsOn(f)') = Cardinality(GuardsOn(f)) + 1
    BY <2>1, HoldersFinite, FS_AddElement
  <2> QED BY <1>1, <1>2, <2>2, HoldersFinite DEF PinsAccounted, TypeOK
<1>3. CASE g # f
  <2>1. GuardsOn(g)' = GuardsOn(g)
    BY <1>3 DEF GuardsOn, TypeOK
  <2> QED BY <1>1, <1>3, <2>1 DEF PinsAccounted, TypeOK
<1> QED BY <1>2, <1>3

LEMMA GuardReturnsPin ==
  ASSUME TypeOK, PinsAccounted, NEW t \in Threads, NEW f \in Frames,
         guard[t][f] # NoPage, guard' = [guard EXCEPT ![t][f] = NoPage],
         pins' = [pins EXCEPT ![f] = @ - 1],
         \A g \in Frames : CallsOn(g)' = CallsOn(g)
  PROVE  PinsAccounted'
<1> SUFFICES ASSUME NEW g \in Frames
             PROVE  pins'[g] = Cardinality(GuardsOn(g)') + Cardinality(CallsOn(g)')
  BY DEF PinsAccounted
<1>1. CallsOn(g)' = CallsOn(g)
  OBVIOUS
<1>2. CASE g = f
  <2>1. GuardsOn(f)' = GuardsOn(f) \ {t} /\ t \in GuardsOn(f)
    BY DEF GuardsOn, TypeOK
  <2>2. Cardinality(GuardsOn(f)') = Cardinality(GuardsOn(f)) - 1
    BY <2>1, HoldersFinite, FS_RemoveElement
  <2> QED BY <1>1, <1>2, <2>2, HoldersFinite DEF PinsAccounted, TypeOK
<1>3. CASE g # f
  <2>1. GuardsOn(g)' = GuardsOn(g)
    BY <1>3 DEF GuardsOn, TypeOK
  <2> QED BY <1>1, <1>3, <2>1 DEF PinsAccounted, TypeOK
<1> QED BY <1>2, <1>3

(* The pin of a reservation is handed over to the guard. *)
LEMMA PinHandedOver ==
  ASSUME TypeOK, PinsAccounted, NEW t \in Threads, NEW f \in Frames, NEW p \in Pages,
         guard[t][f] = NoPage, guard' = [guard EXCEPT ![t][f] = p],
         pins' = pins, call[t].cur = f,
         pc[t] \in Pinning, pc'[t] \notin Pinning,
         \A u \in Threads \ {t} : pc'[u] = pc[u] /\ call'[u] = call[u]
  PROVE  PinsAccounted'
<1> SUFFICES ASSUME NEW g \in Frames
             PROVE  pins'[g] = Cardinality(GuardsOn(g)') + Cardinality(CallsOn(g)')
  BY DEF PinsAccounted
<1>1. CASE g = f
  <2>1. GuardsOn(f)' = GuardsOn(f) \union {t} /\ t \notin GuardsOn(f)
    BY PoolAssumption DEF GuardsOn, TypeOK
  <2>2. CallsOn(f)' = CallsOn(f) \ {t} /\ t \in CallsOn(f)
    BY DEF CallsOn
  <2>3. Cardinality(GuardsOn(f)') = Cardinality(GuardsOn(f)) + 1
    BY <2>1, HoldersFinite, FS_AddElement, ZenonT(60)
  <2>4. Cardinality(CallsOn(f)') = Cardinality(CallsOn(f)) - 1
    BY <2>2, HoldersFinite, FS_RemoveElement, ZenonT(60)
  <2> QED BY <1>1, <2>3, <2>4, HoldersFinite DEF PinsAccounted, TypeOK
<1>2. CASE g # f
  <2>1. GuardsOn(g)' = GuardsOn(g)
    BY <1>2 DEF GuardsOn, TypeOK
  <2>2. CallsOn(g)' = CallsOn(g)
    BY <1>2 DEF CallsOn
  <2> QED BY <2>1, <2>2 DEF PinsAccounted
<1> QED BY <1>1, <1>2
-----------------------------------------------------------------------------
(* Type correctness, action by action *)

LEMMA FetchTypes ==
  ASSUME OwnershipInv, NEW t \in Threads
  PROVE  /\ \A p \in Pages, m \in Modes : Fetch(t, p, m) => TypeOK'
         /\ Hit(t) => TypeOK'
         /\ WaitForEntry(t) => TypeOK'
         /\ Miss(t) => TypeOK'
         /\ Claim(t) => TypeOK'
         /\ Wake(t) => TypeOK'
<1> DEFINE p == call[t].page
<1> USE DEF OwnershipInv
<1>1. ASSUME NEW q \in Pages, NEW m \in Modes, Fetch(t, q, m) PROVE TypeOK'
  <2>1. [NoCall EXCEPT !.page = q, !.mode = m] \in Locals
    BY NoCallType DEF Locals
  <2>2. call' \in [Threads -> Locals]
    BY <1>1, <2>1 DEF Fetch, TypeOK
  <2>3. pc' \in [Threads -> Labels]
    BY <1>1 DEF Fetch, Goto, TypeOK, Labels
  <2> QED BY <1>1, <2>2, <2>3 DEF Fetch, TypeOK, frameVars
<1>2. ASSUME Hit(t) PROVE TypeOK'
  <2>1. p \in Pages
    BY <1>2, PageKnown DEF Hit
  <2>2. table[p].frame \in Frames
    BY <1>2, <2>1, EntryCases DEF Hit
  <2>3. pins' \in [Frames -> Nat] /\ referenced' \in [Frames -> BOOLEAN]
    BY <1>2, <2>2 DEF Hit, TypeOK
  <2>4. guard' \in [Threads -> [Frames -> Pages \union {NoPage}]]
    BY <1>2, <2>1, <2>2 DEF Hit, TypeOK
  <2>5. pc' \in [Threads -> Labels] /\ call' \in [Threads -> Locals]
    BY <1>2, ReturnType DEF Hit
  <2> QED BY <1>2, <2>3, <2>4, <2>5 DEF Hit, TypeOK
<1>3. ASSUME WaitForEntry(t) PROVE TypeOK'
  <2>1. p \in Pages
    BY <1>3, PageKnown DEF WaitForEntry
  <2>2. table[p].owner \in Threads
    BY <1>3, <2>1, EntryCases DEF WaitForEntry
  <2>3. waitOn' \in [Threads -> Threads \union {NoThread}]
    BY <1>3, <2>2 DEF WaitForEntry, Wait, TypeOK
  <2>4. pc' \in [Threads -> Labels]
    BY <1>3 DEF WaitForEntry, Wait, Goto, TypeOK, Labels, Resume
  <2> QED BY <1>3, <2>3, <2>4 DEF WaitForEntry, TypeOK, frameVars
<1>4. ASSUME Miss(t) PROVE TypeOK'
  BY <1>4 DEF Miss, Goto, TypeOK, Labels, frameVars
<1>5. ASSUME Claim(t) PROVE TypeOK'
  <2>1. p \in Pages
    BY <1>5, PageKnown DEF Claim
  <2>2. table' \in [Pages -> Entries]
    BY <1>5, <2>1, Variants DEF Claim, TypeOK
  <2>3. pc' \in [Threads -> Labels]
    BY <1>5 DEF Claim, Goto, TypeOK, Labels, Claiming, Sweeping
  <2> QED BY <1>5, <2>2, <2>3 DEF Claim, TypeOK
<1>6. ASSUME Wake(t) PROVE TypeOK'
  <2>1. pc' \in [Threads -> Labels]
    BY <1>6 DEF Wake, Goto, TypeOK, Labels, Resume, Claiming, Sweeping
  <2> QED BY <1>6, <2>1 DEF Wake, TypeOK, frameVars
<1> QED BY <1>1, <1>2, <1>3, <1>4, <1>5, <1>6

LEMMA SweepTypes ==
  ASSUME OwnershipInv, NEW t \in Threads
  PROVE  /\ Tick(t) => TypeOK'
         /\ Snapshot(t) => TypeOK'
         /\ ReserveFails(t) => TypeOK'
         /\ SecondChance(t) => TypeOK'
         /\ Reserve(t) => TypeOK'
         /\ Scan(t) => TypeOK'
<1> DEFINE f == call[t].cur
<1> USE DEF OwnershipInv
<1>0. f \in Frames
  BY LocalTypes
<1>1. ASSUME Tick(t) PROVE TypeOK'
  <2>1. hand \in Frames /\ hand' \in Frames
    BY <1>1, FrameFacts DEF Tick, TypeOK, Frames
  <2>2. call[t].tick + 1 \in 0 .. 2 * NumFrames
    BY <1>1, FrameFacts, LocalTypes DEF Tick, LocalsOK
  <2>3. call' \in [Threads -> Locals]
    BY <1>1, <2>1, <2>2, SetCurTick DEF Tick
  <2>4. pc' \in [Threads -> Labels]
    BY <1>1 DEF Tick, Goto, TypeOK, Labels, Claiming, Sweeping
  <2> QED BY <1>1, <2>1, <2>3, <2>4 DEF Tick, TypeOK, frameVars
<1>2. ASSUME Snapshot(t) PROVE TypeOK'
  <2>1. CASE Pass(t)
    BY <1>2, <2>1, PassType DEF Snapshot, TypeOK, frameVars
  <2>2. CASE Goto(t, "reserve")
    <3>1. pc' \in [Threads -> Labels]
      BY <2>2 DEF Goto, TypeOK, Labels, Claiming, Sweeping
    <3>2. CASE UNCHANGED call
      BY <1>2, <3>1, <3>2 DEF Snapshot, TypeOK, frameVars
    <3>3. CASE state[f].kind = "Valid" /\ call' = [call EXCEPT ![t].seen = state[f].page]
      <4>1. state[f].page \in Pages
        BY <1>0, <3>3, StateCases
      <4>2. call' \in [Threads -> Locals]
        BY <3>3, <4>1, SetSeen
      <4> QED BY <1>2, <3>1, <4>2 DEF Snapshot, TypeOK, frameVars
    <3>4. CASE Pass(t)
      BY <3>4, <1>2, PassType DEF Snapshot, TypeOK, frameVars
    <3> QED BY <1>2, <3>2, <3>3, <3>4 DEF Snapshot
  <2> QED BY <1>2, <2>1, <2>2 DEF Snapshot
<1>3. ASSUME ReserveFails(t) PROVE TypeOK'
  BY <1>3, PassType DEF ReserveFails, TypeOK, frameVars
<1>4. ASSUME SecondChance(t) PROVE TypeOK'
  BY <1>0, <1>4, PassType DEF SecondChance, TypeOK
<1>5. ASSUME Reserve(t) PROVE TypeOK'
  <2>1. pins' \in [Frames -> Nat] /\ state' \in [Frames -> FrameStates]
    BY <1>0, <1>5, Variants DEF Reserve, TypeOK
  <2>2. table' \in [Pages -> Entries]
    BY <1>5, LocalTypes, Variants DEF Reserve, TypeOK
  <2>3. call' \in [Threads -> Locals]
    BY <1>5, SetTick, FrameFacts DEF Reserve
  <2>4. pc' \in [Threads -> Labels]
    BY <1>5 DEF Reserve, Goto, TypeOK, Labels, Claiming, Reserving, Replacing
  <2> QED BY <1>5, <2>1, <2>2, <2>3, <2>4 DEF Reserve, TypeOK
<1>6. ASSUME Scan(t) PROVE TypeOK'
  <2>1. CASE state[f].kind = "Evicting"
    <3>1. state[f].owner \in Threads
      BY <1>0, <2>1, StateCases
    <3>2. waitOn' \in [Threads -> Threads \union {NoThread}]
      BY <1>6, <2>1, <3>1 DEF Scan, Wait, TypeOK
    <3>3. pc' \in [Threads -> Labels]
      BY <1>6, <2>1 DEF Scan, Wait, Goto, TypeOK, Labels, Claiming, Sweeping
    <3>4. call' = [call EXCEPT ![t].tick = 0, ![t].cur = 0]
      BY <1>6, <2>1 DEF Scan
    <3>5. 0 \in Frames /\ 0 \in 0 .. 2 * NumFrames
      BY FrameFacts
    <3>6. call' \in [Threads -> Locals]
      BY <3>4, <3>5, SetTickCur
    <3> QED BY <1>6, <3>2, <3>3, <3>6 DEF Scan, TypeOK, frameVars
  <2>2. CASE state[f].kind # "Evicting"
    <3>1. pc' \in [Threads -> Labels]
      BY <1>6, <2>2 DEF Scan, Goto, TypeOK, Labels, Claiming
    <3>2. f = NumFrames - 1 \/ f + 1 \in Frames
      BY <1>0, FrameFacts DEF Frames
    <3>3. PICK g \in Frames : call' = [call EXCEPT ![t].cur = g]
      BY <1>6, <2>2, <3>2, FrameFacts DEF Scan
    <3>4. call' \in [Threads -> Locals]
      BY <3>3, SetCur
    <3> QED BY <1>6, <2>2, <3>1, <3>4 DEF Scan, TypeOK, frameVars
  <2> QED BY <2>1, <2>2
<1> QED BY <1>1, <1>2, <1>3, <1>4, <1>5, <1>6

LEMMA LoadTypes ==
  ASSUME OwnershipInv, NEW t \in Threads
  PROVE  /\ WriteBack(t) => TypeOK'
         /\ WriteBackFails(t) => TypeOK'
         /\ Load(t) => TypeOK'
         /\ LoadFails(t) => TypeOK'
         /\ RemoveOld(t) => TypeOK'
         /\ Publish(t) => TypeOK'
         /\ Finish(t) => TypeOK'
         /\ Restore(t) => TypeOK'
         /\ Unreserve(t) => TypeOK'
         /\ Abandon(t) => TypeOK'
         /\ GiveUp(t) => TypeOK'
<1> DEFINE f == call[t].cur
           p == call[t].page
           q == call[t].seen
<1> USE DEF OwnershipInv
<1>0. f \in Frames
  BY LocalTypes
<1>1. ASSUME WriteBack(t) PROVE TypeOK'
  <2>1. q \in Pages /\ data[f] \in Contents
    BY <1>1, SeenKnown, PoolAssumption DEF WriteBack, FramesFilled, Reserving, Replacing
  <2>2. disk' \in [Pages -> Contents \union {Torn}] /\ dirty' \in [Frames -> BOOLEAN]
    BY <1>0, <1>1, <2>1 DEF WriteBack, TypeOK
  <2>3. pc' \in [Threads -> Labels]
    BY <1>1 DEF WriteBack, Goto, TypeOK, Labels, Claiming, Reserving, Replacing
  <2> QED BY <1>1, <2>2, <2>3 DEF WriteBack, TypeOK
<1>2. ASSUME WriteBackFails(t) PROVE TypeOK'
  <2>1. q \in Pages /\ data[f] \in Contents
    BY <1>2, SeenKnown, PoolAssumption
       DEF WriteBackFails, FramesFilled, Reserving, Replacing
  <2>2. AfterFailedWrite(q, data[f]) \subseteq Contents \union {Torn}
    BY <2>1 DEF AfterFailedWrite, TypeOK
  <2>3. disk' \in [Pages -> Contents \union {Torn}]
    BY <1>2, <2>1, <2>2 DEF WriteBackFails, TypeOK
  <2>4. pc' \in [Threads -> Labels]
    BY <1>2 DEF WriteBackFails, Goto, TypeOK, Labels, Claiming, Reserving
  <2> QED BY <1>2, <2>3, <2>4 DEF WriteBackFails, TypeOK, frameVars
<1>3. ASSUME Load(t) PROVE TypeOK'
  <2>1. p \in Pages
    BY <1>3, PageKnown DEF Load, Claiming, Reserving, Replacing
  <2>2. data' \in [Frames -> Contents \union {Zeroed}]
    BY <1>0, <1>3, <2>1 DEF Load, TypeOK
  <2>3. dirty' \in [Frames -> BOOLEAN] /\ referenced' \in [Frames -> BOOLEAN]
    BY <1>0, <1>3 DEF Load, TypeOK
  <2>4. pc' \in [Threads -> Labels]
    BY <1>3 DEF Load, Goto, TypeOK, Labels, Claiming, Reserving, Replacing
  <2> QED BY <1>3, <2>2, <2>3, <2>4 DEF Load, TypeOK
<1>4. ASSUME LoadFails(t) PROVE TypeOK'
  BY <1>4 DEF LoadFails, Goto, TypeOK, Labels, Claiming, Reserving, frameVars
<1>5. ASSUME RemoveOld(t) PROVE TypeOK'
  <2>1. table' \in [Pages -> Entries]
    BY <1>5, Variants DEF RemoveOld, TypeOK
  <2>2. pc' \in [Threads -> Labels]
    BY <1>5 DEF RemoveOld, Goto, TypeOK, Labels, Claiming, Reserving, Replacing
  <2> QED BY <1>5, <2>1, <2>2 DEF RemoveOld, TypeOK
<1>6. ASSUME Publish(t) PROVE TypeOK'
  <2>1. p \in Pages
    BY <1>6, PageKnown DEF Publish, Claiming, Reserving, Replacing
  <2>2. table' \in [Pages -> Entries] /\ state' \in [Frames -> FrameStates]
    BY <1>0, <1>6, <2>1, Variants DEF Publish, TypeOK
  <2>3. pc' \in [Threads -> Labels]
    BY <1>6 DEF Publish, Goto, TypeOK, Labels, Claiming
  <2> QED BY <1>6, <2>2, <2>3 DEF Publish, TypeOK
<1>7. ASSUME Finish(t) PROVE TypeOK'
  <2>1. guard' \in [Threads -> [Frames -> Pages \union {NoPage}]]
    BY <1>0, <1>7, LocalTypes DEF Finish, TypeOK
  <2>2. waitOn' \in [Threads -> Threads \union {NoThread}]
    BY <1>7 DEF Finish, FinishPending, TypeOK
  <2>3. pc' \in [Threads -> Labels] /\ call' \in [Threads -> Locals]
    BY <1>7, ReturnType DEF Finish
  <2> QED BY <1>7, <2>1, <2>2, <2>3 DEF Finish, TypeOK, frameVars
<1>8. ASSUME Restore(t) PROVE TypeOK'
  <2>1. table' \in [Pages -> Entries] /\ state' \in [Frames -> FrameStates]
    BY <1>0, <1>8, LocalTypes, Variants DEF Restore, TypeOK
  <2>2. pc' \in [Threads -> Labels]
    BY <1>8 DEF Restore, Goto, TypeOK, Labels, Claiming
  <2> QED BY <1>8, <2>1, <2>2 DEF Restore, TypeOK
<1>9. ASSUME Unreserve(t) PROVE TypeOK'
  <2>1. pins[f] - 1 \in Nat
    BY <1>0, <1>9, CallPinned DEF Unreserve, Pinning
  <2>2. pins' \in [Frames -> Nat]
    BY <1>0, <1>9, <2>1 DEF Unreserve, TypeOK
  <2>3. pc' \in [Threads -> Labels]
    BY <1>9 DEF Unreserve, Goto, TypeOK, Labels, Claiming
  <2> QED BY <1>9, <2>2, <2>3 DEF Unreserve, TypeOK
<1>10. ASSUME Abandon(t) PROVE TypeOK'
  <2>1. table' \in [Pages -> Entries]
    BY <1>10, Variants DEF Abandon, TypeOK
  <2>2. pc' \in [Threads -> Labels]
    BY <1>10 DEF Abandon, Goto, TypeOK, Labels, Claiming
  <2> QED BY <1>10, <2>1, <2>2 DEF Abandon, TypeOK
<1>11. ASSUME GiveUp(t) PROVE TypeOK'
  <2>1. waitOn' \in [Threads -> Threads \union {NoThread}]
    BY <1>11 DEF GiveUp, FinishPending, TypeOK
  <2>2. pc' \in [Threads -> Labels] /\ call' \in [Threads -> Locals]
    BY <1>11, ReturnType DEF GiveUp
  <2> QED BY <1>11, <2>1, <2>2 DEF GiveUp, TypeOK, frameVars
<1> QED BY <1>1, <1>2, <1>3, <1>4, <1>5, <1>6, <1>7, <1>8, <1>9, <1>10, <1>11

LEMMA GuardTypes ==
  ASSUME OwnershipInv, NEW t \in Threads, NEW f \in Frames
  PROVE  /\ BeginWrite(t, f) => TypeOK'
         /\ \A v \in Contents : EndWrite(t, f, v) => TypeOK'
         /\ DropGuard(t, f) => TypeOK'
<1> USE DEF OwnershipInv
<1>1. ASSUME BeginWrite(t, f) PROVE TypeOK'
  <2>1. writer' \in [Frames -> Threads \union {NoThread}] /\ dirty' \in [Frames -> BOOLEAN]
    BY <1>1 DEF BeginWrite, TypeOK
  <2> QED BY <1>1, <2>1 DEF BeginWrite, TypeOK, threadVars
<1>2. ASSUME NEW v \in Contents, EndWrite(t, f, v) PROVE TypeOK'
  <2>1. writer' \in [Frames -> Threads \union {NoThread}]
    BY <1>2 DEF EndWrite, TypeOK
  <2>2. data' \in [Frames -> Contents \union {Zeroed}]
    BY <1>2 DEF EndWrite, TypeOK
  <2> QED BY <1>2, <2>1, <2>2 DEF EndWrite, TypeOK, threadVars
<1>3. ASSUME DropGuard(t, f) PROVE TypeOK'
  <2>1. guard' \in [Threads -> [Frames -> Pages \union {NoPage}]]
    BY <1>3 DEF DropGuard, TypeOK
  <2>2. pins[f] - 1 \in Nat
    BY <1>3, GuardPinned DEF DropGuard
  <2>3. pins' \in [Frames -> Nat]
    BY <1>3, <2>2 DEF DropGuard, TypeOK
  <2> QED BY <1>3, <2>1, <2>3 DEF DropGuard, TypeOK, threadVars
<1> QED BY <1>1, <1>2, <1>3

LEMMA NextFrameType ==
  ASSUME TypeOK, NEW t \in Threads, NextFrame(t)
  PROVE  pc' \in [Threads -> Labels] /\ call' \in [Threads -> Locals]
<1>1. CASE Return(t)
  BY <1>1, ReturnType
<1>2. CASE call[t].cur # NumFrames - 1
  <2>1. call[t].cur + 1 \in Frames
    BY <1>2, LocalTypes, FrameFacts DEF Frames
  <2>2. call' = [call EXCEPT ![t].cur = call[t].cur + 1, ![t].seen = NoPage]
    BY <1>2 DEF NextFrame, TypeOK
  <2>3. call' \in [Threads -> Locals]
    BY <2>1, <2>2, SetCurSeen
  <2>4. pc' \in [Threads -> Labels]
    BY <1>2 DEF NextFrame, Goto, TypeOK, Labels
  <2> QED BY <2>3, <2>4
<1> QED BY <1>1, <1>2 DEF NextFrame

LEMMA FlushTypes ==
  ASSUME OwnershipInv, NEW t \in Threads
  PROVE  /\ FlushAll(t) => TypeOK'
         /\ FlushPin(t) => TypeOK'
         /\ FlushCheck(t) => TypeOK'
         /\ FlushWrite(t) => TypeOK'
         /\ FlushWriteFails(t) => TypeOK'
         /\ FlushClear(t) => TypeOK'
         /\ FlushUnpin(t) => TypeOK'
         /\ FlushAbort(t) => TypeOK'
<1> DEFINE f == call[t].cur
           q == call[t].seen
<1> USE DEF OwnershipInv
<1>0. f \in Frames
  BY LocalTypes
<1>1. ASSUME FlushAll(t) PROVE TypeOK'
  BY <1>1 DEF FlushAll, Goto, TypeOK, Labels, frameVars
<1>2. ASSUME FlushPin(t) PROVE TypeOK'
  <2>1. CASE NextFrame(t) /\ UNCHANGED <<pins, waitOn>>
    BY <1>2, <2>1, NextFrameType DEF FlushPin, TypeOK
  <2>2. CASE /\ state[f].kind = "Valid"
             /\ pins' = [pins EXCEPT ![f] = @ + 1]
             /\ call' = [call EXCEPT ![t].seen = state[f].page]
             /\ Goto(t, "flushCheck")
             /\ UNCHANGED waitOn
    <3>1. state[f].page \in Pages
      BY <1>0, <2>2, StateCases
    <3>2. call' \in [Threads -> Locals]
      BY <2>2, <3>1, SetSeen
    <3>3. pins' \in [Frames -> Nat]
      BY <1>0, <2>2 DEF TypeOK
    <3>4. pc' \in [Threads -> Labels]
      BY <2>2 DEF Goto, TypeOK, Labels, FlushPinned
    <3> QED BY <1>2, <2>2, <3>2, <3>3, <3>4 DEF FlushPin, TypeOK
  <2>3. CASE /\ state[f].kind = "Evicting"
             /\ Wait(t, state[f].owner, "awaitFlush")
             /\ UNCHANGED <<pins, call>>
    <3>1. state[f].owner \in Threads
      BY <1>0, <2>3, StateCases
    <3>2. waitOn' \in [Threads -> Threads \union {NoThread}]
      BY <2>3, <3>1 DEF Wait, TypeOK
    <3>3. pc' \in [Threads -> Labels]
      BY <2>3 DEF Wait, Goto, TypeOK, Labels, Resume
    <3> QED BY <1>2, <2>3, <3>2, <3>3 DEF FlushPin, TypeOK
  <2> QED BY <1>2, <2>1, <2>2, <2>3 DEF FlushPin
<1>3. ASSUME FlushCheck(t) PROVE TypeOK'
  BY <1>3 DEF FlushCheck, Goto, TypeOK, Labels, FlushPinned, frameVars
<1>4. ASSUME pc[t] = "flushWrite" PROVE q \in Pages /\ data[f] \in Contents
  <2>1. q \in Pages
    BY <1>4, SeenKnown DEF FlushPinned
  <2>2. state[f] = Valid(q)
    BY <1>4 DEF GuardsKeepTheirPage, FlushPinned
  <2> QED BY <1>0, <2>1, <2>2 DEF FramesFilled
<1>5. ASSUME FlushWrite(t) PROVE TypeOK'
  <2>1. disk' \in [Pages -> Contents \union {Torn}]
    BY <1>4, <1>5 DEF FlushWrite, TypeOK
  <2>2. pc' \in [Threads -> Labels]
    BY <1>5 DEF FlushWrite, Goto, TypeOK, Labels, FlushPinned
  <2> QED BY <1>5, <2>1, <2>2 DEF FlushWrite, TypeOK, frameVars
<1>6. ASSUME FlushWriteFails(t) PROVE TypeOK'
  <2>1. AfterFailedWrite(q, data[f]) \subseteq Contents \union {Torn}
    BY <1>4, <1>6 DEF FlushWriteFails, AfterFailedWrite, TypeOK
  <2>2. disk' \in [Pages -> Contents \union {Torn}]
    BY <1>4, <1>6, <2>1 DEF FlushWriteFails, TypeOK
  <2>3. pc' \in [Threads -> Labels]
    BY <1>6 DEF FlushWriteFails, Goto, TypeOK, Labels, FlushPinned
  <2> QED BY <1>6, <2>2, <2>3 DEF FlushWriteFails, TypeOK, frameVars
<1>7. ASSUME FlushClear(t) PROVE TypeOK'
  <2>1. dirty' \in [Frames -> BOOLEAN]
    BY <1>0, <1>7 DEF FlushClear, TypeOK
  <2>2. pc' \in [Threads -> Labels]
    BY <1>7 DEF FlushClear, Goto, TypeOK, Labels, FlushPinned
  <2> QED BY <1>7, <2>1, <2>2 DEF FlushClear, TypeOK
<1>8. ASSUME pc[t] \in FlushPinned, pins' = [pins EXCEPT ![f] = @ - 1]
      PROVE pins' \in [Frames -> Nat]
  <2>1. pins[f] - 1 \in Nat
    BY <1>0, <1>8, CallPinned DEF Pinning
  <2> QED BY <1>0, <1>8, <2>1 DEF TypeOK
<1>9. ASSUME FlushUnpin(t) PROVE TypeOK'
  <2>1. pins' \in [Frames -> Nat]
    BY <1>8, <1>9 DEF FlushUnpin, FlushPinned
  <2> QED BY <1>9, <2>1, NextFrameType DEF FlushUnpin, TypeOK
<1>10. ASSUME FlushAbort(t) PROVE TypeOK'
  <2>1. pins' \in [Frames -> Nat]
    BY <1>8, <1>10 DEF FlushAbort, FlushPinned
  <2> QED BY <1>10, <2>1, ReturnType DEF FlushAbort, TypeOK
<1> QED BY <1>1, <1>2, <1>3, <1>5, <1>6, <1>7, <1>9, <1>10

(* Every step keeps the types. *)
LEMMA TypesKept ==
  ASSUME OwnershipInv, Next
  PROVE  TypeOK'
<1>1. PICK t \in Threads : PoolStep(t) \/ CallStep(t) \/ GuardStep(t)
  BY DEF Next
<1>2. CASE PoolStep(t)
  BY <1>2, FetchTypes, SweepTypes, LoadTypes, FlushTypes DEF PoolStep
<1>3. CASE CallStep(t)
  BY <1>3, FetchTypes, FlushTypes DEF CallStep
<1>4. CASE GuardStep(t)
  BY <1>4, GuardTypes DEF GuardStep
<1> QED BY <1>1, <1>2, <1>3, <1>4

-----------------------------------------------------------------------------
(* What the steps that branch have in common. *)

LEMMA PassStep ==
  ASSUME TypeOK, NEW t \in Threads, Pass(t)
  PROVE  /\ pc'[t] \in {"tick", "scan"}
         /\ pc'[t] = "tick" <=> call[t].tick # 2 * NumFrames
         /\ call'[t].page = call[t].page /\ call'[t].tick = call[t].tick
         /\ call'[t].cur = 0 /\ call'[t].seen = NoPage
         /\ \A u \in Threads \ {t} : pc'[u] = pc[u] /\ call'[u] = call[u]
  BY DEF Pass, Goto, TypeOK, Locals

LEMMA NextFrameStep ==
  ASSUME TypeOK, NEW t \in Threads, NextFrame(t)
  PROVE  /\ pc'[t] \in {"idle", "flushPin"}
         /\ \A u \in Threads \ {t} : pc'[u] = pc[u] /\ call'[u] = call[u]
  BY DEF NextFrame, Return, Goto, TypeOK, Locals

(* The search for a victim before it has found one: the claim stays, and
   nothing else of the pool changes but a reference bit. *)
LEMMA SearchStep ==
  ASSUME TypeOK, NEW t \in Threads,
         Snapshot(t) \/ ReserveFails(t) \/ SecondChance(t) \/ Scan(t)
  PROVE  /\ pc[t] \in {"snapshot", "reserve", "scan"}
         /\ pc'[t] \in {"tick", "scan", "reserve", "awaitLoad", "abandon"}
         /\ call'[t].page = call[t].page
         /\ \A u \in Threads \ {t} : pc'[u] = pc[u] /\ call'[u] = call[u]
         /\ UNCHANGED <<disk, table, state, data, pins, dirty, guard, writer>>
<1>1. CASE Pass(t)
  BY <1>1, PassStep DEF Snapshot, ReserveFails, SecondChance, Scan, frameVars
<1>2. CASE ReserveFails(t) \/ SecondChance(t)
  BY <1>1, <1>2 DEF ReserveFails, SecondChance
<1>3. CASE Snapshot(t) /\ ~Pass(t)
  <2>1. /\ pc[t] = "snapshot" /\ Goto(t, "reserve")
        /\ call' = call \/ call' = [call EXCEPT ![t].seen = state[call[t].cur].page]
        /\ UNCHANGED <<disk, frameVars, guard, writer>>
    BY <1>3 DEF Snapshot
  <2> QED BY <2>1 DEF Goto, TypeOK, Locals, frameVars
<1>4. CASE Scan(t)
  <2>1. PICK k, g : \/ call' = [call EXCEPT ![t].cur = g]
                    \/ call' = [call EXCEPT ![t].tick = k, ![t].cur = g]
    BY <1>4 DEF Scan
  <2>2. call'[t].page = call[t].page /\ \A u \in Threads \ {t} : call'[u] = call[u]
    BY <2>1 DEF TypeOK, Locals
  <2>3. pc' = pc \/ Goto(t, "awaitLoad") \/ Goto(t, "abandon")
    BY <1>4 DEF Scan, Wait
  <2> QED BY <1>4, <2>2, <2>3 DEF Scan, Goto, TypeOK, frameVars
<1> QED BY <1>1, <1>2, <1>3, <1>4

(* A flush at a frame with no page to write. *)
LEMMA FlushPinCases ==
  ASSUME TypeOK, NEW t \in Threads, FlushPin(t)
  PROVE  LET f == call[t].cur IN
         /\ pc[t] = "flushPin"
         /\ UNCHANGED <<disk, table, state, data, dirty, guard, writer>>
         /\ \A u \in Threads \ {t} : pc'[u] = pc[u] /\ call'[u] = call[u]
         /\ \/ /\ pins' = pins
               /\ pc'[t] \in {"idle", "flushPin", "awaitFlush"}
            \/ /\ state[f].page \in Pages /\ state[f] = Valid(state[f].page)
               /\ pins' = [pins EXCEPT ![f] = @ + 1]
               /\ pc'[t] = "flushCheck"
               /\ call'[t] = [call[t] EXCEPT !.seen = state[f].page]
<1> DEFINE f == call[t].cur
<1>0. f \in Frames
  BY LocalTypes
<1>1. CASE NextFrame(t) /\ UNCHANGED <<pins, waitOn>>
  BY <1>1, NextFrameStep DEF FlushPin
<1>2. CASE /\ state[f].kind = "Valid"
           /\ pins' = [pins EXCEPT ![f] = @ + 1]
           /\ call' = [call EXCEPT ![t].seen = state[f].page]
           /\ Goto(t, "flushCheck")
  <2>1. state[f].page \in Pages /\ state[f] = Valid(state[f].page)
    BY <1>0, <1>2, StateCases
  <2>2. pc'[t] = "flushCheck" /\ \A u \in Threads \ {t} : pc'[u] = pc[u]
    BY <1>2 DEF Goto, TypeOK
  <2>3. /\ call'[t] = [call[t] EXCEPT !.seen = state[f].page]
        /\ \A u \in Threads \ {t} : call'[u] = call[u]
    BY <1>2 DEF TypeOK
  <2> QED BY <1>2, <2>1, <2>2, <2>3 DEF FlushPin
<1>3. CASE Wait(t, state[f].owner, "awaitFlush") /\ UNCHANGED <<pins, call>>
  BY <1>3 DEF FlushPin, Wait, Goto, TypeOK
<1> QED BY <1>1, <1>2, <1>3 DEF FlushPin

LEMMA FlushUnpinStep ==
  ASSUME TypeOK, NEW t \in Threads, FlushUnpin(t)
  PROVE  /\ pc[t] = "flushUnpin" /\ pc'[t] \in {"idle", "flushPin"}
         /\ \A u \in Threads \ {t} : pc'[u] = pc[u] /\ call'[u] = call[u]
         /\ pins' = [pins EXCEPT ![call[t].cur] = @ - 1]
         /\ UNCHANGED <<disk, table, state, data, dirty, guard, writer>>
  BY NextFrameStep DEF FlushUnpin

LEMMA ClaimStep ==
  ASSUME TypeOK, NEW t \in Threads, Claim(t)
  PROVE  /\ pc[t] = "claim" /\ pc'[t] \in {"tick", "lookup"}
         /\ \A u \in Threads \ {t} : pc'[u] = pc[u]
         /\ IF pc'[t] = "tick"
              THEN table[call[t].page].kind = "Absent" /\ table' = [table EXCEPT ![call[t].page] = Loading(t)]
              ELSE table' = table
         /\ UNCHANGED <<disk, state, data, pins, dirty, guard, writer, call>>
  BY DEF Claim, Goto, TypeOK

LEMMA FetchLocals ==
  ASSUME OwnershipInv, TypeOK', NEW t \in Threads
  PROVE  /\ Hit(t) => LocalsOK'
         /\ WaitForEntry(t) => LocalsOK'
         /\ Miss(t) => LocalsOK'
         /\ Claim(t) => LocalsOK'
         /\ Wake(t) => LocalsOK'
<1> USE DEF OwnershipInv
<1>1. ASSUME Hit(t) PROVE LocalsOK'
  BY <1>1
     DEF Hit, LocalsOK, TypeOK, Locals, Goto, Return, NoCall, Claiming, Sweeping,
         Reserving, Replacing, FlushPinned
<1>2. ASSUME WaitForEntry(t) PROVE LocalsOK'
  BY <1>2
     DEF WaitForEntry, LocalsOK, TypeOK, Locals, Goto, Wait, Claiming, Sweeping,
         Reserving, Replacing, FlushPinned
<1>3. ASSUME Miss(t) PROVE LocalsOK'
  BY <1>3
     DEF Miss, LocalsOK, TypeOK, Locals, Goto, Claiming, Sweeping, Reserving,
         Replacing, FlushPinned
<1>4. ASSUME Claim(t) PROVE LocalsOK'
  <2>1. Goto(t, "tick") \/ Goto(t, "lookup")
    BY <1>4 DEF Claim
  <2>2. call' = call /\ pc[t] = "claim"
    BY <1>4 DEF Claim
  <2> QED BY <2>1, <2>2, FrameFacts
    DEF LocalsOK, TypeOK, Locals, Goto, Return, Wait, NoCall, Resume, Claiming,
        Sweeping, Reserving, Replacing, FlushPinned, threadVars
<1>5. ASSUME Wake(t) PROVE LocalsOK'
  BY <1>5, FrameFacts
     DEF Wake, LocalsOK, TypeOK, Locals, Goto, Resume, Claiming, Sweeping, Reserving,
         Replacing, FlushPinned
<1> QED BY <1>1, <1>2, <1>3, <1>4, <1>5

LEMMA SweepLocals ==
  ASSUME OwnershipInv, TypeOK', NEW t \in Threads
  PROVE  /\ Tick(t) => LocalsOK'
         /\ Snapshot(t) => LocalsOK'
         /\ ReserveFails(t) => LocalsOK'
         /\ SecondChance(t) => LocalsOK'
         /\ Reserve(t) => LocalsOK'
         /\ Scan(t) => LocalsOK'
<1> USE DEF OwnershipInv
<1>1. ASSUME Tick(t) PROVE LocalsOK'
  BY <1>1
     DEF Tick, LocalsOK, TypeOK, Locals, Goto, Claiming, Sweeping, Reserving,
         Replacing, FlushPinned
<1>2. ASSUME Snapshot(t) PROVE LocalsOK'
  <2>1. CASE Pass(t)
    <3>1. /\ pc'[t] \in {"tick", "scan"}
          /\ pc'[t] = "tick" <=> call[t].tick # 2 * NumFrames
          /\ call'[t].page = call[t].page /\ call'[t].tick = call[t].tick
          /\ \A u \in Threads \ {t} : pc'[u] = pc[u] /\ call'[u] = call[u]
      BY <1>2, <2>1, PassStep DEF Snapshot
    <3>2. call[t].page \in Pages
      BY <1>2, <2>1, PageKnown DEF Snapshot, Claiming, Sweeping
    <3> QED BY <3>1, <3>2, LocalTypes, FrameFacts
      DEF LocalsOK, Claiming, Sweeping, Reserving, Replacing, FlushPinned
  <2>2. CASE ~Pass(t)
    <3>1. Goto(t, "reserve") /\ (call' = call \/ call' = [call EXCEPT ![t].seen = state[call[t].cur].page])
      BY <1>2, <2>2 DEF Snapshot
    <3>2. pc[t] = "snapshot"
      BY <1>2 DEF Snapshot
    <3>3. CASE call' = call
      BY <3>1, <3>2, <3>3
         DEF LocalsOK, TypeOK, Locals, Goto, Return, Wait, NoCall, Resume, Claiming,
             Sweeping, Reserving, Replacing, FlushPinned, threadVars
    <3>4. CASE call' = [call EXCEPT ![t].seen = state[call[t].cur].page]
      BY <3>1, <3>2, <3>4
         DEF LocalsOK, TypeOK, Locals, Goto, Return, Wait, NoCall, Resume, Claiming,
             Sweeping, Reserving, Replacing, FlushPinned, threadVars
    <3> QED BY <3>1, <3>3, <3>4
  <2> QED BY <2>1, <2>2
<1>3. ASSUME ReserveFails(t) PROVE LocalsOK'
  <2>1. /\ pc'[t] \in {"tick", "scan"}
        /\ pc'[t] = "tick" <=> call[t].tick # 2 * NumFrames
        /\ call'[t].page = call[t].page /\ call'[t].tick = call[t].tick
        /\ \A u \in Threads \ {t} : pc'[u] = pc[u] /\ call'[u] = call[u]
    BY <1>3, PassStep DEF ReserveFails
  <2>2. call[t].page \in Pages
    BY <1>3, PageKnown DEF ReserveFails, Claiming, Sweeping
  <2> QED BY <2>1, <2>2, LocalTypes, FrameFacts
    DEF LocalsOK, Claiming, Sweeping, Reserving, Replacing, FlushPinned
<1>4. ASSUME SecondChance(t) PROVE LocalsOK'
  <2>1. /\ pc'[t] \in {"tick", "scan"}
        /\ pc'[t] = "tick" <=> call[t].tick # 2 * NumFrames
        /\ call'[t].page = call[t].page /\ call'[t].tick = call[t].tick
        /\ \A u \in Threads \ {t} : pc'[u] = pc[u] /\ call'[u] = call[u]
    BY <1>4, PassStep DEF SecondChance
  <2>2. call[t].page \in Pages
    BY <1>4, PageKnown DEF SecondChance, Claiming, Sweeping
  <2> QED BY <2>1, <2>2, LocalTypes, FrameFacts
    DEF LocalsOK, Claiming, Sweeping, Reserving, Replacing, FlushPinned
<1>5. ASSUME Reserve(t) PROVE LocalsOK'
  BY <1>5
     DEF Reserve, LocalsOK, TypeOK, Locals, Goto, Claiming, Sweeping, Reserving,
         Replacing, FlushPinned
<1>6. ASSUME Scan(t) PROVE LocalsOK'
  <2>1. CASE state[call[t].cur].kind = "Evicting"
    <3>1. /\ call' = [call EXCEPT ![t].tick = 0, ![t].cur = 0]
          /\ Goto(t, "awaitLoad")
          /\ pc[t] = "scan"
      BY <1>6, <2>1 DEF Scan, Wait
    <3> QED BY <3>1
      DEF LocalsOK, TypeOK, Locals, Goto, Return, Wait, NoCall, Resume, Claiming,
          Sweeping, Reserving, Replacing, FlushPinned, threadVars
  <2>2. CASE state[call[t].cur].kind # "Evicting"
    <3>1. PICK g \in Frames : call' = [call EXCEPT ![t].cur = g]
      <4>1. call[t].cur = NumFrames - 1 \/ call[t].cur + 1 \in Frames
        BY LocalTypes, FrameFacts DEF Frames
      <4> QED BY <1>6, <2>2, <4>1, FrameFacts DEF Scan
    <3>2. pc' = pc \/ Goto(t, "abandon")
      BY <1>6, <2>2 DEF Scan
    <3> QED BY <1>6, <3>1, <3>2
      DEF Scan, LocalsOK, TypeOK, Locals, Goto, Wait, Claiming, Sweeping, Reserving,
          Replacing, FlushPinned
  <2> QED BY <2>1, <2>2
<1> QED BY <1>1, <1>2, <1>3, <1>4, <1>5, <1>6

LEMMA LoadLocals ==
  ASSUME OwnershipInv, TypeOK', NEW t \in Threads
  PROVE  /\ WriteBack(t) => LocalsOK'
         /\ WriteBackFails(t) => LocalsOK'
         /\ Load(t) => LocalsOK'
         /\ LoadFails(t) => LocalsOK'
         /\ RemoveOld(t) => LocalsOK'
         /\ Publish(t) => LocalsOK'
         /\ Finish(t) => LocalsOK'
         /\ Restore(t) => LocalsOK'
         /\ Unreserve(t) => LocalsOK'
         /\ Abandon(t) => LocalsOK'
         /\ GiveUp(t) => LocalsOK'
<1> USE DEF OwnershipInv
<1>1. ASSUME WriteBack(t) PROVE LocalsOK'
  BY <1>1
     DEF WriteBack, LocalsOK, TypeOK, Locals, Goto, Claiming, Sweeping, Reserving,
         Replacing, FlushPinned
<1>2. ASSUME WriteBackFails(t) PROVE LocalsOK'
  BY <1>2
     DEF WriteBackFails, LocalsOK, TypeOK, Locals, Goto, Claiming, Sweeping, Reserving,
         Replacing, FlushPinned
<1>3. ASSUME Load(t) PROVE LocalsOK'
  BY <1>3
     DEF Load, LocalsOK, TypeOK, Locals, Goto, Claiming, Sweeping, Reserving,
         Replacing, FlushPinned
<1>4. ASSUME LoadFails(t) PROVE LocalsOK'
  BY <1>4
     DEF LoadFails, LocalsOK, TypeOK, Locals, Goto, Claiming, Sweeping, Reserving,
         Replacing, FlushPinned
<1>5. ASSUME RemoveOld(t) PROVE LocalsOK'
  BY <1>5
     DEF RemoveOld, LocalsOK, TypeOK, Locals, Goto, Claiming, Sweeping, Reserving,
         Replacing, FlushPinned
<1>6. ASSUME Publish(t) PROVE LocalsOK'
  BY <1>6
     DEF Publish, LocalsOK, TypeOK, Locals, Goto, Claiming, Sweeping, Reserving,
         Replacing, FlushPinned
<1>7. ASSUME Finish(t) PROVE LocalsOK'
  BY <1>7
     DEF Finish, LocalsOK, TypeOK, Locals, Goto, Return, NoCall, Claiming, Sweeping,
         Reserving, Replacing, FlushPinned
<1>8. ASSUME Restore(t) PROVE LocalsOK'
  BY <1>8
     DEF Restore, LocalsOK, TypeOK, Locals, Goto, Claiming, Sweeping, Reserving,
         Replacing, FlushPinned
<1>9. ASSUME Unreserve(t) PROVE LocalsOK'
  BY <1>9
     DEF Unreserve, LocalsOK, TypeOK, Locals, Goto, Claiming, Sweeping, Reserving,
         Replacing, FlushPinned
<1>10. ASSUME Abandon(t) PROVE LocalsOK'
  BY <1>10
     DEF Abandon, LocalsOK, TypeOK, Locals, Goto, Claiming, Sweeping, Reserving,
         Replacing, FlushPinned
<1>11. ASSUME GiveUp(t) PROVE LocalsOK'
  BY <1>11
     DEF GiveUp, LocalsOK, TypeOK, Locals, Goto, Return, NoCall, Claiming, Sweeping,
         Reserving, Replacing, FlushPinned
<1> QED BY <1>1, <1>2, <1>3, <1>4, <1>5, <1>6, <1>7, <1>8, <1>9, <1>10, <1>11

LEMMA FlushLocals ==
  ASSUME OwnershipInv, TypeOK', NEW t \in Threads
  PROVE  /\ FlushAll(t) => LocalsOK'
         /\ FlushPin(t) => LocalsOK'
         /\ FlushCheck(t) => LocalsOK'
         /\ FlushWrite(t) => LocalsOK'
         /\ FlushWriteFails(t) => LocalsOK'
         /\ FlushClear(t) => LocalsOK'
         /\ FlushUnpin(t) => LocalsOK'
         /\ FlushAbort(t) => LocalsOK'
<1> USE DEF OwnershipInv
<1>1. ASSUME FlushAll(t) PROVE LocalsOK'
  BY <1>1
     DEF FlushAll, LocalsOK, TypeOK, Locals, Goto, Claiming, Sweeping, Reserving,
         Replacing, FlushPinned
<1>2. ASSUME FlushPin(t) PROVE LocalsOK'
  <2>1. CASE NextFrame(t)
    BY <2>1, NextFrameStep
       DEF LocalsOK, Claiming, Sweeping, Reserving, Replacing, FlushPinned
  <2>2. CASE /\ state[call[t].cur].kind = "Valid"
             /\ call' = [call EXCEPT ![t].seen = state[call[t].cur].page]
             /\ Goto(t, "flushCheck")
    <3>1. state[call[t].cur].page \in Pages
      BY <2>2, LocalTypes, StateCases
    <3> QED BY <2>2, <3>1
      DEF LocalsOK, TypeOK, Locals, Goto, Return, Wait, NoCall, Resume, Claiming,
          Sweeping, Reserving, Replacing, FlushPinned, threadVars
  <2>3. CASE Wait(t, state[call[t].cur].owner, "awaitFlush") /\ UNCHANGED call
    BY <2>3
       DEF LocalsOK, TypeOK, Locals, Goto, Return, Wait, NoCall, Resume, Claiming,
           Sweeping, Reserving, Replacing, FlushPinned, threadVars
  <2> QED BY <1>2, <2>1, <2>2, <2>3 DEF FlushPin
<1>3. ASSUME FlushCheck(t) PROVE LocalsOK'
  BY <1>3
     DEF FlushCheck, LocalsOK, TypeOK, Locals, Goto, Claiming, Sweeping, Reserving,
         Replacing, FlushPinned
<1>4. ASSUME FlushWrite(t) PROVE LocalsOK'
  BY <1>4
     DEF FlushWrite, LocalsOK, TypeOK, Locals, Goto, Claiming, Sweeping, Reserving,
         Replacing, FlushPinned
<1>5. ASSUME FlushWriteFails(t) PROVE LocalsOK'
  BY <1>5
     DEF FlushWriteFails, LocalsOK, TypeOK, Locals, Goto, Claiming, Sweeping,
         Reserving, Replacing, FlushPinned
<1>6. ASSUME FlushClear(t) PROVE LocalsOK'
  BY <1>6
     DEF FlushClear, LocalsOK, TypeOK, Locals, Goto, Claiming, Sweeping, Reserving,
         Replacing, FlushPinned
<1>7. ASSUME FlushUnpin(t) PROVE LocalsOK'
  BY <1>7, FlushUnpinStep
     DEF LocalsOK, Claiming, Sweeping, Reserving, Replacing, FlushPinned
<1>8. ASSUME FlushAbort(t) PROVE LocalsOK'
  BY <1>8
     DEF FlushAbort, LocalsOK, TypeOK, Locals, Goto, Return, NoCall, Claiming,
         Sweeping, Reserving, Replacing, FlushPinned
<1> QED BY <1>1, <1>2, <1>3, <1>4, <1>5, <1>6, <1>7, <1>8

LEMMA GuardLocals ==
  ASSUME OwnershipInv, TypeOK', NEW t \in Threads, NEW f \in Frames
  PROVE  /\ \A p \in Pages, m \in Modes : Fetch(t, p, m) => LocalsOK'
         /\ BeginWrite(t, f) => LocalsOK'
         /\ \A v \in Contents : EndWrite(t, f, v) => LocalsOK'
         /\ DropGuard(t, f) => LocalsOK'
<1> USE DEF OwnershipInv
<1>1. ASSUME NEW p \in Pages, NEW m \in Modes, Fetch(t, p, m) PROVE LocalsOK'
  BY <1>1
     DEF Fetch, LocalsOK, TypeOK, Locals, Goto, NoCall, Claiming, Sweeping, Reserving,
         Replacing, FlushPinned
<1>2. ASSUME BeginWrite(t, f) PROVE LocalsOK'
  BY <1>2
     DEF BeginWrite, LocalsOK, TypeOK, Locals, Claiming, Sweeping, Reserving,
         Replacing, FlushPinned, threadVars
<1>4. ASSUME DropGuard(t, f) PROVE LocalsOK'
  BY <1>4
     DEF DropGuard, LocalsOK, TypeOK, Locals, Claiming, Sweeping, Reserving, Replacing,
         FlushPinned, threadVars
<1>3. ASSUME NEW v \in Contents, EndWrite(t, f, v) PROVE LocalsOK'
  BY <1>3
     DEF EndWrite, LocalsOK, TypeOK, Locals, Claiming, Sweeping, Reserving, Replacing,
         FlushPinned, threadVars
<1> QED BY <1>1, <1>2, <1>3, <1>4

LEMMA FetchFresh ==
  ASSUME OwnershipInv, TypeOK', NEW t \in Threads
  PROVE  /\ Hit(t) => FetchIsNew'
         /\ WaitForEntry(t) => FetchIsNew'
         /\ Miss(t) => FetchIsNew'
         /\ Claim(t) => FetchIsNew'
         /\ Wake(t) => FetchIsNew'
<1> USE DEF OwnershipInv
<1>1. ASSUME Hit(t) PROVE FetchIsNew'
  BY <1>1, LocalTypes, PoolAssumption
     DEF Hit, FetchIsNew, TypeOK, Goto, Return, NoCall, Claiming, Sweeping, Reserving,
         Replacing
<1>2. ASSUME WaitForEntry(t) PROVE FetchIsNew'
  BY <1>2, LocalTypes, PoolAssumption
     DEF WaitForEntry, FetchIsNew, TypeOK, Goto, Wait, frameVars, Claiming, Sweeping,
         Reserving, Replacing
<1>3. ASSUME Miss(t) PROVE FetchIsNew'
  BY <1>3, LocalTypes, PoolAssumption
     DEF Miss, FetchIsNew, TypeOK, Goto, frameVars, Claiming, Sweeping, Reserving,
         Replacing
<1>4. ASSUME Claim(t) PROVE FetchIsNew'
  BY <1>4, ClaimStep DEF FetchIsNew, Claiming, Sweeping, Reserving, Replacing
<1>5. ASSUME Wake(t) PROVE FetchIsNew'
  BY <1>5, LocalTypes, PoolAssumption
     DEF Wake, FetchIsNew, TypeOK, Goto, Resume, frameVars, Claiming, Sweeping,
         Reserving, Replacing
<1> QED BY <1>1, <1>2, <1>3, <1>4, <1>5

LEMMA SweepFresh ==
  ASSUME OwnershipInv, TypeOK', NEW t \in Threads
  PROVE  /\ Tick(t) => FetchIsNew'
         /\ Snapshot(t) => FetchIsNew'
         /\ ReserveFails(t) => FetchIsNew'
         /\ SecondChance(t) => FetchIsNew'
         /\ Reserve(t) => FetchIsNew'
         /\ Scan(t) => FetchIsNew'
<1> USE DEF OwnershipInv
<1>1. ASSUME Tick(t) PROVE FetchIsNew'
  BY <1>1, LocalTypes, PoolAssumption
     DEF Tick, FetchIsNew, TypeOK, Goto, frameVars, Claiming, Sweeping, Reserving,
         Replacing
<1>2. ASSUME Snapshot(t) PROVE FetchIsNew'
  BY <1>2, SearchStep DEF FetchIsNew, Claiming, Sweeping, Reserving, Replacing
<1>3. ASSUME ReserveFails(t) PROVE FetchIsNew'
  BY <1>3, SearchStep DEF FetchIsNew, Claiming, Sweeping, Reserving, Replacing
<1>4. ASSUME SecondChance(t) PROVE FetchIsNew'
  BY <1>4, SearchStep DEF FetchIsNew, Claiming, Sweeping, Reserving, Replacing
<1>5. ASSUME Reserve(t) PROVE FetchIsNew'
  BY <1>5, LocalTypes, PoolAssumption
     DEF Reserve, FetchIsNew, TypeOK, Goto, Claiming, Sweeping, Reserving, Replacing
<1>6. ASSUME Scan(t) PROVE FetchIsNew'
  BY <1>6, SearchStep DEF FetchIsNew, Claiming, Sweeping, Reserving, Replacing
<1> QED BY <1>1, <1>2, <1>3, <1>4, <1>5, <1>6

LEMMA LoadFresh ==
  ASSUME OwnershipInv, TypeOK', NEW t \in Threads
  PROVE  /\ WriteBack(t) => FetchIsNew'
         /\ WriteBackFails(t) => FetchIsNew'
         /\ Load(t) => FetchIsNew'
         /\ LoadFails(t) => FetchIsNew'
         /\ RemoveOld(t) => FetchIsNew'
         /\ Publish(t) => FetchIsNew'
         /\ Finish(t) => FetchIsNew'
         /\ Restore(t) => FetchIsNew'
         /\ Unreserve(t) => FetchIsNew'
         /\ Abandon(t) => FetchIsNew'
         /\ GiveUp(t) => FetchIsNew'
<1> USE DEF OwnershipInv
<1>1. ASSUME WriteBack(t) PROVE FetchIsNew'
  BY <1>1, LocalTypes, PoolAssumption
     DEF WriteBack, FetchIsNew, TypeOK, Goto, Claiming, Sweeping, Reserving, Replacing
<1>2. ASSUME WriteBackFails(t) PROVE FetchIsNew'
  BY <1>2, LocalTypes, PoolAssumption
     DEF WriteBackFails, FetchIsNew, TypeOK, Goto, frameVars, Claiming, Sweeping,
         Reserving, Replacing
<1>3. ASSUME Load(t) PROVE FetchIsNew'
  BY <1>3, LocalTypes, PoolAssumption
     DEF Load, FetchIsNew, TypeOK, Goto, Claiming, Sweeping, Reserving, Replacing
<1>4. ASSUME LoadFails(t) PROVE FetchIsNew'
  BY <1>4, LocalTypes, PoolAssumption
     DEF LoadFails, FetchIsNew, TypeOK, Goto, frameVars, Claiming, Sweeping, Reserving,
         Replacing
<1>5. ASSUME RemoveOld(t) PROVE FetchIsNew'
  BY <1>5, LocalTypes, PoolAssumption
     DEF RemoveOld, FetchIsNew, TypeOK, Goto, Claiming, Sweeping, Reserving, Replacing
<1>6. ASSUME Publish(t) PROVE FetchIsNew'
  BY <1>6, LocalTypes, PoolAssumption
     DEF Publish, FetchIsNew, TypeOK, Goto, Claiming, Sweeping, Reserving, Replacing
<1>7. ASSUME Finish(t) PROVE FetchIsNew'
  BY <1>7, LocalTypes, PoolAssumption
     DEF Finish, FetchIsNew, TypeOK, Goto, Return, NoCall, frameVars, Claiming,
         Sweeping, Reserving, Replacing
<1>8. ASSUME Restore(t) PROVE FetchIsNew'
  BY <1>8, LocalTypes, PoolAssumption
     DEF Restore, FetchIsNew, TypeOK, Goto, Claiming, Sweeping, Reserving, Replacing
<1>9. ASSUME Unreserve(t) PROVE FetchIsNew'
  BY <1>9, LocalTypes, PoolAssumption
     DEF Unreserve, FetchIsNew, TypeOK, Goto, Claiming, Sweeping, Reserving, Replacing
<1>10. ASSUME Abandon(t) PROVE FetchIsNew'
  BY <1>10, LocalTypes, PoolAssumption
     DEF Abandon, FetchIsNew, TypeOK, Goto, Claiming, Sweeping, Reserving, Replacing
<1>11. ASSUME GiveUp(t) PROVE FetchIsNew'
  BY <1>11, LocalTypes, PoolAssumption
     DEF GiveUp, FetchIsNew, TypeOK, Goto, Return, NoCall, frameVars, Claiming,
         Sweeping, Reserving, Replacing
<1> QED BY <1>1, <1>2, <1>3, <1>4, <1>5, <1>6, <1>7, <1>8, <1>9, <1>10, <1>11

LEMMA FlushFresh ==
  ASSUME OwnershipInv, TypeOK', NEW t \in Threads
  PROVE  /\ FlushAll(t) => FetchIsNew'
         /\ FlushPin(t) => FetchIsNew'
         /\ FlushCheck(t) => FetchIsNew'
         /\ FlushWrite(t) => FetchIsNew'
         /\ FlushWriteFails(t) => FetchIsNew'
         /\ FlushClear(t) => FetchIsNew'
         /\ FlushUnpin(t) => FetchIsNew'
         /\ FlushAbort(t) => FetchIsNew'
<1> USE DEF OwnershipInv
<1>1. ASSUME FlushAll(t) PROVE FetchIsNew'
  BY <1>1, LocalTypes, PoolAssumption
     DEF FlushAll, FetchIsNew, TypeOK, Goto, frameVars, Claiming, Sweeping, Reserving,
         Replacing
<1>2. ASSUME FlushPin(t) PROVE FetchIsNew'
  <2>1. /\ pc'[t] \in {"idle", "flushPin", "awaitFlush", "flushCheck"}
        /\ \A u \in Threads \ {t} : pc'[u] = pc[u] /\ call'[u] = call[u]
        /\ guard' = guard
    BY <1>2, FlushPinCases
  <2> QED BY <2>1 DEF FetchIsNew, Claiming, Sweeping, Reserving, Replacing
<1>3. ASSUME FlushCheck(t) PROVE FetchIsNew'
  BY <1>3, LocalTypes, PoolAssumption
     DEF FlushCheck, FetchIsNew, TypeOK, Goto, frameVars, Claiming, Sweeping,
         Reserving, Replacing
<1>4. ASSUME FlushWrite(t) PROVE FetchIsNew'
  BY <1>4, LocalTypes, PoolAssumption
     DEF FlushWrite, FetchIsNew, TypeOK, Goto, frameVars, Claiming, Sweeping,
         Reserving, Replacing
<1>5. ASSUME FlushWriteFails(t) PROVE FetchIsNew'
  BY <1>5, LocalTypes, PoolAssumption
     DEF FlushWriteFails, FetchIsNew, TypeOK, Goto, frameVars, Claiming, Sweeping,
         Reserving, Replacing
<1>6. ASSUME FlushClear(t) PROVE FetchIsNew'
  BY <1>6, LocalTypes, PoolAssumption
     DEF FlushClear, FetchIsNew, TypeOK, Goto, Claiming, Sweeping, Reserving, Replacing
<1>7. ASSUME FlushUnpin(t) PROVE FetchIsNew'
  BY <1>7, FlushUnpinStep
     DEF FetchIsNew, Claiming, Sweeping, Reserving, Replacing, FlushPinned
<1>8. ASSUME FlushAbort(t) PROVE FetchIsNew'
  BY <1>8, LocalTypes, PoolAssumption
     DEF FlushAbort, FetchIsNew, TypeOK, Goto, Return, NoCall, Claiming, Sweeping,
         Reserving, Replacing
<1> QED BY <1>1, <1>2, <1>3, <1>4, <1>5, <1>6, <1>7, <1>8

LEMMA GuardFresh ==
  ASSUME OwnershipInv, TypeOK', NEW t \in Threads, NEW f \in Frames
  PROVE  /\ \A p \in Pages, m \in Modes : Fetch(t, p, m) => FetchIsNew'
         /\ BeginWrite(t, f) => FetchIsNew'
         /\ \A v \in Contents : EndWrite(t, f, v) => FetchIsNew'
         /\ DropGuard(t, f) => FetchIsNew'
<1> USE DEF OwnershipInv
<1>1. ASSUME NEW p \in Pages, NEW m \in Modes, Fetch(t, p, m) PROVE FetchIsNew'
  BY <1>1, LocalTypes, PoolAssumption
     DEF Fetch, FetchIsNew, TypeOK, Goto, NoCall, frameVars, Held, Claiming, Sweeping,
         Reserving, Replacing
<1>2. ASSUME BeginWrite(t, f) PROVE FetchIsNew'
  BY <1>2, LocalTypes, PoolAssumption
     DEF BeginWrite, FetchIsNew, TypeOK, threadVars, Claiming, Sweeping, Reserving,
         Replacing
<1>3. ASSUME NEW v \in Contents, EndWrite(t, f, v) PROVE FetchIsNew'
  BY <1>3, LocalTypes, PoolAssumption
     DEF EndWrite, FetchIsNew, TypeOK, threadVars, Claiming, Sweeping, Reserving,
         Replacing
<1>4. ASSUME DropGuard(t, f) PROVE FetchIsNew'
  BY <1>4, LocalTypes, PoolAssumption
     DEF DropGuard, FetchIsNew, TypeOK, threadVars, Claiming, Sweeping, Reserving,
         Replacing
<1> QED BY <1>1, <1>2, <1>3, <1>4

LEMMA FetchFilled ==
  ASSUME OwnershipInv, TypeOK', NEW t \in Threads
  PROVE  /\ Hit(t) => FramesFilled'
         /\ WaitForEntry(t) => FramesFilled'
         /\ Miss(t) => FramesFilled'
         /\ Claim(t) => FramesFilled'
         /\ Wake(t) => FramesFilled'
<1> USE DEF OwnershipInv
<1>1. ASSUME Hit(t) PROVE FramesFilled'
  BY <1>1 DEF Hit, FramesFilled, TypeOK, Goto, Return, NoCall, Reserving, Replacing
<1>2. ASSUME WaitForEntry(t) PROVE FramesFilled'
  BY <1>2
     DEF WaitForEntry, FramesFilled, TypeOK, Goto, Wait, frameVars, Reserving,
         Replacing
<1>3. ASSUME Miss(t) PROVE FramesFilled'
  BY <1>3 DEF Miss, FramesFilled, TypeOK, Goto, frameVars, Reserving, Replacing
<1>4. ASSUME Claim(t) PROVE FramesFilled'
  BY <1>4, ClaimStep DEF Claim, FramesFilled, Reserving, Replacing
<1>5. ASSUME Wake(t) PROVE FramesFilled'
  BY <1>5 DEF Wake, FramesFilled, TypeOK, Goto, Resume, frameVars, Reserving, Replacing
<1> QED BY <1>1, <1>2, <1>3, <1>4, <1>5

LEMMA SweepFilled ==
  ASSUME OwnershipInv, TypeOK', NEW t \in Threads
  PROVE  /\ Tick(t) => FramesFilled'
         /\ Snapshot(t) => FramesFilled'
         /\ ReserveFails(t) => FramesFilled'
         /\ SecondChance(t) => FramesFilled'
         /\ Reserve(t) => FramesFilled'
         /\ Scan(t) => FramesFilled'
<1> USE DEF OwnershipInv
<1>1. ASSUME Tick(t) PROVE FramesFilled'
  BY <1>1 DEF Tick, FramesFilled, TypeOK, Goto, frameVars, Reserving, Replacing
<1>2. ASSUME Snapshot(t) PROVE FramesFilled'
  BY <1>2, SearchStep DEF Snapshot, FramesFilled, Reserving, Replacing
<1>3. ASSUME ReserveFails(t) PROVE FramesFilled'
  BY <1>3, SearchStep DEF ReserveFails, FramesFilled, Reserving, Replacing
<1>4. ASSUME SecondChance(t) PROVE FramesFilled'
  BY <1>4, SearchStep DEF SecondChance, FramesFilled, Reserving, Replacing
<1>5. ASSUME Reserve(t) PROVE FramesFilled'
  <2>1. /\ pc'[t] \in {"writeBack", "load"}
        /\ call'[t].seen = call[t].seen /\ call'[t].cur = call[t].cur
        /\ \A u \in Threads \ {t} : pc'[u] = pc[u] /\ call'[u] = call[u]
    BY <1>5 DEF Reserve, Goto, TypeOK, Locals
  <2>2. state' = [state EXCEPT ![call[t].cur] = Evicting(t)] /\ data' = data
    BY <1>5 DEF Reserve
  <2>3. call[t].seen # NoPage => data[call[t].cur] \in Contents
    <3>1. call[t].seen # NoPage => state[call[t].cur] = Valid(call[t].seen)
      BY <1>5 DEF Reserve, Reservable
    <3> QED BY <3>1, LocalTypes DEF FramesFilled
  <2>4. \A p \in Pages, f \in Frames : state'[f] = Valid(p) => state[f] = Valid(p)
    BY <2>2, LocalTypes, Constructors DEF TypeOK
  <2> QED BY <2>1, <2>2, <2>3, <2>4 DEF FramesFilled, Reserving, Replacing
<1>6. ASSUME Scan(t) PROVE FramesFilled'
  BY <1>6, SearchStep DEF Scan, FramesFilled, Reserving, Replacing
<1> QED BY <1>1, <1>2, <1>3, <1>4, <1>5, <1>6

LEMMA LoadFilled ==
  ASSUME OwnershipInv, TypeOK', NEW t \in Threads
  PROVE  /\ WriteBack(t) => FramesFilled'
         /\ WriteBackFails(t) => FramesFilled'
         /\ Load(t) => FramesFilled'
         /\ LoadFails(t) => FramesFilled'
         /\ RemoveOld(t) => FramesFilled'
         /\ Publish(t) => FramesFilled'
         /\ Finish(t) => FramesFilled'
         /\ Restore(t) => FramesFilled'
         /\ Unreserve(t) => FramesFilled'
         /\ Abandon(t) => FramesFilled'
         /\ GiveUp(t) => FramesFilled'
<1> USE DEF OwnershipInv
<1>1. ASSUME WriteBack(t) PROVE FramesFilled'
  BY <1>1 DEF WriteBack, FramesFilled, TypeOK, Goto, Reserving, Replacing
<1>2. ASSUME WriteBackFails(t) PROVE FramesFilled'
  BY <1>2
     DEF WriteBackFails, FramesFilled, TypeOK, Goto, frameVars, Reserving, Replacing
<1>3. ASSUME Load(t) PROVE FramesFilled'
  BY <1>3, LocalTypes, PageKnown
     DEF Load, FramesFilled, TypeOK, TableMatchesFrames, Goto, Claiming, Sweeping,
         Reserving, Replacing
<1>4. ASSUME LoadFails(t) PROVE FramesFilled'
  BY <1>4 DEF LoadFails, FramesFilled, TypeOK, Goto, frameVars, Reserving, Replacing
<1>5. ASSUME RemoveOld(t) PROVE FramesFilled'
  BY <1>5, SeenKnown, PoolAssumption
     DEF RemoveOld, FramesFilled, TypeOK, Goto, Reserving, Replacing
<1>6. ASSUME Publish(t) PROVE FramesFilled'
  BY <1>6 DEF Publish, FramesFilled, TypeOK, Goto, Reserving, Replacing
<1>7. ASSUME Finish(t) PROVE FramesFilled'
  BY <1>7
     DEF Finish, FramesFilled, TypeOK, Goto, Return, NoCall, frameVars, Reserving,
         Replacing
<1>8. ASSUME Restore(t) PROVE FramesFilled'
  BY <1>8, Constructors, LocalTypes, PoolAssumption
     DEF Restore, FramesFilled, TypeOK, Goto, Reserving, Replacing
<1>9. ASSUME Unreserve(t) PROVE FramesFilled'
  BY <1>9 DEF Unreserve, FramesFilled, TypeOK, Goto, Reserving, Replacing
<1>10. ASSUME Abandon(t) PROVE FramesFilled'
  BY <1>10 DEF Abandon, FramesFilled, TypeOK, Goto, Reserving, Replacing
<1>11. ASSUME GiveUp(t) PROVE FramesFilled'
  BY <1>11
     DEF GiveUp, FramesFilled, TypeOK, Goto, Return, NoCall, frameVars, Reserving,
         Replacing
<1> QED BY <1>1, <1>2, <1>3, <1>4, <1>5, <1>6, <1>7, <1>8, <1>9, <1>10, <1>11

LEMMA FlushFilled ==
  ASSUME OwnershipInv, TypeOK', NEW t \in Threads
  PROVE  /\ FlushAll(t) => FramesFilled'
         /\ FlushPin(t) => FramesFilled'
         /\ FlushCheck(t) => FramesFilled'
         /\ FlushWrite(t) => FramesFilled'
         /\ FlushWriteFails(t) => FramesFilled'
         /\ FlushClear(t) => FramesFilled'
         /\ FlushUnpin(t) => FramesFilled'
         /\ FlushAbort(t) => FramesFilled'
<1> USE DEF OwnershipInv
<1>1. ASSUME FlushAll(t) PROVE FramesFilled'
  BY <1>1 DEF FlushAll, FramesFilled, TypeOK, Goto, frameVars, Reserving, Replacing
<1>2. ASSUME FlushPin(t) PROVE FramesFilled'
  BY <1>2, FlushPinCases DEF FlushPin, FramesFilled, Reserving, Replacing
<1>3. ASSUME FlushCheck(t) PROVE FramesFilled'
  BY <1>3 DEF FlushCheck, FramesFilled, TypeOK, Goto, frameVars, Reserving, Replacing
<1>4. ASSUME FlushWrite(t) PROVE FramesFilled'
  BY <1>4 DEF FlushWrite, FramesFilled, TypeOK, Goto, frameVars, Reserving, Replacing
<1>5. ASSUME FlushWriteFails(t) PROVE FramesFilled'
  BY <1>5
     DEF FlushWriteFails, FramesFilled, TypeOK, Goto, frameVars, Reserving, Replacing
<1>6. ASSUME FlushClear(t) PROVE FramesFilled'
  BY <1>6 DEF FlushClear, FramesFilled, TypeOK, Goto, Reserving, Replacing
<1>7. ASSUME FlushUnpin(t) PROVE FramesFilled'
  BY <1>7, FlushUnpinStep DEF FlushUnpin, FramesFilled, Reserving, Replacing
<1>8. ASSUME FlushAbort(t) PROVE FramesFilled'
  BY <1>8
     DEF FlushAbort, FramesFilled, TypeOK, Goto, Return, NoCall, Reserving, Replacing
<1> QED BY <1>1, <1>2, <1>3, <1>4, <1>5, <1>6, <1>7, <1>8

LEMMA GuardFilled ==
  ASSUME OwnershipInv, TypeOK', NEW t \in Threads, NEW f \in Frames
  PROVE  /\ \A p \in Pages, m \in Modes : Fetch(t, p, m) => FramesFilled'
         /\ BeginWrite(t, f) => FramesFilled'
         /\ \A v \in Contents : EndWrite(t, f, v) => FramesFilled'
         /\ DropGuard(t, f) => FramesFilled'
<1> USE DEF OwnershipInv
<1>1. ASSUME NEW p \in Pages, NEW m \in Modes, Fetch(t, p, m) PROVE FramesFilled'
  BY <1>1 DEF Fetch, FramesFilled, TypeOK, Goto, NoCall, frameVars, Reserving, Replacing
<1>2. ASSUME BeginWrite(t, f) PROVE FramesFilled'
  BY <1>2 DEF BeginWrite, FramesFilled, TypeOK, threadVars, Reserving, Replacing
<1>3. ASSUME NEW v \in Contents, EndWrite(t, f, v) PROVE FramesFilled'
  BY <1>3 DEF EndWrite, FramesFilled, TypeOK, threadVars, Reserving, Replacing
<1>4. ASSUME DropGuard(t, f) PROVE FramesFilled'
  BY <1>4 DEF DropGuard, FramesFilled, TypeOK, threadVars, Reserving, Replacing
<1> QED BY <1>1, <1>2, <1>3, <1>4

LEMMA FetchPins ==
  ASSUME OwnershipInv, TypeOK', NEW t \in Threads
  PROVE  /\ Hit(t) => PinsAccounted'
         /\ WaitForEntry(t) => PinsAccounted'
         /\ Miss(t) => PinsAccounted'
         /\ Claim(t) => PinsAccounted'
         /\ Wake(t) => PinsAccounted'
<1> USE DEF OwnershipInv
<1>1. ASSUME Hit(t) PROVE PinsAccounted'
  <2> DEFINE p == call[t].page
             f == table[p].frame
  <2>1. p \in Pages
    BY <1>1, PageKnown DEF Hit
  <2>2. f \in Frames /\ state[f] = Valid(p)
    BY <1>1, <2>1, EntryCases DEF Hit, TableMatchesFrames
  <2>3. guard[t][f] = NoPage
    BY <1>1, <2>2, Constructors DEF Hit, FetchIsNew, GuardsKeepTheirPage
  <2>4. guard' = [guard EXCEPT ![t][f] = p] /\ pins' = [pins EXCEPT ![f] = @ + 1]
    BY <1>1 DEF Hit
  <2>5. /\ pc[t] \notin Pinning /\ pc'[t] \notin Pinning
        /\ \A u \in Threads \ {t} : pc'[u] = pc[u] /\ call'[u] = call[u]
    BY <1>1 DEF Hit, Return, Goto, TypeOK, Pinning, Reserving, Replacing, FlushPinned
  <2>6. \A g \in Frames : CallsOn(g)' = CallsOn(g)
    BY <2>5 DEF CallsOn
  <2> QED BY <2>1, <2>2, <2>3, <2>4, <2>6, GuardTakesPin
<1>2. ASSUME WaitForEntry(t) PROVE PinsAccounted'
  <2>1. /\ pc'[t] \in Pinning <=> pc[t] \in Pinning
        /\ pc[t] \in Pinning => call'[t].cur = call[t].cur
        /\ \A u \in Threads \ {t} : pc'[u] = pc[u] /\ call'[u] = call[u]
        /\ guard' = guard /\ pins' = pins
    BY <1>2
       DEF WaitForEntry, Goto, Wait, frameVars, TypeOK, Locals, Pinning, Reserving,
           Replacing, FlushPinned
  <2> QED BY <2>1, PinsStay
<1>3. ASSUME Miss(t) PROVE PinsAccounted'
  <2>1. /\ pc'[t] \in Pinning <=> pc[t] \in Pinning
        /\ pc[t] \in Pinning => call'[t].cur = call[t].cur
        /\ \A u \in Threads \ {t} : pc'[u] = pc[u] /\ call'[u] = call[u]
        /\ guard' = guard /\ pins' = pins
    BY <1>3
       DEF Miss, Goto, frameVars, TypeOK, Locals, Pinning, Reserving, Replacing,
           FlushPinned
  <2> QED BY <2>1, PinsStay
<1>4. ASSUME Claim(t) PROVE PinsAccounted'
  <2>1. /\ pc'[t] \in Pinning <=> pc[t] \in Pinning
        /\ pc[t] \in Pinning => call'[t].cur = call[t].cur
        /\ \A u \in Threads \ {t} : pc'[u] = pc[u] /\ call'[u] = call[u]
        /\ guard' = guard /\ pins' = pins
    BY <1>4, ClaimStep DEF Pinning, Reserving, Replacing, FlushPinned
  <2> QED BY <2>1, PinsStay
<1>5. ASSUME Wake(t) PROVE PinsAccounted'
  <2>1. /\ pc'[t] \in Pinning <=> pc[t] \in Pinning
        /\ pc[t] \in Pinning => call'[t].cur = call[t].cur
        /\ \A u \in Threads \ {t} : pc'[u] = pc[u] /\ call'[u] = call[u]
        /\ guard' = guard /\ pins' = pins
    BY <1>5
       DEF Wake, Goto, Resume, frameVars, TypeOK, Locals, Pinning, Reserving,
           Replacing, FlushPinned
  <2> QED BY <2>1, PinsStay
<1> QED BY <1>1, <1>2, <1>3, <1>4, <1>5

LEMMA SweepPins ==
  ASSUME OwnershipInv, TypeOK', NEW t \in Threads
  PROVE  /\ Tick(t) => PinsAccounted'
         /\ Snapshot(t) => PinsAccounted'
         /\ ReserveFails(t) => PinsAccounted'
         /\ SecondChance(t) => PinsAccounted'
         /\ Reserve(t) => PinsAccounted'
         /\ Scan(t) => PinsAccounted'
<1> USE DEF OwnershipInv
<1>1. ASSUME Tick(t) PROVE PinsAccounted'
  <2>1. /\ pc'[t] \in Pinning <=> pc[t] \in Pinning
        /\ pc[t] \in Pinning => call'[t].cur = call[t].cur
        /\ \A u \in Threads \ {t} : pc'[u] = pc[u] /\ call'[u] = call[u]
        /\ guard' = guard /\ pins' = pins
    BY <1>1
       DEF Tick, Goto, frameVars, TypeOK, Locals, Pinning, Reserving, Replacing,
           FlushPinned
  <2> QED BY <2>1, PinsStay
<1>2. ASSUME Snapshot(t) PROVE PinsAccounted'
  <2>1. /\ pc'[t] \in Pinning <=> pc[t] \in Pinning
        /\ pc[t] \in Pinning => call'[t].cur = call[t].cur
        /\ \A u \in Threads \ {t} : pc'[u] = pc[u] /\ call'[u] = call[u]
        /\ guard' = guard /\ pins' = pins
    BY <1>2, SearchStep DEF Pinning, Reserving, Replacing, FlushPinned
  <2> QED BY <2>1, PinsStay
<1>3. ASSUME ReserveFails(t) PROVE PinsAccounted'
  <2>1. /\ pc'[t] \in Pinning <=> pc[t] \in Pinning
        /\ pc[t] \in Pinning => call'[t].cur = call[t].cur
        /\ \A u \in Threads \ {t} : pc'[u] = pc[u] /\ call'[u] = call[u]
        /\ guard' = guard /\ pins' = pins
    BY <1>3, SearchStep DEF Pinning, Reserving, Replacing, FlushPinned
  <2> QED BY <2>1, PinsStay
<1>4. ASSUME SecondChance(t) PROVE PinsAccounted'
  <2>1. /\ pc'[t] \in Pinning <=> pc[t] \in Pinning
        /\ pc[t] \in Pinning => call'[t].cur = call[t].cur
        /\ \A u \in Threads \ {t} : pc'[u] = pc[u] /\ call'[u] = call[u]
        /\ guard' = guard /\ pins' = pins
    BY <1>4, SearchStep DEF Pinning, Reserving, Replacing, FlushPinned
  <2> QED BY <2>1, PinsStay
<1>5. ASSUME Reserve(t) PROVE PinsAccounted'
  <2>1. /\ pc[t] \notin Pinning /\ pc'[t] \in Pinning /\ call'[t].cur = call[t].cur
        /\ \A u \in Threads \ {t} : pc'[u] = pc[u] /\ call'[u] = call[u]
        /\ guard' = guard
    BY <1>5
       DEF Reserve, Goto, TypeOK, Locals, Pinning, Reserving, Replacing, FlushPinned
  <2>2. call[t].cur \in Frames
    BY LocalTypes
  <2>3. pins' = [pins EXCEPT ![call[t].cur] = @ + 1]
    BY <1>5, <2>2 DEF Reserve, Reservable, TypeOK
  <2> QED BY <2>1, <2>2, <2>3, CallTakesPin
<1>6. ASSUME Scan(t) PROVE PinsAccounted'
  <2>1. /\ pc'[t] \in Pinning <=> pc[t] \in Pinning
        /\ pc[t] \in Pinning => call'[t].cur = call[t].cur
        /\ \A u \in Threads \ {t} : pc'[u] = pc[u] /\ call'[u] = call[u]
        /\ guard' = guard /\ pins' = pins
    BY <1>6, SearchStep DEF Pinning, Reserving, Replacing, FlushPinned
  <2> QED BY <2>1, PinsStay
<1> QED BY <1>1, <1>2, <1>3, <1>4, <1>5, <1>6

LEMMA LoadPins ==
  ASSUME OwnershipInv, TypeOK', NEW t \in Threads
  PROVE  /\ WriteBack(t) => PinsAccounted'
         /\ WriteBackFails(t) => PinsAccounted'
         /\ Load(t) => PinsAccounted'
         /\ LoadFails(t) => PinsAccounted'
         /\ RemoveOld(t) => PinsAccounted'
         /\ Publish(t) => PinsAccounted'
         /\ Finish(t) => PinsAccounted'
         /\ Restore(t) => PinsAccounted'
         /\ Unreserve(t) => PinsAccounted'
         /\ Abandon(t) => PinsAccounted'
         /\ GiveUp(t) => PinsAccounted'
<1> USE DEF OwnershipInv
<1>1. ASSUME WriteBack(t) PROVE PinsAccounted'
  <2>1. /\ pc'[t] \in Pinning <=> pc[t] \in Pinning
        /\ pc[t] \in Pinning => call'[t].cur = call[t].cur
        /\ \A u \in Threads \ {t} : pc'[u] = pc[u] /\ call'[u] = call[u]
        /\ guard' = guard /\ pins' = pins
    BY <1>1
       DEF WriteBack, Goto, TypeOK, Locals, Pinning, Reserving, Replacing, FlushPinned
  <2> QED BY <2>1, PinsStay
<1>2. ASSUME WriteBackFails(t) PROVE PinsAccounted'
  <2>1. /\ pc'[t] \in Pinning <=> pc[t] \in Pinning
        /\ pc[t] \in Pinning => call'[t].cur = call[t].cur
        /\ \A u \in Threads \ {t} : pc'[u] = pc[u] /\ call'[u] = call[u]
        /\ guard' = guard /\ pins' = pins
    BY <1>2
       DEF WriteBackFails, Goto, frameVars, TypeOK, Locals, Pinning, Reserving,
           Replacing, FlushPinned
  <2> QED BY <2>1, PinsStay
<1>3. ASSUME Load(t) PROVE PinsAccounted'
  <2>1. /\ pc'[t] \in Pinning <=> pc[t] \in Pinning
        /\ pc[t] \in Pinning => call'[t].cur = call[t].cur
        /\ \A u \in Threads \ {t} : pc'[u] = pc[u] /\ call'[u] = call[u]
        /\ guard' = guard /\ pins' = pins
    BY <1>3 DEF Load, Goto, TypeOK, Locals, Pinning, Reserving, Replacing, FlushPinned
  <2> QED BY <2>1, PinsStay
<1>4. ASSUME LoadFails(t) PROVE PinsAccounted'
  <2>1. /\ pc'[t] \in Pinning <=> pc[t] \in Pinning
        /\ pc[t] \in Pinning => call'[t].cur = call[t].cur
        /\ \A u \in Threads \ {t} : pc'[u] = pc[u] /\ call'[u] = call[u]
        /\ guard' = guard /\ pins' = pins
    BY <1>4
       DEF LoadFails, Goto, frameVars, TypeOK, Locals, Pinning, Reserving, Replacing,
           FlushPinned
  <2> QED BY <2>1, PinsStay
<1>5. ASSUME RemoveOld(t) PROVE PinsAccounted'
  <2>1. /\ pc'[t] \in Pinning <=> pc[t] \in Pinning
        /\ pc[t] \in Pinning => call'[t].cur = call[t].cur
        /\ \A u \in Threads \ {t} : pc'[u] = pc[u] /\ call'[u] = call[u]
        /\ guard' = guard /\ pins' = pins
    BY <1>5
       DEF RemoveOld, Goto, TypeOK, Locals, Pinning, Reserving, Replacing, FlushPinned
  <2> QED BY <2>1, PinsStay
<1>6. ASSUME Publish(t) PROVE PinsAccounted'
  <2>1. /\ pc'[t] \in Pinning <=> pc[t] \in Pinning
        /\ pc[t] \in Pinning => call'[t].cur = call[t].cur
        /\ \A u \in Threads \ {t} : pc'[u] = pc[u] /\ call'[u] = call[u]
        /\ guard' = guard /\ pins' = pins
    BY <1>6
       DEF Publish, Goto, TypeOK, Locals, Pinning, Reserving, Replacing, FlushPinned
  <2> QED BY <2>1, PinsStay
<1>7. ASSUME Finish(t) PROVE PinsAccounted'
  <2> DEFINE p == call[t].page
             f == call[t].cur
  <2>1. p \in Pages /\ f \in Frames
    BY <1>7, PageKnown, LocalTypes DEF Finish, Claiming
  <2>2. guard[t][f] = NoPage
    BY <1>7, <2>1, Constructors DEF Finish, FetchIsNew, GuardsKeepTheirPage, Claiming
  <2>3. guard' = [guard EXCEPT ![t][f] = p] /\ pins' = pins
    BY <1>7 DEF Finish, frameVars
  <2>4. /\ pc[t] \in Pinning /\ pc'[t] \notin Pinning
        /\ \A u \in Threads \ {t} : pc'[u] = pc[u] /\ call'[u] = call[u]
    BY <1>7 DEF Finish, Return, Goto, TypeOK, Pinning, Reserving, Replacing, FlushPinned
  <2> QED BY <2>1, <2>2, <2>3, <2>4, PinHandedOver
<1>8. ASSUME Restore(t) PROVE PinsAccounted'
  <2>1. /\ pc'[t] \in Pinning <=> pc[t] \in Pinning
        /\ pc[t] \in Pinning => call'[t].cur = call[t].cur
        /\ \A u \in Threads \ {t} : pc'[u] = pc[u] /\ call'[u] = call[u]
        /\ guard' = guard /\ pins' = pins
    BY <1>8
       DEF Restore, Goto, TypeOK, Locals, Pinning, Reserving, Replacing, FlushPinned
  <2> QED BY <2>1, PinsStay
<1>9. ASSUME Unreserve(t) PROVE PinsAccounted'
  <2>1. /\ pc[t] \in Pinning /\ pc'[t] \notin Pinning
        /\ \A u \in Threads \ {t} : pc'[u] = pc[u] /\ call'[u] = call[u]
        /\ guard' = guard /\ pins' = [pins EXCEPT ![call[t].cur] = @ - 1]
    BY <1>9 DEF Unreserve, Goto, TypeOK, Pinning, Reserving, Replacing, FlushPinned
  <2> QED BY <2>1, LocalTypes, CallReturnsPin
<1>10. ASSUME Abandon(t) PROVE PinsAccounted'
  <2>1. /\ pc'[t] \in Pinning <=> pc[t] \in Pinning
        /\ pc[t] \in Pinning => call'[t].cur = call[t].cur
        /\ \A u \in Threads \ {t} : pc'[u] = pc[u] /\ call'[u] = call[u]
        /\ guard' = guard /\ pins' = pins
    BY <1>10
       DEF Abandon, Goto, TypeOK, Locals, Pinning, Reserving, Replacing, FlushPinned
  <2> QED BY <2>1, PinsStay
<1>11. ASSUME GiveUp(t) PROVE PinsAccounted'
  <2>1. /\ pc'[t] \in Pinning <=> pc[t] \in Pinning
        /\ pc[t] \in Pinning => call'[t].cur = call[t].cur
        /\ \A u \in Threads \ {t} : pc'[u] = pc[u] /\ call'[u] = call[u]
        /\ guard' = guard /\ pins' = pins
    BY <1>11
       DEF GiveUp, Goto, Return, NoCall, frameVars, TypeOK, Locals, Pinning, Reserving,
           Replacing, FlushPinned
  <2> QED BY <2>1, PinsStay
<1> QED BY <1>1, <1>2, <1>3, <1>4, <1>5, <1>6, <1>7, <1>8, <1>9, <1>10, <1>11

LEMMA FlushPins ==
  ASSUME OwnershipInv, TypeOK', NEW t \in Threads
  PROVE  /\ FlushAll(t) => PinsAccounted'
         /\ FlushPin(t) => PinsAccounted'
         /\ FlushCheck(t) => PinsAccounted'
         /\ FlushWrite(t) => PinsAccounted'
         /\ FlushWriteFails(t) => PinsAccounted'
         /\ FlushClear(t) => PinsAccounted'
         /\ FlushUnpin(t) => PinsAccounted'
         /\ FlushAbort(t) => PinsAccounted'
<1> USE DEF OwnershipInv
<1>1. ASSUME FlushAll(t) PROVE PinsAccounted'
  <2>1. /\ pc'[t] \in Pinning <=> pc[t] \in Pinning
        /\ pc[t] \in Pinning => call'[t].cur = call[t].cur
        /\ \A u \in Threads \ {t} : pc'[u] = pc[u] /\ call'[u] = call[u]
        /\ guard' = guard /\ pins' = pins
    BY <1>1
       DEF FlushAll, Goto, frameVars, TypeOK, Locals, Pinning, Reserving, Replacing,
           FlushPinned
  <2> QED BY <2>1, PinsStay
<1>2. ASSUME FlushPin(t) PROVE PinsAccounted'
  <2> DEFINE f == call[t].cur
  <2>1. /\ pc[t] \notin Pinning /\ guard' = guard
        /\ \A u \in Threads \ {t} : pc'[u] = pc[u] /\ call'[u] = call[u]
    BY <1>2, FlushPinCases DEF Pinning, Reserving, Replacing, FlushPinned
  <2>2. CASE pins' = pins /\ pc'[t] \in {"idle", "flushPin", "awaitFlush"}
    <3>1. pc'[t] \notin Pinning
      BY <2>2 DEF Pinning, Reserving, Replacing, FlushPinned
    <3> QED BY <2>1, <2>2, <3>1, PinsStay
  <2>3. CASE /\ pins' = [pins EXCEPT ![f] = @ + 1] /\ pc'[t] = "flushCheck"
             /\ call'[t] = [call[t] EXCEPT !.seen = state[f].page]
    <3>1. f \in Frames /\ pc'[t] \in Pinning
      BY <2>3, LocalTypes DEF Pinning, Reserving, Replacing, FlushPinned
    <3>2. call'[t].cur = f
      BY <2>3 DEF TypeOK, Locals
    <3> QED BY <2>1, <2>3, <3>1, <3>2, CallTakesPin
  <2> QED BY <1>2, <2>2, <2>3, FlushPinCases
<1>3. ASSUME FlushCheck(t) PROVE PinsAccounted'
  <2>1. /\ pc'[t] \in Pinning <=> pc[t] \in Pinning
        /\ pc[t] \in Pinning => call'[t].cur = call[t].cur
        /\ \A u \in Threads \ {t} : pc'[u] = pc[u] /\ call'[u] = call[u]
        /\ guard' = guard /\ pins' = pins
    BY <1>3
       DEF FlushCheck, Goto, frameVars, TypeOK, Locals, Pinning, Reserving, Replacing,
           FlushPinned
  <2> QED BY <2>1, PinsStay
<1>4. ASSUME FlushWrite(t) PROVE PinsAccounted'
  <2>1. /\ pc'[t] \in Pinning <=> pc[t] \in Pinning
        /\ pc[t] \in Pinning => call'[t].cur = call[t].cur
        /\ \A u \in Threads \ {t} : pc'[u] = pc[u] /\ call'[u] = call[u]
        /\ guard' = guard /\ pins' = pins
    BY <1>4
       DEF FlushWrite, Goto, frameVars, TypeOK, Locals, Pinning, Reserving, Replacing,
           FlushPinned
  <2> QED BY <2>1, PinsStay
<1>5. ASSUME FlushWriteFails(t) PROVE PinsAccounted'
  <2>1. /\ pc'[t] \in Pinning <=> pc[t] \in Pinning
        /\ pc[t] \in Pinning => call'[t].cur = call[t].cur
        /\ \A u \in Threads \ {t} : pc'[u] = pc[u] /\ call'[u] = call[u]
        /\ guard' = guard /\ pins' = pins
    BY <1>5
       DEF FlushWriteFails, Goto, frameVars, TypeOK, Locals, Pinning, Reserving,
           Replacing, FlushPinned
  <2> QED BY <2>1, PinsStay
<1>6. ASSUME FlushClear(t) PROVE PinsAccounted'
  <2>1. /\ pc'[t] \in Pinning <=> pc[t] \in Pinning
        /\ pc[t] \in Pinning => call'[t].cur = call[t].cur
        /\ \A u \in Threads \ {t} : pc'[u] = pc[u] /\ call'[u] = call[u]
        /\ guard' = guard /\ pins' = pins
    BY <1>6
       DEF FlushClear, Goto, TypeOK, Locals, Pinning, Reserving, Replacing, FlushPinned
  <2> QED BY <2>1, PinsStay
<1>7. ASSUME FlushUnpin(t) PROVE PinsAccounted'
  <2>1. /\ pc[t] \in Pinning /\ pc'[t] \notin Pinning
        /\ \A u \in Threads \ {t} : pc'[u] = pc[u] /\ call'[u] = call[u]
        /\ guard' = guard /\ pins' = [pins EXCEPT ![call[t].cur] = @ - 1]
    BY <1>7, FlushUnpinStep DEF Pinning, Reserving, Replacing, FlushPinned
  <2> QED BY <2>1, LocalTypes, CallReturnsPin
<1>8. ASSUME FlushAbort(t) PROVE PinsAccounted'
  <2>1. /\ pc[t] \in Pinning /\ pc'[t] \notin Pinning
        /\ \A u \in Threads \ {t} : pc'[u] = pc[u] /\ call'[u] = call[u]
        /\ guard' = guard /\ pins' = [pins EXCEPT ![call[t].cur] = @ - 1]
    BY <1>8
       DEF FlushAbort, Goto, Return, TypeOK, Pinning, Reserving, Replacing, FlushPinned
  <2> QED BY <2>1, LocalTypes, CallReturnsPin
<1> QED BY <1>1, <1>2, <1>3, <1>4, <1>5, <1>6, <1>7, <1>8

LEMMA GuardPins ==
  ASSUME OwnershipInv, TypeOK', NEW t \in Threads, NEW f \in Frames
  PROVE  /\ \A p \in Pages, m \in Modes : Fetch(t, p, m) => PinsAccounted'
         /\ BeginWrite(t, f) => PinsAccounted'
         /\ \A v \in Contents : EndWrite(t, f, v) => PinsAccounted'
         /\ DropGuard(t, f) => PinsAccounted'
<1> USE DEF OwnershipInv
<1>1. ASSUME NEW p \in Pages, NEW m \in Modes, Fetch(t, p, m) PROVE PinsAccounted'
  <2>1. /\ pc'[t] \in Pinning <=> pc[t] \in Pinning
        /\ pc[t] \in Pinning => call'[t].cur = call[t].cur
        /\ \A u \in Threads \ {t} : pc'[u] = pc[u] /\ call'[u] = call[u]
        /\ guard' = guard /\ pins' = pins
    BY <1>1
       DEF Fetch, Goto, NoCall, frameVars, TypeOK, Locals, Pinning, Reserving,
           Replacing, FlushPinned
  <2> QED BY <2>1, PinsStay
<1>2. ASSUME BeginWrite(t, f) PROVE PinsAccounted'
  <2>1. /\ pc'[t] \in Pinning <=> pc[t] \in Pinning
        /\ pc[t] \in Pinning => call'[t].cur = call[t].cur
        /\ \A u \in Threads \ {t} : pc'[u] = pc[u] /\ call'[u] = call[u]
        /\ guard' = guard /\ pins' = pins
    BY <1>2
       DEF BeginWrite, threadVars, TypeOK, Locals, Pinning, Reserving, Replacing,
           FlushPinned
  <2> QED BY <2>1, PinsStay
<1>3. ASSUME NEW v \in Contents, EndWrite(t, f, v) PROVE PinsAccounted'
  <2>1. /\ pc'[t] \in Pinning <=> pc[t] \in Pinning
        /\ pc[t] \in Pinning => call'[t].cur = call[t].cur
        /\ \A u \in Threads \ {t} : pc'[u] = pc[u] /\ call'[u] = call[u]
        /\ guard' = guard /\ pins' = pins
    BY <1>3
       DEF EndWrite, threadVars, TypeOK, Locals, Pinning, Reserving, Replacing,
           FlushPinned
  <2> QED BY <2>1, PinsStay
<1>4. ASSUME DropGuard(t, f) PROVE PinsAccounted'
  <2>1. /\ guard[t][f] # NoPage /\ guard' = [guard EXCEPT ![t][f] = NoPage]
        /\ pins' = [pins EXCEPT ![f] = @ - 1]
    BY <1>4 DEF DropGuard
  <2>2. \A g \in Frames : CallsOn(g)' = CallsOn(g)
    BY <1>4 DEF DropGuard, CallsOn, threadVars
  <2> QED BY <2>1, <2>2, GuardReturnsPin
<1> QED BY <1>1, <1>2, <1>3, <1>4

LEMMA FetchMatch ==
  ASSUME OwnershipInv, TypeOK', NEW t \in Threads
  PROVE  /\ Hit(t) => TableMatchesFrames'
         /\ WaitForEntry(t) => TableMatchesFrames'
         /\ Miss(t) => TableMatchesFrames'
         /\ Claim(t) => TableMatchesFrames'
         /\ Wake(t) => TableMatchesFrames'
<1> USE DEF OwnershipInv
<1>1. ASSUME Hit(t) PROVE TableMatchesFrames'
  BY <1>1
     DEF Hit, TableMatchesFrames, TypeOK, Goto, Return, NoCall, Claiming, Sweeping,
         Reserving, Replacing
<1>2. ASSUME WaitForEntry(t) PROVE TableMatchesFrames'
  <2>1. /\ pc[t] = "lookup" /\ pc'[t] = "awaitEntry"
        /\ \A u \in Threads \ {t} : pc'[u] = pc[u] /\ call'[u] = call[u]
        /\ call' = call
        /\ table' = table /\ state' = state
    BY <1>2 DEF WaitForEntry, Wait, Goto, TypeOK, frameVars
  <2> QED BY <2>1 DEF TableMatchesFrames, Claiming, Sweeping, Reserving, Replacing
<1>3. ASSUME Miss(t) PROVE TableMatchesFrames'
  BY <1>3
     DEF Miss, TableMatchesFrames, TypeOK, Goto, frameVars, Claiming, Sweeping,
         Reserving, Replacing
<1>4. ASSUME Claim(t) PROVE TableMatchesFrames'
  <2> DEFINE p == call[t].page
  <2>1. CASE pc'[t] = "lookup"
    BY <1>4, <2>1, ClaimStep
       DEF TableMatchesFrames, Claiming, Sweeping, Reserving, Replacing
  <2>2. CASE pc'[t] = "tick"
    <3>1. /\ p \in Pages /\ table[p] = Absent
          /\ table' = [table EXCEPT ![p] = Loading(t)] /\ state' = state
      <4>1. p \in Pages
        BY <1>4, ClaimStep, PageKnown
      <4> QED BY <1>4, <2>2, <4>1, ClaimStep, EntryCases
    <3>2. /\ pc[t] = "claim" /\ call' = call
          /\ \A u \in Threads \ {t} : pc'[u] = pc[u]
      BY <1>4, ClaimStep
    <3>3. table'[p] = Loading(t) /\ \A q \in Pages \ {p} : table'[q] = table[q]
      BY <3>1 DEF TypeOK
    <3> QED BY <2>2, <3>1, <3>2, <3>3, Constructors
      DEF TableMatchesFrames, Claiming, Sweeping, Reserving, Replacing
  <2> QED BY <1>4, <2>1, <2>2, ClaimStep
<1>5. ASSUME Wake(t) PROVE TableMatchesFrames'
  BY <1>5
     DEF Wake, TableMatchesFrames, TypeOK, Goto, Resume, frameVars, Claiming, Sweeping,
         Reserving, Replacing
<1> QED BY <1>1, <1>2, <1>3, <1>4, <1>5

LEMMA SweepMatch ==
  ASSUME OwnershipInv, TypeOK', NEW t \in Threads
  PROVE  /\ Tick(t) => TableMatchesFrames'
         /\ Snapshot(t) => TableMatchesFrames'
         /\ ReserveFails(t) => TableMatchesFrames'
         /\ SecondChance(t) => TableMatchesFrames'
         /\ Reserve(t) => TableMatchesFrames'
         /\ Scan(t) => TableMatchesFrames'
<1> USE DEF OwnershipInv
<1>1. ASSUME Tick(t) PROVE TableMatchesFrames'
  <2>1. /\ pc[t] = "tick" /\ pc'[t] = "snapshot"
        /\ \A u \in Threads \ {t} : pc'[u] = pc[u] /\ call'[u] = call[u]
        /\ call'[t].page = call[t].page
        /\ table' = table /\ state' = state
    BY <1>1 DEF Tick, Goto, TypeOK, Locals, frameVars
  <2> QED BY <2>1 DEF TableMatchesFrames, Claiming, Sweeping, Reserving, Replacing
<1>2. ASSUME Snapshot(t) PROVE TableMatchesFrames'
  BY <1>2, SearchStep DEF TableMatchesFrames, Claiming, Sweeping, Reserving, Replacing
<1>3. ASSUME ReserveFails(t) PROVE TableMatchesFrames'
  BY <1>3, SearchStep DEF TableMatchesFrames, Claiming, Sweeping, Reserving, Replacing
<1>4. ASSUME SecondChance(t) PROVE TableMatchesFrames'
  BY <1>4, SearchStep DEF TableMatchesFrames, Claiming, Sweeping, Reserving, Replacing
<1>5. ASSUME Reserve(t) PROVE TableMatchesFrames'
  <2> DEFINE f == call[t].cur
             p == call[t].seen
  <2>1. /\ pc[t] = "reserve" /\ pc'[t] \in {"writeBack", "load"}
        /\ call'[t].cur = f /\ call'[t].seen = p /\ call'[t].page = call[t].page
        /\ \A u \in Threads \ {t} : pc'[u] = pc[u] /\ call'[u] = call[u]
    BY <1>5 DEF Reserve, Goto, TypeOK, Locals
  <2>2. f \in Frames
    BY LocalTypes
  <2>3. state'[f] = Evicting(t) /\ \A g \in Frames \ {f} : state'[g] = state[g]
    BY <1>5, <2>2 DEF Reserve, TypeOK
  <2>4. CASE p = NoPage
    <3>1. table' = table /\ state[f] = Empty
      BY <1>5, <2>4 DEF Reserve, Reservable
    <3> QED BY <2>1, <2>2, <2>3, <2>4, <3>1, Constructors, PoolAssumption
      DEF TableMatchesFrames, Claiming, Sweeping, Reserving, Replacing
  <2>5. CASE p # NoPage
    <3>1. p \in Pages /\ table[p] = Ready(f) /\ state[f] = Valid(p)
      BY <1>5, <2>5, LocalTypes DEF Reserve, Reservable
    <3>2. table'[p] = Evicting(t) /\ \A q \in Pages \ {p} : table'[q] = table[q]
      BY <1>5, <2>5, <3>1 DEF Reserve, TypeOK
    <3> QED BY <2>1, <2>2, <2>3, <2>5, <3>1, <3>2, Constructors
      DEF TableMatchesFrames, Claiming, Sweeping, Reserving, Replacing
  <2> QED BY <2>4, <2>5
<1>6. ASSUME Scan(t) PROVE TableMatchesFrames'
  BY <1>6, SearchStep DEF TableMatchesFrames, Claiming, Sweeping, Reserving, Replacing
<1> QED BY <1>1, <1>2, <1>3, <1>4, <1>5, <1>6

LEMMA LoadMatch ==
  ASSUME OwnershipInv, TypeOK', NEW t \in Threads
  PROVE  /\ WriteBack(t) => TableMatchesFrames'
         /\ WriteBackFails(t) => TableMatchesFrames'
         /\ Load(t) => TableMatchesFrames'
         /\ LoadFails(t) => TableMatchesFrames'
         /\ RemoveOld(t) => TableMatchesFrames'
         /\ Publish(t) => TableMatchesFrames'
         /\ Finish(t) => TableMatchesFrames'
         /\ Restore(t) => TableMatchesFrames'
         /\ Unreserve(t) => TableMatchesFrames'
         /\ Abandon(t) => TableMatchesFrames'
         /\ GiveUp(t) => TableMatchesFrames'
<1> USE DEF OwnershipInv
<1>1. ASSUME WriteBack(t) PROVE TableMatchesFrames'
  BY <1>1
     DEF WriteBack, TableMatchesFrames, TypeOK, Goto, Claiming, Sweeping, Reserving,
         Replacing
<1>2. ASSUME WriteBackFails(t) PROVE TableMatchesFrames'
  BY <1>2
     DEF WriteBackFails, TableMatchesFrames, TypeOK, Goto, frameVars, Claiming,
         Sweeping, Reserving, Replacing
<1>3. ASSUME Load(t) PROVE TableMatchesFrames'
  BY <1>3, PoolAssumption
     DEF Load, TableMatchesFrames, TypeOK, Goto, Claiming, Sweeping, Reserving,
         Replacing
<1>4. ASSUME LoadFails(t) PROVE TableMatchesFrames'
  BY <1>4
     DEF LoadFails, TableMatchesFrames, TypeOK, Goto, frameVars, Claiming, Sweeping,
         Reserving, Replacing
<1>5. ASSUME RemoveOld(t) PROVE TableMatchesFrames'
  <2> DEFINE p == call[t].seen
  <2>1. /\ pc[t] = "removeOld" /\ pc'[t] = "publish" /\ call' = call
        /\ \A u \in Threads \ {t} : pc'[u] = pc[u]
        /\ state' = state
    BY <1>5 DEF RemoveOld, Goto, TypeOK
  <2>2. p \in Pages /\ table[p] = Evicting(t)
    BY <2>1, SeenKnown DEF TableMatchesFrames, Reserving, Replacing
  <2>3. table'[p] = Absent /\ \A q \in Pages \ {p} : table'[q] = table[q]
    BY <1>5, <2>2 DEF RemoveOld, TypeOK
  <2> QED BY <2>1, <2>2, <2>3, Constructors
    DEF TableMatchesFrames, Claiming, Sweeping, Reserving, Replacing
<1>6. ASSUME Publish(t) PROVE TableMatchesFrames'
  <2> DEFINE f == call[t].cur
             p == call[t].page
  <2>1. /\ pc[t] = "publish" /\ pc'[t] = "finish" /\ call' = call
        /\ \A u \in Threads \ {t} : pc'[u] = pc[u]
    BY <1>6 DEF Publish, Goto, TypeOK
  <2>2. f \in Frames /\ p \in Pages /\ state[f] = Evicting(t) /\ table[p] = Loading(t)
    BY <2>1, LocalTypes, PageKnown
       DEF TableMatchesFrames, Claiming, Sweeping, Reserving, Replacing
  <2>3. /\ table'[p] = Ready(f) /\ \A q \in Pages \ {p} : table'[q] = table[q]
        /\ state'[f] = Valid(p) /\ \A g \in Frames \ {f} : state'[g] = state[g]
    BY <1>6, <2>2 DEF Publish, TypeOK
  <2> QED BY <2>1, <2>2, <2>3, Constructors
    DEF TableMatchesFrames, Claiming, Sweeping, Reserving, Replacing
<1>7. ASSUME Finish(t) PROVE TableMatchesFrames'
  BY <1>7
     DEF Finish, TableMatchesFrames, TypeOK, Goto, Return, NoCall, frameVars, Claiming,
         Sweeping, Reserving, Replacing
<1>8. ASSUME Restore(t) PROVE TableMatchesFrames'
  <2> DEFINE f == call[t].cur
             p == call[t].seen
  <2>1. /\ pc[t] = "restore" /\ pc'[t] = "unreserve" /\ call' = call
        /\ \A u \in Threads \ {t} : pc'[u] = pc[u]
    BY <1>8 DEF Restore, Goto, TypeOK
  <2>2. f \in Frames /\ state[f] = Evicting(t)
    BY <2>1, LocalTypes DEF TableMatchesFrames, Reserving
  <2>3. /\ state'[f] = IF p = NoPage THEN Empty ELSE Valid(p)
        /\ \A g \in Frames \ {f} : state'[g] = state[g]
    BY <1>8, <2>2 DEF Restore, TypeOK
  <2>4. CASE p = NoPage
    <3>1. table' = table
      BY <1>8, <2>4 DEF Restore
    <3> QED BY <2>1, <2>2, <2>3, <2>4, <3>1, Constructors, PoolAssumption
      DEF TableMatchesFrames, Claiming, Sweeping, Reserving, Replacing
  <2>5. CASE p # NoPage
    <3>1. p \in Pages /\ table[p] = Evicting(t)
      BY <2>1, <2>5, LocalTypes DEF TableMatchesFrames, Reserving
    <3>2. table'[p] = Ready(f) /\ \A q \in Pages \ {p} : table'[q] = table[q]
      BY <1>8, <2>5, <3>1 DEF Restore, TypeOK
    <3> QED BY <2>1, <2>2, <2>3, <2>5, <3>1, <3>2, Constructors
      DEF TableMatchesFrames, Claiming, Sweeping, Reserving, Replacing
  <2> QED BY <2>4, <2>5
<1>9. ASSUME Unreserve(t) PROVE TableMatchesFrames'
  <2>1. /\ pc[t] = "unreserve" /\ pc'[t] = "abandon"
        /\ call'[t] = call[t]
        /\ \A u \in Threads \ {t} : pc'[u] = pc[u] /\ call'[u] = call[u]
        /\ table' = table /\ state' = state
    BY <1>9 DEF Unreserve, Goto, TypeOK
  <2> QED BY <2>1 DEF TableMatchesFrames, Claiming, Sweeping, Reserving, Replacing
<1>10. ASSUME Abandon(t) PROVE TableMatchesFrames'
  <2> DEFINE p == call[t].page
  <2>1. /\ pc[t] = "abandon" /\ pc'[t] = "giveUp" /\ call' = call
        /\ \A u \in Threads \ {t} : pc'[u] = pc[u]
        /\ state' = state
    BY <1>10 DEF Abandon, Goto, TypeOK
  <2>2. p \in Pages /\ table[p] = Loading(t)
    BY <2>1, PageKnown DEF TableMatchesFrames, Claiming
  <2>3. table'[p] = Absent /\ \A q \in Pages \ {p} : table'[q] = table[q]
    BY <1>10, <2>2 DEF Abandon, TypeOK
  <2> QED BY <2>1, <2>2, <2>3, Constructors
    DEF TableMatchesFrames, Claiming, Sweeping, Reserving, Replacing
<1>11. ASSUME GiveUp(t) PROVE TableMatchesFrames'
  <2>1. /\ pc[t] = "giveUp" /\ pc'[t] = "idle"
        /\ \A u \in Threads \ {t} : pc'[u] = pc[u] /\ call'[u] = call[u]
        /\ table' = table /\ state' = state
    BY <1>11 DEF GiveUp, Return, frameVars, Goto, TypeOK
  <2> QED BY <2>1 DEF TableMatchesFrames, Claiming, Sweeping, Reserving, Replacing
<1> QED BY <1>1, <1>2, <1>3, <1>4, <1>5, <1>6, <1>7, <1>8, <1>9, <1>10, <1>11

LEMMA FlushMatch ==
  ASSUME OwnershipInv, TypeOK', NEW t \in Threads
  PROVE  /\ FlushAll(t) => TableMatchesFrames'
         /\ FlushPin(t) => TableMatchesFrames'
         /\ FlushCheck(t) => TableMatchesFrames'
         /\ FlushWrite(t) => TableMatchesFrames'
         /\ FlushWriteFails(t) => TableMatchesFrames'
         /\ FlushClear(t) => TableMatchesFrames'
         /\ FlushUnpin(t) => TableMatchesFrames'
         /\ FlushAbort(t) => TableMatchesFrames'
<1> USE DEF OwnershipInv
<1>1. ASSUME FlushAll(t) PROVE TableMatchesFrames'
  BY <1>1
     DEF FlushAll, TableMatchesFrames, TypeOK, Goto, frameVars, Claiming, Sweeping,
         Reserving, Replacing
<1>2. ASSUME FlushPin(t) PROVE TableMatchesFrames'
  <2>1. /\ pc[t] = "flushPin" /\ pc'[t] \in {"idle", "flushPin", "awaitFlush", "flushCheck"}
        /\ \A u \in Threads \ {t} : pc'[u] = pc[u] /\ call'[u] = call[u]
        /\ table' = table /\ state' = state
    BY <1>2, FlushPinCases
  <2> QED BY <2>1 DEF TableMatchesFrames, Claiming, Sweeping, Reserving, Replacing
<1>3. ASSUME FlushCheck(t) PROVE TableMatchesFrames'
  <2>1. /\ pc[t] = "flushCheck" /\ pc'[t] \in {"flushWrite", "flushUnpin"}
        /\ \A u \in Threads \ {t} : pc'[u] = pc[u]
        /\ call' = call /\ table' = table /\ state' = state
    BY <1>3 DEF FlushCheck, Goto, TypeOK, frameVars
  <2> QED BY <2>1 DEF TableMatchesFrames, Claiming, Sweeping, Reserving, Replacing
<1>4. ASSUME FlushWrite(t) PROVE TableMatchesFrames'
  <2>1. /\ pc[t] = "flushWrite" /\ pc'[t] = "flushClear"
        /\ \A u \in Threads \ {t} : pc'[u] = pc[u] /\ call'[u] = call[u]
        /\ call' = call
        /\ table' = table /\ state' = state
    BY <1>4 DEF FlushWrite, Goto, TypeOK, frameVars
  <2> QED BY <2>1 DEF TableMatchesFrames, Claiming, Sweeping, Reserving, Replacing
<1>5. ASSUME FlushWriteFails(t) PROVE TableMatchesFrames'
  BY <1>5
     DEF FlushWriteFails, TableMatchesFrames, TypeOK, Goto, frameVars, Claiming,
         Sweeping, Reserving, Replacing
<1>6. ASSUME FlushClear(t) PROVE TableMatchesFrames'
  BY <1>6
     DEF FlushClear, TableMatchesFrames, TypeOK, Goto, Claiming, Sweeping, Reserving,
         Replacing
<1>7. ASSUME FlushUnpin(t) PROVE TableMatchesFrames'
  BY <1>7, FlushUnpinStep
     DEF TableMatchesFrames, Claiming, Sweeping, Reserving, Replacing, FlushPinned
<1>8. ASSUME FlushAbort(t) PROVE TableMatchesFrames'
  BY <1>8
     DEF FlushAbort, TableMatchesFrames, TypeOK, Goto, Return, NoCall, Claiming,
         Sweeping, Reserving, Replacing
<1> QED BY <1>1, <1>2, <1>3, <1>4, <1>5, <1>6, <1>7, <1>8

LEMMA GuardMatch ==
  ASSUME OwnershipInv, TypeOK', NEW t \in Threads, NEW f \in Frames
  PROVE  /\ \A p \in Pages, m \in Modes : Fetch(t, p, m) => TableMatchesFrames'
         /\ BeginWrite(t, f) => TableMatchesFrames'
         /\ \A v \in Contents : EndWrite(t, f, v) => TableMatchesFrames'
         /\ DropGuard(t, f) => TableMatchesFrames'
<1> USE DEF OwnershipInv
<1>1. ASSUME NEW p \in Pages, NEW m \in Modes, Fetch(t, p, m) PROVE TableMatchesFrames'
  BY <1>1
     DEF Fetch, TableMatchesFrames, TypeOK, Goto, NoCall, frameVars, Claiming,
         Sweeping, Reserving, Replacing
<1>2. ASSUME BeginWrite(t, f) PROVE TableMatchesFrames'
  BY <1>2
     DEF BeginWrite, TableMatchesFrames, TypeOK, threadVars, Claiming, Sweeping,
         Reserving, Replacing
<1>3. ASSUME NEW v \in Contents, EndWrite(t, f, v) PROVE TableMatchesFrames'
  BY <1>3
     DEF EndWrite, TableMatchesFrames, TypeOK, threadVars, Claiming, Sweeping,
         Reserving, Replacing
<1>4. ASSUME DropGuard(t, f) PROVE TableMatchesFrames'
  BY <1>4
     DEF DropGuard, TableMatchesFrames, TypeOK, threadVars, Claiming, Sweeping,
         Reserving, Replacing
<1> QED BY <1>1, <1>2, <1>3, <1>4

LEMMA FetchKeep ==
  ASSUME OwnershipInv, TypeOK', NEW t \in Threads
  PROVE  /\ Hit(t) => GuardsKeepTheirPage'
         /\ WaitForEntry(t) => GuardsKeepTheirPage'
         /\ Miss(t) => GuardsKeepTheirPage'
         /\ Claim(t) => GuardsKeepTheirPage'
         /\ Wake(t) => GuardsKeepTheirPage'
<1> USE DEF OwnershipInv
<1>1. ASSUME Hit(t) PROVE GuardsKeepTheirPage'
  <2> DEFINE p == call[t].page
             f == table[p].frame
  <2>1. p \in Pages
    BY <1>1, PageKnown DEF Hit
  <2>2. f \in Frames /\ state[f] = Valid(p)
    BY <1>1, <2>1, EntryCases DEF Hit, TableMatchesFrames
  <2>3. guard' = [guard EXCEPT ![t][f] = p] /\ state' = state
    BY <1>1 DEF Hit
  <2>4. pc'[t] = "idle" /\ \A u \in Threads \ {t} : pc'[u] = pc[u] /\ call'[u] = call[u]
    BY <1>1 DEF Hit, Return, Goto, TypeOK
  <2>5. \A u \in Threads, g \in Frames :
          guard'[u][g] = guard[u][g] \/ (g = f /\ guard'[u][g] = p)
    BY <2>2, <2>3 DEF TypeOK
  <2> QED BY <2>2, <2>3, <2>4, <2>5 DEF GuardsKeepTheirPage, FlushPinned
<1>2. ASSUME WaitForEntry(t) PROVE GuardsKeepTheirPage'
  BY <1>2
     DEF WaitForEntry, GuardsKeepTheirPage, TypeOK, Goto, Wait, frameVars, FlushPinned
<1>3. ASSUME Miss(t) PROVE GuardsKeepTheirPage'
  BY <1>3 DEF Miss, GuardsKeepTheirPage, TypeOK, Goto, frameVars, FlushPinned
<1>4. ASSUME Claim(t) PROVE GuardsKeepTheirPage'
  BY <1>4, ClaimStep DEF GuardsKeepTheirPage, Reserving, Replacing, FlushPinned
<1>5. ASSUME Wake(t) PROVE GuardsKeepTheirPage'
  BY <1>5 DEF Wake, GuardsKeepTheirPage, TypeOK, Goto, Resume, frameVars, FlushPinned
<1> QED BY <1>1, <1>2, <1>3, <1>4, <1>5

LEMMA SweepKeep ==
  ASSUME OwnershipInv, TypeOK', NEW t \in Threads
  PROVE  /\ Tick(t) => GuardsKeepTheirPage'
         /\ Snapshot(t) => GuardsKeepTheirPage'
         /\ ReserveFails(t) => GuardsKeepTheirPage'
         /\ SecondChance(t) => GuardsKeepTheirPage'
         /\ Reserve(t) => GuardsKeepTheirPage'
         /\ Scan(t) => GuardsKeepTheirPage'
<1> USE DEF OwnershipInv
<1>1. ASSUME Tick(t) PROVE GuardsKeepTheirPage'
  BY <1>1 DEF Tick, GuardsKeepTheirPage, TypeOK, Goto, frameVars, FlushPinned
<1>2. ASSUME Snapshot(t) PROVE GuardsKeepTheirPage'
  BY <1>2, SearchStep DEF GuardsKeepTheirPage, Reserving, Replacing, FlushPinned
<1>3. ASSUME ReserveFails(t) PROVE GuardsKeepTheirPage'
  BY <1>3, SearchStep DEF GuardsKeepTheirPage, Reserving, Replacing, FlushPinned
<1>4. ASSUME SecondChance(t) PROVE GuardsKeepTheirPage'
  BY <1>4, SearchStep DEF GuardsKeepTheirPage, Reserving, Replacing, FlushPinned
<1>5. ASSUME Reserve(t) PROVE GuardsKeepTheirPage'
  <2> DEFINE f == call[t].cur
  <2>1. f \in Frames /\ pins[f] = 0
    BY <1>5, LocalTypes DEF Reserve, Reservable
  <2>2. \A u \in Threads : guard[u][f] = NoPage /\ (pc[u] \in Pinning => call[u].cur # f)
    BY <2>1, GuardPinned, CallPinned
  <2>3. state' = [state EXCEPT ![f] = Evicting(t)] /\ guard' = guard
    BY <1>5 DEF Reserve
  <2>4. /\ pc'[t] \in {"writeBack", "load"}
        /\ \A u \in Threads \ {t} : pc'[u] = pc[u] /\ call'[u] = call[u]
    BY <1>5 DEF Reserve, Goto, TypeOK, Locals
  <2>5. \A g \in Frames \ {f} : state'[g] = state[g]
    BY <2>3 DEF TypeOK
  <2> QED BY <2>2, <2>3, <2>4, <2>5, LocalTypes
    DEF GuardsKeepTheirPage, FlushPinned, Pinning
<1>6. ASSUME Scan(t) PROVE GuardsKeepTheirPage'
  BY <1>6, SearchStep DEF GuardsKeepTheirPage, Reserving, Replacing, FlushPinned
<1> QED BY <1>1, <1>2, <1>3, <1>4, <1>5, <1>6

LEMMA LoadKeep ==
  ASSUME OwnershipInv, TypeOK', NEW t \in Threads
  PROVE  /\ WriteBack(t) => GuardsKeepTheirPage'
         /\ WriteBackFails(t) => GuardsKeepTheirPage'
         /\ Load(t) => GuardsKeepTheirPage'
         /\ LoadFails(t) => GuardsKeepTheirPage'
         /\ RemoveOld(t) => GuardsKeepTheirPage'
         /\ Publish(t) => GuardsKeepTheirPage'
         /\ Finish(t) => GuardsKeepTheirPage'
         /\ Restore(t) => GuardsKeepTheirPage'
         /\ Unreserve(t) => GuardsKeepTheirPage'
         /\ Abandon(t) => GuardsKeepTheirPage'
         /\ GiveUp(t) => GuardsKeepTheirPage'
<1> USE DEF OwnershipInv
<1>1. ASSUME WriteBack(t) PROVE GuardsKeepTheirPage'
  BY <1>1 DEF WriteBack, GuardsKeepTheirPage, TypeOK, Goto, FlushPinned
<1>2. ASSUME WriteBackFails(t) PROVE GuardsKeepTheirPage'
  BY <1>2 DEF WriteBackFails, GuardsKeepTheirPage, TypeOK, Goto, frameVars, FlushPinned
<1>3. ASSUME Load(t) PROVE GuardsKeepTheirPage'
  BY <1>3 DEF Load, GuardsKeepTheirPage, TypeOK, Goto, FlushPinned
<1>4. ASSUME LoadFails(t) PROVE GuardsKeepTheirPage'
  BY <1>4 DEF LoadFails, GuardsKeepTheirPage, TypeOK, Goto, frameVars, FlushPinned
<1>5. ASSUME RemoveOld(t) PROVE GuardsKeepTheirPage'
  BY <1>5 DEF RemoveOld, GuardsKeepTheirPage, TypeOK, Goto, FlushPinned
<1>6. ASSUME Publish(t) PROVE GuardsKeepTheirPage'
  <2> DEFINE f == call[t].cur
             p == call[t].page
  <2>1. /\ pc[t] = "publish" /\ pc'[t] = "finish" /\ call' = call
        /\ \A u \in Threads \ {t} : pc'[u] = pc[u]
        /\ guard' = guard
    BY <1>6 DEF Publish, Goto, TypeOK
  <2>2. f \in Frames /\ state[f].kind = "Evicting"
    BY <2>1, LocalTypes, Constructors DEF TableMatchesFrames, Reserving, Replacing
  <2>3. state'[f] = Valid(p) /\ \A g \in Frames \ {f} : state'[g] = state[g]
    BY <1>6, <2>2 DEF Publish, TypeOK
  <2> QED BY <2>1, <2>2, <2>3, LocalTypes, Constructors
    DEF GuardsKeepTheirPage, FlushPinned
<1>7. ASSUME Finish(t) PROVE GuardsKeepTheirPage'
  BY <1>7
     DEF Finish, GuardsKeepTheirPage, TypeOK, Goto, Return, NoCall, frameVars,
         FlushPinned
<1>8. ASSUME Restore(t) PROVE GuardsKeepTheirPage'
  <2> DEFINE f == call[t].cur
  <2>1. f \in Frames /\ state[f].kind = "Evicting"
    BY <1>8, LocalTypes, Constructors DEF Restore, TableMatchesFrames, Reserving
  <2>2. guard' = guard /\ \A g \in Frames \ {f} : state'[g] = state[g]
    BY <1>8 DEF Restore, TypeOK
  <2>3. /\ pc'[t] = "unreserve" /\ call' = call
        /\ \A u \in Threads \ {t} : pc'[u] = pc[u]
    BY <1>8 DEF Restore, Goto, TypeOK
  <2> QED BY <2>1, <2>2, <2>3, LocalTypes, Constructors
    DEF GuardsKeepTheirPage, FlushPinned
<1>9. ASSUME Unreserve(t) PROVE GuardsKeepTheirPage'
  BY <1>9 DEF Unreserve, GuardsKeepTheirPage, TypeOK, Goto, FlushPinned
<1>10. ASSUME Abandon(t) PROVE GuardsKeepTheirPage'
  BY <1>10 DEF Abandon, GuardsKeepTheirPage, TypeOK, Goto, FlushPinned
<1>11. ASSUME GiveUp(t) PROVE GuardsKeepTheirPage'
  BY <1>11
     DEF GiveUp, GuardsKeepTheirPage, TypeOK, Goto, Return, NoCall, frameVars,
         FlushPinned
<1> QED BY <1>1, <1>2, <1>3, <1>4, <1>5, <1>6, <1>7, <1>8, <1>9, <1>10, <1>11

LEMMA FlushKeep ==
  ASSUME OwnershipInv, TypeOK', NEW t \in Threads
  PROVE  /\ FlushAll(t) => GuardsKeepTheirPage'
         /\ FlushPin(t) => GuardsKeepTheirPage'
         /\ FlushCheck(t) => GuardsKeepTheirPage'
         /\ FlushWrite(t) => GuardsKeepTheirPage'
         /\ FlushWriteFails(t) => GuardsKeepTheirPage'
         /\ FlushClear(t) => GuardsKeepTheirPage'
         /\ FlushUnpin(t) => GuardsKeepTheirPage'
         /\ FlushAbort(t) => GuardsKeepTheirPage'
<1> USE DEF OwnershipInv
<1>1. ASSUME FlushAll(t) PROVE GuardsKeepTheirPage'
  BY <1>1 DEF FlushAll, GuardsKeepTheirPage, TypeOK, Goto, frameVars, FlushPinned
<1>2. ASSUME FlushPin(t) PROVE GuardsKeepTheirPage'
  <2> DEFINE f == call[t].cur
  <2>1. /\ state' = state /\ guard' = guard
        /\ \A u \in Threads \ {t} : pc'[u] = pc[u] /\ call'[u] = call[u]
    BY <1>2, FlushPinCases
  <2>2. \/ pc'[t] \in {"idle", "flushPin", "awaitFlush"}
        \/ /\ state[f] = Valid(state[f].page) /\ pc'[t] = "flushCheck"
           /\ call'[t] = [call[t] EXCEPT !.seen = state[f].page]
    BY <1>2, FlushPinCases
  <2>3. call[t] \in Locals
    BY DEF TypeOK
  <2> QED BY <2>1, <2>2, <2>3 DEF GuardsKeepTheirPage, FlushPinned, Locals
<1>3. ASSUME FlushCheck(t) PROVE GuardsKeepTheirPage'
  BY <1>3 DEF FlushCheck, GuardsKeepTheirPage, TypeOK, Goto, frameVars, FlushPinned
<1>4. ASSUME FlushWrite(t) PROVE GuardsKeepTheirPage'
  BY <1>4 DEF FlushWrite, GuardsKeepTheirPage, TypeOK, Goto, frameVars, FlushPinned
<1>5. ASSUME FlushWriteFails(t) PROVE GuardsKeepTheirPage'
  BY <1>5 DEF FlushWriteFails, GuardsKeepTheirPage, TypeOK, Goto, frameVars, FlushPinned
<1>6. ASSUME FlushClear(t) PROVE GuardsKeepTheirPage'
  BY <1>6 DEF FlushClear, GuardsKeepTheirPage, TypeOK, Goto, FlushPinned
<1>7. ASSUME FlushUnpin(t) PROVE GuardsKeepTheirPage'
  BY <1>7, FlushUnpinStep DEF GuardsKeepTheirPage, Reserving, Replacing, FlushPinned
<1>8. ASSUME FlushAbort(t) PROVE GuardsKeepTheirPage'
  BY <1>8 DEF FlushAbort, GuardsKeepTheirPage, TypeOK, Goto, Return, NoCall, FlushPinned
<1> QED BY <1>1, <1>2, <1>3, <1>4, <1>5, <1>6, <1>7, <1>8

LEMMA GuardKeep ==
  ASSUME OwnershipInv, TypeOK', NEW t \in Threads, NEW f \in Frames
  PROVE  /\ \A p \in Pages, m \in Modes : Fetch(t, p, m) => GuardsKeepTheirPage'
         /\ BeginWrite(t, f) => GuardsKeepTheirPage'
         /\ \A v \in Contents : EndWrite(t, f, v) => GuardsKeepTheirPage'
         /\ DropGuard(t, f) => GuardsKeepTheirPage'
<1> USE DEF OwnershipInv
<1>1. ASSUME NEW p \in Pages, NEW m \in Modes, Fetch(t, p, m) PROVE GuardsKeepTheirPage'
  BY <1>1 DEF Fetch, GuardsKeepTheirPage, TypeOK, Goto, NoCall, frameVars, FlushPinned
<1>2. ASSUME BeginWrite(t, f) PROVE GuardsKeepTheirPage'
  BY <1>2 DEF BeginWrite, GuardsKeepTheirPage, TypeOK, threadVars, FlushPinned
<1>3. ASSUME NEW v \in Contents, EndWrite(t, f, v) PROVE GuardsKeepTheirPage'
  BY <1>3 DEF EndWrite, GuardsKeepTheirPage, TypeOK, threadVars, FlushPinned
<1>4. ASSUME DropGuard(t, f) PROVE GuardsKeepTheirPage'
  BY <1>4 DEF DropGuard, GuardsKeepTheirPage, TypeOK, threadVars, FlushPinned
<1> QED BY <1>1, <1>2, <1>3, <1>4

-----------------------------------------------------------------------------
(* The invariant *)

LEMMA InitOwnership == Init => OwnershipInv
<1> SUFFICES ASSUME Init PROVE OwnershipInv
  OBVIOUS
<1>1. TypeOK
  BY TInit
<1>2. \A t \in Threads : pc[t] = "idle" /\ \A f \in Frames : guard[t][f] = NoPage
  BY DEF Init
<1>3. LocalsOK /\ FetchIsNew
  BY <1>2
     DEF LocalsOK, FetchIsNew, Claiming, Sweeping, Reserving, Replacing, FlushPinned
<1>4. (\A f \in Frames : state[f] = Empty) /\ (\A p \in Pages : table[p] = Absent)
  BY DEF Init
<1>5. FramesFilled /\ GuardsKeepTheirPage
  BY <1>2, <1>4, Constructors
     DEF FramesFilled, GuardsKeepTheirPage, Reserving, Replacing, FlushPinned
<1>7. TableMatchesFrames
  <2>1. \A t \in Threads : pc[t] \notin Claiming /\ pc[t] \notin Reserving
    BY <1>2 DEF Claiming, Sweeping, Reserving, Replacing
  <2>2. ASSUME NEW f \in Frames
        PROVE  (\A p \in Pages : state[f] # Valid(p)) /\ (\A t \in Threads : state[f] # Evicting(t))
    BY <1>4, Constructors
  <2>3. ASSUME NEW p \in Pages
        PROVE  /\ \A f \in Frames : table[p] # Ready(f)
               /\ \A t \in Threads : table[p] # Evicting(t) /\ table[p] # Loading(t)
    BY <1>4, Constructors
  <2> QED BY <2>1, <2>2, <2>3 DEF TableMatchesFrames
<1>6. PinsAccounted
  <2>1. \A f \in Frames : GuardsOn(f) = {} /\ CallsOn(f) = {}
    BY <1>2 DEF GuardsOn, CallsOn, Pinning, Reserving, Replacing, FlushPinned
  <2>2. \A f \in Frames : pins[f] = 0
    BY DEF Init
  <2> QED BY <2>1, <2>2, FS_EmptySet DEF PinsAccounted
<1> QED BY <1>1, <1>3, <1>5, <1>6, <1>7 DEF OwnershipInv

(* Every step of a thread keeps every part of the invariant. *)
LEMMA NextOwnership ==
  ASSUME OwnershipInv, Next
  PROVE  OwnershipInv'
<1>1. TypeOK'
  BY TypesKept
<1>2. PICK t \in Threads : PoolStep(t) \/ CallStep(t) \/ GuardStep(t)
  BY DEF Next
<1>3. LocalsOK'
  <2>1. CASE PoolStep(t)
    BY <1>1, <2>1, FetchLocals, SweepLocals, LoadLocals, FlushLocals DEF PoolStep
  <2>2. CASE CallStep(t) \/ GuardStep(t)
    BY <1>1, <2>2, FrameFacts, FlushLocals, GuardLocals DEF CallStep, GuardStep
  <2> QED BY <1>2, <2>1, <2>2
<1>4. FetchIsNew'
  <2>1. CASE PoolStep(t)
    BY <1>1, <2>1, FetchFresh, SweepFresh, LoadFresh, FlushFresh DEF PoolStep
  <2>2. CASE CallStep(t) \/ GuardStep(t)
    BY <1>1, <2>2, FrameFacts, FlushFresh, GuardFresh DEF CallStep, GuardStep
  <2> QED BY <1>2, <2>1, <2>2
<1>5. FramesFilled'
  <2>1. CASE PoolStep(t)
    BY <1>1, <2>1, FetchFilled, SweepFilled, LoadFilled, FlushFilled DEF PoolStep
  <2>2. CASE CallStep(t) \/ GuardStep(t)
    BY <1>1, <2>2, FrameFacts, FlushFilled, GuardFilled DEF CallStep, GuardStep
  <2> QED BY <1>2, <2>1, <2>2
<1>6. PinsAccounted'
  <2>1. CASE PoolStep(t)
    BY <1>1, <2>1, FetchPins, SweepPins, LoadPins, FlushPins DEF PoolStep
  <2>2. CASE CallStep(t) \/ GuardStep(t)
    BY <1>1, <2>2, FrameFacts, FlushPins, GuardPins DEF CallStep, GuardStep
  <2> QED BY <1>2, <2>1, <2>2
<1>7. TableMatchesFrames'
  <2>1. CASE PoolStep(t)
    BY <1>1, <2>1, FetchMatch, SweepMatch, LoadMatch, FlushMatch DEF PoolStep
  <2>2. CASE CallStep(t) \/ GuardStep(t)
    BY <1>1, <2>2, FrameFacts, FlushMatch, GuardMatch DEF CallStep, GuardStep
  <2> QED BY <1>2, <2>1, <2>2
<1>8. GuardsKeepTheirPage'
  <2>1. CASE PoolStep(t)
    BY <1>1, <2>1, FetchKeep, SweepKeep, LoadKeep, FlushKeep DEF PoolStep
  <2>2. CASE CallStep(t) \/ GuardStep(t)
    BY <1>1, <2>2, FrameFacts, FlushKeep, GuardKeep DEF CallStep, GuardStep
  <2> QED BY <1>2, <2>1, <2>2
<1> QED BY <1>1, <1>3, <1>4, <1>5, <1>6, <1>7, <1>8 DEF OwnershipInv

LEMMA StutterOwnership ==
  ASSUME OwnershipInv, UNCHANGED vars
  PROVE  OwnershipInv'
<1> USE DEF vars, frameVars, threadVars
<1>1. TypeOK' /\ LocalsOK' /\ FetchIsNew' /\ FramesFilled'
  BY DEF OwnershipInv, TypeOK, LocalsOK, FetchIsNew, FramesFilled
<1>2. TableMatchesFrames' /\ GuardsKeepTheirPage'
  BY DEF OwnershipInv, TableMatchesFrames, GuardsKeepTheirPage
<1>3. PinsAccounted'
  BY DEF OwnershipInv, PinsAccounted, GuardsOn, CallsOn
<1> QED BY <1>1, <1>2, <1>3 DEF OwnershipInv

(* The pool keeps its books for every number of threads, pages and frames:
   every path through fetch_page, flush_all and the guards, the failures
   included, leaves pin counts, page table, frame states and guards in
   agreement. *)
THEOREM PoolOwnership == Spec => []OwnershipInv
<1>1. Init => OwnershipInv
  BY InitOwnership
<1>2. OwnershipInv /\ [Next]_vars => OwnershipInv'
  BY NextOwnership, StutterOwnership
<1> QED BY <1>1, <1>2, PTL DEF Spec

(* Every variable of the pool stays within its type. *)
THEOREM TypeCorrect == Spec => []TypeOK
<1>1. OwnershipInv => TypeOK
  BY DEF OwnershipInv
<1> QED BY <1>1, PoolOwnership, PTL

(* A pin count is the number of guards and calls on its frame: no path leaks
   a pin of fetch_page or flush_all or gives one back twice. *)
THEOREM PinsAreAccounted == Spec => []PinsAccounted
<1>1. OwnershipInv => PinsAccounted
  BY DEF OwnershipInv
<1> QED BY <1>1, PoolOwnership, PTL

(* The page table and the states of the frames agree at every moment, so no
   page is in two frames and no entry names a frame of another page. *)
THEOREM TableAgrees == Spec => []TableMatchesFrames
<1>1. OwnershipInv => TableMatchesFrames
  BY DEF OwnershipInv
<1> QED BY <1>1, PoolOwnership, PTL

(* The frame a PageGuard points at has the guard's page for as long as the
   guard lives. *)
THEOREM GuardsAreStable == Spec => []GuardsKeepTheirPage
<1>1. OwnershipInv => GuardsKeepTheirPage
  BY DEF OwnershipInv
<1> QED BY <1>1, PoolOwnership, PTL

-----------------------------------------------------------------------------
(* Waits *)

(* Whom a reservation or a claim belongs to. *)
LEMMA Owners ==
  ASSUME OwnershipInv
  PROVE  /\ \A f \in Frames : state[f].kind = "Evicting" =>
              state[f].owner \in Threads /\ pc[state[f].owner] \in Reserving
         /\ \A p \in Pages : table[p].kind \in {"Loading", "Evicting"} =>
              table[p].owner \in Threads /\ pc[table[p].owner] \in Claiming
<1> USE DEF OwnershipInv
<1>1. ASSUME NEW f \in Frames, state[f].kind = "Evicting"
      PROVE  state[f].owner \in Threads /\ pc[state[f].owner] \in Reserving
  BY <1>1, StateCases DEF TableMatchesFrames
<1>2. ASSUME NEW p \in Pages, table[p].kind \in {"Loading", "Evicting"}
      PROVE  table[p].owner \in Threads /\ pc[table[p].owner] \in Claiming
  <2>1. CASE table[p].kind = "Loading"
    BY <2>1, EntryCases DEF TableMatchesFrames
  <2>2. CASE table[p].kind = "Evicting"
    <3>1. table[p].owner \in Threads /\ table[p] = Evicting(table[p].owner)
      BY <2>2, EntryCases
    <3> QED BY <3>1 DEF TableMatchesFrames, Claiming
  <2> QED BY <1>2, <2>1, <2>2
<1> QED BY <1>1, <1>2

(* A step of a thread that waits for nobody, and that does not finish. *)
LEMMA WaitsStay ==
  ASSUME TypeOK, WaitsAreAcyclic, NEW t \in Threads, waitOn' = waitOn,
         waitOn[t] = NoThread \/ pc'[t] = pc[t],
         \A u \in Threads \ {t} : pc'[u] = pc[u],
         pc[t] \in Claiming => pc'[t] \in Claiming,
         pc[t] \in Claiming \ Sweeping => pc'[t] \notin Sweeping
  PROVE  WaitsAreAcyclic'
<1> SUFFICES ASSUME NEW u \in Threads, waitOn[u] # NoThread
             PROVE  /\ pc'[u] \in DOMAIN Resume /\ pc'[waitOn[u]] \in Claiming
                    /\ pc'[u] # "awaitEntry" => pc'[waitOn[u]] \notin Sweeping
  BY DEF WaitsAreAcyclic
<1>1. /\ pc[u] \in DOMAIN Resume /\ pc[waitOn[u]] \in Claiming
      /\ pc[u] # "awaitEntry" => pc[waitOn[u]] \notin Sweeping
  BY DEF WaitsAreAcyclic
<1>2. pc'[u] = pc[u]
  OBVIOUS
<1>3. CASE waitOn[u] = t
  BY <1>1, <1>2, <1>3
<1>4. CASE waitOn[u] # t
  <2>1. waitOn[u] \in Threads
    BY DEF TypeOK
  <2> QED BY <1>1, <1>2, <1>4, <2>1
<1> QED BY <1>3, <1>4

(* Away from the labels of a wait a thread waits for nobody. *)
LEMMA Awake ==
  ASSUME WaitsAreAcyclic, NEW t \in Threads,
         pc[t] \notin {"awaitEntry", "awaitLoad", "awaitFlush"} \/ Wake(t)
  PROVE  waitOn[t] = NoThread
  BY DEF WaitsAreAcyclic, Resume, Wake

(* A wait that begins: for a call that finishes, and by nobody's victim. *)
LEMMA WaitBegins ==
  ASSUME OwnershipInv, WaitsAreAcyclic, NEW t \in Threads, NEW o \in Threads,
         NEW l \in {"awaitEntry", "awaitLoad", "awaitFlush"}, Wait(t, o, l),
         pc[o] \in Claiming, l # "awaitEntry" => pc[o] \in Reserving,
         \/ pc[t] \notin Claiming /\ l # "awaitLoad"
         \/ pc[t] = "scan" /\ l = "awaitLoad"
  PROVE  WaitsAreAcyclic'
<1>1. pc' = [pc EXCEPT ![t] = l] /\ waitOn' = [waitOn EXCEPT ![t] = o]
  BY DEF Wait, Goto
<1>2. pc'[t] = l /\ waitOn'[t] = o /\ \A u \in Threads \ {t} : pc'[u] = pc[u] /\ waitOn'[u] = waitOn[u]
  BY <1>1 DEF OwnershipInv, TypeOK
<1>3. o # t
  BY DEF Claiming, Sweeping, Reserving, Replacing
<1>4. pc'[o] = pc[o] /\ (l # "awaitEntry" => pc[o] \notin Sweeping)
  BY <1>2, <1>3 DEF Reserving, Replacing, Sweeping
<1> SUFFICES ASSUME NEW u \in Threads, waitOn'[u] # NoThread
             PROVE  /\ pc'[u] \in DOMAIN Resume /\ pc'[waitOn'[u]] \in Claiming
                    /\ pc'[u] # "awaitEntry" => pc'[waitOn'[u]] \notin Sweeping
  BY DEF WaitsAreAcyclic
<1>5. CASE u = t
  BY <1>2, <1>4, <1>5 DEF Resume
<1>6. CASE u # t
  <2>1. /\ pc[u] \in DOMAIN Resume /\ pc[waitOn[u]] \in Claiming
        /\ pc[u] # "awaitEntry" => pc[waitOn[u]] \notin Sweeping
    BY <1>2, <1>6 DEF WaitsAreAcyclic
  <2>2. waitOn[u] \in Threads /\ waitOn'[u] = waitOn[u] /\ pc'[u] = pc[u]
    BY <1>2, <1>6 DEF OwnershipInv, TypeOK
  <2>3. CASE waitOn[u] = t
    <3>1. pc[t] = "scan" /\ l = "awaitLoad"
      BY <2>1, <2>3
    <3> QED BY <1>2, <2>1, <2>2, <2>3, <3>1 DEF Claiming, Sweeping
  <2>4. CASE waitOn[u] # t
    BY <1>2, <2>1, <2>2, <2>4
  <2> QED BY <2>3, <2>4
<1> QED BY <1>5, <1>6

(* finish(): whoever waited for t is free to go on. *)
LEMMA WaitsEnd ==
  ASSUME OwnershipInv, WaitsAreAcyclic, NEW t \in Threads, FinishPending(t), Return(t),
         waitOn[t] = NoThread
  PROVE  WaitsAreAcyclic'
<1>1. /\ \A u \in Threads : waitOn'[u] = IF waitOn[u] = t THEN NoThread ELSE waitOn[u]
      /\ \A u \in Threads \ {t} : pc'[u] = pc[u]
  BY DEF FinishPending, Return, Goto, OwnershipInv, TypeOK
<1> SUFFICES ASSUME NEW u \in Threads, waitOn'[u] # NoThread
             PROVE  /\ pc'[u] \in DOMAIN Resume /\ pc'[waitOn'[u]] \in Claiming
                    /\ pc'[u] # "awaitEntry" => pc'[waitOn'[u]] \notin Sweeping
  BY DEF WaitsAreAcyclic
<1>2. waitOn[u] # t /\ waitOn'[u] = waitOn[u] /\ u # t /\ waitOn[u] \in Threads
  BY <1>1 DEF OwnershipInv, TypeOK
<1> QED BY <1>1, <1>2 DEF WaitsAreAcyclic

LEMMA FetchWaits ==
  ASSUME OwnershipInv, WaitsAreAcyclic, NEW t \in Threads,
         Hit(t) \/ WaitForEntry(t) \/ Miss(t) \/ Claim(t) \/ Wake(t)
  PROVE  WaitsAreAcyclic'
<1> USE DEF OwnershipInv
<1>1. CASE Hit(t)
  BY <1>1, WaitsStay, Awake DEF Hit, Return, Goto, TypeOK, Claiming, Sweeping, Reserving, Replacing
<1>2. CASE WaitForEntry(t)
  <2> DEFINE o == table[call[t].page].owner
  <2>1. call[t].page \in Pages
    BY <1>2, PageKnown DEF WaitForEntry
  <2>2. o \in Threads /\ pc[o] \in Claiming
    BY <1>2, <2>1, Owners DEF WaitForEntry
  <2>3. pc[t] \notin Claiming /\ Wait(t, o, "awaitEntry")
    BY <1>2 DEF WaitForEntry, Claiming, Sweeping, Reserving, Replacing
  <2> HIDE DEF o
  <2> QED BY <2>2, <2>3, WaitBegins
<1>3. CASE Miss(t)
  BY <1>3, WaitsStay, Awake DEF Miss, Goto, TypeOK, Claiming, Sweeping, Reserving, Replacing
<1>4. CASE Claim(t)
  <2>1. waitOn' = waitOn
    BY <1>4 DEF Claim
  <2> QED BY <1>4, <2>1, ClaimStep, WaitsStay, Awake DEF Claiming, Sweeping, Reserving, Replacing
<1>5. CASE Wake(t)
  <2>1. pc[t] \in DOMAIN Resume /\ waitOn[t] = NoThread /\ waitOn' = waitOn
    BY <1>5 DEF Wake
  <2>2. pc'[t] = Resume[pc[t]] /\ \A u \in Threads \ {t} : pc'[u] = pc[u]
    BY <1>5 DEF Wake, Goto, TypeOK
  <2>3. \/ pc[t] = "awaitEntry" /\ pc'[t] = "lookup"
        \/ pc[t] = "awaitLoad" /\ pc'[t] = "tick"
        \/ pc[t] = "awaitFlush" /\ pc'[t] = "flushPin"
    BY <2>1, <2>2 DEF Resume
  <2>4. /\ pc[t] \in Claiming => pc'[t] \in Claiming
        /\ pc[t] \in Claiming \ Sweeping => pc'[t] \notin Sweeping
    BY <2>3 DEF Claiming, Sweeping, Reserving, Replacing
  <2> QED BY <2>1, <2>2, <2>4, WaitsStay
<1> QED BY <1>1, <1>2, <1>3, <1>4, <1>5

LEMMA SweepWaits ==
  ASSUME OwnershipInv, WaitsAreAcyclic, NEW t \in Threads,
         Tick(t) \/ Snapshot(t) \/ ReserveFails(t) \/ SecondChance(t) \/ Reserve(t) \/ Scan(t)
  PROVE  WaitsAreAcyclic'
<1> USE DEF OwnershipInv
<1>1. CASE Tick(t)
  BY <1>1, WaitsStay, Awake DEF Tick, Goto, TypeOK, Claiming, Sweeping
<1>2. CASE Snapshot(t) \/ ReserveFails(t) \/ SecondChance(t)
  <2>1. waitOn' = waitOn
    BY <1>2 DEF Snapshot, ReserveFails, SecondChance
  <2> QED BY <1>2, <2>1, SearchStep, WaitsStay, Awake DEF Claiming, Sweeping
<1>3. CASE Reserve(t)
  BY <1>3, WaitsStay, Awake DEF Reserve, Goto, TypeOK, Claiming, Sweeping, Reserving, Replacing
<1>4. CASE Scan(t)
  <2> DEFINE f == call[t].cur
  <2>1. CASE state[f].kind = "Evicting"
    <3>1. state[f].owner \in Threads /\ pc[state[f].owner] \in Reserving
      BY <2>1, LocalTypes, Owners
    <3>2. Wait(t, state[f].owner, "awaitLoad") /\ pc[t] = "scan"
      BY <1>4, <2>1 DEF Scan
    <3>3. pc[state[f].owner] \in Claiming
      BY <3>1 DEF Claiming
    <3> QED BY <3>1, <3>2, <3>3, WaitBegins
  <2>2. CASE state[f].kind # "Evicting"
    <3>1. waitOn' = waitOn
      BY <1>4, <2>2 DEF Scan
    <3>2. /\ pc[t] = "scan" /\ pc'[t] \in {"tick", "scan", "reserve", "awaitLoad", "abandon"}
          /\ \A u \in Threads \ {t} : pc'[u] = pc[u]
      BY <1>4, SearchStep DEF Scan
    <3> QED BY <3>1, <3>2, WaitsStay, Awake DEF Claiming, Sweeping
  <2> QED BY <2>1, <2>2
<1> QED BY <1>1, <1>2, <1>3, <1>4

LEMMA LoadWaits ==
  ASSUME OwnershipInv, WaitsAreAcyclic, NEW t \in Threads,
         \/ WriteBack(t) \/ WriteBackFails(t) \/ Load(t) \/ LoadFails(t) \/ RemoveOld(t)
         \/ Publish(t) \/ Finish(t) \/ Restore(t) \/ Unreserve(t) \/ Abandon(t) \/ GiveUp(t)
  PROVE  WaitsAreAcyclic'
<1> USE DEF OwnershipInv
<1>1. CASE Finish(t) \/ GiveUp(t)
  <2>1. FinishPending(t) /\ Return(t) /\ pc[t] \in {"finish", "giveUp"}
    BY <1>1 DEF Finish, GiveUp
  <2> QED BY <2>1, Awake, WaitsEnd
<1>2. CASE WriteBack(t) \/ WriteBackFails(t) \/ Load(t) \/ LoadFails(t) \/ RemoveOld(t)
  <2>1. /\ pc[t] \in {"writeBack", "load", "removeOld"} /\ waitOn' = waitOn
        /\ pc'[t] \in {"load", "restore", "removeOld", "publish"}
        /\ \A u \in Threads \ {t} : pc'[u] = pc[u]
    BY <1>2 DEF WriteBack, WriteBackFails, Load, LoadFails, RemoveOld, Goto, TypeOK
  <2> QED BY <2>1, WaitsStay, Awake DEF Claiming, Sweeping, Reserving, Replacing
<1>3. CASE Publish(t) \/ Restore(t) \/ Unreserve(t) \/ Abandon(t)
  <2>1. /\ pc[t] \in {"publish", "restore", "unreserve", "abandon"} /\ waitOn' = waitOn
        /\ pc'[t] \in {"finish", "unreserve", "abandon", "giveUp"}
        /\ \A u \in Threads \ {t} : pc'[u] = pc[u]
    BY <1>3 DEF Publish, Restore, Unreserve, Abandon, Goto, TypeOK
  <2> QED BY <2>1, WaitsStay, Awake DEF Claiming, Sweeping, Reserving, Replacing
<1> QED BY <1>1, <1>2, <1>3

LEMMA FlushWaits ==
  ASSUME OwnershipInv, WaitsAreAcyclic, NEW t \in Threads,
         \/ FlushPin(t) \/ FlushCheck(t) \/ FlushWrite(t) \/ FlushWriteFails(t)
         \/ FlushClear(t) \/ FlushUnpin(t) \/ FlushAbort(t)
  PROVE  WaitsAreAcyclic'
<1> USE DEF OwnershipInv
<1>1. CASE FlushPin(t)
  <2> DEFINE f == call[t].cur
  <2>1. CASE Wait(t, state[f].owner, "awaitFlush") /\ state[f].kind = "Evicting"
    <3>1. state[f].owner \in Threads /\ pc[state[f].owner] \in Reserving
      BY <2>1, LocalTypes, Owners
    <3>2. pc[state[f].owner] \in Claiming
      BY <3>1 DEF Claiming
    <3>3. pc[t] \notin Claiming
      BY <1>1 DEF FlushPin, Claiming, Sweeping, Reserving, Replacing
    <3> QED BY <2>1, <3>1, <3>2, <3>3, WaitBegins
  <2>2. CASE waitOn' = waitOn
    <3>1. /\ pc[t] = "flushPin" /\ \A u \in Threads \ {t} : pc'[u] = pc[u]
      BY <1>1, FlushPinCases
    <3> QED BY <2>2, <3>1, WaitsStay, Awake DEF Claiming, Sweeping, Reserving, Replacing
  <2> QED BY <1>1, <2>1, <2>2 DEF FlushPin
<1>2. CASE FlushCheck(t) \/ FlushWrite(t) \/ FlushWriteFails(t) \/ FlushClear(t) \/ FlushAbort(t)
  <2>1. /\ pc[t] \in FlushPinned /\ waitOn' = waitOn
        /\ \A u \in Threads \ {t} : pc'[u] = pc[u]
    BY <1>2 DEF FlushCheck, FlushWrite, FlushWriteFails, FlushClear, FlushAbort, Return, Goto,
                TypeOK, FlushPinned
  <2> QED BY <2>1, WaitsStay, Awake DEF Claiming, Sweeping, Reserving, Replacing, FlushPinned
<1>3. CASE FlushUnpin(t)
  <2>1. waitOn' = waitOn
    BY <1>3 DEF FlushUnpin
  <2> QED BY <1>3, <2>1, FlushUnpinStep, WaitsStay, Awake
          DEF Claiming, Sweeping, Reserving, Replacing
<1> QED BY <1>1, <1>2, <1>3

LEMMA WaitsKept ==
  ASSUME OwnershipInv, WaitsAreAcyclic, [Next]_vars
  PROVE  WaitsAreAcyclic'
<1>1. CASE UNCHANGED <<pc, waitOn>>
  BY <1>1 DEF WaitsAreAcyclic
<1>2. ASSUME NEW t \in Threads, PoolStep(t) PROVE WaitsAreAcyclic'
  BY <1>2, FetchWaits, SweepWaits, LoadWaits, FlushWaits DEF PoolStep
<1>3. ASSUME NEW t \in Threads, CallStep(t) PROVE WaitsAreAcyclic'
  <2>1. /\ pc[t] = "idle" /\ waitOn' = waitOn /\ \A u \in Threads \ {t} : pc'[u] = pc[u]
    BY <1>3 DEF CallStep, Fetch, FlushAll, Goto, OwnershipInv, TypeOK
  <2> QED BY <2>1, WaitsStay, Awake
          DEF OwnershipInv, Claiming, Sweeping, Reserving, Replacing
<1>4. ASSUME NEW t \in Threads, GuardStep(t) PROVE WaitsAreAcyclic'
  BY <1>1, <1>4 DEF GuardStep, BeginWrite, EndWrite, DropGuard, threadVars
<1> QED BY <1>1, <1>2, <1>3, <1>4 DEF Next, vars, threadVars

(* Whoever waits in the pool waits for a call that will finish its Pending, and a
   wait for a victim is for a call that waits for nobody: no cycle of waits, for any
   number of threads. *)
THEOREM NoWaitCycle == Spec => []WaitsAreAcyclic
<1>1. Init => WaitsAreAcyclic
  BY DEF Init, WaitsAreAcyclic
<1>2. OwnershipInv /\ WaitsAreAcyclic /\ [Next]_vars => WaitsAreAcyclic'
  BY WaitsKept
<1> QED BY <1>1, <1>2, PoolOwnership, PTL DEF Spec

-----------------------------------------------------------------------------
(* Frames and the store *)

(* Labels at which the victim still has the content of its old page. *)
Copying == {"writeBack", "load", "restore"}

CleanCopies ==
  \A p \in Pages, f \in Frames : InFrame(p, f) /\ ~dirty[f] => data[f] = disk[p]

(* A page was just read in, and nobody else writes it to the store. *)
FreshlyLoaded ==
  \A t \in Threads : pc[t] \in {"removeOld", "publish"} => data[call[t].cur] = disk[call[t].page]

(* A flush keeps writers out until it has cleared the dirty flag. *)
FlushedClean ==
  \A t \in Threads :
    pc[t] = "flushClear" => /\ data[call[t].cur] = disk[call[t].seen]
                            /\ writer[call[t].cur] = NoThread

WritersHoldGuards ==
  \A f \in Frames : writer[f] # NoThread => dirty[f] /\ guard[writer[f]][f] # NoPage

StoreInv == OwnershipInv /\ CleanCopies /\ FreshlyLoaded /\ FlushedClean /\ WritersHoldGuards

(* Where a page is, seen from the table. *)
LEMMA WhereIs ==
  ASSUME OwnershipInv, NEW p \in Pages, NEW f \in Frames
  PROVE  InFrame(p, f) <=>
           \/ table[p] = Ready(f)
           \/ \E t \in Threads : table[p] = Evicting(t) /\ call[t].cur = f /\ pc[t] \in Copying
<1> USE DEF OwnershipInv
<1>1. ASSUME InFrame(p, f), state[f] # Valid(p)
      PROVE  \E t \in Threads : table[p] = Evicting(t) /\ call[t].cur = f /\ pc[t] \in Copying
  <2> DEFINE t == state[f].owner
  <2>1. t \in Threads /\ state[f] = Evicting(t)
    BY <1>1, StateCases DEF InFrame
  <2>2. pc[t] \in Copying /\ call[t].seen = p /\ call[t].cur = f
    BY <1>1, <2>1 DEF InFrame, Copying, TableMatchesFrames
  <2>3. table[p] = Evicting(t)
    BY <2>1, <2>2 DEF TableMatchesFrames, Copying, Reserving, Replacing
  <2> QED BY <2>1, <2>2, <2>3
<1>2. ASSUME NEW t \in Threads, table[p] = Evicting(t), call[t].cur = f, pc[t] \in Copying
      PROVE  InFrame(p, f)
  <2>1. call[t].seen = p /\ state[f] = Evicting(t)
    BY <1>2 DEF TableMatchesFrames, Copying, Reserving, Replacing
  <2> QED BY <1>2, <2>1, Constructors DEF InFrame, Copying
<1>3. table[p] = Ready(f) <=> state[f] = Valid(p)
  BY DEF TableMatchesFrames
<1> QED BY <1>1, <1>2, <1>3 DEF InFrame

(* A page is in one frame; one that is being loaded is in none. *)
LEMMA OneCopy ==
  ASSUME OwnershipInv, NEW p \in Pages, NEW f \in Frames, InFrame(p, f)
  PROVE  /\ \A g \in Frames : InFrame(p, g) => g = f
         /\ \A t \in Threads : pc[t] \in {"removeOld", "publish"} => call[t].page # p
<1>1. ASSUME NEW g \in Frames, InFrame(p, g) PROVE g = f
  BY <1>1, WhereIs, Constructors
<1>2. ASSUME NEW t \in Threads, pc[t] \in {"removeOld", "publish"}, call[t].page = p PROVE FALSE
  <2>1. table[p] = Loading(t)
    BY <1>2 DEF OwnershipInv, TableMatchesFrames, Claiming, Reserving, Replacing
  <2> QED BY <2>1, WhereIs, Constructors
<1> QED BY <1>1, <1>2

(* The page of a call that has a victim, and the page of a flush. *)
LEMMA OldCopy ==
  ASSUME OwnershipInv, NEW t \in Threads
  PROVE  /\ pc[t] \in Copying /\ call[t].seen \in Pages => InFrame(call[t].seen, call[t].cur)
         /\ pc[t] \in FlushPinned =>
              call[t].seen \in Pages /\ InFrame(call[t].seen, call[t].cur)
<1>1. call[t].cur \in Frames
  BY LocalTypes DEF OwnershipInv
<1>2. ASSUME pc[t] \in Copying, call[t].seen \in Pages PROVE InFrame(call[t].seen, call[t].cur)
  <2>1. table[call[t].seen] = Evicting(t)
    BY <1>2 DEF OwnershipInv, TableMatchesFrames, Copying, Reserving, Replacing
  <2> QED BY <1>1, <1>2, <2>1, WhereIs
<1>3. ASSUME pc[t] \in FlushPinned
      PROVE  call[t].seen \in Pages /\ InFrame(call[t].seen, call[t].cur)
  BY <1>3, SeenKnown DEF OwnershipInv, GuardsKeepTheirPage, InFrame
<1> QED BY <1>2, <1>3

(* A frame that is reserved has no writer. *)
LEMMA ReservedUnwritten ==
  ASSUME OwnershipInv, WritersHoldGuards, NEW t \in Threads, pc[t] \in Reserving
  PROVE  writer[call[t].cur] = NoThread
<1>1. call[t].cur \in Frames /\ state[call[t].cur] = Evicting(t)
  BY LocalTypes DEF OwnershipInv, TableMatchesFrames
<1>2. \A p : state[call[t].cur] # Valid(p)
  BY <1>1, Constructors
<1> QED BY <1>1, <1>2 DEF OwnershipInv, GuardsKeepTheirPage, WritersHoldGuards, TypeOK

(* Most steps move no page. *)
LEMMA CopiesStay ==
  ASSUME OwnershipInv, OwnershipInv', NEW t \in Threads, state' = state,
         \A u \in Threads \ {t} : pc'[u] = pc[u] /\ call'[u] = call[u],
         pc[t] \in Reserving => /\ pc'[t] \in Copying <=> pc[t] \in Copying
                                /\ call'[t].seen = call[t].seen
  PROVE  \A p \in Pages, f \in Frames : InFrame(p, f)' <=> InFrame(p, f)
<1> SUFFICES ASSUME NEW p \in Pages, NEW f \in Frames PROVE InFrame(p, f)' <=> InFrame(p, f)
  OBVIOUS
<1>1. CASE state[f].kind = "Evicting"
  <2> DEFINE o == state[f].owner
  <2>1. o \in Threads /\ pc[o] \in Reserving
    BY <1>1, Owners
  <2>2. o' = o
    OBVIOUS
  <2>3. (pc'[o] \in Copying <=> pc[o] \in Copying) /\ call'[o].seen = call[o].seen
    BY <2>1
  <2> QED BY <2>2, <2>3 DEF InFrame, Copying
<1>2. CASE state[f].kind # "Evicting"
  BY <1>2 DEF InFrame
<1> QED BY <1>1, <1>2

(* A write to the store of the page of f, of what f has or of what was there. *)
LEMMA StoreWritten ==
  ASSUME OwnershipInv, NEW q \in Pages, NEW f \in Frames, InFrame(q, f),
         NEW v, data[f] = disk[q] => v = disk[q], disk' = [disk EXCEPT ![q] = v]
  PROVE  /\ \A p \in Pages, g \in Frames :
              InFrame(p, g) /\ data[g] = disk[p] => data[g] = disk'[p]
         /\ \A t \in Threads :
              pc[t] \in {"removeOld", "publish"} => disk'[call[t].page] = disk[call[t].page]
<1>1. \A p \in Pages : disk'[p] = IF p = q THEN v ELSE disk[p]
  BY DEF OwnershipInv, TypeOK
<1>2. ASSUME NEW p \in Pages, NEW g \in Frames, InFrame(p, g), data[g] = disk[p]
      PROVE  data[g] = disk'[p]
  BY <1>1, <1>2, OneCopy
<1>3. ASSUME NEW t \in Threads, pc[t] \in {"removeOld", "publish"}
      PROVE  disk'[call[t].page] = disk[call[t].page]
  <2>1. call[t].page \in Pages
    BY <1>3, PageKnown DEF OwnershipInv, Claiming, Reserving, Replacing
  <2>2. call[t].page # q
    BY <1>3, OneCopy
  <2> QED BY <1>1, <2>1, <2>2
<1> QED BY <1>2, <1>3

(* A step that moves no page into a frame and leaves the frames' bytes alone. *)
LEMMA StoreStays ==
  ASSUME StoreInv, OwnershipInv', NEW t \in Threads,
         \A p \in Pages, f \in Frames : InFrame(p, f)' => InFrame(p, f),
         \A u \in Threads \ {t} : pc'[u] = pc[u] /\ call'[u] = call[u],
         pc'[t] \notin {"removeOld", "publish", "flushClear"},
         data' = data, dirty' = dirty, writer' = writer,
         \A f \in Frames : writer[f] # NoThread => guard'[writer[f]][f] # NoPage,
         \/ disk' = disk
         \/ /\ \A p \in Pages, g \in Frames :
                 InFrame(p, g) /\ data[g] = disk[p] => data[g] = disk'[p]
            /\ \A u \in Threads :
                 pc[u] \in {"removeOld", "publish"} => disk'[call[u].page] = disk[call[u].page]
  PROVE  StoreInv'
<1>1. CleanCopies'
  BY DEF StoreInv, CleanCopies
<1>2. FreshlyLoaded'
  BY DEF StoreInv, FreshlyLoaded
<1>3. FlushedClean'
  <2> SUFFICES ASSUME NEW u \in Threads, pc'[u] = "flushClear"
               PROVE  /\ data[call[u].cur] = disk'[call[u].seen]
                      /\ writer[call[u].cur] = NoThread
    BY DEF FlushedClean
  <2>1. pc[u] = "flushClear" /\ call[u].cur \in Frames
    BY LocalTypes DEF StoreInv, OwnershipInv
  <2>2. call[u].seen \in Pages /\ InFrame(call[u].seen, call[u].cur)
    BY <2>1, OldCopy DEF StoreInv, FlushPinned
  <2>3. data[call[u].cur] = disk[call[u].seen] /\ writer[call[u].cur] = NoThread
    BY <2>1 DEF StoreInv, FlushedClean
  <2> QED BY <2>1, <2>2, <2>3
<1>4. WritersHoldGuards'
  BY DEF StoreInv, WritersHoldGuards
<1> QED BY <1>1, <1>2, <1>3, <1>4 DEF StoreInv

LEMMA FetchStore ==
  ASSUME StoreInv, OwnershipInv', NEW t \in Threads,
         Hit(t) \/ WaitForEntry(t) \/ Miss(t) \/ Claim(t) \/ Wake(t)
  PROVE  StoreInv' /\ \A p \in Pages, f \in Frames : InFrame(p, f)' <=> InFrame(p, f)
<1>1. /\ UNCHANGED <<disk, state, data, dirty, writer>>
      /\ \A u \in Threads \ {t} : pc'[u] = pc[u] /\ call'[u] = call[u]
      /\ pc[t] \notin Reserving
      /\ pc'[t] \notin {"removeOld", "publish", "flushClear"}
  <2>1. CASE Claim(t)
    BY <2>1, ClaimStep DEF StoreInv, OwnershipInv, Reserving, Replacing
  <2>2. CASE Hit(t)
    BY <2>2 DEF Hit, Return, Goto, StoreInv, OwnershipInv, TypeOK, Reserving, Replacing
  <2>3. CASE WaitForEntry(t) \/ Miss(t) \/ Wake(t)
    BY <2>3 DEF WaitForEntry, Miss, Wake, Wait, Goto, Resume, frameVars, StoreInv, OwnershipInv,
                TypeOK, Reserving, Replacing
  <2> QED BY <2>1, <2>2, <2>3
<1>2. \A p \in Pages, f \in Frames : InFrame(p, f)' <=> InFrame(p, f)
  BY <1>1, CopiesStay DEF StoreInv
<1>3. \A f \in Frames : writer[f] # NoThread => guard'[writer[f]][f] # NoPage
  <2>1. CASE Hit(t)
    <3>1. call[t].page \in Pages
      BY <2>1, PageKnown DEF Hit, StoreInv, OwnershipInv
    <3>2. \A u \in Threads, f \in Frames : guard[u][f] # NoPage => guard'[u][f] # NoPage
      BY <2>1, <3>1, PoolAssumption DEF Hit, StoreInv, OwnershipInv, TypeOK
    <3> QED BY <3>2 DEF StoreInv, OwnershipInv, TypeOK, WritersHoldGuards
  <2>2. CASE WaitForEntry(t) \/ Miss(t) \/ Claim(t) \/ Wake(t)
    BY <2>2 DEF WaitForEntry, Miss, Claim, Wake, StoreInv, WritersHoldGuards
  <2> QED BY <2>1, <2>2
<1> QED BY <1>1, <1>2, <1>3, StoreStays

LEMMA SweepStore ==
  ASSUME StoreInv, OwnershipInv', NEW t \in Threads,
         Tick(t) \/ Snapshot(t) \/ ReserveFails(t) \/ SecondChance(t) \/ Scan(t)
  PROVE  StoreInv' /\ \A p \in Pages, f \in Frames : InFrame(p, f)' <=> InFrame(p, f)
<1>1. /\ UNCHANGED <<disk, state, data, dirty, guard, writer>>
      /\ \A u \in Threads \ {t} : pc'[u] = pc[u] /\ call'[u] = call[u]
      /\ pc[t] \notin Reserving
      /\ pc'[t] \notin {"removeOld", "publish", "flushClear"}
  <2>1. CASE Tick(t)
    BY <2>1 DEF Tick, Goto, frameVars, StoreInv, OwnershipInv, TypeOK, Reserving, Replacing
  <2>2. CASE Snapshot(t) \/ ReserveFails(t) \/ SecondChance(t) \/ Scan(t)
    BY <2>2, SearchStep DEF StoreInv, OwnershipInv, Reserving, Replacing
  <2> QED BY <2>1, <2>2
<1>2. \A p \in Pages, f \in Frames : InFrame(p, f)' <=> InFrame(p, f)
  BY <1>1, CopiesStay DEF StoreInv
<1>3. \A f \in Frames : writer[f] # NoThread => guard'[writer[f]][f] # NoPage
  BY <1>1 DEF StoreInv, WritersHoldGuards
<1> QED BY <1>1, <1>2, <1>3, StoreStays

(* The frame keeps its page and its bytes while its state says Evicting. *)
LEMMA ReserveStore ==
  ASSUME StoreInv, OwnershipInv', NEW t \in Threads, Reserve(t)
  PROVE  StoreInv' /\ \A p \in Pages, f \in Frames : InFrame(p, f)' <=> InFrame(p, f)
<1> DEFINE c == call[t].cur
           q == call[t].seen
<1>1. /\ pc[t] = "reserve" /\ state' = [state EXCEPT ![c] = Evicting(t)]
      /\ state[c] = IF q = NoPage THEN Empty ELSE Valid(q)
      /\ UNCHANGED <<disk, dirty, data, guard, writer>>
      /\ c \in Frames /\ q \in Pages \union {NoPage}
  BY LocalTypes DEF Reserve, Reservable, StoreInv, OwnershipInv
<1>2. /\ pc'[t] \in {"writeBack", "load"} /\ call'[t].seen = q
      /\ \A u \in Threads \ {t} : pc'[u] = pc[u] /\ call'[u] = call[u]
  BY DEF Reserve, Goto, StoreInv, OwnershipInv, TypeOK, Locals
<1>3. ASSUME NEW p \in Pages, NEW f \in Frames PROVE InFrame(p, f)' <=> InFrame(p, f)
  <2>1. CASE f = c
    <3>1. state'[f] = Evicting(t)
      BY <1>1, <2>1 DEF StoreInv, OwnershipInv, TypeOK
    <3>2. InFrame(p, f)' <=> q = p
      BY <1>2, <3>1, Constructors DEF InFrame
    <3>3. InFrame(p, f) <=> q = p
      BY <1>1, <2>1, PoolAssumption, Constructors DEF InFrame
    <3> QED BY <3>2, <3>3
  <2>2. CASE f # c
    <3>1. state'[f] = state[f]
      BY <1>1, <2>2 DEF StoreInv, OwnershipInv, TypeOK
    <3>2. state[f].kind = "Evicting" => state[f].owner \in Threads \ {t}
      BY <1>1, Owners DEF StoreInv, Reserving, Replacing
    <3> QED BY <1>2, <3>1, <3>2 DEF InFrame
  <2> QED BY <2>1, <2>2
<1>4. \A f \in Frames : writer[f] # NoThread => guard'[writer[f]][f] # NoPage
  BY <1>1 DEF StoreInv, WritersHoldGuards
<1> QED BY <1>1, <1>2, <1>3, <1>4, StoreStays

LEMMA WriteBackStore ==
  ASSUME StoreInv, OwnershipInv', NEW t \in Threads, WriteBack(t)
  PROVE  StoreInv' /\ \A p \in Pages, f \in Frames : InFrame(p, f)' <=> InFrame(p, f)
<1> DEFINE c == call[t].cur
           q == call[t].seen
<1>1. /\ pc[t] = "writeBack" /\ disk' = [disk EXCEPT ![q] = data[c]]
      /\ dirty' = [dirty EXCEPT ![c] = FALSE]
      /\ UNCHANGED <<state, data, guard, writer, call>>
      /\ c \in Frames /\ q \in Pages /\ InFrame(q, c) /\ writer[c] = NoThread
  BY LocalTypes, SeenKnown, OldCopy, ReservedUnwritten
     DEF WriteBack, StoreInv, OwnershipInv, Copying, Reserving, Replacing
<1>2. pc'[t] = "load" /\ \A u \in Threads \ {t} : pc'[u] = pc[u]
  BY DEF WriteBack, Goto, StoreInv, OwnershipInv, TypeOK
<1>3. \A p \in Pages, f \in Frames : InFrame(p, f)' <=> InFrame(p, f)
  BY <1>1, <1>2, CopiesStay DEF StoreInv, Copying
<1>4. /\ \A p \in Pages, g \in Frames :
            InFrame(p, g) /\ data[g] = disk[p] => data[g] = disk'[p]
      /\ \A u \in Threads :
            pc[u] \in {"removeOld", "publish"} => disk'[call[u].page] = disk[call[u].page]
  BY <1>1, StoreWritten DEF StoreInv
<1>5. /\ disk'[q] = data[c]
      /\ \A g \in Frames : dirty'[g] = IF g = c THEN FALSE ELSE dirty[g]
  BY <1>1 DEF StoreInv, OwnershipInv, TypeOK
<1>6. CleanCopies'
  <2> SUFFICES ASSUME NEW p \in Pages, NEW f \in Frames, InFrame(p, f), ~dirty'[f]
               PROVE  data[f] = disk'[p]
    BY <1>1, <1>3 DEF CleanCopies
  <2>1. CASE f = c
    <3>1. p = q
      BY <1>1, <2>1, Constructors DEF InFrame, StoreInv, OwnershipInv, TableMatchesFrames,
                                      Reserving, Replacing
    <3> QED BY <1>5, <2>1, <3>1
  <2>2. CASE f # c
    BY <1>4, <1>5, <2>2 DEF StoreInv, CleanCopies
  <2> QED BY <2>1, <2>2
<1>7. FreshlyLoaded'
  BY <1>1, <1>2, <1>4 DEF StoreInv, FreshlyLoaded
<1>8. FlushedClean'
  <2> SUFFICES ASSUME NEW u \in Threads, pc[u] = "flushClear"
               PROVE  /\ data[call[u].cur] = disk'[call[u].seen]
                      /\ writer[call[u].cur] = NoThread
    BY <1>1, <1>2 DEF FlushedClean
  <2>1. call[u].cur \in Frames /\ call[u].seen \in Pages /\ InFrame(call[u].seen, call[u].cur)
    BY LocalTypes, OldCopy DEF StoreInv, OwnershipInv, FlushPinned
  <2> QED BY <1>4, <2>1 DEF StoreInv, FlushedClean
<1>9. WritersHoldGuards'
  BY <1>1, <1>5 DEF StoreInv, WritersHoldGuards
<1> QED BY <1>3, <1>6, <1>7, <1>8, <1>9 DEF StoreInv

(* A frame that is reserved has at most the page its call has seen. *)
LEMMA ReservedHas ==
  ASSUME OwnershipInv, NEW t \in Threads, pc[t] \in Reserving
  PROVE  /\ call[t].cur \in Frames /\ state[call[t].cur] = Evicting(t)
         /\ \A p \in Pages : InFrame(p, call[t].cur) <=> call[t].seen = p /\ pc[t] \in Copying
         /\ \A u \in Threads : pc[u] \in FlushPinned => call[u].cur # call[t].cur
         /\ \A u \in Threads : pc[u] \in Reserving /\ u # t => call[u].cur # call[t].cur
<1>1. call[t].cur \in Frames /\ state[call[t].cur] = Evicting(t)
  BY LocalTypes DEF OwnershipInv, TableMatchesFrames
<1>2. \A p \in Pages : InFrame(p, call[t].cur) <=> call[t].seen = p /\ pc[t] \in Copying
  BY <1>1, Constructors DEF InFrame, Copying
<1>3. \A u \in Threads : pc[u] \in FlushPinned => call[u].cur # call[t].cur
  BY <1>1, Constructors DEF OwnershipInv, GuardsKeepTheirPage
<1>4. \A u \in Threads : pc[u] \in Reserving /\ u # t => call[u].cur # call[t].cur
  BY <1>1, Constructors DEF OwnershipInv, TableMatchesFrames
<1> QED BY <1>1, <1>2, <1>3, <1>4

LEMMA LoadStore ==
  ASSUME StoreInv, OwnershipInv', NEW t \in Threads, Load(t)
  PROVE  /\ StoreInv'
         /\ \A p \in Pages, f \in Frames :
              InFrame(p, f)' <=> InFrame(p, f) /\ f # call[t].cur
<1> DEFINE c == call[t].cur
           q == call[t].page
<1>1. /\ pc[t] = "load"
      /\ data' = [data EXCEPT ![c] = disk[q]] /\ dirty' = [dirty EXCEPT ![c] = FALSE]
      /\ UNCHANGED <<disk, state, guard, writer, call>>
  BY DEF Load
<1>2. /\ pc'[t] \in {"removeOld", "publish"} /\ \A u \in Threads \ {t} : pc'[u] = pc[u]
  BY DEF Load, Goto, StoreInv, OwnershipInv, TypeOK
<1>3. /\ pc[t] \in Reserving /\ c \in Frames /\ state[c] = Evicting(t) /\ writer[c] = NoThread
      /\ \A u \in Threads : pc[u] \in FlushPinned => call[u].cur # c
      /\ \A u \in Threads : pc[u] \in Reserving /\ u # t => call[u].cur # c
  BY <1>1, ReservedHas, ReservedUnwritten DEF StoreInv, Reserving, Replacing
<1>4. /\ \A f \in Frames : data'[f] = IF f = c THEN disk[q] ELSE data[f]
      /\ \A f \in Frames : dirty'[f] = IF f = c THEN FALSE ELSE dirty[f]
  BY <1>1, <1>3 DEF StoreInv, OwnershipInv, TypeOK
<1>5. ASSUME NEW p \in Pages, NEW f \in Frames
      PROVE  InFrame(p, f)' <=> InFrame(p, f) /\ f # c
  <2>1. CASE f = c
    <3>1. state'[f] = Evicting(t)
      BY <1>1, <1>3, <2>1
    <3> QED BY <1>2, <2>1, <3>1, Constructors DEF InFrame
  <2>2. CASE f # c
    <3>1. state[f].kind = "Evicting" => state[f].owner \in Threads \ {t}
      <4>1. state[f] # Evicting(t)
        BY <1>3, <2>2 DEF StoreInv, OwnershipInv, TableMatchesFrames
      <4> QED BY <4>1, StateCases DEF StoreInv, OwnershipInv
    <3> QED BY <1>1, <1>2, <2>2, <3>1 DEF InFrame
  <2> QED BY <2>1, <2>2
<1>6. CleanCopies'
  BY <1>1, <1>4, <1>5 DEF StoreInv, CleanCopies
<1>7. FreshlyLoaded'
  <2> SUFFICES ASSUME NEW u \in Threads, pc'[u] \in {"removeOld", "publish"}
               PROVE  data'[call[u].cur] = disk[call[u].page]
    BY <1>1 DEF FreshlyLoaded
  <2>1. CASE u = t
    BY <1>3, <1>4, <2>1
  <2>2. CASE u # t
    <3>1. pc[u] \in {"removeOld", "publish"} /\ call[u].cur # c /\ call[u].cur \in Frames
      BY <1>2, <1>3, <2>2, LocalTypes DEF StoreInv, OwnershipInv, Reserving, Replacing
    <3> QED BY <1>4, <3>1 DEF StoreInv, FreshlyLoaded
  <2> QED BY <2>1, <2>2
<1>8. FlushedClean'
  <2> SUFFICES ASSUME NEW u \in Threads, pc[u] = "flushClear"
               PROVE  /\ data'[call[u].cur] = disk[call[u].seen]
                      /\ writer[call[u].cur] = NoThread
    BY <1>1, <1>2 DEF FlushedClean
  <2>1. call[u].cur # c /\ call[u].cur \in Frames
    BY <1>3, LocalTypes DEF StoreInv, OwnershipInv, FlushPinned
  <2> QED BY <1>4, <2>1 DEF StoreInv, FlushedClean
<1>9. WritersHoldGuards'
  BY <1>1, <1>3, <1>4 DEF StoreInv, WritersHoldGuards
<1> QED BY <1>5, <1>6, <1>7, <1>8, <1>9 DEF StoreInv

(* The frame that was loaded becomes the frame of its page. *)
LEMMA PublishStore ==
  ASSUME StoreInv, OwnershipInv', NEW t \in Threads, Publish(t)
  PROVE  /\ StoreInv'
         /\ \A p \in Pages, f \in Frames :
              InFrame(p, f)' <=> InFrame(p, f) \/ (f = call[t].cur /\ p = call[t].page)
<1> DEFINE c == call[t].cur
           q == call[t].page
<1>1. /\ pc[t] = "publish" /\ state' = [state EXCEPT ![c] = Valid(q)]
      /\ UNCHANGED <<disk, dirty, data, guard, writer, call>>
  BY DEF Publish
<1>2. pc'[t] = "finish" /\ \A u \in Threads \ {t} : pc'[u] = pc[u]
  BY DEF Publish, Goto, StoreInv, OwnershipInv, TypeOK
<1>3. /\ c \in Frames /\ state[c] = Evicting(t) /\ q \in Pages
      /\ \A p \in Pages : ~InFrame(p, c)
  BY <1>1, ReservedHas, PageKnown
     DEF StoreInv, OwnershipInv, Copying, Reserving, Replacing, Claiming
<1>4. ASSUME NEW p \in Pages, NEW f \in Frames
      PROVE  InFrame(p, f)' <=> InFrame(p, f) \/ (f = c /\ p = q)
  <2>1. CASE f = c
    <3>1. state'[f] = Valid(q)
      BY <1>1, <1>3, <2>1 DEF StoreInv, OwnershipInv, TypeOK
    <3> QED BY <1>3, <2>1, <3>1, Constructors DEF InFrame
  <2>2. CASE f # c
    <3>1. state'[f] = state[f]
      BY <1>1, <2>2 DEF StoreInv, OwnershipInv, TypeOK
    <3>2. state[f].kind = "Evicting" => state[f].owner \in Threads \ {t}
      <4>1. state[f] # Evicting(t)
        BY <1>3, <1>1, <2>2 DEF StoreInv, OwnershipInv, TableMatchesFrames
      <4> QED BY <4>1, StateCases DEF StoreInv, OwnershipInv
    <3> QED BY <1>1, <1>2, <2>2, <3>1, <3>2 DEF InFrame
  <2> QED BY <2>1, <2>2
<1>5. data[c] = disk[q]
  BY <1>1 DEF StoreInv, FreshlyLoaded
<1>6. CleanCopies'
  BY <1>1, <1>4, <1>5 DEF StoreInv, CleanCopies
<1>7. FreshlyLoaded' /\ FlushedClean' /\ WritersHoldGuards'
  BY <1>1, <1>2 DEF StoreInv, FreshlyLoaded, FlushedClean, WritersHoldGuards
<1> QED BY <1>4, <1>6, <1>7 DEF StoreInv

LEMMA RestoreStore ==
  ASSUME StoreInv, OwnershipInv', NEW t \in Threads, Restore(t)
  PROVE  StoreInv' /\ \A p \in Pages, f \in Frames : InFrame(p, f)' <=> InFrame(p, f)
<1> DEFINE c == call[t].cur
           q == call[t].seen
<1>1. /\ pc[t] = "restore" /\ UNCHANGED <<disk, dirty, data, guard, writer, call>>
      /\ state' = [state EXCEPT ![c] = IF q = NoPage THEN Empty ELSE Valid(q)]
  BY DEF Restore
<1>2. pc'[t] = "unreserve" /\ \A u \in Threads \ {t} : pc'[u] = pc[u]
  BY DEF Restore, Goto, StoreInv, OwnershipInv, TypeOK
<1>3. /\ c \in Frames /\ state[c] = Evicting(t) /\ q \in Pages \union {NoPage}
      /\ \A p \in Pages : InFrame(p, c) <=> q = p
  BY <1>1, ReservedHas, LocalTypes DEF StoreInv, OwnershipInv, Copying, Reserving, Replacing
<1>4. ASSUME NEW p \in Pages, NEW f \in Frames PROVE InFrame(p, f)' <=> InFrame(p, f)
  <2>1. CASE f = c
    <3>1. state'[f] = IF q = NoPage THEN Empty ELSE Valid(q)
      BY <1>1, <1>3, <2>1 DEF StoreInv, OwnershipInv, TypeOK
    <3> QED BY <1>3, <2>1, <3>1, PoolAssumption, Constructors DEF InFrame
  <2>2. CASE f # c
    <3>1. state'[f] = state[f]
      BY <1>1, <2>2 DEF StoreInv, OwnershipInv, TypeOK
    <3>2. state[f].kind = "Evicting" => state[f].owner \in Threads \ {t}
      <4>1. state[f] # Evicting(t)
        BY <1>1, <2>2 DEF StoreInv, OwnershipInv, TableMatchesFrames
      <4> QED BY <4>1, StateCases DEF StoreInv, OwnershipInv
    <3> QED BY <1>1, <1>2, <3>1, <3>2 DEF InFrame
  <2> QED BY <2>1, <2>2
<1>5. \A f \in Frames : writer[f] # NoThread => guard'[writer[f]][f] # NoPage
  BY <1>1 DEF StoreInv, WritersHoldGuards
<1> QED BY <1>1, <1>2, <1>4, <1>5, StoreStays

(* A write that fails, torn or not: the copy in the frame is the page's, and a clean
   one is not touched. *)
LEMMA FailedWrite ==
  ASSUME OwnershipInv, NEW q \in Pages, NEW f \in Frames, InFrame(q, f),
         \E v \in AfterFailedWrite(q, data[f]) : disk' = [disk EXCEPT ![q] = v]
  PROVE  /\ \A p \in Pages, g \in Frames :
              InFrame(p, g) /\ data[g] = disk[p] => data[g] = disk'[p]
         /\ \A t \in Threads :
              pc[t] \in {"removeOld", "publish"} => disk'[call[t].page] = disk[call[t].page]
<1>1. PICK v : (data[f] = disk[q] => v = disk[q]) /\ disk' = [disk EXCEPT ![q] = v]
  BY DEF AfterFailedWrite
<1> QED BY <1>1, StoreWritten

(* The rest of load_claimed, without the bytes. *)
LEMMA LoadRestStore ==
  ASSUME StoreInv, OwnershipInv', NEW t \in Threads,
         WriteBackFails(t) \/ LoadFails(t) \/ RemoveOld(t) \/ Finish(t) \/ Unreserve(t)
           \/ Abandon(t) \/ GiveUp(t)
  PROVE  StoreInv' /\ \A p \in Pages, f \in Frames : InFrame(p, f)' <=> InFrame(p, f)
<1>1. CASE WriteBackFails(t) \/ LoadFails(t)
  <2>1. /\ pc[t] \in {"writeBack", "load"} /\ UNCHANGED <<state, dirty, data, guard, writer, call>>
        /\ pc'[t] = "restore" /\ \A u \in Threads \ {t} : pc'[u] = pc[u]
    BY <1>1 DEF WriteBackFails, LoadFails, Goto, frameVars, StoreInv, OwnershipInv, TypeOK
  <2>2. \A p \in Pages, f \in Frames : InFrame(p, f)' <=> InFrame(p, f)
    BY <2>1, CopiesStay DEF StoreInv, Copying
  <2>3. \/ disk' = disk
        \/ /\ \A p \in Pages, g \in Frames :
                 InFrame(p, g) /\ data[g] = disk[p] => data[g] = disk'[p]
           /\ \A u \in Threads :
                 pc[u] \in {"removeOld", "publish"} => disk'[call[u].page] = disk[call[u].page]
    <3>1. CASE WriteBackFails(t)
      <4>1. pc[t] = "writeBack" /\ call[t].seen \in Pages /\ call[t].cur \in Frames
        BY <3>1, SeenKnown, LocalTypes DEF WriteBackFails, StoreInv, OwnershipInv
      <4>2. InFrame(call[t].seen, call[t].cur)
        BY <4>1, OldCopy DEF StoreInv, Copying
      <4>3. \E v \in AfterFailedWrite(call[t].seen, data[call[t].cur]) :
              disk' = [disk EXCEPT ![call[t].seen] = v]
        BY <3>1 DEF WriteBackFails
      <4> QED BY <4>1, <4>2, <4>3, FailedWrite DEF StoreInv
    <3>2. CASE LoadFails(t)
      BY <3>2 DEF LoadFails
    <3> QED BY <1>1, <3>1, <3>2
  <2>4. \A f \in Frames : writer[f] # NoThread => guard'[writer[f]][f] # NoPage
    BY <2>1 DEF StoreInv, WritersHoldGuards
  <2> QED BY <2>1, <2>2, <2>3, <2>4, StoreStays
<1>2. CASE RemoveOld(t)
  <2>1. /\ pc[t] = "removeOld" /\ UNCHANGED <<disk, state, dirty, data, guard, writer, call>>
        /\ pc'[t] = "publish" /\ \A u \in Threads \ {t} : pc'[u] = pc[u]
    BY <1>2 DEF RemoveOld, Goto, StoreInv, OwnershipInv, TypeOK
  <2>2. \A p \in Pages, f \in Frames : InFrame(p, f)' <=> InFrame(p, f)
    BY <2>1, CopiesStay DEF StoreInv, Copying
  <2>3. CleanCopies' /\ FreshlyLoaded' /\ FlushedClean' /\ WritersHoldGuards'
    BY <2>1, <2>2 DEF StoreInv, CleanCopies, FreshlyLoaded, FlushedClean, WritersHoldGuards
  <2> QED BY <2>2, <2>3 DEF StoreInv
<1>3. CASE Finish(t) \/ Unreserve(t) \/ Abandon(t) \/ GiveUp(t)
  <2>1. /\ pc[t] \in {"finish", "unreserve", "abandon", "giveUp"}
        /\ UNCHANGED <<disk, state, dirty, data, writer>>
        /\ pc'[t] \in {"idle", "abandon", "giveUp"}
        /\ \A u \in Threads \ {t} : pc'[u] = pc[u] /\ call'[u] = call[u]
    BY <1>3 DEF Finish, Unreserve, Abandon, GiveUp, Return, Goto, frameVars, StoreInv, OwnershipInv,
                TypeOK
  <2>2. \A p \in Pages, f \in Frames : InFrame(p, f)' <=> InFrame(p, f)
    BY <2>1, CopiesStay DEF StoreInv, Reserving, Replacing
  <2>3. \A f \in Frames : writer[f] # NoThread => guard'[writer[f]][f] # NoPage
    <3>1. CASE Finish(t)
      <4>1. call[t].page \in Pages
        BY <3>1, PageKnown DEF Finish, StoreInv, OwnershipInv, Claiming
      <4>2. \A u \in Threads, f \in Frames : guard[u][f] # NoPage => guard'[u][f] # NoPage
        BY <3>1, <4>1, PoolAssumption DEF Finish, StoreInv, OwnershipInv, TypeOK
      <4> QED BY <4>2 DEF StoreInv, OwnershipInv, TypeOK, WritersHoldGuards
    <3>2. CASE guard' = guard
      BY <3>2 DEF StoreInv, WritersHoldGuards
    <3> QED BY <1>3, <3>1, <3>2 DEF Unreserve, Abandon, GiveUp
  <2> QED BY <2>1, <2>2, <2>3, StoreStays
<1> QED BY <1>1, <1>2, <1>3

LEMMA FlushWriteStore ==
  ASSUME StoreInv, OwnershipInv', NEW t \in Threads, FlushWrite(t)
  PROVE  StoreInv' /\ \A p \in Pages, f \in Frames : InFrame(p, f)' <=> InFrame(p, f)
<1> DEFINE c == call[t].cur
           q == call[t].seen
<1>1. /\ pc[t] = "flushWrite" /\ disk' = [disk EXCEPT ![q] = data[c]] /\ writer[c] = NoThread
      /\ UNCHANGED <<state, dirty, data, guard, writer, call>>
  BY DEF FlushWrite, frameVars
<1>2. pc'[t] = "flushClear" /\ \A u \in Threads \ {t} : pc'[u] = pc[u]
  BY DEF FlushWrite, Goto, StoreInv, OwnershipInv, TypeOK
<1>3. c \in Frames /\ q \in Pages /\ InFrame(q, c)
  BY <1>1, LocalTypes, OldCopy DEF StoreInv, OwnershipInv, FlushPinned
<1>4. \A p \in Pages, f \in Frames : InFrame(p, f)' <=> InFrame(p, f)
  BY <1>1, <1>2, CopiesStay DEF StoreInv, Reserving, Replacing
<1>5. /\ \A p \in Pages, g \in Frames :
            InFrame(p, g) /\ data[g] = disk[p] => data[g] = disk'[p]
      /\ \A u \in Threads :
            pc[u] \in {"removeOld", "publish"} => disk'[call[u].page] = disk[call[u].page]
  BY <1>1, <1>3, StoreWritten DEF StoreInv
<1>6. CleanCopies' /\ FreshlyLoaded' /\ WritersHoldGuards'
  BY <1>1, <1>2, <1>4, <1>5 DEF StoreInv, CleanCopies, FreshlyLoaded, WritersHoldGuards
<1>7. FlushedClean'
  <2> SUFFICES ASSUME NEW u \in Threads, pc'[u] = "flushClear"
               PROVE  /\ data[call[u].cur] = disk'[call[u].seen]
                      /\ writer[call[u].cur] = NoThread
    BY <1>1 DEF FlushedClean
  <2>1. CASE u = t
    <3>1. disk'[q] = data[c]
      BY <1>1, <1>3 DEF StoreInv, OwnershipInv, TypeOK
    <3> QED BY <1>1, <2>1, <3>1
  <2>2. CASE u # t
    <3>1. pc[u] = "flushClear" /\ call[u].cur \in Frames /\ call[u].seen \in Pages
          /\ InFrame(call[u].seen, call[u].cur)
      BY <1>2, <2>2, LocalTypes, OldCopy DEF StoreInv, OwnershipInv, FlushPinned
    <3> QED BY <1>5, <3>1 DEF StoreInv, FlushedClean
  <2> QED BY <2>1, <2>2
<1> QED BY <1>4, <1>6, <1>7 DEF StoreInv

LEMMA FlushClearStore ==
  ASSUME StoreInv, OwnershipInv', NEW t \in Threads, FlushClear(t)
  PROVE  StoreInv' /\ \A p \in Pages, f \in Frames : InFrame(p, f)' <=> InFrame(p, f)
<1> DEFINE c == call[t].cur
           q == call[t].seen
<1>1. /\ pc[t] = "flushClear" /\ dirty' = [dirty EXCEPT ![c] = FALSE]
      /\ UNCHANGED <<disk, state, data, guard, writer, call>>
      /\ data[c] = disk[q] /\ writer[c] = NoThread
  BY DEF FlushClear, StoreInv, FlushedClean
<1>2. pc'[t] = "flushUnpin" /\ \A u \in Threads \ {t} : pc'[u] = pc[u]
  BY DEF FlushClear, Goto, StoreInv, OwnershipInv, TypeOK
<1>3. c \in Frames /\ state[c] = Valid(q)
  BY <1>1, LocalTypes DEF StoreInv, OwnershipInv, GuardsKeepTheirPage, FlushPinned
<1>4. \A p \in Pages, f \in Frames : InFrame(p, f)' <=> InFrame(p, f)
  BY <1>1, <1>2, CopiesStay DEF StoreInv, Reserving, Replacing
<1>5. \A g \in Frames : dirty'[g] = IF g = c THEN FALSE ELSE dirty[g]
  BY <1>1 DEF StoreInv, OwnershipInv, TypeOK
<1>6. CleanCopies'
  <2> SUFFICES ASSUME NEW p \in Pages, NEW f \in Frames, InFrame(p, f), ~dirty'[f]
               PROVE  data[f] = disk[p]
    BY <1>1, <1>4 DEF CleanCopies
  <2>1. CASE f = c
    <3>1. p = q
      BY <1>3, <2>1, Constructors DEF InFrame
    <3> QED BY <1>1, <2>1, <3>1
  <2>2. CASE f # c
    BY <1>5, <2>2 DEF StoreInv, CleanCopies
  <2> QED BY <2>1, <2>2
<1>7. FreshlyLoaded' /\ FlushedClean' /\ WritersHoldGuards'
  BY <1>1, <1>2, <1>5 DEF StoreInv, FreshlyLoaded, FlushedClean, WritersHoldGuards
<1> QED BY <1>4, <1>6, <1>7 DEF StoreInv

LEMMA FlushRestStore ==
  ASSUME StoreInv, OwnershipInv', NEW t \in Threads,
         FlushAll(t) \/ FlushPin(t) \/ FlushCheck(t) \/ FlushWriteFails(t) \/ FlushUnpin(t)
           \/ FlushAbort(t)
  PROVE  StoreInv' /\ \A p \in Pages, f \in Frames : InFrame(p, f)' <=> InFrame(p, f)
<1>1. /\ UNCHANGED <<state, data, dirty, guard, writer>>
      /\ \A u \in Threads \ {t} : pc'[u] = pc[u] /\ call'[u] = call[u]
      /\ pc[t] \notin Reserving
      /\ pc'[t] \notin {"removeOld", "publish", "flushClear"}
  <2>1. CASE FlushPin(t)
    BY <2>1, FlushPinCases DEF StoreInv, OwnershipInv, Reserving, Replacing
  <2>2. CASE FlushUnpin(t)
    BY <2>2, FlushUnpinStep DEF StoreInv, OwnershipInv, Reserving, Replacing
  <2>3. CASE FlushAll(t) \/ FlushCheck(t) \/ FlushWriteFails(t) \/ FlushAbort(t)
    BY <2>3 DEF FlushAll, FlushCheck, FlushWriteFails, FlushAbort, Return, Goto, frameVars,
                StoreInv, OwnershipInv, TypeOK, Reserving, Replacing
  <2> QED BY <2>1, <2>2, <2>3
<1>2. \A p \in Pages, f \in Frames : InFrame(p, f)' <=> InFrame(p, f)
  BY <1>1, CopiesStay DEF StoreInv
<1>3. \A f \in Frames : writer[f] # NoThread => guard'[writer[f]][f] # NoPage
  BY <1>1 DEF StoreInv, WritersHoldGuards
<1>4. CASE FlushWriteFails(t)
  <2>1. pc[t] = "flushWrite" /\ call[t].seen \in Pages /\ call[t].cur \in Frames
        /\ InFrame(call[t].seen, call[t].cur)
    BY <1>4, OldCopy, LocalTypes DEF FlushWriteFails, StoreInv, OwnershipInv, FlushPinned
  <2>2. \E v \in AfterFailedWrite(call[t].seen, data[call[t].cur]) :
          disk' = [disk EXCEPT ![call[t].seen] = v]
    BY <1>4 DEF FlushWriteFails
  <2>3. /\ \A p \in Pages, g \in Frames :
              InFrame(p, g) /\ data[g] = disk[p] => data[g] = disk'[p]
        /\ \A u \in Threads :
              pc[u] \in {"removeOld", "publish"} => disk'[call[u].page] = disk[call[u].page]
    BY <2>1, <2>2, FailedWrite DEF StoreInv
  <2> QED BY <1>1, <1>2, <1>3, <2>3, StoreStays
<1>5. CASE disk' = disk
  BY <1>1, <1>2, <1>3, <1>5, StoreStays
<1> QED BY <1>4, <1>5 DEF FlushAll, FlushPin, FlushCheck, FlushUnpin, FlushAbort

LEMMA ClientStore ==
  ASSUME StoreInv, OwnershipInv', NEW t \in Threads, NEW f \in Frames,
         \/ BeginWrite(t, f) \/ DropGuard(t, f) \/ \E v \in Contents : EndWrite(t, f, v)
         \/ \E p \in Pages, m \in Modes : Fetch(t, p, m)
  PROVE  StoreInv' /\ \A p \in Pages, g \in Frames : InFrame(p, g)' <=> InFrame(p, g)
<1>1. /\ pc[t] = "idle" /\ UNCHANGED <<disk, state>>
      /\ pc'[t] \notin {"removeOld", "publish", "flushClear"}
      /\ \A u \in Threads \ {t} : pc'[u] = pc[u] /\ call'[u] = call[u]
  BY DEF BeginWrite, DropGuard, EndWrite, Fetch, Goto, frameVars, threadVars, StoreInv, OwnershipInv,
         TypeOK
<1>2. \A p \in Pages, g \in Frames : InFrame(p, g)' <=> InFrame(p, g)
  BY <1>1, CopiesStay DEF StoreInv, Reserving, Replacing
<1>3. CASE BeginWrite(t, f)
  <2>1. /\ guard[t][f] # NoPage /\ writer' = [writer EXCEPT ![f] = t] /\ ~ReadLocked(f)
        /\ dirty' = [dirty EXCEPT ![f] = TRUE] /\ UNCHANGED <<data, guard, pc, call>>
    BY <1>3 DEF BeginWrite, threadVars
  <2>2. \A g \in Frames : /\ writer'[g] = IF g = f THEN t ELSE writer[g]
                          /\ dirty'[g] = IF g = f THEN TRUE ELSE dirty[g]
    BY <2>1 DEF StoreInv, OwnershipInv, TypeOK
  <2>3. \A u \in Threads : pc[u] = "flushClear" => call[u].cur # f /\ call[u].cur \in Frames
    BY <2>1, LocalTypes DEF ReadLocked, StoreInv, OwnershipInv
  <2>4. CleanCopies'
    BY <1>1, <1>2, <2>1, <2>2 DEF StoreInv, CleanCopies
  <2>5. FreshlyLoaded'
    BY <1>1, <2>1 DEF StoreInv, FreshlyLoaded
  <2>6. FlushedClean'
    BY <1>1, <2>1, <2>2, <2>3 DEF StoreInv, FlushedClean
  <2>7. WritersHoldGuards'
    BY <2>1, <2>2 DEF StoreInv, WritersHoldGuards
  <2> QED BY <1>2, <2>4, <2>5, <2>6, <2>7 DEF StoreInv
<1>4. ASSUME NEW v \in Contents, EndWrite(t, f, v) PROVE StoreInv'
  <2>1. /\ writer[f] = t /\ writer' = [writer EXCEPT ![f] = NoThread]
        /\ data' = [data EXCEPT ![f] = v] /\ UNCHANGED <<dirty, guard, pc, call>>
    BY <1>4 DEF EndWrite, threadVars
  <2>2. \A g \in Frames : /\ writer'[g] = IF g = f THEN NoThread ELSE writer[g]
                          /\ data'[g] = IF g = f THEN v ELSE data[g]
    BY <2>1 DEF StoreInv, OwnershipInv, TypeOK
  <2>3. dirty[f] /\ writer[f] # NoThread
    BY <2>1, PoolAssumption DEF StoreInv, WritersHoldGuards
  <2>4. \A u \in Threads : pc[u] \in {"removeOld", "publish"} => call[u].cur # f /\ call[u].cur \in Frames
    BY <2>3, ReservedUnwritten, LocalTypes DEF StoreInv, OwnershipInv, Reserving, Replacing
  <2>5. \A u \in Threads : pc[u] = "flushClear" => call[u].cur # f /\ call[u].cur \in Frames
    BY <2>3, LocalTypes DEF StoreInv, OwnershipInv, FlushedClean
  <2>6. CleanCopies'
    BY <1>1, <1>2, <2>1, <2>2, <2>3 DEF StoreInv, CleanCopies
  <2>7. FreshlyLoaded'
    BY <1>1, <2>1, <2>2, <2>4 DEF StoreInv, FreshlyLoaded
  <2>8. FlushedClean'
    BY <1>1, <2>1, <2>2, <2>5 DEF StoreInv, FlushedClean
  <2>9. WritersHoldGuards'
    BY <2>1, <2>2 DEF StoreInv, WritersHoldGuards
  <2> QED BY <2>6, <2>7, <2>8, <2>9 DEF StoreInv
<1>5. CASE DropGuard(t, f)
  <2>1. /\ writer[f] # t /\ guard' = [guard EXCEPT ![t][f] = NoPage]
        /\ UNCHANGED <<data, dirty, writer>>
    BY <1>5 DEF DropGuard
  <2>2. \A g \in Frames : writer[g] # NoThread => guard'[writer[g]][g] # NoPage
    <3>1. \A u \in Threads, g \in Frames : guard'[u][g] = IF u = t /\ g = f THEN NoPage ELSE guard[u][g]
      BY <2>1 DEF StoreInv, OwnershipInv, TypeOK
    <3> QED BY <2>1, <3>1 DEF StoreInv, OwnershipInv, TypeOK, WritersHoldGuards
  <2> QED BY <1>1, <1>2, <2>1, <2>2, StoreStays
<1>6. ASSUME NEW p \in Pages, NEW m \in Modes, Fetch(t, p, m) PROVE StoreInv'
  <2>1. UNCHANGED <<data, dirty, guard, writer>>
    BY <1>6 DEF Fetch, frameVars
  <2>2. \A g \in Frames : writer[g] # NoThread => guard'[writer[g]][g] # NoPage
    BY <2>1 DEF StoreInv, WritersHoldGuards
  <2> QED BY <1>1, <1>2, <2>1, <2>2, StoreStays
<1> QED BY <1>2, <1>3, <1>4, <1>5, <1>6

LEMMA StoreKept ==
  ASSUME StoreInv, [Next]_vars
  PROVE  StoreInv'
<1>1. OwnershipInv'
  BY NextOwnership, StutterOwnership DEF StoreInv
<1>2. CASE UNCHANGED vars
  <2>1. \A p \in Pages, f \in Frames : InFrame(p, f)' <=> InFrame(p, f)
    BY <1>2 DEF InFrame, vars, frameVars, threadVars
  <2> QED BY <1>1, <1>2, <2>1
          DEF StoreInv, CleanCopies, FreshlyLoaded, FlushedClean, WritersHoldGuards, vars, frameVars,
              threadVars
<1>3. ASSUME NEW t \in Threads, PoolStep(t) PROVE StoreInv'
  BY <1>1, <1>3, FetchStore, SweepStore, ReserveStore, WriteBackStore, LoadStore, PublishStore,
     RestoreStore, LoadRestStore, FlushWriteStore, FlushClearStore, FlushRestStore DEF PoolStep
<1>4. ASSUME NEW t \in Threads, CallStep(t) \/ GuardStep(t) PROVE StoreInv'
  BY <1>1, <1>4, FrameFacts, ClientStore, FlushRestStore DEF CallStep, GuardStep
<1> QED BY <1>2, <1>3, <1>4 DEF Next

LEMMA StoreHolds == Spec => []StoreInv
<1>1. Init => StoreInv
  <2> SUFFICES ASSUME Init PROVE StoreInv
    OBVIOUS
  <2>1. CleanCopies
    BY Constructors DEF Init, CleanCopies, InFrame
  <2> QED BY <2>1, InitOwnership
          DEF Init, StoreInv, FreshlyLoaded, FlushedClean, WritersHoldGuards
<1>2. StoreInv /\ [Next]_vars => StoreInv'
  BY StoreKept
<1> QED BY <1>1, <1>2, PTL DEF Spec

(* A frame without the dirty flag has what the store has of its page, through
   evictions, failed loads, torn writes and concurrent flushes: an eviction that skips
   the write-back loses nothing. *)
THEOREM CleanFramesAreStored == Spec => []CleanFramesMatchDisk
<1>1. StoreInv => CleanFramesMatchDisk
  BY DEF StoreInv, CleanCopies, CleanFramesMatchDisk, InFrame
<1> QED BY <1>1, StoreHolds, PTL

-----------------------------------------------------------------------------
(* Refinement of PageMemory *)

(* A victim that is about to be overwritten was clean, or has been written back. *)
LoadsClean ==
  \A t \in Threads : pc[t] = "load" /\ call[t].seen # NoPage => ~dirty[call[t].cur]

MemoryInv == StoreInv /\ LoadsClean

LEMMA LoadsStayClean ==
  ASSUME OwnershipInv, LoadsClean, NEW t \in Threads, pc'[t] # "load",
         \A u \in Threads \ {t} : pc'[u] = pc[u] /\ call'[u] = call[u],
         \/ dirty' = dirty
         \/ \E f \in Frames : dirty' = [dirty EXCEPT ![f] = FALSE]
         \/ \E f \in Frames : dirty' = [dirty EXCEPT ![f] = TRUE] /\ guard[t][f] # NoPage
  PROVE  LoadsClean'
<1> SUFFICES ASSUME NEW u \in Threads \ {t}, pc[u] = "load", call[u].seen # NoPage
             PROVE  ~dirty'[call[u].cur]
  BY DEF LoadsClean
<1>1. ~dirty[call[u].cur] /\ call[u].cur \in Frames
  BY LocalTypes DEF LoadsClean, OwnershipInv
<1>2. ASSUME NEW f \in Frames, guard[t][f] # NoPage PROVE f # call[u].cur
  <2>1. state[f] = Valid(guard[t][f])
    BY <1>2 DEF OwnershipInv, GuardsKeepTheirPage
  <2>2. state[call[u].cur] = Evicting(u)
    BY <1>1 DEF OwnershipInv, TableMatchesFrames, Reserving, Replacing
  <2> QED BY <2>1, <2>2, Constructors
<1> QED BY <1>1, <1>2 DEF OwnershipInv, TypeOK

LEMMA FetchLoads ==
  ASSUME OwnershipInv, LoadsClean, NEW t \in Threads,
         Hit(t) \/ WaitForEntry(t) \/ Miss(t) \/ Claim(t) \/ Wake(t)
  PROVE  LoadsClean'
<1> USE DEF OwnershipInv
<1>1. /\ dirty' = dirty /\ pc'[t] # "load"
      /\ \A u \in Threads \ {t} : pc'[u] = pc[u] /\ call'[u] = call[u]
  <2>1. CASE Hit(t)
    BY <2>1 DEF Hit, Return, Goto, TypeOK
  <2>2. CASE WaitForEntry(t) \/ Miss(t)
    BY <2>2 DEF WaitForEntry, Miss, Wait, Goto, TypeOK, frameVars
  <2>3. CASE Claim(t)
    BY <2>3, ClaimStep
  <2>4. CASE Wake(t)
    BY <2>4 DEF Wake, Resume, Goto, TypeOK, frameVars
  <2> QED BY <2>1, <2>2, <2>3, <2>4
<1> QED BY <1>1, LoadsStayClean

LEMMA SweepLoads ==
  ASSUME OwnershipInv, LoadsClean, NEW t \in Threads,
         Tick(t) \/ Snapshot(t) \/ ReserveFails(t) \/ SecondChance(t) \/ Scan(t)
  PROVE  LoadsClean'
<1> USE DEF OwnershipInv
<1>1. /\ dirty' = dirty /\ pc'[t] # "load"
      /\ \A u \in Threads \ {t} : pc'[u] = pc[u] /\ call'[u] = call[u]
  <2>1. CASE Tick(t)
    BY <2>1 DEF Tick, Goto, TypeOK, frameVars
  <2> QED BY <2>1, SearchStep
<1> QED BY <1>1, LoadsStayClean

(* The two ways to the load. *)
LEMMA VictimLoads ==
  ASSUME OwnershipInv, LoadsClean, NEW t \in Threads, Reserve(t) \/ WriteBack(t)
  PROVE  LoadsClean'
<1> SUFFICES ASSUME NEW u \in Threads, pc'[u] = "load", call'[u].seen # NoPage
             PROVE  ~dirty'[call'[u].cur]
  BY DEF LoadsClean
<1> USE DEF OwnershipInv
<1>1. \A v \in Threads : /\ call'[v].cur = call[v].cur /\ call'[v].seen = call[v].seen
                         /\ call[v].cur \in Frames
                         /\ v # t => pc'[v] = pc[v]
  <2>1. call' = call \/ call' = [call EXCEPT ![t].tick = 0]
    BY DEF Reserve, WriteBack
  <2> QED BY <2>1, LocalTypes DEF Reserve, WriteBack, Goto, TypeOK, Locals
<1>2. \A f \in Frames : dirty'[f] => dirty[f]
  BY DEF Reserve, WriteBack, TypeOK
<1>3. CASE u # t
  BY <1>1, <1>2, <1>3 DEF LoadsClean
<1>4. CASE u = t /\ Reserve(t)
  BY <1>1, <1>4 DEF Reserve, Goto, TypeOK
<1>5. CASE u = t /\ WriteBack(t)
  BY <1>1, <1>5 DEF WriteBack, TypeOK
<1> QED BY <1>3, <1>4, <1>5

LEMMA LoadLoads ==
  ASSUME OwnershipInv, LoadsClean, NEW t \in Threads,
         \/ WriteBackFails(t) \/ Load(t) \/ LoadFails(t) \/ RemoveOld(t) \/ Publish(t) \/ Finish(t)
         \/ Restore(t) \/ Unreserve(t) \/ Abandon(t) \/ GiveUp(t)
  PROVE  LoadsClean'
<1> USE DEF OwnershipInv
<1>1. /\ pc'[t] # "load"
      /\ \A u \in Threads \ {t} : pc'[u] = pc[u] /\ call'[u] = call[u]
      /\ dirty' = dirty \/ dirty' = [dirty EXCEPT ![call[t].cur] = FALSE]
  <2>1. CASE WriteBackFails(t) \/ LoadFails(t) \/ RemoveOld(t) \/ Publish(t)
    BY <2>1 DEF WriteBackFails, LoadFails, RemoveOld, Publish, Goto, TypeOK, frameVars
  <2>2. CASE Load(t)
    BY <2>2 DEF Load, Goto, TypeOK
  <2>3. CASE Finish(t) \/ GiveUp(t)
    BY <2>3 DEF Finish, GiveUp, Return, Goto, TypeOK, frameVars
  <2>4. CASE Restore(t) \/ Unreserve(t) \/ Abandon(t)
    BY <2>4 DEF Restore, Unreserve, Abandon, Goto, TypeOK
  <2> QED BY <2>1, <2>2, <2>3, <2>4
<1> QED BY <1>1, LocalTypes, LoadsStayClean

LEMMA FlushLoads ==
  ASSUME OwnershipInv, LoadsClean, NEW t \in Threads,
         \/ FlushAll(t) \/ FlushPin(t) \/ FlushCheck(t) \/ FlushWrite(t) \/ FlushWriteFails(t)
         \/ FlushClear(t) \/ FlushUnpin(t) \/ FlushAbort(t)
  PROVE  LoadsClean'
<1> USE DEF OwnershipInv
<1>1. /\ pc'[t] # "load"
      /\ \A u \in Threads \ {t} : pc'[u] = pc[u] /\ call'[u] = call[u]
      /\ dirty' = dirty \/ dirty' = [dirty EXCEPT ![call[t].cur] = FALSE]
  <2>1. CASE FlushAll(t) \/ FlushCheck(t) \/ FlushWrite(t) \/ FlushWriteFails(t)
    BY <2>1 DEF FlushAll, FlushCheck, FlushWrite, FlushWriteFails, Goto, TypeOK, frameVars
  <2>2. CASE FlushClear(t)
    BY <2>2 DEF FlushClear, Goto, TypeOK
  <2>3. CASE FlushAbort(t)
    BY <2>3 DEF FlushAbort, Return, Goto, TypeOK
  <2>4. CASE FlushPin(t) \/ FlushUnpin(t)
    BY <2>4, FlushPinCases, FlushUnpinStep
  <2> QED BY <2>1, <2>2, <2>3, <2>4
<1> QED BY <1>1, LocalTypes, LoadsStayClean

LEMMA LoadsKept ==
  ASSUME OwnershipInv, LoadsClean, [Next]_vars
  PROVE  LoadsClean'
<1>1. CASE UNCHANGED vars
  BY <1>1 DEF vars, frameVars, threadVars, LoadsClean
<1>2. ASSUME NEW t \in Threads, PoolStep(t) PROVE LoadsClean'
  BY <1>2, FetchLoads, SweepLoads, VictimLoads, LoadLoads, FlushLoads DEF PoolStep
<1>3. ASSUME NEW t \in Threads, NEW p \in Pages, NEW m \in Modes, Fetch(t, p, m) PROVE LoadsClean'
  <2>1. /\ dirty' = dirty /\ pc'[t] # "load"
        /\ \A u \in Threads \ {t} : pc'[u] = pc[u] /\ call'[u] = call[u]
    BY <1>3 DEF Fetch, Goto, OwnershipInv, TypeOK, frameVars
  <2> QED BY <2>1, LoadsStayClean
<1>4. ASSUME NEW t \in Threads, GuardStep(t) PROVE LoadsClean'
  <2>1. PICK f \in Frames : \/ BeginWrite(t, f) \/ DropGuard(t, f)
                            \/ \E v \in Contents : EndWrite(t, f, v)
    BY <1>4 DEF GuardStep
  <2>2. pc[t] = "idle" /\ UNCHANGED <<pc, call>>
    BY <2>1 DEF BeginWrite, DropGuard, EndWrite, threadVars
  <2>3. dirty' = dirty \/ (dirty' = [dirty EXCEPT ![f] = TRUE] /\ guard[t][f] # NoPage)
    BY <2>1 DEF BeginWrite, DropGuard, EndWrite
  <2> QED BY <2>2, <2>3, LoadsStayClean
<1> QED BY <1>1, <1>2, <1>3, <1>4, FlushLoads DEF Next, CallStep

LEMMA MemoryInvHolds == Spec => []MemoryInv
<1>1. Init => LoadsClean
  BY DEF Init, LoadsClean
<1>2. StoreInv /\ LoadsClean /\ [Next]_vars => LoadsClean'
  BY LoadsKept DEF StoreInv
<1>3. StoreInv /\ LoadsClean => MemoryInv
  BY DEF MemoryInv
<1> QED BY <1>1, <1>2, <1>3, StoreHolds, PTL DEF Spec

(* What the memory shows of a page is what its frame has, else what the store has;
   a frame that is reserved has no writer. *)
CopiesShown ==
  \A p \in Pages :
    /\ \A f \in Frames : InFrame(p, f) => Content(p) = data[f] /\ PageWriter(p) = writer[f]
    /\ (\A f \in Frames : ~InFrame(p, f)) => Content(p) = disk[p] /\ PageWriter(p) = NoThread

LEMMA CopyFacts == StoreInv => CopiesShown
<1> SUFFICES ASSUME StoreInv, NEW p \in Pages
             PROVE  /\ \A f \in Frames : InFrame(p, f) => /\ Content(p) = data[f]
                                                          /\ PageWriter(p) = writer[f]
                    /\ (\A f \in Frames : ~InFrame(p, f)) => /\ Content(p) = disk[p]
                                                             /\ PageWriter(p) = NoThread
  BY DEF CopiesShown
<1>1. ASSUME NEW f \in Frames, InFrame(p, f)
      PROVE  Content(p) = data[f] /\ PageWriter(p) = writer[f]
  <2>1. {g \in Frames : InFrame(p, g)} = {f}
    BY <1>1, OneCopy DEF StoreInv
  <2>2. Content(p) = data[f]
    BY <2>1 DEF Content
  <2>3. CASE state[f] = Valid(p)
    <3>1. {g \in Frames : state[g] = Valid(p)} = {f}
      BY <2>1, <2>3 DEF InFrame
    <3> QED BY <2>2, <3>1 DEF PageWriter
  <2>4. CASE state[f] # Valid(p)
    <3>1. {g \in Frames : state[g] = Valid(p)} = {}
      BY <2>1, <2>4 DEF InFrame
    <3>2. PICK t \in Threads : call[t].cur = f /\ pc[t] \in Copying
      BY <1>1, <2>4, WhereIs DEF StoreInv, OwnershipInv, TableMatchesFrames
    <3>3. writer[f] = NoThread
      BY <3>2, ReservedUnwritten DEF StoreInv, Copying, Reserving, Replacing
    <3> QED BY <2>2, <3>1, <3>3 DEF PageWriter
  <2> QED BY <2>3, <2>4
<1>2. ASSUME \A f \in Frames : ~InFrame(p, f)
      PROVE  Content(p) = disk[p] /\ PageWriter(p) = NoThread
  <2>1. {g \in Frames : InFrame(p, g)} = {} /\ {g \in Frames : state[g] = Valid(p)} = {}
    BY <1>2 DEF InFrame
  <2> QED BY <2>1 DEF Content, PageWriter
<1> QED BY <1>1, <1>2

LEMMA CopiesNext ==
  ASSUME StoreInv'
  PROVE  \A p \in Pages :
           /\ \A f \in Frames : InFrame(p, f)' => /\ Content(p)' = data'[f]
                                                  /\ PageWriter(p)' = writer'[f]
           /\ (\A f \in Frames : ~InFrame(p, f)') => /\ Content(p)' = disk'[p]
                                                     /\ PageWriter(p)' = NoThread
<1>1. CopiesShown'
  BY CopyFacts, PTL
<1> QED BY <1>1 DEF CopiesShown

(* A step that moves no page and writes no frame; of the store it writes no more
   than pages that are in frames. *)
LEMMA NothingSeen ==
  ASSUME StoreInv, StoreInv', UNCHANGED <<data, writer>>,
         \A p \in Pages, f \in Frames : InFrame(p, f)' <=> InFrame(p, f),
         \A p \in Pages : (\A f \in Frames : ~InFrame(p, f)) => disk'[p] = disk[p]
  PROVE  \A p \in Pages : Content(p)' = Content(p) /\ PageWriter(p)' = PageWriter(p)
<1> SUFFICES ASSUME NEW p \in Pages
             PROVE  Content(p)' = Content(p) /\ PageWriter(p)' = PageWriter(p)
  OBVIOUS
<1>1. CASE \E f \in Frames : InFrame(p, f)
  BY <1>1, CopyFacts, CopiesNext DEF CopiesShown
<1>2. CASE \A f \in Frames : ~InFrame(p, f)
  BY <1>2, CopyFacts, CopiesNext DEF CopiesShown
<1> QED BY <1>1, <1>2

LEMMA MemoryInit == Init => Memory!Init
<1> SUFFICES ASSUME Init PROVE Memory!Init
  OBVIOUS
<1>1. \A p \in Pages, f \in Frames : ~InFrame(p, f) /\ state[f] # Valid(p)
  BY Constructors DEF Init, InFrame
<1>2. \A p \in Pages : {f \in Frames : InFrame(p, f)} = {} /\ {f \in Frames : state[f] = Valid(p)} = {}
  BY <1>1
<1>3. \A p \in Pages : Content(p) = disk[p] /\ PageWriter(p) = NoThread /\ disk[p] \in Contents
  BY <1>2 DEF Init, Content, PageWriter
<1>4. \A t \in Threads : Held(t) = {}
  BY DEF Init, Held
<1> QED BY <1>3, <1>4 DEF Memory!Init

LEMMA Stutters ==
  ASSUME \A p \in Pages : Content(p)' = Content(p) /\ PageWriter(p)' = PageWriter(p), guard' = guard
  PROVE  UNCHANGED Memory!memvars
<1>1. \A t \in Threads : Held(t)' = Held(t)
  BY DEF Held
<1> QED BY <1>1 DEF Memory!memvars

(* The pages that some thread holds, when h are the guards. *)
PagesHeld(h) == UNION {{h[t][f] : f \in Frames} \ {NoPage} : t \in Threads}

GuardsFit(s, h) ==
  \A t \in Threads, f \in Frames : h[t][f] # NoPage => s[f] = Valid(h[t][f])

(* The pages that are held are pages of frames, hence no more than frames. *)
LEMMA HeldFit ==
  ASSUME NEW s, NEW h, GuardsFit(s, h)
  PROVE  Cardinality(PagesHeld(h)) <= NumFrames
<1> USE DEF GuardsFit
<1> DEFINE S == UNION {{h[t][f] : f \in Frames} \ {NoPage} : t \in Threads}
           frameOf == [p \in S |-> CHOOSE f \in Frames : s[f] = Valid(p)]
<1>1. ASSUME NEW p \in S PROVE \E f \in Frames : s[f] = Valid(p)
  OBVIOUS
<1>2. \A p \in S : frameOf[p] \in Frames /\ s[frameOf[p]] = Valid(p)
  BY <1>1
<1> HIDE DEF S
<1>3. frameOf \in [S -> Frames]
  BY <1>2
<1> HIDE DEF frameOf
<1>4. \A p, q \in S : Valid(p) = Valid(q) => p = q
  BY Constructors
<1>5. frameOf \in Injection(S, Frames)
  BY <1>2, <1>3, <1>4 DEF Injection, IsInjective
<1>6. IsFiniteSet(Frames) /\ Cardinality(Frames) = NumFrames
  <2>1. 0 \in Int /\ NumFrames - 1 \in Int /\ ~(0 > NumFrames - 1) /\ (NumFrames - 1) - 0 + 1 = NumFrames
    BY FrameFacts
  <2> QED BY <2>1, FS_Interval DEF Frames
<1>7. Cardinality(S) <= Cardinality(Frames)
  BY <1>5, <1>6, FS_Injection
<1> QED BY <1>6, <1>7 DEF S, PagesHeld

(* A step that gives t a guard of p, and changes no content, is Acquire. *)
LEMMA Acquires ==
  ASSUME OwnershipInv, OwnershipInv', NEW t \in Threads, NEW p \in Pages, NEW f \in Frames,
         p \notin Held(t), guard[t][f] = NoPage, guard' = [guard EXCEPT ![t][f] = p],
         \A q \in Pages : Content(q)' = Content(q) /\ PageWriter(q)' = PageWriter(q)
  PROVE  Memory!Next
<1>1. \A u \in Threads, g \in Frames :
        guard'[u][g] = IF u = t /\ g = f THEN p ELSE guard[u][g]
  BY DEF OwnershipInv, TypeOK
<1>2. Held(t)' = Held(t) \union {p} /\ \A u \in Threads : u # t => Held(u)' = Held(u)
  <2>1. Held(t)' \subseteq Held(t) \union {p}
    BY <1>1 DEF Held
  <2>2. Held(t) \subseteq Held(t)'
    <3> SUFFICES ASSUME NEW g \in Frames, guard[t][g] # NoPage PROVE guard[t][g] \in Held(t)'
      BY DEF Held
    <3>1. guard'[t][g] = guard[t][g]
      BY <1>1
    <3> QED BY <3>1 DEF Held
  <2>3. p \in Held(t)'
    BY <1>1, PoolAssumption DEF Held
  <2>4. \A u \in Threads : u # t => Held(u)' = Held(u)
    BY <1>1 DEF Held
  <2> QED BY <2>1, <2>2, <2>3, <2>4
<1>3. Cardinality(UNION {Held(u)' : u \in Threads}) <= NumFrames
  <2>1. GuardsFit(state', guard')
    BY DEF OwnershipInv, GuardsKeepTheirPage, GuardsFit
  <2>2. Cardinality(PagesHeld(guard')) <= NumFrames
    BY <2>1, HeldFit
  <2>3. PagesHeld(guard') = UNION {Held(u)' : u \in Threads}
    BY DEF PagesHeld, Held
  <2> QED BY <2>2, <2>3
<1> DEFINE held == [u \in Threads |-> Held(u)]
<1>4. held' = [held EXCEPT ![t] = @ \union {p}]
  BY <1>2
<1>5. Memory!HeldPages(held') = UNION {Held(u)' : u \in Threads}
  BY DEF Memory!HeldPages
<1>6. Memory!Cardinality(Memory!HeldPages(held')) <= NumFrames
  BY <1>3, <1>5 DEF Memory!Cardinality, Cardinality
<1>7. UNCHANGED <<[q \in Pages |-> Content(q)], [q \in Pages |-> PageWriter(q)]>>
  OBVIOUS
<1>8. Memory!Acquire(t, p)
  BY <1>4, <1>6, <1>7 DEF Memory!Acquire
<1> QED BY <1>8 DEF Memory!Next

LEMMA Quiet ==
  ASSUME StoreInv, StoreInv', UNCHANGED <<disk, data, guard, writer>>,
         \A p \in Pages, f \in Frames : InFrame(p, f)' <=> InFrame(p, f)
  PROVE  UNCHANGED Memory!memvars
  BY NothingSeen, Stutters

(* A write to the store is not seen: the page is in a frame. *)
LEMMA StoreWriteUnseen ==
  ASSUME StoreInv, StoreInv', NEW t \in Threads,
         WriteBack(t) \/ WriteBackFails(t) \/ FlushWrite(t) \/ FlushWriteFails(t),
         \A p \in Pages, f \in Frames : InFrame(p, f)' <=> InFrame(p, f)
  PROVE  UNCHANGED Memory!memvars
<1> DEFINE q == call[t].seen
<1>1. UNCHANGED <<data, guard, writer>> /\ \E v : disk' = [disk EXCEPT ![q] = v]
  BY DEF WriteBack, WriteBackFails, FlushWrite, FlushWriteFails, frameVars
<1>2. pc[t] \in {"writeBack", "flushWrite"}
  BY DEF WriteBack, WriteBackFails, FlushWrite, FlushWriteFails
<1>3. q \in Pages /\ InFrame(q, call[t].cur) /\ call[t].cur \in Frames
  BY <1>2, OldCopy, SeenKnown, LocalTypes DEF StoreInv, OwnershipInv, Copying, FlushPinned
<1> HIDE DEF q
<1>4. \A p \in Pages : (\A f \in Frames : ~InFrame(p, f)) => disk'[p] = disk[p]
  BY <1>1, <1>3 DEF StoreInv, OwnershipInv, TypeOK
<1> QED BY <1>1, <1>4, NothingSeen, Stutters

(* The page that goes is read from the store from now on, which has it. *)
LEMMA LoadUnseen ==
  ASSUME MemoryInv, OwnershipInv', NEW t \in Threads, Load(t)
  PROVE  UNCHANGED Memory!memvars
<1> DEFINE c == call[t].cur
<1>1. /\ StoreInv /\ StoreInv'
      /\ \A p \in Pages, f \in Frames : InFrame(p, f)' <=> InFrame(p, f) /\ f # c
  BY LoadStore DEF MemoryInv
<1>2. /\ pc[t] = "load" /\ UNCHANGED <<disk, guard, writer>>
      /\ data' = [data EXCEPT ![c] = disk[call[t].page]]
  BY DEF Load
<1>3. /\ c \in Frames /\ writer[c] = NoThread
      /\ \A p \in Pages : InFrame(p, c) <=> call[t].seen = p
  BY <1>1, <1>2, ReservedHas, ReservedUnwritten DEF StoreInv, Copying, Reserving, Replacing
<1>4. \A f \in Frames : f # c => data'[f] = data[f]
  BY <1>2, <1>3 DEF StoreInv, OwnershipInv, TypeOK, MemoryInv
<1>5. ASSUME NEW p \in Pages PROVE Content(p)' = Content(p) /\ PageWriter(p)' = PageWriter(p)
  <2>1. CASE InFrame(p, c)
    <3>1. call[t].seen = p /\ p # NoPage
      BY <1>3, <2>1, PoolAssumption
    <3>2. data[c] = disk[p]
      BY <1>2, <1>3, <2>1, <3>1 DEF MemoryInv, LoadsClean, StoreInv, CleanCopies
    <3>3. \A f \in Frames : InFrame(p, f) => f = c
      BY <1>1, <1>3, <2>1, OneCopy DEF StoreInv
    <3>4. \A f \in Frames : ~InFrame(p, f)'
      BY <1>1, <3>3
    <3> QED BY <1>1, <1>2, <1>3, <2>1, <3>2, <3>4, CopyFacts, CopiesNext DEF CopiesShown
  <2>2. CASE \E f \in Frames : f # c /\ InFrame(p, f)
    BY <1>1, <1>2, <1>4, <2>2, CopyFacts, CopiesNext DEF CopiesShown
  <2>3. CASE \A f \in Frames : ~InFrame(p, f)
    BY <1>1, <1>2, <2>3, CopyFacts, CopiesNext DEF CopiesShown
  <2> QED BY <2>1, <2>2, <2>3
<1> QED BY <1>2, <1>5, Stutters

(* The frame of the page that comes has what the store has. *)
LEMMA PublishUnseen ==
  ASSUME StoreInv, OwnershipInv', NEW t \in Threads, Publish(t)
  PROVE  UNCHANGED Memory!memvars
<1> DEFINE c == call[t].cur
           q == call[t].page
<1>1. /\ StoreInv'
      /\ \A p \in Pages, f \in Frames : InFrame(p, f)' <=> InFrame(p, f) \/ (f = c /\ p = q)
  BY PublishStore
<1>2. pc[t] = "publish" /\ UNCHANGED <<disk, data, guard, writer>>
  BY DEF Publish
<1>3. /\ c \in Frames /\ q \in Pages /\ writer[c] = NoThread /\ data[c] = disk[q]
  BY <1>2, ReservedHas, ReservedUnwritten, PageKnown
     DEF StoreInv, OwnershipInv, FreshlyLoaded, Reserving, Replacing, Claiming
<1>4. \A f \in Frames : ~InFrame(q, f)
  BY <1>2, <1>3, OneCopy DEF StoreInv
<1> HIDE DEF c, q
<1>5. ASSUME NEW p \in Pages PROVE Content(p)' = Content(p) /\ PageWriter(p)' = PageWriter(p)
  <2>1. CASE p = q
    <3>1. \A f \in Frames : f = c => InFrame(p, f)'
      BY <1>1, <2>1
    <3> QED BY <1>1, <1>2, <1>3, <1>4, <2>1, <3>1, CopyFacts, CopiesNext DEF CopiesShown
  <2>2. CASE p # q /\ \E f \in Frames : InFrame(p, f)
    BY <1>1, <1>2, <2>2, CopyFacts, CopiesNext DEF CopiesShown
  <2>3. CASE p # q /\ \A f \in Frames : ~InFrame(p, f)
    BY <1>1, <1>2, <2>3, CopyFacts, CopiesNext DEF CopiesShown
  <2> QED BY <2>1, <2>2, <2>3
<1> QED BY <1>2, <1>5, Stutters

(* A call hands out its page. *)
LEMMA HandOut ==
  ASSUME StoreInv, StoreInv', NEW t \in Threads, Hit(t) \/ Finish(t),
         \A p \in Pages, f \in Frames : InFrame(p, f)' <=> InFrame(p, f)
  PROVE  Memory!Next
<1> DEFINE p == call[t].page
<1>1. p \in Pages /\ \A f \in Frames : guard[t][f] # p
  BY PageKnown DEF Hit, Finish, Claiming, StoreInv, OwnershipInv, FetchIsNew
<1>2. p \notin Held(t)
  BY <1>1 DEF Held
<1>3. UNCHANGED <<disk, data, writer>>
  BY DEF Hit, Finish, frameVars
<1>4. \A q \in Pages : Content(q)' = Content(q) /\ PageWriter(q)' = PageWriter(q)
  BY <1>3, NothingSeen
<1>5. PICK f \in Frames : state[f] = Valid(p) /\ guard' = [guard EXCEPT ![t][f] = p]
  <2>1. CASE Hit(t)
    <3> DEFINE f == table[p].frame
    <3>1. f \in Frames /\ table[p] = Ready(f)
      BY <1>1, <2>1, EntryCases DEF Hit, StoreInv, OwnershipInv
    <3>2. state[f] = Valid(p)
      BY <1>1, <3>1 DEF StoreInv, OwnershipInv, TableMatchesFrames
    <3> QED BY <2>1, <3>1, <3>2 DEF Hit
  <2>2. CASE Finish(t)
    <3>1. call[t].cur \in Frames /\ state[call[t].cur] = Valid(p)
      BY <2>2, LocalTypes DEF Finish, StoreInv, OwnershipInv, GuardsKeepTheirPage
    <3> QED BY <2>2, <3>1 DEF Finish
  <2> QED BY <2>1, <2>2
<1>6. guard[t][f] = NoPage
  <2>1. guard[t][f] # NoPage => Valid(guard[t][f]) = Valid(p)
    BY <1>5 DEF StoreInv, OwnershipInv, GuardsKeepTheirPage
  <2> QED BY <1>1, <2>1, Constructors
<1> HIDE DEF p
<1> QED BY <1>1, <1>2, <1>4, <1>5, <1>6, Acquires DEF StoreInv

LEMMA GuardedPage ==
  ASSUME StoreInv, NEW t \in Threads, NEW f \in Frames, guard[t][f] # NoPage
  PROVE  /\ guard[t][f] \in Pages /\ guard[t][f] \in Held(t)
         /\ InFrame(guard[t][f], f)
         /\ \A g \in Frames : InFrame(guard[t][f], g) => g = f
         /\ \A q \in Pages : InFrame(q, f) => q = guard[t][f]
         /\ \A g \in Frames : guard[t][g] = guard[t][f] => g = f
<1> DEFINE p == guard[t][f]
<1>1. p \in Pages /\ state[f] = Valid(p) /\ p \in Held(t)
  BY DEF StoreInv, OwnershipInv, TypeOK, GuardsKeepTheirPage, Held
<1>2. InFrame(p, f)
  BY <1>1 DEF InFrame
<1>3. \A g \in Frames : InFrame(p, g) => g = f
  BY <1>1, <1>2, OneCopy DEF StoreInv
<1>4. \A q \in Pages : InFrame(q, f) => q = p
  BY <1>1, Constructors DEF InFrame
<1>5. \A g \in Frames : guard[t][g] = p => state[g] = Valid(p)
  BY <1>1, PoolAssumption DEF StoreInv, OwnershipInv, GuardsKeepTheirPage
<1>6. \A g \in Frames : guard[t][g] = p => g = f
  BY <1>3, <1>5 DEF InFrame
<1> QED BY <1>1, <1>2, <1>3, <1>4, <1>6

LEMMA BeginWriteSeen ==
  ASSUME StoreInv, StoreInv', NEW t \in Threads, NEW f \in Frames, BeginWrite(t, f),
         \A p \in Pages, g \in Frames : InFrame(p, g)' <=> InFrame(p, g)
  PROVE  Memory!Next
<1> DEFINE p == guard[t][f]
<1>1. /\ p # NoPage /\ writer[f] = NoThread /\ writer' = [writer EXCEPT ![f] = t]
      /\ UNCHANGED <<disk, data, guard>>
  BY DEF BeginWrite
<1>2. /\ p \in Pages /\ p \in Held(t) /\ InFrame(p, f)
      /\ \A g \in Frames : InFrame(p, g) => g = f
      /\ \A q \in Pages : InFrame(q, f) => q = p
  BY <1>1, GuardedPage
<1>3. \A u \in Threads : Held(u)' = Held(u)
  BY <1>1 DEF Held
<1> HIDE DEF p
<1>4. \A g \in Frames : writer'[g] = IF g = f THEN t ELSE writer[g]
  BY <1>1 DEF StoreInv, OwnershipInv, TypeOK
<1>5. ASSUME NEW q \in Pages
      PROVE  Content(q)' = Content(q) /\ PageWriter(q)' = IF q = p THEN t ELSE PageWriter(q)
  <2>1. CASE q = p
    <3>1. InFrame(q, f) /\ \A g \in Frames : g = f => InFrame(q, g)'
      BY <1>2, <2>1
    <3> QED BY <1>1, <1>4, <2>1, <3>1, CopyFacts, CopiesNext DEF CopiesShown
  <2>2. CASE q # p /\ \E g \in Frames : InFrame(q, g)
    <3>1. PICK g \in Frames : InFrame(q, g) /\ g # f
      BY <1>2, <2>2
    <3> QED BY <1>1, <1>4, <2>2, <3>1, CopyFacts, CopiesNext DEF CopiesShown
  <2>3. CASE q # p /\ \A g \in Frames : ~InFrame(q, g)
    BY <1>1, <2>3, CopyFacts, CopiesNext DEF CopiesShown
  <2> QED BY <2>1, <2>2, <2>3
<1>6. PageWriter(p) = NoThread
  BY <1>1, <1>2, CopyFacts DEF CopiesShown
<1> DEFINE w == [q \in Pages |-> PageWriter(q)]
<1>7. w' = [w EXCEPT ![p] = t]
  BY <1>5
<1>8. Memory!BeginWrite(t, p)
  BY <1>2, <1>3, <1>5, <1>6, <1>7 DEF Memory!BeginWrite
<1> QED BY <1>2, <1>8 DEF Memory!Next

LEMMA EndWriteSeen ==
  ASSUME StoreInv, StoreInv', NEW t \in Threads, NEW f \in Frames, NEW v \in Contents,
         EndWrite(t, f, v),
         \A p \in Pages, g \in Frames : InFrame(p, g)' <=> InFrame(p, g)
  PROVE  Memory!Next
<1> DEFINE p == guard[t][f]
<1>1. /\ writer[f] = t /\ writer' = [writer EXCEPT ![f] = NoThread]
      /\ data' = [data EXCEPT ![f] = v] /\ UNCHANGED <<disk, guard>>
  BY DEF EndWrite
<1>2. p # NoPage
  BY <1>1, PoolAssumption DEF StoreInv, WritersHoldGuards
<1>3. /\ p \in Pages /\ InFrame(p, f)
      /\ \A g \in Frames : InFrame(p, g) => g = f
      /\ \A q \in Pages : InFrame(q, f) => q = p
  BY <1>2, GuardedPage
<1>4. \A u \in Threads : Held(u)' = Held(u)
  BY <1>1 DEF Held
<1> HIDE DEF p
<1>5. \A g \in Frames : /\ writer'[g] = IF g = f THEN NoThread ELSE writer[g]
                        /\ data'[g] = IF g = f THEN v ELSE data[g]
  BY <1>1 DEF StoreInv, OwnershipInv, TypeOK
<1>6. ASSUME NEW q \in Pages
      PROVE  /\ Content(q)' = IF q = p THEN v ELSE Content(q)
             /\ PageWriter(q)' = IF q = p THEN NoThread ELSE PageWriter(q)
  <2>1. CASE q = p
    <3>1. \A g \in Frames : g = f => InFrame(q, g)'
      BY <1>3, <2>1
    <3> QED BY <1>5, <2>1, <3>1, CopiesNext
  <2>2. CASE q # p /\ \E g \in Frames : InFrame(q, g)
    <3>1. PICK g \in Frames : InFrame(q, g) /\ g # f
      BY <1>3, <2>2
    <3> QED BY <1>5, <2>2, <3>1, CopyFacts, CopiesNext DEF CopiesShown
  <2>3. CASE q # p /\ \A g \in Frames : ~InFrame(q, g)
    BY <1>1, <2>3, CopyFacts, CopiesNext DEF CopiesShown
  <2> QED BY <2>1, <2>2, <2>3
<1>7. PageWriter(p) = t
  BY <1>1, <1>3, CopyFacts DEF CopiesShown
<1> DEFINE w == [q \in Pages |-> PageWriter(q)]
           m == [q \in Pages |-> Content(q)]
<1>8. w' = [w EXCEPT ![p] = NoThread] /\ m' = [m EXCEPT ![p] = v]
  BY <1>6
<1>9. Memory!EndWrite(t, p, v)
  BY <1>3, <1>4, <1>7, <1>8 DEF Memory!EndWrite
<1> QED BY <1>3, <1>9 DEF Memory!Next

LEMMA DropSeen ==
  ASSUME StoreInv, StoreInv', NEW t \in Threads, NEW f \in Frames, DropGuard(t, f),
         \A p \in Pages, g \in Frames : InFrame(p, g)' <=> InFrame(p, g)
  PROVE  Memory!Next
<1> DEFINE p == guard[t][f]
<1>1. /\ p # NoPage /\ writer[f] # t /\ guard' = [guard EXCEPT ![t][f] = NoPage]
      /\ UNCHANGED <<disk, data, writer>>
  BY DEF DropGuard
<1>2. p \in Pages /\ p \in Held(t) /\ InFrame(p, f) /\ \A g \in Frames : guard[t][g] = p => g = f
  BY <1>1, GuardedPage
<1>3. \A u \in Threads, g \in Frames :
        guard'[u][g] = IF u = t /\ g = f THEN NoPage ELSE guard[u][g]
  BY <1>1 DEF StoreInv, OwnershipInv, TypeOK
<1>4. Held(t)' = Held(t) \ {p}
  <2>1. Held(t)' \subseteq Held(t) \ {p}
    BY <1>2, <1>3 DEF Held
  <2>2. ASSUME NEW g \in Frames, guard[t][g] # NoPage, guard[t][g] # p
        PROVE  guard[t][g] \in Held(t)'
    BY <2>2, <1>3 DEF Held
  <2>3. Held(t) \ {p} \subseteq Held(t)'
    BY <2>2 DEF Held
  <2> QED BY <2>1, <2>3
<1>5. \A u \in Threads : u # t => Held(u)' = Held(u)
  BY <1>3 DEF Held
<1> HIDE DEF p
<1> DEFINE held == [u \in Threads |-> Held(u)]
<1>6. held' = [held EXCEPT ![t] = @ \ {p}]
  BY <1>4, <1>5
<1>7. \A q \in Pages : Content(q)' = Content(q) /\ PageWriter(q)' = PageWriter(q)
  BY <1>1, NothingSeen
<1>8. PageWriter(p) # t
  BY <1>1, <1>2, CopyFacts DEF CopiesShown
<1>9. Memory!Release(t, p)
  BY <1>2, <1>6, <1>7, <1>8 DEF Memory!Release
<1> QED BY <1>2, <1>9 DEF Memory!Next

(* Each step of the pool is a step of the memory or changes nothing of it. *)
LEMMA PoolStepMemory ==
  ASSUME MemoryInv, OwnershipInv', NEW t \in Threads, PoolStep(t)
  PROVE  Memory!Next \/ UNCHANGED Memory!memvars
<1>0. StoreInv
  BY DEF MemoryInv
<1>1. CASE Hit(t) \/ Finish(t)
  BY <1>0, <1>1, FetchStore, LoadRestStore, HandOut
<1>2. CASE WaitForEntry(t) \/ Miss(t) \/ Claim(t) \/ Wake(t)
  <2>1. UNCHANGED <<disk, data, guard, writer>>
    BY <1>2 DEF WaitForEntry, Miss, Claim, Wake, frameVars
  <2> QED BY <1>0, <1>2, <2>1, FetchStore, Quiet
<1>3. CASE Tick(t) \/ Snapshot(t) \/ ReserveFails(t) \/ SecondChance(t) \/ Scan(t)
  <2>1. UNCHANGED <<disk, data, guard, writer>>
    BY <1>3 DEF Tick, Snapshot, ReserveFails, SecondChance, Scan, frameVars
  <2> QED BY <1>0, <1>3, <2>1, SweepStore, Quiet
<1>4. CASE Reserve(t) \/ Restore(t)
  <2>1. UNCHANGED <<disk, data, guard, writer>>
    BY <1>4 DEF Reserve, Restore
  <2> QED BY <1>0, <1>4, <2>1, ReserveStore, RestoreStore, Quiet
<1>5. CASE WriteBack(t) \/ WriteBackFails(t) \/ FlushWrite(t) \/ FlushWriteFails(t)
  BY <1>0, <1>5, WriteBackStore, LoadRestStore, FlushWriteStore, FlushRestStore, StoreWriteUnseen
<1>6. CASE Load(t) \/ Publish(t)
  BY <1>0, <1>6, LoadUnseen, PublishUnseen
<1>7. CASE LoadFails(t) \/ RemoveOld(t) \/ Unreserve(t) \/ Abandon(t) \/ GiveUp(t)
  <2>1. UNCHANGED <<disk, data, guard, writer>>
    BY <1>7 DEF LoadFails, RemoveOld, Unreserve, Abandon, GiveUp, frameVars
  <2> QED BY <1>0, <1>7, <2>1, LoadRestStore, Quiet
<1>8. CASE FlushPin(t) \/ FlushCheck(t) \/ FlushClear(t) \/ FlushUnpin(t) \/ FlushAbort(t)
  <2>1. UNCHANGED <<disk, data, guard, writer>>
    BY <1>8 DEF FlushPin, FlushCheck, FlushClear, FlushUnpin, FlushAbort, frameVars
  <2> QED BY <1>0, <1>8, <2>1, FlushClearStore, FlushRestStore, Quiet
<1> QED BY <1>1, <1>2, <1>3, <1>4, <1>5, <1>6, <1>7, <1>8 DEF PoolStep

LEMMA ClientStepMemory ==
  ASSUME MemoryInv, OwnershipInv', NEW t \in Threads, CallStep(t) \/ GuardStep(t)
  PROVE  Memory!Next \/ UNCHANGED Memory!memvars
<1>0. StoreInv
  BY DEF MemoryInv
<1>1. CASE FlushAll(t)
  <2>1. UNCHANGED <<disk, data, guard, writer>>
    BY <1>1 DEF FlushAll, frameVars
  <2> QED BY <1>0, <1>1, <2>1, FlushRestStore, Quiet
<1>2. ASSUME NEW p \in Pages, NEW m \in Modes, Fetch(t, p, m) PROVE UNCHANGED Memory!memvars
  <2>1. UNCHANGED <<disk, data, guard, writer>>
    BY <1>2 DEF Fetch, frameVars
  <2> QED BY <1>0, <1>2, <2>1, FrameFacts, ClientStore, Quiet
<1>3. ASSUME NEW f \in Frames, BeginWrite(t, f) \/ DropGuard(t, f) PROVE Memory!Next
  BY <1>0, <1>3, ClientStore, BeginWriteSeen, DropSeen
<1>4. ASSUME NEW f \in Frames, NEW v \in Contents, EndWrite(t, f, v) PROVE Memory!Next
  BY <1>0, <1>4, ClientStore, EndWriteSeen
<1> QED BY <1>1, <1>2, <1>3, <1>4 DEF CallStep, GuardStep

LEMMA StutterMemory == UNCHANGED vars => UNCHANGED Memory!memvars
<1> SUFFICES ASSUME UNCHANGED vars PROVE UNCHANGED Memory!memvars
  OBVIOUS
<1>1. UNCHANGED <<disk, state, data, writer, guard, pc, call>>
  BY DEF vars, frameVars, threadVars
<1>2. \A p \in Pages : Content(p)' = Content(p) /\ PageWriter(p)' = PageWriter(p)
  BY <1>1 DEF Content, PageWriter, InFrame
<1> QED BY <1>1, <1>2, Stutters

(* The pool implements PageMemory: a fetch hands out
   the page with its latest content, no write is lost to an eviction, to a failed load
   or to a flush, and writers of one page exclude each other. *)
THEOREM PoolImplementsPageMemory == Spec => ImplementsPageMemory
<1>1. MemoryInv /\ MemoryInv' /\ [Next]_vars => [Memory!Next]_Memory!memvars
  BY StutterMemory, PoolStepMemory, ClientStepMemory DEF Next, MemoryInv, StoreInv
<1>2. Spec => []MemoryInv
  BY MemoryInvHolds
<1>3. Spec => Memory!Spec
  BY <1>1, <1>2, MemoryInit, PTL DEF Spec, Memory!Spec
<1> QED BY <1>3 DEF ImplementsPageMemory

-----------------------------------------------------------------------------
(* What a flush has written when it returns *)

(* A page that the store is behind on is in a frame, which is dirty. *)
LEMMA UnwrittenIsDirty ==
  ASSUME StoreInv, NEW p \in Unwritten
  PROVE  /\ p \in Pages
         /\ \E f \in Frames : InFrame(p, f)
         /\ \A f \in Frames : InFrame(p, f) => data[f] # disk[p] /\ dirty[f]
<1>1. p \in Pages /\ disk[p] # Content(p)
  BY DEF Unwritten
<1>2. \E f \in Frames : InFrame(p, f)
  BY <1>1, CopyFacts DEF CopiesShown
<1>3. ASSUME NEW f \in Frames, InFrame(p, f) PROVE data[f] # disk[p] /\ dirty[f]
  <2>1. data[f] # disk[p]
    BY <1>1, <1>3, CopyFacts DEF CopiesShown
  <2> QED BY <1>1, <1>3, <2>1 DEF StoreInv, CleanCopies
<1> QED BY <1>1, <1>2, <1>3

(* It stays in its frame until it is written: what a load overwrites is clean. *)
LEMMA UnwrittenStays ==
  ASSUME MemoryInv, OwnershipInv', NEW t \in Threads,
         PoolStep(t) \/ CallStep(t) \/ GuardStep(t),
         NEW p \in Unwritten, NEW f \in Frames, InFrame(p, f)
  PROVE  InFrame(p, f)'
<1>0. StoreInv /\ p \in Pages
  BY DEF MemoryInv, Unwritten
<1>1. CASE Load(t)
  <2>1. InFrame(p, f)' <=> InFrame(p, f) /\ f # call[t].cur
    BY <1>0, <1>1, LoadStore
  <2>2. ASSUME f = call[t].cur PROVE FALSE
    <3>1. pc[t] = "load" /\ call[t].seen = p
      BY <1>0, <1>1, <2>2, ReservedHas DEF Load, StoreInv, Copying, Reserving, Replacing
    <3>2. ~dirty[f]
      BY <1>0, <2>2, <3>1, PoolAssumption DEF MemoryInv, LoadsClean
    <3> QED BY <1>0, <3>2, UnwrittenIsDirty
  <2> QED BY <2>1, <2>2
<1>2. CASE Publish(t)
  BY <1>0, <1>2, PublishStore
<1>3. CASE \/ Hit(t) \/ WaitForEntry(t) \/ Miss(t) \/ Claim(t) \/ Wake(t)
           \/ Tick(t) \/ Snapshot(t) \/ ReserveFails(t) \/ SecondChance(t) \/ Scan(t)
  BY <1>0, <1>3, FetchStore, SweepStore
<1>4. CASE Reserve(t) \/ Restore(t) \/ WriteBack(t)
  BY <1>0, <1>4, ReserveStore, RestoreStore, WriteBackStore
<1>5. CASE \/ WriteBackFails(t) \/ LoadFails(t) \/ RemoveOld(t) \/ Finish(t) \/ Unreserve(t)
           \/ Abandon(t) \/ GiveUp(t)
  BY <1>0, <1>5, LoadRestStore
<1>6. CASE FlushWrite(t) \/ FlushClear(t)
  BY <1>0, <1>6, FlushWriteStore, FlushClearStore
<1>7. CASE FlushPin(t) \/ FlushCheck(t) \/ FlushWriteFails(t) \/ FlushUnpin(t) \/ FlushAbort(t)
           \/ FlushAll(t)
  BY <1>0, <1>7, FlushRestStore
<1>8. ASSUME NEW q \in Pages, NEW m \in Modes, Fetch(t, q, m) PROVE InFrame(p, f)'
  BY <1>0, <1>8, FrameFacts, ClientStore
<1>9. ASSUME NEW g \in Frames,
             BeginWrite(t, g) \/ DropGuard(t, g) \/ \E v \in Contents : EndWrite(t, g, v)
      PROVE  InFrame(p, f)'
  BY <1>0, <1>9, ClientStore
<1> QED BY <1>1, <1>2, <1>3, <1>4, <1>5, <1>6, <1>7, <1>8, <1>9
        DEF PoolStep, CallStep, GuardStep

(* Labels of a flush that has not written the frame at hand, and that has. *)
Ahead == {"flushPin", "awaitFlush", "flushCheck", "flushWrite"}
Behind == {"flushClear", "flushUnpin"}

(* A flush under way in t has frame f before it. *)
Before(t, f) ==
  /\ pc[t] \in Ahead => f >= call[t].cur
  /\ pc[t] \in Behind => f > call[t].cur

(* A step of a thread moves no other thread. *)
LEMMA OthersStay ==
  ASSUME TypeOK, NEW t \in Threads, PoolStep(t) \/ CallStep(t) \/ GuardStep(t)
  PROVE  \A u \in Threads \ {t} : pc'[u] = pc[u] /\ call'[u] = call[u]
<1>1. CASE \/ Hit(t) \/ WaitForEntry(t) \/ Miss(t) \/ Wake(t) \/ Tick(t) \/ Reserve(t)
  BY <1>1 DEF TypeOK, Hit, WaitForEntry, Miss, Wake, Tick, Reserve, Wait, Return, Goto
<1>2. CASE Claim(t) \/ Snapshot(t) \/ ReserveFails(t) \/ SecondChance(t) \/ Scan(t)
  BY <1>2, ClaimStep, SearchStep
<1>3. CASE WriteBack(t) \/ WriteBackFails(t) \/ Load(t) \/ LoadFails(t) \/ RemoveOld(t) \/ Publish(t)
  BY <1>3 DEF TypeOK, WriteBack, WriteBackFails, Load, LoadFails, RemoveOld, Publish, Goto
<1>4. CASE Finish(t) \/ Restore(t) \/ Unreserve(t) \/ Abandon(t) \/ GiveUp(t)
  BY <1>4 DEF TypeOK, Finish, Restore, Unreserve, Abandon, GiveUp, Return, Goto
<1>5. CASE FlushPin(t) \/ FlushUnpin(t)
  BY <1>5, FlushPinCases, FlushUnpinStep
<1>6. CASE FlushCheck(t) \/ FlushWrite(t) \/ FlushWriteFails(t) \/ FlushClear(t) \/ FlushAbort(t)
  BY <1>6 DEF TypeOK, FlushCheck, FlushWrite, FlushWriteFails, FlushClear, FlushAbort, Return, Goto
<1>7. CASE CallStep(t)
  BY <1>7 DEF TypeOK, CallStep, Fetch, FlushAll, Goto
<1>8. CASE GuardStep(t)
  BY <1>8 DEF GuardStep, BeginWrite, EndWrite, DropGuard, threadVars
<1> QED BY <1>1, <1>2, <1>3, <1>4, <1>5, <1>6, <1>7, <1>8 DEF PoolStep

(* A call that is not a flush does not become one, and none leaves its locals behind. *)
LEMMA NoFlushBegins ==
  ASSUME TypeOK, NEW t \in Threads,
         \/ Hit(t) \/ WaitForEntry(t) \/ Miss(t) \/ Claim(t)
         \/ Tick(t) \/ Snapshot(t) \/ ReserveFails(t) \/ SecondChance(t) \/ Reserve(t) \/ Scan(t)
         \/ WriteBack(t) \/ WriteBackFails(t) \/ Load(t) \/ LoadFails(t) \/ RemoveOld(t)
         \/ Publish(t) \/ Finish(t) \/ Restore(t) \/ Unreserve(t) \/ Abandon(t) \/ GiveUp(t)
         \/ FlushWriteFails(t) \/ FlushAbort(t)
  PROVE  /\ pc[t] \notin {"idle", "flushPin", "flushUnpin"}
         /\ pc'[t] \notin Ahead \union Behind
         /\ pc'[t] = "idle" => call'[t] = NoCall
<1> USE DEF Ahead, Behind
<1>1. CASE \/ WaitForEntry(t) \/ Miss(t) \/ Tick(t) \/ Reserve(t)
  BY <1>1 DEF TypeOK, WaitForEntry, Miss, Tick, Reserve, Wait, Goto
<1>2. CASE Claim(t) \/ Snapshot(t) \/ ReserveFails(t) \/ SecondChance(t) \/ Scan(t)
  BY <1>2, ClaimStep, SearchStep
<1>3. CASE WriteBack(t) \/ WriteBackFails(t) \/ Load(t) \/ LoadFails(t) \/ RemoveOld(t) \/ Publish(t)
  BY <1>3 DEF TypeOK, WriteBack, WriteBackFails, Load, LoadFails, RemoveOld, Publish, Goto
<1>4. CASE Restore(t) \/ Unreserve(t) \/ Abandon(t) \/ FlushWriteFails(t)
  BY <1>4 DEF TypeOK, Restore, Unreserve, Abandon, FlushWriteFails, Goto
<1>5. CASE Hit(t) \/ Finish(t) \/ GiveUp(t) \/ FlushAbort(t)
  BY <1>5 DEF TypeOK, Hit, Finish, GiveUp, FlushAbort, Return, Goto
<1> QED BY <1>1, <1>2, <1>3, <1>4, <1>5

(* To the next frame, or out of the flush after the last one. *)
LEMMA NextFrameMoves ==
  ASSUME TypeOK, NEW t \in Threads, NextFrame(t)
  PROVE  /\ call[t].cur \in Nat /\ call[t].cur <= NumFrames - 1
         /\ pc'[t] \in {"idle", "flushPin"}
         /\ pc'[t] = "idle" => call[t].cur = NumFrames - 1 /\ call'[t] = NoCall
         /\ pc'[t] = "flushPin" => call'[t].cur = call[t].cur + 1
<1>1. call[t].cur \in Frames /\ call[t] \in Locals
  BY LocalTypes DEF TypeOK
<1>2. call[t].cur \in Nat /\ call[t].cur <= NumFrames - 1
  BY <1>1, FrameFacts DEF Frames
<1>3. CASE call[t].cur = NumFrames - 1
  BY <1>2, <1>3 DEF NextFrame, Return, Goto, TypeOK
<1>4. CASE call[t].cur # NumFrames - 1
  BY <1>1, <1>2, <1>4 DEF NextFrame, Goto, TypeOK, Locals
<1> QED BY <1>3, <1>4

(* A page in a frame that a flush has before it stays before it until it is in
   the store; so the flush does not return while the store is behind on it. *)
LEMMA FlushMoves ==
  ASSUME StoreInv, StoreInv', NEW t \in Threads, PoolStep(t),
         NEW p \in Pages, NEW f \in Frames, InFrame(p, f), InFrame(p, f)',
         p \in Unwritten, p \in Unwritten', Before(t, f)
  PROVE  /\ pc'[t] # "idle" => Before(t, f)'
         /\ pc[t] \in {"flushPin", "flushUnpin"} => pc'[t] # "idle"
<1> DEFINE c == call[t].cur
<1>t. TypeOK
  BY DEF StoreInv, OwnershipInv
<1>0. c \in Frames /\ c \in Nat /\ f \in Nat /\ NumFrames \in Nat /\ f <= NumFrames - 1
  BY <1>t, LocalTypes, FrameFacts DEF Frames
<1>1. CASE Wake(t)
  BY <1>1, <1>t DEF Wake, Goto, Resume, TypeOK, Before, Ahead, Behind
<1>2. CASE FlushPin(t)
  <2>1. pc[t] = "flushPin" /\ f >= c
    BY <1>2 DEF FlushPin, Before, Ahead
  <2>2. CASE state[c].kind = "Empty"
    <3>1. NextFrame(t)
      BY <1>2, <2>2 DEF FlushPin
    <3>2. f # c
      BY <2>2, Constructors DEF InFrame
    <3>3. f > c
      BY <1>0, <2>1, <3>2
    <3> HIDE DEF c
    <3>4. /\ pc'[t] \in {"idle", "flushPin"} /\ c <= NumFrames - 1
          /\ pc'[t] = "idle" => c = NumFrames - 1
          /\ pc'[t] = "flushPin" => call'[t].cur = c + 1
      BY <1>t, <3>1, NextFrameMoves DEF c
    <3>5. pc'[t] # "idle"
      BY <1>0, <3>3, <3>4
    <3>6. f >= call'[t].cur
      BY <1>0, <3>3, <3>4, <3>5
    <3> QED BY <3>4, <3>5, <3>6 DEF Before, Behind
  <2>3. CASE state[c].kind # "Empty"
    <3>1. pc'[t] \in {"flushCheck", "awaitFlush"} /\ call'[t].cur = c
      BY <1>2, <1>t, <2>3 DEF FlushPin, Wait, Goto, TypeOK, Locals
    <3> QED BY <2>1, <3>1 DEF Before, Behind
  <2> QED BY <2>2, <2>3
<1>3. CASE FlushCheck(t)
  <2>1. /\ pc[t] = "flushCheck" /\ f >= c /\ call' = call
        /\ pc'[t] = IF dirty[c] THEN "flushWrite" ELSE "flushUnpin"
    BY <1>3, <1>t DEF FlushCheck, Goto, TypeOK, Before, Ahead
  <2>2. f = c => dirty[c]
    BY UnwrittenIsDirty
  <2>3. ~dirty[c] => f > c
    BY <1>0, <2>1, <2>2
  <2> QED BY <2>1, <2>3 DEF Before, Ahead, Behind
<1>4. CASE FlushWrite(t)
  <2>1. /\ pc[t] = "flushWrite" /\ f >= c /\ call' = call /\ data' = data
        /\ pc'[t] = "flushClear" /\ disk' = [disk EXCEPT ![call[t].seen] = data[c]]
    BY <1>4, <1>t DEF FlushWrite, Goto, TypeOK, Before, Ahead, frameVars
  <2>2. ASSUME f = c PROVE FALSE
    <3>1. call[t].seen \in Pages /\ state[c] = Valid(call[t].seen)
      BY <2>1, OldCopy DEF StoreInv, OwnershipInv, GuardsKeepTheirPage, FlushPinned
    <3>2. p = call[t].seen
      BY <2>2, <3>1, Constructors DEF InFrame
    <3>3. disk'[p] = data[c]
      BY <2>1, <3>2 DEF StoreInv, OwnershipInv, TypeOK
    <3>4. Content(p)' = data'[c]
      BY <2>2, CopiesNext
    <3> QED BY <2>1, <3>3, <3>4 DEF Unwritten
  <2>3. f > c
    BY <1>0, <2>1, <2>2
  <2> QED BY <2>1, <2>3 DEF Before, Ahead
<1>5. CASE FlushClear(t)
  BY <1>5, <1>t DEF FlushClear, Goto, TypeOK, Before, Ahead, Behind
<1>6. CASE FlushUnpin(t)
  <2>1. pc[t] = "flushUnpin" /\ f > c /\ NextFrame(t)
    BY <1>6 DEF FlushUnpin, Before, Behind
  <2> HIDE DEF c
  <2>2. /\ pc'[t] \in {"idle", "flushPin"} /\ c <= NumFrames - 1
        /\ pc'[t] = "idle" => c = NumFrames - 1
        /\ pc'[t] = "flushPin" => call'[t].cur = c + 1
    BY <1>t, <2>1, NextFrameMoves DEF c
  <2>3. pc'[t] # "idle"
    BY <1>0, <2>1, <2>2
  <2>4. f >= call'[t].cur
    BY <1>0, <2>1, <2>2, <2>3
  <2> QED BY <2>2, <2>3, <2>4 DEF Before, Behind
<1>7. CASE ~(Wake(t) \/ FlushPin(t) \/ FlushCheck(t) \/ FlushWrite(t) \/ FlushClear(t) \/ FlushUnpin(t))
  <2>1. pc[t] \notin {"flushPin", "flushUnpin"} /\ pc'[t] \notin Ahead \union Behind
    BY <1>7, <1>t, NoFlushBegins DEF PoolStep
  <2> QED BY <2>1 DEF Before
<1> QED BY <1>1, <1>2, <1>3, <1>4, <1>5, <1>6, <1>7

(* What the store is behind on for a flush is in frames it still has before it;
   a call begins with fresh locals, hence a flush with the first frame. *)
FlushInv ==
  \A t \in Threads :
    /\ pc[t] = "idle" => call[t] = NoCall
    /\ \A p \in owed[t] : p \in Unwritten /\ \E f \in Frames : InFrame(p, f) /\ Before(t, f)

LEMMA FlushInvInit == HistoryInit => FlushInv
  BY DEF HistoryInit, Init, FlushInv

(* What the history keeps in one step. *)
LEMMA Remembered ==
  ASSUME Remember, NEW t \in Threads
  PROVE  /\ pc'[t] = "idle" => owed'[t] = {}
         /\ pc[t] = "idle" /\ pc'[t] = "flushPin" => owed'[t] = Unwritten
         /\ pc'[t] # "idle" /\ pc[t] # "idle" => owed'[t] = owed[t] \intersect Unwritten'
         /\ pc'[t] # "flushPin" => owed'[t] \subseteq owed[t] \intersect Unwritten'
  BY DEF Remember

(* The calls and the returns of a thread, for its locals. *)
LEMMA IdleAgain ==
  ASSUME TypeOK, NEW t \in Threads, PoolStep(t) \/ CallStep(t) \/ GuardStep(t)
  PROVE  /\ PoolStep(t) => pc[t] # "idle" /\ (pc'[t] = "idle" => call'[t] = NoCall)
         /\ CallStep(t) => \/ pc[t] = "idle" /\ pc'[t] = "lookup"
                           \/ FlushAll(t) /\ pc[t] = "idle" /\ pc'[t] = "flushPin" /\ call' = call
         /\ GuardStep(t) => pc[t] = "idle" /\ pc' = pc /\ call' = call
<1>1. ASSUME PoolStep(t)
      PROVE  pc[t] # "idle" /\ (pc'[t] = "idle" => call'[t] = NoCall)
  <2>1. CASE FlushPin(t)
    BY <2>1, NextFrameMoves DEF FlushPin, Wait, Goto, TypeOK
  <2>2. CASE FlushUnpin(t)
    BY <2>2, NextFrameMoves DEF FlushUnpin
  <2>3. CASE Wake(t) \/ FlushCheck(t) \/ FlushWrite(t) \/ FlushClear(t)
    BY <2>3 DEF Wake, FlushCheck, FlushWrite, FlushClear, Goto, Resume, TypeOK
  <2> QED BY <1>1, <2>1, <2>2, <2>3, NoFlushBegins DEF PoolStep
<1>2. CallStep(t) => \/ pc[t] = "idle" /\ pc'[t] = "lookup"
                     \/ FlushAll(t) /\ pc[t] = "idle" /\ pc'[t] = "flushPin" /\ call' = call
  BY DEF CallStep, Fetch, FlushAll, Goto, TypeOK
<1>3. GuardStep(t) => pc[t] = "idle" /\ pc' = pc /\ call' = call
  BY DEF GuardStep, BeginWrite, EndWrite, DropGuard, threadVars
<1> QED BY <1>1, <1>2, <1>3

LEMMA FlushKept ==
  ASSUME MemoryInv, MemoryInv', FlushInv, NEW t \in Threads,
         PoolStep(t) \/ CallStep(t) \/ GuardStep(t), Remember
  PROVE  /\ FlushInv'
         /\ \A u \in Threads : pc[u] \in {"flushPin", "flushUnpin"} /\ pc'[u] = "idle" =>
              owed[u] \intersect Unwritten' = {}
<1>0. StoreInv /\ StoreInv' /\ OwnershipInv' /\ TypeOK
  BY DEF MemoryInv, StoreInv, OwnershipInv
<1>1. \A u \in Threads \ {t} : pc'[u] = pc[u] /\ call'[u] = call[u]
  BY <1>0, OthersStay
<1>2. ASSUME NEW u \in Threads, NEW p \in owed[u], p \in Unwritten'
      PROVE  /\ pc'[u] # "idle" => \E f \in Frames : InFrame(p, f)' /\ Before(u, f)'
             /\ pc[u] \in {"flushPin", "flushUnpin"} => pc'[u] # "idle"
  <2>1. PICK f \in Frames : p \in Unwritten /\ InFrame(p, f) /\ Before(u, f)
    BY DEF FlushInv
  <2>2. InFrame(p, f)' /\ p \in Pages
    BY <1>0, <2>1, UnwrittenStays, UnwrittenIsDirty
  <2>3. CASE u # t
    BY <1>1, <2>1, <2>2, <2>3 DEF Before
  <2>4. CASE u = t /\ PoolStep(t)
    BY <1>0, <1>2, <2>1, <2>2, <2>4, FlushMoves
  <2>5. CASE u = t /\ ~PoolStep(t)
    <3>1. pc[t] = "idle" /\ pc'[t] \in {"idle", "lookup", "flushPin"} /\ call[t] = NoCall
          /\ (pc'[t] = "flushPin" => call' = call)
      BY <1>0, <2>5, IdleAgain DEF FlushInv
    <3>2. f >= NoCall.cur
      BY FrameFacts DEF Frames, NoCall
    <3> QED BY <2>2, <2>5, <3>1, <3>2 DEF Before, Ahead, Behind
  <2> QED BY <2>3, <2>4, <2>5
<1>3. ASSUME NEW u \in Threads, pc'[u] = "idle" PROVE call'[u] = NoCall
  BY <1>0, <1>1, <1>3, IdleAgain DEF FlushInv
<1>4. ASSUME NEW u \in Threads, NEW p \in owed'[u]
      PROVE  p \in Unwritten' /\ \E f \in Frames : InFrame(p, f)' /\ Before(u, f)'
  <2>1. pc'[u] # "idle"
    BY <1>4, Remembered
  <2>2. CASE p \in owed[u] /\ p \in Unwritten'
    BY <1>2, <2>1, <2>2
  <2>3. CASE ~(p \in owed[u] /\ p \in Unwritten')
    <3>1. pc[u] = "idle" /\ pc'[u] = "flushPin" /\ p \in Unwritten
      BY <1>4, <2>1, <2>3, Remembered
    <3>2. u = t /\ FlushAll(t) /\ call' = call /\ call[t] = NoCall
      BY <1>0, <1>1, <3>1, IdleAgain DEF FlushInv
    <3>3. PICK f \in Frames : p \in Pages /\ InFrame(p, f)
      BY <1>0, <3>1, UnwrittenIsDirty
    <3>4. InFrame(p, f)'
      BY <1>0, <3>1, <3>3, UnwrittenStays
    <3>5. UNCHANGED <<disk, data>>
      BY <3>2 DEF FlushAll, frameVars
    <3>6. Content(p)' = Content(p)
      BY <1>0, <3>3, <3>4, <3>5, CopyFacts, CopiesNext DEF CopiesShown
    <3>7. f >= NoCall.cur
      BY FrameFacts DEF Frames, NoCall
    <3> QED BY <3>1, <3>2, <3>3, <3>4, <3>5, <3>6, <3>7 DEF Unwritten, Before, Behind
  <2> QED BY <2>2, <2>3
<1> QED BY <1>2, <1>3, <1>4 DEF FlushInv

(* A flush_all that returns Ok has brought to the store
   the content every page had when it was called, or a later one, whatever else goes on
   in the pool while it walks the frames (flush_all). *)
THEOREM FlushesAreComplete == HistorySpec => FlushIsComplete
<1> DEFINE Complete == \A t \in Threads : pc[t] \in {"flushPin", "flushUnpin"} /\ pc'[t] = "idle" =>
                         owed[t] \intersect Unwritten' = {}
<1>1. HistorySpec => Spec
  <2>1. HistoryInit => Init
    BY DEF HistoryInit
  <2>2. [Next /\ Remember]_historyVars => [Next]_vars
    BY DEF historyVars
  <2> QED BY <2>1, <2>2, PTL DEF HistorySpec, Spec
<1>2. Spec => []MemoryInv
  BY MemoryInvHolds
<1>3. MemoryInv /\ MemoryInv' /\ FlushInv /\ [Next /\ Remember]_historyVars
        => FlushInv' /\ [Complete]_historyVars
  <2> SUFFICES ASSUME MemoryInv, MemoryInv', FlushInv, [Next /\ Remember]_historyVars
               PROVE  FlushInv' /\ [Complete]_historyVars
    OBVIOUS
  <2>1. CASE Next /\ Remember
    BY <2>1, FlushKept DEF Next
  <2>2. CASE UNCHANGED historyVars
    <3>1. UNCHANGED <<disk, state, data, pc, call, owed>>
      BY <2>2 DEF historyVars, vars, frameVars, threadVars
    <3> QED BY <2>2, <3>1 DEF FlushInv, Unwritten, Content, InFrame, Before
  <2> QED BY <2>1, <2>2
<1>4. HistorySpec => []FlushInv
  BY <1>1, <1>2, <1>3, FlushInvInit, PTL DEF HistorySpec
<1> QED BY <1>1, <1>2, <1>3, <1>4, PTL DEF HistorySpec, FlushIsComplete
=============================================================================
